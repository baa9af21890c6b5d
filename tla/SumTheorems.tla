---------------------------- MODULE SumTheorems ----------------------------
(***************************************************************************)
(* Facts about SumFunctionOnSet, the community modules' sum of a function  *)
(* over a finite set, that the proofs of the flow control and of the send  *)
(* fifos need.  The library's own induction rules take an operator as a    *)
(* parameter; these are stated for sets instead, so that a proof gives the *)
(* induction hypothesis as the set of the values that have it.             *)
(***************************************************************************)
EXTENDS Integers, Sequences, FiniteSets, Functions, FiniteSetsExt,
        FiniteSetTheorems, WellFoundedInduction, TLAPS

----------------------------------------------------------------------------
(* Induction.                                                              *)

\* The pairs of naturals in order.
NatLess == {ss \in Nat \X Nat : ss[1] < ss[2]}

\* There is no infinite descent along them.
LEMMA NatLessWellFounded == IsWellFoundedOn(NatLess, Nat)
BY NatLessThanWellFounded DEF OpToRel, NatLess

\* Induction on the naturals: a set that holds 0 and the successor of each of
\* its members holds them all.
LEMMA SetNatInduction ==
  ASSUME NEW T \in SUBSET Nat, 0 \in T, \A n \in T : n + 1 \in T
  PROVE  T = Nat
<1> SUFFICES ASSUME Nat \ T # {} PROVE FALSE
  OBVIOUS
<1>1. PICK x \in Nat \ T : \A y \in Nat \ T : ~ (<<y, x>> \in NatLess)
  BY NatLessWellFounded, WFMin
<1>2. x # 0 /\ x - 1 \in Nat /\ <<x - 1, x>> \in NatLess
  BY <1>1 DEF NatLess
<1>3. x - 1 \in T
  BY <1>1, <1>2
<1> QED
  BY <1>1, <1>2, <1>3

\* Induction on the subsets of a finite set: a set is shown good from the sets
\* with one element less.
LEMMA SetRemoveInduction ==
  ASSUME NEW S, IsFiniteSet(S), NEW F \in SUBSET SUBSET S,
         {} \in F,
         \A T \in SUBSET S : T # {} /\ (\A x \in T : T \ {x} \in F) => T \in F
  PROVE  F = SUBSET S
<1> DEFINE N == {n \in Nat : \A T \in SUBSET S : Cardinality(T) = n => T \in F}
<1>1. \A T \in SUBSET S : IsFiniteSet(T) /\ Cardinality(T) \in Nat
  BY FS_Subset, FS_CardinalityType
<1>2. 0 \in N
  BY <1>1, FS_EmptySet
<1>3. ASSUME NEW n \in N PROVE n + 1 \in N
  <2>1. SUFFICES ASSUME NEW T \in SUBSET S, Cardinality(T) = n + 1
                 PROVE  T \in F
    BY <1>3
  <2>2. T # {}
    BY <2>1, FS_EmptySet
  <2>3. \A x \in T : Cardinality(T \ {x}) = n
    BY <2>1, <1>1, FS_RemoveElement
  <2>4. \A x \in T : T \ {x} \in F
    BY <2>3
  <2> QED
    BY <2>2, <2>4
<1>4. N = Nat
  <2> HIDE DEF N
  <2>1. N \in SUBSET Nat
    BY DEF N
  <2> QED
    BY <1>2, <1>3, <2>1, SetNatInduction
<1>5. \A T \in SUBSET S : Cardinality(T) \in N
  BY <1>1, <1>4
<1> QED
  BY <1>5

\* The same, adding elements.
LEMMA SetFiniteInduction ==
  ASSUME NEW S, IsFiniteSet(S), NEW F \in SUBSET SUBSET S,
         {} \in F,
         \A T \in F : \A x \in S \ T : T \cup {x} \in F
  PROVE  S \in F
<1>1. ASSUME NEW T \in SUBSET S, T # {}, \A x \in T : T \ {x} \in F
      PROVE  T \in F
  <2>1. PICK x : x \in T
    BY <1>1
  <2>2. T \ {x} \in F /\ x \in S \ (T \ {x})
    BY <1>1, <2>1
  <2>3. (T \ {x}) \cup {x} \in F
    BY <2>2
  <2>4. (T \ {x}) \cup {x} = T
    BY <2>1
  <2> QED
    BY <2>3, <2>4
<1>2. F = SUBSET S
  BY <1>1, SetRemoveInduction
<1> QED
  BY <1>2

----------------------------------------------------------------------------
(* The sum is well defined.                                                *)

Chosen(s) == CHOOSE x \in s : TRUE

\* One round of the recursion by which the fold is defined.
SumRound(f, g, s) == IF s = {} THEN 0 ELSE f[Chosen(s)] + g[s \ {Chosen(s)}]

IsSumOf(f, S, g) == g = [s \in SUBSET S |-> SumRound(f, g, s)]

\* SumFunctionOnSet is the chosen solution of that recursion.
LEMMA SumIsFold ==
  ASSUME NEW f, NEW S
  PROVE  SumFunctionOnSet(f, S) = (CHOOSE g : IsSumOf(f, S, g))[S]
BY DEF SumFunctionOnSet, FoldFunctionOnSet, MapThenFoldSet, IsSumOf, SumRound,
       Chosen

\* The recursion has a solution.
LEMMA SumExists ==
  ASSUME NEW f, NEW S, IsFiniteSet(S)
  PROVE  \E g : IsSumOf(f, S, g)
<1> DEFINE UpTo(n) == {s \in SUBSET S : Cardinality(s) <= n}
           N == {n \in Nat : \E g : \A s \in UpTo(n) : g[s] = SumRound(f, g, s)}
<1>1. \A s \in SUBSET S : IsFiniteSet(s) /\ Cardinality(s) \in Nat
  BY FS_Subset, FS_CardinalityType
<1>2. 0 \in N
  <2> DEFINE g == [s \in SUBSET S |-> 0]
  <2>1. \A s \in UpTo(0) : s = {}
    BY <1>1, FS_EmptySet
  <2>2. \A s \in UpTo(0) : g[s] = SumRound(f, g, s)
    BY <2>1 DEF SumRound
  <2> QED
    BY <2>2
<1>3. ASSUME NEW n \in N PROVE n + 1 \in N
  <2>1. PICK g : \A s \in UpTo(n) : g[s] = SumRound(f, g, s)
    BY <1>3
  <2> DEFINE h == [s \in SUBSET S |-> SumRound(f, g, s)]
  <2>2. \A s \in UpTo(n) : h[s] = g[s]
    BY <2>1
  <2>3. ASSUME NEW s \in UpTo(n + 1) PROVE h[s] = SumRound(f, h, s)
    <3>1. CASE s = {}
      BY <3>1 DEF SumRound
    <3>2. CASE s # {}
      <4>1. Chosen(s) \in s
        BY <3>2 DEF Chosen
      <4>2. Cardinality(s \ {Chosen(s)}) <= n
        BY <4>1, <1>1, <1>3, FS_RemoveElement
      <4>3. s \ {Chosen(s)} \in UpTo(n)
        BY <4>2
      <4>4. h[s \ {Chosen(s)}] = g[s \ {Chosen(s)}]
        BY <4>3, <2>2
      <4>5. h[s] = SumRound(f, g, s)
        OBVIOUS
      <4> HIDE DEF h
      <4> QED
        BY <4>4, <4>5, <3>2 DEF SumRound
    <3> QED
      BY <3>1, <3>2
  <2> HIDE DEF h
  <2> QED
    BY <1>3, <2>3
<1>4. N = Nat
  <2> HIDE DEF N
  <2>1. N \in SUBSET Nat
    BY DEF N
  <2> QED
    BY <1>2, <1>3, <2>1, SetNatInduction
<1>5. Cardinality(S) \in N
  BY <1>1, <1>4
<1>6. PICK g : \A s \in SUBSET S : g[s] = SumRound(f, g, s)
  <2>1. UpTo(Cardinality(S)) = SUBSET S
    BY <1>1, FS_Subset
  <2> QED
    BY <1>5, <2>1
<1> DEFINE h == [s \in SUBSET S |-> g[s]]
<1>7. ASSUME NEW s \in SUBSET S PROVE SumRound(f, h, s) = g[s]
  <2>1. s \ {Chosen(s)} \in SUBSET S
    OBVIOUS
  <2>2. h[s \ {Chosen(s)}] = g[s \ {Chosen(s)}]
    BY <2>1
  <2> HIDE DEF h
  <2> QED
    BY <2>2, <1>6 DEF SumRound
<1>8. h = [s \in SUBSET S |-> SumRound(f, h, s)]
  <2> HIDE DEF h
  <2>1. [s \in SUBSET S |-> SumRound(f, h, s)] = [s \in SUBSET S |-> g[s]]
    BY <1>7
  <2> QED
    BY <2>1 DEF h
<1> QED
  BY <1>8 DEF IsSumOf

\* Two solutions agree on the sets that both speak of.
LEMMA SumUnique ==
  ASSUME NEW f, NEW S, NEW T \in SUBSET S, IsFiniteSet(S),
         NEW g, IsSumOf(f, S, g), NEW h, IsSumOf(f, T, h)
  PROVE  g[T] = h[T]
<1> DEFINE F == {s \in SUBSET T : g[s] = h[s]}
<1>1. \A s \in SUBSET T : g[s] = SumRound(f, g, s) /\ h[s] = SumRound(f, h, s)
  BY DEF IsSumOf
<1>2. {} \in F
  BY <1>1 DEF SumRound
<1>3. ASSUME NEW s \in SUBSET T, s # {}, \A x \in s : s \ {x} \in F
      PROVE  s \in F
  <2>1. Chosen(s) \in s
    BY <1>3 DEF Chosen
  <2>2. g[s \ {Chosen(s)}] = h[s \ {Chosen(s)}]
    BY <1>3, <2>1
  <2> QED
    BY <1>3, <2>2, <1>1 DEF SumRound
<1>4. F = SUBSET T
  <2> HIDE DEF F
  <2>1. F \in SUBSET SUBSET T
    BY DEF F
  <2>2. IsFiniteSet(T)
    BY FS_Subset
  <2> QED
    BY <1>2, <1>3, <2>1, <2>2, SetRemoveInduction
<1> QED
  BY <1>4

\* The empty sum.
LEMMA SumOfEmpty == ASSUME NEW f PROVE SumFunctionOnSet(f, {}) = 0
<1>1. PICK g : g = CHOOSE h : IsSumOf(f, {}, h)
  OBVIOUS
<1>2. IsSumOf(f, {}, g)
  BY <1>1, SumExists, FS_EmptySet
<1>3. g[{}] = 0
  BY <1>2 DEF IsSumOf, SumRound
<1> QED
  BY <1>1, <1>3, SumIsFold

\* The fold takes the chosen element first.
LEMMA SumOfChosen ==
  ASSUME NEW f, NEW S, IsFiniteSet(S), S # {}
  PROVE  SumFunctionOnSet(f, S)
           = f[Chosen(S)] + SumFunctionOnSet(f, S \ {Chosen(S)})
<1> DEFINE T == S \ {Chosen(S)}
<1>0. IsFiniteSet(T)
  BY FS_RemoveElement
<1>1. PICK g : g = CHOOSE k : IsSumOf(f, S, k)
  OBVIOUS
<1>2. IsSumOf(f, S, g)
  BY <1>1, SumExists
<1>3. PICK h : h = CHOOSE k : IsSumOf(f, T, k)
  OBVIOUS
<1>4. IsSumOf(f, T, h)
  BY <1>0, <1>3, SumExists
<1>5. g[T] = h[T]
  <2>1. T \in SUBSET S
    OBVIOUS
  <2> HIDE DEF T
  <2> QED
    BY <1>2, <1>4, <2>1, SumUnique
<1>6. g[S] = f[Chosen(S)] + g[T]
  BY <1>2 DEF IsSumOf, SumRound
<1> QED
  BY <1>1, <1>3, <1>5, <1>6, SumIsFold

----------------------------------------------------------------------------
(* How a sum changes with its set and its function.                        *)

\* A sum of integers is an integer.
LEMMA SumInt ==
  ASSUME NEW f, NEW S, IsFiniteSet(S), \A x \in S : f[x] \in Int
  PROVE  \A T \in SUBSET S : SumFunctionOnSet(f, T) \in Int
<1> DEFINE F == {T \in SUBSET S : SumFunctionOnSet(f, T) \in Int}
<1>1. {} \in F
  BY SumOfEmpty
<1>2. ASSUME NEW T \in SUBSET S, T # {}, \A x \in T : T \ {x} \in F
      PROVE  T \in F
  <2>1. Chosen(T) \in T
    BY <1>2 DEF Chosen
  <2>2. IsFiniteSet(T)
    BY FS_Subset
  <2>3. SumFunctionOnSet(f, T)
          = f[Chosen(T)] + SumFunctionOnSet(f, T \ {Chosen(T)})
    BY <1>2, <2>2, SumOfChosen
  <2>4. SumFunctionOnSet(f, T \ {Chosen(T)}) \in Int
    BY <1>2, <2>1
  <2>5. f[Chosen(T)] \in Int
    BY <2>1
  <2> QED
    BY <2>3, <2>4, <2>5
<1>3. F = SUBSET S
  <2> HIDE DEF F
  <2>1. F \in SUBSET SUBSET S
    BY DEF F
  <2> QED
    BY <1>1, <1>2, <2>1, SetRemoveInduction
<1> QED
  BY <1>3

\* The elements may be summed in any order.
LEMMA SumRemove ==
  ASSUME NEW f, NEW S, IsFiniteSet(S), \A x \in S : f[x] \in Int, NEW x \in S
  PROVE  SumFunctionOnSet(f, S) = f[x] + SumFunctionOnSet(f, S \ {x})
<1> DEFINE F == {T \in SUBSET S : \A y \in T :
                   SumFunctionOnSet(f, T) = f[y] + SumFunctionOnSet(f, T \ {y})}
<1>1. {} \in F
  OBVIOUS
<1>2. ASSUME NEW T \in SUBSET S, T # {}, \A y \in T : T \ {y} \in F
      PROVE  T \in F
  <2>1. PICK c : c = Chosen(T)
    OBVIOUS
  <2>2. c \in T
    BY <1>2, <2>1 DEF Chosen
  <2>3. SumFunctionOnSet(f, T) = f[c] + SumFunctionOnSet(f, T \ {c})
    BY <1>2, <2>1, FS_Subset, SumOfChosen
  <2>4. ASSUME NEW y \in T, y # c
        PROVE  SumFunctionOnSet(f, T) = f[y] + SumFunctionOnSet(f, T \ {y})
    <3>1. SumFunctionOnSet(f, T \ {c})
            = f[y] + SumFunctionOnSet(f, (T \ {c}) \ {y})
      BY <1>2, <2>2, <2>4
    <3>2. SumFunctionOnSet(f, T \ {y})
            = f[c] + SumFunctionOnSet(f, (T \ {y}) \ {c})
      BY <1>2, <2>2, <2>4
    <3>3. (T \ {c}) \ {y} = (T \ {y}) \ {c}
      OBVIOUS
    <3>4. f[c] \in Int /\ f[y] \in Int
      BY <2>2
    <3>5. SumFunctionOnSet(f, (T \ {y}) \ {c}) \in Int
      <4>1. (T \ {y}) \ {c} \in SUBSET S
        OBVIOUS
      <4> QED
        BY <4>1, SumInt
    <3>6. SumFunctionOnSet(f, T \ {y}) = f[c] + SumFunctionOnSet(f, (T \ {c}) \ {y})
      BY <3>2, <3>3
    <3>7. SumFunctionOnSet(f, (T \ {c}) \ {y}) \in Int
      BY <3>3, <3>5
    <3> QED
      BY <2>3, <3>1, <3>4, <3>6, <3>7
  <2> QED
    BY <2>3, <2>4
<1>3. F = SUBSET S
  <2> HIDE DEF F
  <2>1. F \in SUBSET SUBSET S
    BY DEF F
  <2> QED
    BY <1>1, <1>2, <2>1, SetRemoveInduction
<1> QED
  BY <1>3

\* One more element adds its value.
LEMMA SumAdd ==
  ASSUME NEW f, NEW S, IsFiniteSet(S), NEW x, x \notin S,
         \A y \in S \cup {x} : f[y] \in Int
  PROVE  SumFunctionOnSet(f, S \cup {x}) = f[x] + SumFunctionOnSet(f, S)
<1>1. IsFiniteSet(S \cup {x}) /\ (S \cup {x}) \ {x} = S
  BY FS_AddElement
<1> QED
  BY <1>1, SumRemove

\* A sum depends on the values at its elements only.
LEMMA SumCongruent ==
  ASSUME NEW f, NEW g, NEW S, IsFiniteSet(S),
         \A x \in S : f[x] \in Int /\ g[x] = f[x]
  PROVE  SumFunctionOnSet(g, S) = SumFunctionOnSet(f, S)
<1> DEFINE F == {T \in SUBSET S : SumFunctionOnSet(g, T) = SumFunctionOnSet(f, T)}
<1>1. {} \in F
  BY SumOfEmpty
<1>2. ASSUME NEW T \in F, NEW x \in S \ T PROVE T \cup {x} \in F
  BY FS_Subset, SumAdd
<1> HIDE DEF F
<1>3. F \in SUBSET SUBSET S
  BY DEF F
<1>4. S \in F
  BY <1>1, <1>2, <1>3, SetFiniteInduction
<1> QED
  BY <1>4 DEF F

\* A sum of sums.
LEMMA SumPlus ==
  ASSUME NEW f, NEW g, NEW h, NEW S, IsFiniteSet(S),
         \A x \in S : f[x] \in Int /\ g[x] \in Int /\ h[x] = f[x] + g[x]
  PROVE  SumFunctionOnSet(h, S) = SumFunctionOnSet(f, S) + SumFunctionOnSet(g, S)
<1> DEFINE F == {T \in SUBSET S : SumFunctionOnSet(h, T)
                   = SumFunctionOnSet(f, T) + SumFunctionOnSet(g, T)}
<1>1. {} \in F
  BY SumOfEmpty
<1>2. ASSUME NEW T \in F, NEW x \in S \ T PROVE T \cup {x} \in F
  <2>1. IsFiniteSet(T) /\ \A y \in T \cup {x} : h[y] \in Int
    BY FS_Subset
  <2>2. /\ SumFunctionOnSet(f, T \cup {x}) = f[x] + SumFunctionOnSet(f, T)
        /\ SumFunctionOnSet(g, T \cup {x}) = g[x] + SumFunctionOnSet(g, T)
        /\ SumFunctionOnSet(h, T \cup {x}) = h[x] + SumFunctionOnSet(h, T)
    BY <2>1, SumAdd
  <2>3. SumFunctionOnSet(f, T) \in Int /\ SumFunctionOnSet(g, T) \in Int
    BY <2>1, SumInt
  <2> QED
    BY <2>2, <2>3
<1> HIDE DEF F
<1>3. F \in SUBSET SUBSET S
  BY DEF F
<1>4. S \in F
  BY <1>1, <1>2, <1>3, SetFiniteInduction
<1> QED
  BY <1>4 DEF F

\* A sum of larger values is larger.
LEMMA SumMonotonic ==
  ASSUME NEW f, NEW g, NEW S, IsFiniteSet(S),
         \A x \in S : f[x] \in Int /\ g[x] \in Int /\ f[x] <= g[x]
  PROVE  SumFunctionOnSet(f, S) <= SumFunctionOnSet(g, S)
<1> DEFINE F == {T \in SUBSET S :
                   SumFunctionOnSet(f, T) <= SumFunctionOnSet(g, T)}
<1>1. {} \in F
  BY SumOfEmpty
<1>2. ASSUME NEW T \in F, NEW x \in S \ T PROVE T \cup {x} \in F
  <2>1. IsFiniteSet(T)
    BY FS_Subset
  <2>2. /\ SumFunctionOnSet(f, T \cup {x}) = f[x] + SumFunctionOnSet(f, T)
        /\ SumFunctionOnSet(g, T \cup {x}) = g[x] + SumFunctionOnSet(g, T)
    BY <2>1, SumAdd
  <2>3. SumFunctionOnSet(f, T) \in Int /\ SumFunctionOnSet(g, T) \in Int
    BY <2>1, SumInt
  <2> QED
    BY <2>2, <2>3
<1> HIDE DEF F
<1>3. F \in SUBSET SUBSET S
  BY DEF F
<1>4. S \in F
  BY <1>1, <1>2, <1>3, SetFiniteInduction
<1> QED
  BY <1>4 DEF F

\* The sum of a constant.
LEMMA SumConstant ==
  ASSUME NEW f, NEW S, IsFiniteSet(S), NEW c \in Int, \A x \in S : f[x] = c
  PROVE  SumFunctionOnSet(f, S) = c * Cardinality(S)
<1> DEFINE F == {T \in SUBSET S : SumFunctionOnSet(f, T) = c * Cardinality(T)}
<1>1. {} \in F
  BY SumOfEmpty, FS_EmptySet
<1>2. ASSUME NEW T \in F, NEW x \in S \ T PROVE T \cup {x} \in F
  <2>1. IsFiniteSet(T) /\ Cardinality(T) \in Nat
    BY FS_Subset, FS_CardinalityType
  <2>2. SumFunctionOnSet(f, T \cup {x}) = c + SumFunctionOnSet(f, T)
    BY <2>1, SumAdd
  <2>3. Cardinality(T \cup {x}) = Cardinality(T) + 1
    BY <2>1, FS_AddElement
  <2>4. \A n \in Nat : c * (n + 1) = c + c * n
    OBVIOUS
  <2>5. c * (Cardinality(T) + 1) = c + c * Cardinality(T)
    BY <2>1, <2>4
  <2> QED
    BY <2>2, <2>3, <2>5
<1> HIDE DEF F
<1>3. F \in SUBSET SUBSET S
  BY DEF F
<1>4. S \in F
  BY <1>1, <1>2, <1>3, SetFiniteInduction
<1> QED
  BY <1>4 DEF F

\* A change at one element changes the sum by as much.
LEMMA SumUpdate ==
  ASSUME NEW f, NEW g, NEW S, IsFiniteSet(S), NEW z \in S, NEW d \in Int,
         \A x \in S : f[x] \in Int /\ g[x] = (IF x = z THEN f[x] + d ELSE f[x])
  PROVE  SumFunctionOnSet(g, S) = SumFunctionOnSet(f, S) + d
<1>1. IsFiniteSet(S \ {z})
  BY FS_RemoveElement
<1>2. SumFunctionOnSet(g, S) = g[z] + SumFunctionOnSet(g, S \ {z})
  BY SumRemove
<1>3. SumFunctionOnSet(f, S) = f[z] + SumFunctionOnSet(f, S \ {z})
  BY SumRemove
<1>4. SumFunctionOnSet(g, S \ {z}) = SumFunctionOnSet(f, S \ {z})
  BY <1>1, SumCongruent
<1>5. SumFunctionOnSet(f, S \ {z}) \in Int
  BY SumInt
<1> QED
  BY <1>2, <1>3, <1>4, <1>5

\* A sum of naturals is a natural, and no less than each of them.
LEMMA SumNat ==
  ASSUME NEW f, NEW S, IsFiniteSet(S), \A x \in S : f[x] \in Nat
  PROVE  /\ SumFunctionOnSet(f, S) \in Nat
         /\ \A x \in S : f[x] <= SumFunctionOnSet(f, S)
<1>1. ASSUME NEW T \in SUBSET S PROVE SumFunctionOnSet(f, T) \in Nat
  <2> DEFINE zero == [x \in T |-> 0]
  <2>1. IsFiniteSet(T) /\ Cardinality(T) \in Nat
    BY FS_Subset, FS_CardinalityType
  <2>2. SumFunctionOnSet(zero, T) = 0
    <3>1. \A x \in T : zero[x] = 0
      OBVIOUS
    <3> HIDE DEF zero
    <3>2. SumFunctionOnSet(zero, T) = 0 * Cardinality(T)
      BY <2>1, <3>1, SumConstant
    <3> QED
      BY <2>1, <3>2
  <2>3. SumFunctionOnSet(zero, T) <= SumFunctionOnSet(f, T)
    <3>1. \A x \in T : zero[x] \in Int /\ f[x] \in Int /\ zero[x] <= f[x]
      OBVIOUS
    <3> HIDE DEF zero
    <3> QED
      BY <2>1, <3>1, SumMonotonic
  <2>4. SumFunctionOnSet(f, T) \in Int
    BY SumInt
  <2> QED
    BY <2>2, <2>3, <2>4
<1>2. ASSUME NEW x \in S PROVE f[x] <= SumFunctionOnSet(f, S)
  <2>1. SumFunctionOnSet(f, S) = f[x] + SumFunctionOnSet(f, S \ {x})
    BY SumRemove
  <2>2. SumFunctionOnSet(f, S \ {x}) \in Nat
    BY <1>1
  <2> QED
    BY <2>1, <2>2
<1> QED
  BY <1>1, <1>2

----------------------------------------------------------------------------
(* Sums over the positions of a sequence, and bounds of sets.              *)

\* A sum over 1..n + 1 is the sum over 1..n and the last value.
LEMMA SumLast ==
  ASSUME NEW n \in Nat, NEW f, \A i \in 1..(n + 1) : f[i] \in Int
  PROVE  /\ SumFunctionOnSet(f, 1..(n + 1)) = f[n + 1] + SumFunctionOnSet(f, 1..n)
         /\ SumFunctionOnSet(f, 1..n) \in Int
<1>1. 1..(n + 1) = (1..n) \cup {n + 1}
  OBVIOUS
<1>2. IsFiniteSet(1..n)
  BY FS_Interval
<1>3. n + 1 \notin 1..n
  OBVIOUS
<1>4. PICK S : S = 1..n
  OBVIOUS
<1>5. SumFunctionOnSet(f, S \cup {n + 1}) = f[n + 1] + SumFunctionOnSet(f, S)
  BY <1>1, <1>2, <1>3, <1>4, SumAdd
<1>6. SumFunctionOnSet(f, S) \in Int
  <2>1. \A i \in S : f[i] \in Int
    BY <1>1, <1>4
  <2> QED
    BY <1>2, <1>4, <2>1, SumInt
<1> QED
  BY <1>1, <1>4, <1>5, <1>6

\* A sum over 1..n + 1 is the first value and the sum of the others, one
\* position earlier each.
LEMMA SumShift ==
  ASSUME NEW n \in Nat, NEW f, NEW g,
         \A i \in 1..(n + 1) : f[i] \in Int,
         \A i \in 1..n : g[i] = f[i + 1]
  PROVE  SumFunctionOnSet(f, 1..(n + 1)) = f[1] + SumFunctionOnSet(g, 1..n)
<1> DEFINE N == {k \in Nat : k <= n =>
                   SumFunctionOnSet(f, 1..(k + 1))
                     = f[1] + SumFunctionOnSet(g, 1..k)}
<1>1. 0 \in N
  <2>1. 1..(0 + 1) = {} \cup {1} /\ 1..0 = {}
    OBVIOUS
  <2>2. SumFunctionOnSet(f, {} \cup {1}) = f[1] + SumFunctionOnSet(f, {})
    BY FS_EmptySet, SumAdd
  <2> QED
    BY <2>1, <2>2, SumOfEmpty
<1>2. ASSUME NEW k \in N PROVE k + 1 \in N
  <2>1. SUFFICES ASSUME k + 1 <= n
        PROVE  SumFunctionOnSet(f, 1..(k + 2))
                 = f[1] + SumFunctionOnSet(g, 1..(k + 1))
    BY <1>2
  <2>2. SumFunctionOnSet(f, 1..(k + 1)) = f[1] + SumFunctionOnSet(g, 1..k)
    BY <1>2, <2>1
  <2>3. k \in Nat
    OBVIOUS
  <2>4. \A i \in 1..((k + 1) + 1) : f[i] \in Int
    BY <2>1, <2>3
  <2>5. \A i \in 1..(k + 1) : g[i] = f[i + 1] /\ g[i] \in Int
    BY <2>1, <2>3
  <2>6. SumFunctionOnSet(f, 1..((k + 1) + 1))
          = f[(k + 1) + 1] + SumFunctionOnSet(f, 1..(k + 1))
    BY <2>3, <2>4, SumLast
  <2>7. /\ SumFunctionOnSet(g, 1..(k + 1)) = g[k + 1] + SumFunctionOnSet(g, 1..k)
        /\ SumFunctionOnSet(g, 1..k) \in Int
    BY <2>3, <2>5, SumLast
  <2>8. g[k + 1] = f[(k + 1) + 1] /\ g[k + 1] \in Int /\ f[1] \in Int
    BY <2>1, <2>3, <2>5
  <2>9. (k + 1) + 1 = k + 2
    BY <2>3
  <2> QED
    BY <2>2, <2>6, <2>7, <2>8, <2>9
<1>3. N = Nat
  <2> HIDE DEF N
  <2>1. N \in SUBSET Nat
    BY DEF N
  <2> QED
    BY <1>1, <1>2, <2>1, SetNatInduction
<1> QED
  BY <1>3

\* A set of naturals has a least member, and Min finds it.
LEMMA MinOfNaturals ==
  ASSUME NEW S \in SUBSET Nat, S # {}
  PROVE  Min(S) \in S /\ \A y \in S : Min(S) <= y
<1>1. PICK x \in S : \A y \in S : ~ (<<y, x>> \in NatLess)
  BY NatLessWellFounded, WFMin
<1>2. ASSUME NEW y \in S PROVE x <= y
  <2>1. y \in Nat /\ x \in Nat /\ (y < x => <<y, x>> \in NatLess)
    BY DEF NatLess
  <2> QED
    BY <1>1, <2>1
<1> QED
  BY <1>1, <1>2 DEF Min

\* The greater and the lesser of two integers.
LEMMA MaxOfTwo ==
  ASSUME NEW a \in Int, NEW b \in Int
  PROVE  Max({a, b}) = IF a >= b THEN a ELSE b
BY DEF Max

\* The lesser.
LEMMA MinOfTwo ==
  ASSUME NEW a \in Int, NEW b \in Int
  PROVE  Min({a, b}) = IF a <= b THEN a ELSE b
BY DEF Min
============================================================================
