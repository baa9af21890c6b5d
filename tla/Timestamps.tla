----------------------------- MODULE Timestamps -----------------------------
(***************************************************************************)
(* The timestamps of the protocols (od_generic_inline_util.h): a version   *)
(* and the machine that made it, in memory or in a message, and carstamps, *)
(* which add a log number.  The functions that compare them differ in      *)
(* where they take the fields from; all compare alike.                     *)
(***************************************************************************)
EXTENDS Integers

Versions == Nat
MIds == Nat
Ts == [version : Versions, mId : MIds]

\* compare_flat_ts; so do compare_ts, compare_netw_ts, compare_ts_with_flat,
\* compare_netw_ts_with_ts and compare_ts_with_netw_ts.
Compare(ts1, ts2) ==
  IF ts1.version = ts2.version /\ ts1.mId = ts2.mId THEN "EQUAL"
  ELSE IF \/ ts1.version < ts2.version
          \/ ts1.version = ts2.version /\ ts1.mId < ts2.mId THEN "SMALLER"
  ELSE IF \/ ts1.version > ts2.version
          \/ ts1.version = ts2.version /\ ts1.mId > ts2.mId THEN "GREATER"
  ELSE "ERROR"

TsFlags == {"NETW_TS", "META_TS", "REGULAR_TS"}

\* compare_ts_generic, which is told for each timestamp where its fields are.
\* It begins with both taken from the first, as a regular one (raw1), and
\* replaces those of a timestamp that is not regular.
CompareGeneric(ts1, flag1, raw1, ts2, flag2) ==
  Compare(IF flag1 = "REGULAR_TS" THEN raw1 ELSE ts1,
          IF flag2 = "REGULAR_TS" THEN raw1 ELSE ts2)

\* compare_carts_esoteric: the logs decide between equal timestamps.
CompareLogs(tsComp, log1, log2) ==
  IF tsComp = "EQUAL"
    THEN IF log1 = log2 THEN "EQUAL" ELSE IF log1 > log2 THEN "GREATER" ELSE "SMALLER"
  ELSE IF tsComp = "GREATER" THEN "GREATER" ELSE "SMALLER"

\* compare_carts, compare_netw_carts_with_carts
CompareCarts(ts1, log1, ts2, log2) == CompareLogs(Compare(ts1, ts2), log1, log2)
=============================================================================
