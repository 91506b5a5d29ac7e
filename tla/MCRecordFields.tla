---------------------------- MODULE MCRecordFields ----------------------------
(***************************************************************************)
(* One field that holds a timestamp, from one second before the epoch to    *)
(* one after it, near the places where the second, the microsecond or the   *)
(* sign changes; datetimes end with the second of the epoch, so that both   *)
(* ends of the range occur.                                                 *)
(***************************************************************************)
EXTENDS RecordFields, TLC

CONSTANTS t1, r1, f

MCRealmOf == f :> r1

Near(n) == (n - 1)..(n + 1)
Positive == UNION { Near(n) : n \in {1, 499, 501, 999, 1000, 1999, 500000, 999998,
                                     1000000, 999998999, 999999000, 999999998} }
MCTimestamps ==
  { t \in [seconds : -1..1, nanoseconds : Positive \cup { - n : n \in Positive }] :
      (t.seconds > 0 => t.nanoseconds >= 0) /\ (t.seconds < 0 => t.nanoseconds <= 0) }
MCFirst == -1
MCLast == 0

MCRaws == { f :> t : t \in MCTimestamps }
=============================================================================
