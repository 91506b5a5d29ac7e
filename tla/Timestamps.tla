------------------------------ MODULE Timestamps ------------------------------
(***************************************************************************)
(* RealmTimestamp.datetime: a Realm timestamp of seconds and nanoseconds as *)
(* a Python datetime, which knows microseconds and has a first and a last   *)
(* year.  A datetime is the pair of the second it is in and the microsecond *)
(* in that second, which is how datetime.timedelta normalises its           *)
(* arguments.                                                               *)
(***************************************************************************)
EXTENDS Integers

CONSTANTS
  Timestamps,   \* the timestamps fields may hold
  FirstSecond,  \* the first second of datetime's year 1
  LastSecond,   \* the last one of its year 9999
  RealmError    \* a timestamp that is no datetime

Second == 1000000000  \* in nanoseconds
Million == 1000000    \* microseconds of a second

(* Realm Core gives the two fields of a timestamp the same sign.            *)
ASSUME TimestampsAssumption ==
  \A t \in Timestamps :
    /\ t.seconds \in Int /\ t.nanoseconds \in (1 - Second)..(Second - 1)
    /\ t.seconds > 0 => t.nanoseconds >= 0
    /\ t.seconds < 0 => t.nanoseconds <= 0
ASSUME RangeAssumption ==
  /\ FirstSecond \in Int /\ LastSecond \in Int
  /\ FirstSecond <= LastSecond
ASSUME RealmErrorAssumption == RealmError \notin [second : Int, microsecond : Int]

(* Neither the timedelta nor its sum with _EPOCH overflows.                 *)
InRange(second) == FirstSecond <= second /\ second <= LastSecond

(* self.nanoseconds // 1_000                                                *)
Microseconds(t) == t.nanoseconds \div 1000

DateTime(t) ==
  LET second == t.seconds + Microseconds(t) \div Million
  IN  IF InRange(second)
      THEN [second |-> second, microsecond |-> Microseconds(t) % Million]
      ELSE RealmError

(* By how many nanoseconds a timestamp is after a datetime.                 *)
Ahead(t, datetime) ==
  ((t.seconds - datetime.second) * Second + t.nanoseconds)
    - 1000 * datetime.microsecond

(* What the code computes: a datetime less than a microsecond before its    *)
(* timestamp and never after it, on both sides of the epoch, which also     *)
(* keeps the order of timestamps; exactly those outside the years of        *)
(* datetime are refused.                                                    *)
RoundedDown(t) ==
  LET answer == DateTime(t)
  IN  IF answer = RealmError
      THEN \/ t.seconds < FirstSecond \/ t.seconds > LastSecond
           \/ t.seconds = FirstSecond /\ t.nanoseconds < 0
      ELSE /\ Ahead(t, answer) \in 0..999
           /\ answer.second \in FirstSecond..LastSecond
           /\ answer.microsecond \in 0..(Million - 1)

(* What its docstring says, "the closest UTC Python datetime": at most half *)
(* a microsecond away, where a datetime comes after it.                     *)
LastDateTime == [second |-> LastSecond, microsecond |-> Million - 1]

ClosestDateTime(t) ==
  LET answer == DateTime(t)
  IN  answer \in {RealmError, LastDateTime}
        \/ 2 * Ahead(t, answer) \in -1000..1000
=============================================================================
