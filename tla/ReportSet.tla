------------------------------ MODULE ReportSet ------------------------------
(***************************************************************************)
(* What carving promises of its output directories: an output belongs to at *)
(* most one invocation, for good; the reports in it appear one after the    *)
(* other, each by that invocation and never changed once it is there; and   *)
(* only an invocation whose reports are all there is acknowledged.          *)
(***************************************************************************)
EXTENDS FiniteSets

CONSTANTS Procs, Outputs, Reports, None

VARIABLES
  owner,   \* the invocation an output belongs to
  done,    \* the finished reports of each output
  acked    \* the outputs whose invocation reported success

vars == <<owner, done, acked>>

Init ==
  /\ owner = [o \in Outputs |-> None]
  /\ done = [o \in Outputs |-> {}]
  /\ acked = {}

Claim(p, o) ==
  /\ owner[o] = None
  /\ owner' = [owner EXCEPT ![o] = p]
  /\ UNCHANGED <<done, acked>>

Finish(o, f) ==
  /\ owner[o] # None
  /\ f \notin done[o]
  /\ done' = [done EXCEPT ![o] = @ \cup {f}]
  /\ UNCHANGED <<owner, acked>>

Acknowledge(o) ==
  /\ done[o] = Reports
  /\ acked' = acked \cup {o}
  /\ UNCHANGED <<owner, done>>

Next ==
  \/ \E p \in Procs, o \in Outputs : Claim(p, o)
  \/ \E o \in Outputs, f \in Reports : Finish(o, f)
  \/ \E o \in Outputs : Acknowledge(o)

Spec == Init /\ [][Next]_vars
=============================================================================
