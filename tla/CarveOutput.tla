---------------------------- MODULE CarveOutput ----------------------------
(***************************************************************************)
(* Invocations of pyrealm-recover (cli.main) that run at the same time, and *)
(* what parser.carve_realm does to the file system: the test for an         *)
(* existing output, the analysis, the creation of the output directory with *)
(* its missing parents, and the three reports.  Any operation of the file   *)
(* system may fail, and an invocation may be killed at any point; running   *)
(* carve again on the same output is one more invocation.                   *)
(***************************************************************************)
EXTENDS Naturals, FiniteSets

CONSTANTS
  Procs,    \* the invocations
  Outputs,  \* the directories they may name as their output
  Parent,   \* the directory each of them lies in, None when that exists
  None

\* bound: one missing parent, Path.mkdir makes longer chains the same way.
ASSUME ParentAssumption ==
  /\ Parent \in [Outputs -> Outputs \cup {None}]
  /\ \A o \in Outputs : Parent[o] # None => Parent[Parent[o]] = None
Reports == {"summary.json", "arrays.jsonl", "strings.csv"}
FirstReport == "summary.json"
After == [f \in Reports |->
            IF f = "summary.json" THEN "arrays.jsonl"
            ELSE IF f = "arrays.jsonl" THEN "strings.csv"
            ELSE None]

ASSUME NoneAssumption ==
  None \notin Procs \cup Outputs \cup Reports \cup {"realm", "other"} \cup Nat

VARIABLES
  target,   \* the output an invocation names, None for inspect
  pc,       \* where it is
  file,     \* the report it is about to write or writing
  verdict,  \* whether the analysis recognized a Realm header
  status,   \* its exit code, None while it runs and when it was killed
  maker,    \* the invocation that made each directory, None where there is none
  writer,   \* the invocation that opened each report for writing last
  done      \* the reports of each output that are completely written

vars == <<target, pc, file, verdict, status, maker, writer, done>>
disk == <<maker, writer, done>>

EXIT_RECOGNIZED == 0
EXIT_OPERATIONAL_ERROR == 1
EXIT_NO_HEADER == 3

Points == {"check", "analyze", "mkdir", "parents", "mkdirAgain", "open",
           "write", "print", "ended"}

Init ==
  /\ target \in [Procs -> Outputs \cup {None}]
  /\ pc = [p \in Procs |-> IF target[p] = None THEN "analyze" ELSE "check"]
  /\ file = [p \in Procs |-> None]
  /\ verdict = [p \in Procs |-> None]
  /\ status = [p \in Procs |-> None]
  /\ maker = [o \in Outputs |-> None]
  /\ writer = [o \in Outputs |-> [f \in Reports |-> None]]
  /\ done = [o \in Outputs |-> {}]

Goto(p, at) == pc' = [pc EXCEPT ![p] = at]

-----------------------------------------------------------------------------
(* main                                                                     *)

Exit(p, code) ==
  /\ Goto(p, "ended")
  /\ file' = [file EXCEPT ![p] = None]
  /\ status' = [status EXCEPT ![p] = code]
  /\ UNCHANGED <<target, verdict>>

(* An OSError or a ValueError of the analysis, of the file system or of     *)
(* print ends the invocation, wherever it is raised.                        *)
Fail(p) == Exit(p, EXIT_OPERATIONAL_ERROR) /\ UNCHANGED disk

ExitCode(p) ==
  IF verdict[p] = "realm" THEN EXIT_RECOGNIZED ELSE EXIT_NO_HEADER

(* analyze_realm for inspect, _analyze for carve; the file may be           *)
(* unreadable, and it may or may not begin with a header.                   *)
Analyze(p) ==
  /\ pc[p] = "analyze"
  /\ \/ /\ Goto(p, IF target[p] = None THEN "print" ELSE "mkdir")
        /\ \E v \in {"realm", "other"} : verdict' = [verdict EXCEPT ![p] = v]
        /\ UNCHANGED <<target, file, status, disk>>
     \/ Fail(p)

(* The summary is printed after the reports are complete; standard output   *)
(* may be closed or unable to encode the path.                              *)
PrintSummary(p) ==
  /\ pc[p] = "print"
  /\ \/ Exit(p, ExitCode(p)) /\ UNCHANGED disk
     \/ Fail(p)

Kill(p) ==
  /\ pc[p] # "ended"
  /\ Exit(p, None)
  /\ UNCHANGED disk

-----------------------------------------------------------------------------
(* carve_realm                                                              *)

CheckOutput(p) ==
  /\ pc[p] = "check"
  /\ IF maker[target[p]] # None
     THEN Fail(p)
     ELSE Goto(p, "analyze") /\ UNCHANGED <<target, file, verdict, status, disk>>

Missing(o) == o # None /\ maker[o] = None

(* A directory made by this invocation, as the output or on the way to it.  *)
MakeDir(p, o) ==
  /\ maker' = [maker EXCEPT ![o] = p]
  /\ UNCHANGED <<target, verdict, status, writer, done>>

\* Mutated form: an existing directory is accepted, exist_ok=True.
MakeOutput_ExistOk(p) ==
  \/ /\ Goto(p, "open")
     /\ file' = [file EXCEPT ![p] = FirstReport]
     /\ IF maker[target[p]] = None
        THEN MakeDir(p, target[p])
        ELSE UNCHANGED <<target, verdict, status, disk>>
  \/ Fail(p)

(* mkdir of the output itself with exist_ok=False: it fails when another    *)
(* invocation has made the directory since the check.                       *)
MakeOutput(p) ==
  \/ /\ maker[target[p]] = None /\ ~Missing(Parent[target[p]])
     /\ MakeDir(p, target[p])
     /\ Goto(p, "open")
     /\ file' = [file EXCEPT ![p] = FirstReport]
  \/ Fail(p)

(* The first attempt; without its parent it goes on to make that first.     *)
TryOutput(p) ==
  /\ pc[p] = "mkdir"
  /\ \/ MakeOutput(p)
     \/ /\ Missing(Parent[target[p]])
        /\ Goto(p, "parents")
        /\ UNCHANGED <<target, file, verdict, status, disk>>

(* parents=True: the parent is made, or accepted if somebody else made it.  *)
MakeParent(p) ==
  LET parent == Parent[target[p]]
  IN  /\ pc[p] = "parents"
      /\ \/ /\ Goto(p, "mkdirAgain")
            /\ UNCHANGED file
            /\ IF maker[parent] = None
               THEN MakeDir(p, parent)
               ELSE UNCHANGED <<target, verdict, status, disk>>
         \/ Fail(p)

RetryOutput(p) == pc[p] = "mkdirAgain" /\ MakeOutput(p)

(* open("w") creates the report or empties it.                              *)
OpenReport(p) ==
  LET o == target[p]
  IN  /\ pc[p] = "open"
      /\ \/ /\ Goto(p, "write")
            /\ writer' = [writer EXCEPT ![o][file[p]] = p]
            /\ done' = [done EXCEPT ![o] = @ \ {file[p]}]
            /\ UNCHANGED <<target, file, verdict, status, maker>>
         \/ Fail(p)

\* Mutated form: a report that cannot be written is left incomplete.
WriteReport_Lenient(p) ==
  LET o == target[p]
      f == file[p]
  IN  /\ pc[p] = "write"
      /\ Goto(p, IF After[f] = None THEN "print" ELSE "open")
      /\ file' = [file EXCEPT ![p] = After[f]]
      /\ \E written \in {{f}, {}} : done' = [done EXCEPT ![o] = @ \cup written]
      /\ UNCHANGED <<target, verdict, status, maker, writer>>

(* The rest of the with block, until the file is closed: the report is      *)
(* complete, or part of it stays behind.                                    *)
WriteReport(p) ==
  LET o == target[p]
      f == file[p]
  IN  /\ pc[p] = "write"
      /\ \/ /\ Goto(p, IF After[f] = None THEN "print" ELSE "open")
            /\ file' = [file EXCEPT ![p] = After[f]]
            /\ done' = [done EXCEPT ![o] = @ \cup {f}]
            /\ UNCHANGED <<target, verdict, status, maker, writer>>
         \/ Fail(p)

-----------------------------------------------------------------------------

Invocation(p) ==
  \/ CheckOutput(p) \/ Analyze(p)
  \/ TryOutput(p) \/ MakeParent(p) \/ RetryOutput(p)
  \/ OpenReport(p) \/ WriteReport(p)
  \/ PrintSummary(p)

AllEnded == (\A p \in Procs : pc[p] = "ended") /\ UNCHANGED vars

Next == (\E p \in Procs : Invocation(p) \/ Kill(p)) \/ AllEnded

Spec == Init /\ [][Next]_vars

-----------------------------------------------------------------------------
(* Properties                                                               *)

(* Types; the exit codes are those main documents, 2 being left to argparse.*)
TypeOK ==
  /\ target \in [Procs -> Outputs \cup {None}]
  /\ pc \in [Procs -> Points]
  /\ file \in [Procs -> Reports \cup {None}]
  /\ verdict \in [Procs -> {"realm", "other", None}]
  /\ status \in [Procs -> {EXIT_RECOGNIZED, EXIT_OPERATIONAL_ERROR,
                           EXIT_NO_HEADER, None}]
  /\ maker \in [Outputs -> Procs \cup {None}]
  /\ writer \in [Outputs -> [Reports -> Procs \cup {None}]]
  /\ done \in [Outputs -> SUBSET Reports]

(* "keeps every output set attributable to one invocation" (carve_realm):   *)
(* whatever is in an output was written by the invocation that created the  *)
(* directory, and only if it was carving into it, however many invocations  *)
(* passed the early existence test together.                                *)
Attributable ==
  \A o \in Outputs, f \in Reports :
    /\ writer[o][f] \in {maker[o], None}
    /\ writer[o][f] # None => target[writer[o][f]] = o
    /\ f \in done[o] => writer[o][f] # None

(* An exit code that does not report an error means that the invocation     *)
(* made its output and that all three reports in it are complete; whoever   *)
(* was refused, failed or was killed never shows one.                       *)
Succeeded(p) == status[p] \in {EXIT_RECOGNIZED, EXIT_NO_HEADER}
SuccessIsComplete ==
  \A p \in Procs : Succeeded(p) /\ target[p] # None =>
    maker[target[p]] = p /\ done[target[p]] = Reports

(* The directories, seen as write-once sets of reports.                     *)
Sets == INSTANCE ReportSet WITH
  owner <- maker,
  acked <- { o \in Outputs : \E p \in Procs : target[p] = o /\ Succeeded(p) }
ImplementsReportSet == Sets!Spec
=============================================================================
