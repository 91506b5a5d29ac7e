-------------------------- MODULE CarveOutputProofs --------------------------
(***************************************************************************)
(* Proofs about CarveOutput for any number of invocations and any outputs.  *)
(* What makes the outputs write-once is that only the invocation that made  *)
(* a directory is ever past mkdir with it, and that it has completed        *)
(* exactly the reports before the one it is at.                             *)
(***************************************************************************)
EXTENDS CarveOutput, TLAPS

(* The reports complete when an invocation is at the report f.              *)
Before(f) ==
  IF f = "summary.json" THEN {}
  ELSE IF f = "arrays.jsonl" THEN {"summary.json"}
  ELSE {"summary.json", "arrays.jsonl"}

(* Where an invocation is and what that says of its own output.             *)
Carving(p) ==
  /\ pc[p] \in {"check", "mkdir", "parents", "mkdirAgain", "open", "write"}
       => target[p] # None
  /\ pc[p] = "parents" => Parent[target[p]] # None
  /\ pc[p] \in {"open", "write"} =>
       /\ file[p] \in Reports
       /\ done[target[p]] = Before(file[p])
  /\ pc[p] = "write" => writer[target[p]][file[p]] = p
  /\ pc[p] = "print" /\ target[p] # None => done[target[p]] = Reports
  /\ pc[p] \in {"open", "write", "print"} /\ target[p] # None
       => maker[target[p]] = p
  /\ pc[p] # "ended" => status[p] = None

(* A directory nobody has carved into is empty.                             *)
Untouched ==
  \A o \in Outputs : maker[o] = None =>
    done[o] = {} /\ writer[o] = [f \in Reports |-> None]

IInv ==
  /\ TypeOK
  /\ \A p \in Procs : Carving(p)
  /\ Untouched
  /\ Attributable
  /\ SuccessIsComplete

-----------------------------------------------------------------------------

(* The order of the reports.                                                *)
LEMMA ReportOrder ==
  /\ FirstReport \in Reports /\ Before(FirstReport) = {}
  /\ \A f \in Reports :
       /\ f \notin Before(f)
       /\ After[f] # None => /\ After[f] \in Reports
                             /\ Before(After[f]) = Before(f) \cup {f}
       /\ After[f] = None => Before(f) \cup {f} = Reports
       /\ After[f] \in Reports \cup {None}
  BY NoneAssumption DEF FirstReport, Reports, Before, After

(* The invariant holds at the start.                                        *)
LEMMA InitIInv == Init => IInv
  <1> SUFFICES ASSUME Init PROVE IInv
    OBVIOUS
  <1>1. TypeOK
    BY DEF Init, TypeOK, Points
  <1>2. ASSUME NEW p \in Procs
        PROVE  Carving(p)
    BY DEF Init, Carving
  <1>3. Untouched /\ Attributable
    BY DEF Init, Untouched, Attributable
  <1>4. \A p \in Procs : ~Succeeded(p)
    BY NoneAssumption DEF Init, Succeeded, EXIT_RECOGNIZED, EXIT_NO_HEADER
  <1> QED
    BY <1>1, <1>2, <1>3, <1>4 DEF IInv, SuccessIsComplete

(* A step that leaves the disk alone and keeps its invocation running.      *)
LEMMA MovesOn ==
  ASSUME IInv, NEW p \in Procs, NEW at \in {"analyze", "print", "mkdir", "parents"},
         pc[p] # "ended",
         pc' = [pc EXCEPT ![p] = at],
         verdict' \in [Procs -> {"realm", "other", None}],
         UNCHANGED <<target, file, status, disk>>,
         at \in {"mkdir", "parents"} => target[p] # None,
         at = "parents" => Parent[target[p]] # None,
         at = "print" => target[p] = None
  PROVE  IInv'
  <1>1. TypeOK'
    BY DEF IInv, TypeOK, Points, disk
  <1>2. ASSUME NEW q \in Procs
        PROVE  Carving(q)'
    <2>1. CASE q = p
      BY <2>1 DEF IInv, TypeOK, Carving, disk
    <2>2. CASE q # p
      BY <2>2 DEF IInv, TypeOK, Carving, disk
    <2> QED
      BY <2>1, <2>2
  <1>3. Untouched' /\ Attributable'
    BY DEF IInv, Untouched, Attributable, disk
  <1>4. SuccessIsComplete'
    BY DEF IInv, SuccessIsComplete, Succeeded, disk
  <1> QED
    BY <1>1, <1>2, <1>3, <1>4 DEF IInv

(* A step that ends an invocation: successfully only from a complete output.*)
LEMMA Ends ==
  ASSUME IInv, NEW p \in Procs,
         NEW code \in {EXIT_RECOGNIZED, EXIT_OPERATIONAL_ERROR, EXIT_NO_HEADER,
                       None},
         Exit(p, code), UNCHANGED disk,
         code \in {EXIT_RECOGNIZED, EXIT_NO_HEADER} => pc[p] = "print"
  PROVE  IInv'
  <1>1. TypeOK'
    BY DEF IInv, TypeOK, Points, disk, Exit, Goto
  <1>2. ASSUME NEW q \in Procs
        PROVE  Carving(q)'
    <2>1. CASE q = p
      BY <2>1 DEF IInv, TypeOK, Carving, disk, Exit, Goto
    <2>2. CASE q # p
      BY <2>2 DEF IInv, TypeOK, Carving, disk, Exit, Goto
    <2> QED
      BY <2>1, <2>2
  <1>3. Untouched' /\ Attributable'
    BY DEF IInv, Untouched, Attributable, disk, Exit
  <1>4. ASSUME NEW q \in Procs, Succeeded(q)', target'[q] # None
        PROVE  maker'[target'[q]] = q /\ done'[target'[q]] = Reports
    <2>1. CASE q = p
      <3>1. pc[p] = "print" /\ target[p] # None
        BY <1>4, <2>1 DEF Succeeded, Exit, IInv, TypeOK
      <3> QED
        BY <2>1, <3>1 DEF IInv, Carving, Exit, disk
    <2>2. CASE q # p
      BY <1>4, <2>2 DEF IInv, TypeOK, SuccessIsComplete, Succeeded, Exit, disk
    <2> QED
      BY <2>1, <2>2
  <1> QED
    BY <1>1, <1>2, <1>3, <1>4 DEF IInv, SuccessIsComplete

(* Fail, wherever it happens.                                               *)
LEMMA FailIInv == ASSUME IInv, NEW p \in Procs, Fail(p) PROVE IInv'
  <1>1. EXIT_OPERATIONAL_ERROR \notin {EXIT_RECOGNIZED, EXIT_NO_HEADER}
    BY DEF EXIT_OPERATIONAL_ERROR, EXIT_RECOGNIZED, EXIT_NO_HEADER
  <1> QED
    BY <1>1, Ends DEF Fail

-----------------------------------------------------------------------------
(* The actions of one invocation                                            *)

(* The existence test and the analysis.                                     *)
LEMMA BeforeMkdir ==
  ASSUME IInv, NEW p \in Procs, CheckOutput(p) \/ Analyze(p)
  PROVE  IInv'
  <1>1. CASE Fail(p)
    BY <1>1, FailIInv
  <1>2. CASE CheckOutput(p) /\ ~Fail(p)
    <2>1. /\ pc[p] = "check" /\ pc' = [pc EXCEPT ![p] = "analyze"]
          /\ UNCHANGED <<target, file, verdict, status, disk>>
      BY <1>2 DEF CheckOutput, Goto
    <2> QED
      BY <2>1, MovesOn DEF IInv, TypeOK
  <1>3. CASE Analyze(p) /\ ~Fail(p)
    <2> DEFINE at == IF target[p] = None THEN "print" ELSE "mkdir"
    <2>1. /\ pc[p] = "analyze" /\ pc' = [pc EXCEPT ![p] = at]
          /\ UNCHANGED <<target, file, status, disk>>
          /\ \E v \in {"realm", "other"} : verdict' = [verdict EXCEPT ![p] = v]
      BY <1>3 DEF Analyze, Goto
    <2>2. verdict' \in [Procs -> {"realm", "other", None}]
      BY <2>1 DEF IInv, TypeOK
    <2>3. at \in {"print", "mkdir"} /\ (at = "print" <=> target[p] = None)
      OBVIOUS
    <2> HIDE DEF at
    <2> QED
      BY <2>1, <2>2, <2>3, MovesOn
  <1> QED
    BY <1>1, <1>2, <1>3

(* A new directory: the output of its maker, or a parent on the way.        *)
LEMMA MakesDir ==
  ASSUME IInv, NEW p \in Procs, NEW o \in Outputs,
         maker[o] = None, MakeDir(p, o),
         target[p] # None,
         \/ /\ o = target[p]
            /\ pc[p] \in {"mkdir", "mkdirAgain"}
            /\ pc' = [pc EXCEPT ![p] = "open"]
            /\ file' = [file EXCEPT ![p] = FirstReport]
         \/ /\ o # target[p]
            /\ pc[p] = "parents"
            /\ pc' = [pc EXCEPT ![p] = "mkdirAgain"]
            /\ file' = file
  PROVE  IInv'
  <1>1. /\ maker' = [maker EXCEPT ![o] = p]
        /\ UNCHANGED <<target, verdict, status, writer, done>>
    BY DEF MakeDir
  <1>2. TypeOK'
    <2>1. maker' \in [Outputs -> Procs \cup {None}]
      BY <1>1 DEF IInv, TypeOK
    <2>2. pc' \in [Procs -> Points]
      BY DEF IInv, TypeOK, Points
    <2>3. file' \in [Procs -> Reports \cup {None}]
      BY ReportOrder DEF IInv, TypeOK
    <2> QED
      BY <1>1, <2>1, <2>2, <2>3 DEF IInv, TypeOK
  <1>3. done[o] = {} /\ \A f \in Reports : writer[o][f] = None
    BY DEF IInv, Untouched
  <1>4. ASSUME NEW q \in Procs
        PROVE  Carving(q)'
    <2>1. CASE q = p
      <3>1. status[p] = None /\ status' = status /\ maker'[o] = p
        BY <1>1 DEF IInv, TypeOK, Carving
      <3>2. CASE o = target[p]
        <4>1. pc'[p] = "open" /\ file'[p] = FirstReport
          BY <3>2 DEF IInv, TypeOK
        <4>2. /\ target'[p] = o /\ target'[p] # None
              /\ done'[o] = Before(FirstReport)
              /\ FirstReport \in Reports
          BY <1>1, <1>3, <3>2, ReportOrder
        <4> QED
          BY <2>1, <3>1, <4>1, <4>2 DEF Carving
      <3>3. CASE o # target[p]
        <4>1. pc'[p] = "mkdirAgain" /\ target'[p] # None
          BY <1>1, <3>3 DEF IInv, TypeOK
        <4> QED
          BY <2>1, <3>1, <4>1 DEF Carving
      <3> QED
        BY <3>2, <3>3
    <2>2. CASE q # p
      <3>1. pc'[q] = pc[q] /\ file'[q] = file[q]
        BY <2>2 DEF IInv, TypeOK
      <3>2. Carving(q)
        BY DEF IInv
      <3>3. pc[q] \in {"open", "write", "print"} /\ target[q] # None
              => maker'[target[q]] = q
        BY <1>1, <2>2, <3>2, NoneAssumption DEF IInv, TypeOK, Carving
      <3> QED
        BY <1>1, <3>1, <3>2, <3>3 DEF Carving
    <2> QED
      BY <2>1, <2>2
  <1>5. Untouched'
    BY <1>1, NoneAssumption DEF IInv, TypeOK, Untouched
  <1>6. Attributable'
    BY <1>1, <1>3 DEF IInv, TypeOK, Attributable
  <1>7. SuccessIsComplete'
    <2> SUFFICES ASSUME NEW q \in Procs, Succeeded(q), target[q] # None
                 PROVE  maker'[target[q]] = q /\ done[target[q]] = Reports
      BY <1>1 DEF SuccessIsComplete, Succeeded
    <2>1. maker[target[q]] = q /\ done[target[q]] = Reports
      BY DEF IInv, SuccessIsComplete
    <2>2. target[q] # o
      BY <2>1, NoneAssumption
    <2> QED
      BY <1>1, <2>1, <2>2 DEF IInv, TypeOK
  <1> QED
    BY <1>2, <1>4, <1>5, <1>6, <1>7 DEF IInv

(* mkdir with parents=True.                                                 *)
LEMMA Mkdir ==
  ASSUME IInv, NEW p \in Procs, TryOutput(p) \/ MakeParent(p) \/ RetryOutput(p)
  PROVE  IInv'
  <1>1. pc[p] \in {"mkdir", "parents", "mkdirAgain"} /\ target[p] # None
    BY DEF TryOutput, MakeParent, RetryOutput, IInv, Carving
  <1>2. target[p] \in Outputs
    BY <1>1 DEF IInv, TypeOK
  <1>3. CASE Fail(p)
    BY <1>3, FailIInv
  <1>4. CASE /\ pc[p] \in {"mkdir", "mkdirAgain"}
             /\ MakeOutput(p) /\ ~Fail(p)
    BY <1>1, <1>2, <1>4, MakesDir DEF MakeOutput, Goto
  <1>5. CASE TryOutput(p) /\ ~MakeOutput(p)
    <2>1. /\ pc[p] = "mkdir" /\ pc' = [pc EXCEPT ![p] = "parents"]
          /\ Parent[target[p]] # None
          /\ UNCHANGED <<target, file, verdict, status, disk>>
      BY <1>5 DEF TryOutput, Missing, Goto
    <2> QED
      BY <1>1, <2>1, MovesOn DEF IInv, TypeOK
  <1>6. CASE MakeParent(p) /\ ~Fail(p)
    <2> DEFINE parent == Parent[target[p]]
    <2>1. /\ pc[p] = "parents" /\ pc' = [pc EXCEPT ![p] = "mkdirAgain"]
          /\ file' = file
      BY <1>6 DEF MakeParent, Goto
    <2>2. parent \in Outputs /\ parent # target[p]
      <3>1. parent # None /\ parent \in Outputs \cup {None}
        BY <1>2, <2>1, ParentAssumption DEF IInv, Carving
      <3> QED
        BY <1>2, <3>1, ParentAssumption
    <2>3. CASE maker[parent] = None
      BY <1>1, <1>6, <2>1, <2>2, <2>3, MakesDir DEF MakeParent
    <2>4. CASE maker[parent] # None
      <3>1. UNCHANGED <<target, verdict, status, disk>>
        BY <1>6, <2>4 DEF MakeParent
      <3>2. TypeOK'
        BY <2>1, <3>1 DEF IInv, TypeOK, Points, disk
      <3>3. ASSUME NEW q \in Procs PROVE Carving(q)'
        <4>1. CASE q = p
          BY <2>1, <3>1, <4>1 DEF IInv, TypeOK, Carving, disk
        <4>2. CASE q # p
          BY <2>1, <3>1, <4>2 DEF IInv, TypeOK, Carving, disk
        <4> QED
          BY <4>1, <4>2
      <3> QED
        BY <2>1, <3>1, <3>2, <3>3
           DEF IInv, Untouched, Attributable, SuccessIsComplete, Succeeded, disk
    <2> QED
      BY <2>3, <2>4
  <1> QED
    BY <1>3, <1>4, <1>5, <1>6 DEF TryOutput, RetryOutput

(* Opening a report, which is the first not written yet.                    *)
LEMMA Opens == ASSUME IInv, NEW p \in Procs, OpenReport(p) PROVE IInv'
  <1> DEFINE o == target[p]
             f == file[p]
  <1>1. /\ pc[p] = "open" /\ o # None /\ o \in Outputs /\ maker[o] = p
        /\ f \in Reports /\ done[o] = Before(f) /\ f \notin done[o]
    BY ReportOrder DEF OpenReport, IInv, Carving, TypeOK
  <1>2. CASE Fail(p)
    BY <1>2, FailIInv
  <1>3. CASE ~Fail(p)
    <2>1. /\ pc' = [pc EXCEPT ![p] = "write"]
          /\ writer' = [writer EXCEPT ![o][f] = p]
          /\ done' = [done EXCEPT ![o] = @ \ {f}]
          /\ UNCHANGED <<target, file, verdict, status, maker>>
      BY <1>3 DEF OpenReport, Goto
    <2>2. done' = done
      BY <1>1, <2>1 DEF IInv, TypeOK
    <2> HIDE DEF o, f
    <2>3. TypeOK'
      <3>1. writer' \in [Outputs -> [Reports -> Procs \cup {None}]]
        BY <1>1, <2>1 DEF IInv, TypeOK
      <3> QED
        BY <2>1, <2>2, <3>1 DEF IInv, TypeOK, Points
    <2>4. ASSUME NEW q \in Procs PROVE Carving(q)'
      <3>1. CASE q = p
        <4>1. /\ pc'[p] = "write" /\ pc[p] = "open"
              /\ writer'[o][f] = p
          BY <1>1, <2>1 DEF IInv, TypeOK
        <4> QED
          BY <1>1, <2>1, <2>2, <3>1, <4>1 DEF IInv, Carving, o, f
      <3>2. CASE q # p
        <4>1. pc'[q] = pc[q]
          BY <2>1, <3>2 DEF IInv, TypeOK
        <4>2. pc[q] = "write" => target[q] # o /\ target[q] \in Outputs
          BY <1>1, <3>2 DEF IInv, TypeOK, Carving
        <4>3. pc[q] = "write" => writer'[target[q]] = writer[target[q]]
          BY <2>1, <4>2 DEF IInv, TypeOK
        <4>4. Carving(q)
          BY DEF IInv
        <4> QED
          BY <2>1, <2>2, <4>1, <4>3, <4>4 DEF Carving
      <3> QED
        BY <3>1, <3>2
    <2>5. Untouched'
      <3> SUFFICES ASSUME NEW d \in Outputs, maker[d] = None
                   PROVE  done[d] = {} /\ writer'[d] = [g \in Reports |-> None]
        BY <2>1, <2>2 DEF Untouched
      <3>1. d # o
        BY <1>1, NoneAssumption
      <3> QED
        BY <2>1, <3>1 DEF IInv, TypeOK, Untouched
    <2>6. Attributable'
      <3> SUFFICES ASSUME NEW d \in Outputs, NEW g \in Reports
                   PROVE  /\ writer'[d][g] \in {maker[d], None}
                          /\ writer'[d][g] # None => target[writer'[d][g]] = d
                          /\ g \in done[d] => writer'[d][g] # None
        BY <2>1, <2>2 DEF Attributable
      <3>1. CASE d = o /\ g = f
        <4>1. writer'[d][g] = p
          BY <1>1, <2>1, <3>1 DEF IInv, TypeOK
        <4> QED
          BY <1>1, <3>1, <4>1, NoneAssumption DEF o
      <3>2. CASE ~(d = o /\ g = f)
        <4>1. writer'[d][g] = writer[d][g]
          BY <2>1, <3>2 DEF IInv, TypeOK
        <4> QED
          BY <4>1 DEF IInv, Attributable
      <3> QED
        BY <3>1, <3>2
    <2> QED
      BY <2>1, <2>2, <2>3, <2>4, <2>5, <2>6
         DEF IInv, SuccessIsComplete, Succeeded
  <1> QED
    BY <1>2, <1>3

(* Completing a report, after which the next one follows.                   *)
LEMMA Writes == ASSUME IInv, NEW p \in Procs, WriteReport(p) PROVE IInv'
  <1> DEFINE o == target[p]
             f == file[p]
  <1>1. /\ pc[p] = "write" /\ o # None /\ o \in Outputs /\ maker[o] = p
        /\ f \in Reports /\ done[o] = Before(f) /\ f \notin done[o]
        /\ writer[o][f] = p /\ status[p] = None
    BY ReportOrder DEF WriteReport, IInv, Carving, TypeOK
  <1>2. CASE Fail(p)
    BY <1>2, FailIInv
  <1>3. CASE ~Fail(p)
    <2>1. /\ pc' = [pc EXCEPT ![p] = IF After[f] = None THEN "print" ELSE "open"]
          /\ file' = [file EXCEPT ![p] = After[f]]
          /\ done' = [done EXCEPT ![o] = @ \cup {f}]
          /\ UNCHANGED <<target, verdict, status, maker, writer>>
      BY <1>3 DEF WriteReport, Goto
    <2>2. done'[o] = Before(f) \cup {f}
      BY <1>1, <2>1 DEF IInv, TypeOK
    <2>3. \A d \in Outputs : d # o => done'[d] = done[d]
      BY <2>1 DEF IInv, TypeOK
    <2>4. /\ pc'[p] = IF After[f] = None THEN "print" ELSE "open"
          /\ file'[p] = After[f]
      BY <2>1 DEF IInv, TypeOK
    <2>5. TypeOK'
      <3>1. done' \in [Outputs -> SUBSET Reports]
        BY <1>1, <2>1 DEF IInv, TypeOK
      <3>2. file' \in [Procs -> Reports \cup {None}]
        BY <1>1, <2>1, ReportOrder DEF IInv, TypeOK
      <3>3. pc' \in [Procs -> Points]
        BY <2>1 DEF IInv, TypeOK, Points
      <3> QED
        BY <2>1, <3>1, <3>2, <3>3 DEF IInv, TypeOK
    <2>6. ASSUME NEW q \in Procs PROVE Carving(q)'
      <3>1. CASE q = p
        <4>1. CASE After[f] = None
          <5>1. pc'[p] = "print" /\ done'[o] = Reports
            BY <1>1, <2>2, <2>4, <4>1, ReportOrder
          <5> QED
            BY <1>1, <2>1, <3>1, <5>1 DEF Carving
        <4>2. CASE After[f] # None
          <5>1. /\ pc'[p] = "open" /\ file'[p] \in Reports
                /\ done'[o] = Before(file'[p])
            BY <1>1, <2>2, <2>4, <4>2, ReportOrder
          <5> QED
            BY <1>1, <2>1, <3>1, <5>1 DEF Carving
        <4> QED
          BY <4>1, <4>2
      <3>2. CASE q # p
        <4>1. pc'[q] = pc[q] /\ file'[q] = file[q]
          BY <2>1, <3>2 DEF IInv, TypeOK
        <4>2. pc[q] \in {"open", "write", "print"} /\ target[q] # None
                => target[q] # o /\ target[q] \in Outputs
          BY <1>1, <3>2 DEF IInv, TypeOK, Carving
        <4>3. pc[q] \in {"open", "write", "print"} /\ target[q] # None
                => done'[target[q]] = done[target[q]]
          BY <2>3, <4>2
        <4> QED
          BY <2>1, <4>1, <4>3 DEF IInv, Carving
      <3> QED
        BY <3>1, <3>2
    <2>7. Untouched'
      BY <1>1, <2>1, <2>3, NoneAssumption DEF IInv, Untouched
    <2>8. Attributable'
      <3> SUFFICES ASSUME NEW d \in Outputs, NEW g \in Reports, g \in done'[d]
                   PROVE  writer[d][g] # None
        BY <2>1 DEF Attributable, IInv
      <3>1. CASE d = o /\ g = f
        BY <1>1, <3>1, NoneAssumption
      <3>2. CASE ~(d = o /\ g = f)
        <4>1. g \in done[d]
          BY <1>1, <2>2, <2>3, <3>2
        <4> QED
          BY <4>1 DEF IInv, Attributable
      <3> QED
        BY <3>1, <3>2
    <2>9. SuccessIsComplete'
      <3> SUFFICES ASSUME NEW q \in Procs, Succeeded(q), target[q] # None
                   PROVE  maker[target[q]] = q /\ done'[target[q]] = Reports
        BY <2>1 DEF SuccessIsComplete, Succeeded
      <3>1. maker[target[q]] = q /\ done[target[q]] = Reports
        BY DEF IInv, SuccessIsComplete
      <3>2. target[q] \in Outputs
        BY DEF IInv, TypeOK
      <3>3. target[q] # o
        BY <1>1, <3>1
      <3> QED
        BY <2>3, <3>1, <3>2, <3>3
    <2> QED
      BY <2>5, <2>6, <2>7, <2>8, <2>9 DEF IInv
  <1> QED
    BY <1>2, <1>3

(* Printing the summary, or being killed.                                   *)
LEMMA PrintOrKill ==
  ASSUME IInv, NEW p \in Procs, PrintSummary(p) \/ Kill(p)
  PROVE  IInv'
  <1>1. ExitCode(p) \in {EXIT_RECOGNIZED, EXIT_NO_HEADER}
    BY DEF ExitCode
  <1>2. None \notin {EXIT_RECOGNIZED, EXIT_NO_HEADER}
    BY NoneAssumption DEF EXIT_RECOGNIZED, EXIT_NO_HEADER
  <1>3. CASE Fail(p)
    BY <1>3, FailIInv
  <1>4. CASE PrintSummary(p) /\ ~Fail(p)
    BY <1>1, <1>4, Ends DEF PrintSummary
  <1>5. CASE Kill(p)
    BY <1>2, <1>5, Ends DEF Kill
  <1> QED
    BY <1>3, <1>4, <1>5

-----------------------------------------------------------------------------

(* The invariant is inductive.                                              *)
LEMMA NextIInv == IInv /\ [Next]_vars => IInv'
  <1> SUFFICES ASSUME IInv, [Next]_vars
               PROVE  IInv'
    OBVIOUS
  <1>1. ASSUME NEW p \in Procs, Invocation(p)
        PROVE  IInv'
    BY <1>1, BeforeMkdir, Mkdir, Opens, Writes, PrintOrKill DEF Invocation
  <1>2. ASSUME NEW p \in Procs, Kill(p)
        PROVE  IInv'
    BY <1>2, PrintOrKill
  <1>3. CASE UNCHANGED vars
    BY <1>3 DEF vars, IInv, TypeOK, Carving, Untouched, Attributable,
                SuccessIsComplete, Succeeded
  <1> QED
    BY <1>1, <1>2, <1>3 DEF Next, AllEnded

(* The inductive invariant holds throughout every run.                      *)
THEOREM Inductive == Spec => []IInv
  BY InitIInv, NextIInv, PTL DEF Spec

(* Types, for any number of invocations and outputs (main, carve_realm).    *)
THEOREM TypeCorrect == Spec => []TypeOK
  <1>1. IInv => TypeOK
    BY DEF IInv
  <1> QED
    BY <1>1, Inductive, PTL

(* Every output set is attributable to the invocation that made it, however *)
(* many invocations race for it, fail or are killed (carve_realm).          *)
THEOREM OutputsAttributable == Spec => []Attributable
  <1>1. IInv => Attributable
    BY DEF IInv
  <1> QED
    BY <1>1, Inductive, PTL

(* Exit codes 0 and 3 mean a complete output made by this invocation (main).*)
THEOREM SuccessComplete == Spec => []SuccessIsComplete
  <1>1. IInv => SuccessIsComplete
    BY DEF IInv
  <1> QED
    BY <1>1, Inductive, PTL

-----------------------------------------------------------------------------
(* Refinement                                                               *)

(* A step of an invocation that leaves directories and reports alone, and   *)
(* whose exit code, if it has one now, acknowledges a complete output.      *)
LEMMA StutterOrAcknowledge ==
  ASSUME IInv, IInv', NEW p \in Procs,
         UNCHANGED <<target, maker, done>>,
         \A q \in Procs \ {p} : status'[q] = status[q],
         Succeeded(p) => Succeeded(p)'
  PROVE  [Sets!Next]_(Sets!vars)
  <1> DEFINE acked == { o \in Outputs : \E q \in Procs : target[q] = o /\ Succeeded(q) }
             o == target[p]
  <1>1. CASE Succeeded(p)' /\ o # None
    <2>1. o \in Outputs /\ done[o] = Reports
      BY <1>1 DEF IInv, TypeOK, SuccessIsComplete
    <2>2. acked' = acked \cup {o}
      BY <1>1, <2>1 DEF Succeeded
    <2> HIDE DEF o
    <2> HIDE DEF acked
    <2>3. \E x \in Outputs : done[x] = Reports /\ acked' = acked \cup {x}
      BY <2>1, <2>2
    <2> QED
      BY <2>3 DEF Sets!Next, Sets!Acknowledge, acked
  <1>2. CASE ~(Succeeded(p)' /\ o # None)
    <2>1. acked' = acked
      BY <1>2, NoneAssumption DEF Succeeded
    <2> QED
      BY <2>1 DEF Sets!vars
  <1> QED
    BY <1>1, <1>2

(* A step that ends an invocation, or only moves it on.                     *)
LEMMA QuietStep ==
  ASSUME IInv, IInv', NEW p \in Procs, pc[p] # "ended",
         UNCHANGED <<target, maker, done>>,
         \/ UNCHANGED status
         \/ \E code : status' = [status EXCEPT ![p] = code]
  PROVE  [Sets!Next]_(Sets!vars)
  <1>1. ~Succeeded(p)
    BY NoneAssumption
       DEF IInv, Carving, Succeeded, EXIT_RECOGNIZED, EXIT_NO_HEADER
  <1>2. \A q \in Procs \ {p} : status'[q] = status[q]
    BY DEF IInv, TypeOK
  <1> QED
    BY <1>1, <1>2, StutterOrAcknowledge

(* Creating a directory claims it.                                          *)
LEMMA Claims ==
  ASSUME NEW p \in Procs, NEW o \in Outputs, maker[o] = None, MakeDir(p, o)
  PROVE  Sets!Next
  <1> DEFINE acked == { d \in Outputs : \E q \in Procs : target[q] = d /\ Succeeded(q) }
  <1>1. acked' = acked
    BY DEF MakeDir, Succeeded
  <1>2. Sets!Claim(p, o)
    BY <1>1 DEF MakeDir, Sets!Claim
  <1> QED
    BY <1>2 DEF Sets!Next

(* Completing a report finishes it.                                         *)
LEMMA Finishes ==
  ASSUME IInv, NEW p \in Procs, WriteReport(p), ~Fail(p)
  PROVE  Sets!Next
  <1> DEFINE acked == { d \in Outputs : \E q \in Procs : target[q] = d /\ Succeeded(q) }
             o == target[p]
             f == file[p]
  <1>1. /\ o \in Outputs /\ maker[o] # None
        /\ f \in Reports /\ f \notin done[o]
    BY ReportOrder, NoneAssumption DEF WriteReport, IInv, Carving, TypeOK
  <1>2. /\ done' = [done EXCEPT ![o] = @ \cup {f}]
        /\ UNCHANGED <<target, status, maker>>
    BY DEF WriteReport
  <1>3. acked' = acked
    BY <1>2 DEF Succeeded
  <1> HIDE DEF o, f
  <1>4. Sets!Finish(o, f)
    BY <1>1, <1>2, <1>3 DEF Sets!Finish
  <1> QED
    BY <1>1, <1>4 DEF Sets!Next

(* Opening a report does not finish or undo one.                            *)
LEMMA OpenKeepsDone ==
  ASSUME IInv, NEW p \in Procs, OpenReport(p)
  PROVE  done' = done
  <1>1. CASE Fail(p)
    BY <1>1 DEF Fail, disk
  <1>2. CASE ~Fail(p)
    <2>1. file[p] \notin done[target[p]]
      BY ReportOrder DEF OpenReport, IInv, Carving
    <2>2. done' = [done EXCEPT ![target[p]] = @ \ {file[p]}]
      BY <1>2 DEF OpenReport
    <2> QED
      BY <2>1, <2>2 DEF IInv, TypeOK
  <1> QED
    BY <1>1, <1>2

(* Racing, failing and killed invocations implement write-once report sets. *)
THEOREM Refinement == Spec => ImplementsReportSet
  <1>1. Init => Sets!Init
    <2> SUFFICES ASSUME Init PROVE Sets!Init
      OBVIOUS
    <2>1. \A p \in Procs : ~Succeeded(p)
      BY NoneAssumption DEF Init, Succeeded, EXIT_RECOGNIZED, EXIT_NO_HEADER
    <2> QED
      BY <2>1 DEF Init, Sets!Init
  <1>2. IInv /\ IInv' /\ [Next]_vars => [Sets!Next]_(Sets!vars)
    <2> SUFFICES ASSUME IInv, IInv', [Next]_vars
                 PROVE  [Sets!Next]_(Sets!vars)
      OBVIOUS
    <2>1. CASE UNCHANGED vars
      BY <2>1 DEF vars, Sets!vars, Succeeded
    <2>2. ASSUME NEW p \in Procs, Invocation(p) \/ Kill(p)
          PROVE  [Sets!Next]_(Sets!vars)
      <3>1. pc[p] # "ended"
        BY <2>2 DEF Invocation, Kill, CheckOutput, Analyze, TryOutput, MakeParent,
                    RetryOutput, OpenReport, WriteReport, PrintSummary
      <3>2. CASE Fail(p) \/ PrintSummary(p) \/ Kill(p)
        <4>1. /\ UNCHANGED <<target, maker, done>>
              /\ \E code : status' = [status EXCEPT ![p] = code]
          BY <3>2 DEF Fail, PrintSummary, Kill, Exit, disk
        <4> QED
          BY <3>1, <4>1, QuietStep
      <3>3. CASE (CheckOutput(p) \/ Analyze(p)) /\ ~Fail(p)
        <4>1. UNCHANGED <<target, maker, done, status>>
          BY <3>3 DEF CheckOutput, Analyze, disk
        <4> QED
          BY <3>1, <4>1, QuietStep
      <3>4. CASE (TryOutput(p) \/ RetryOutput(p)) /\ ~Fail(p)
        <4>1. CASE MakeOutput(p)
          <5>1. pc[p] \in {"mkdir", "mkdirAgain"}
            BY <3>4 DEF TryOutput, RetryOutput
          <5>2. target[p] \in Outputs
            BY <5>1 DEF IInv, Carving, TypeOK
          <5>3. maker[target[p]] = None /\ MakeDir(p, target[p])
            BY <3>4, <4>1 DEF MakeOutput
          <5> QED
            BY <5>2, <5>3, Claims
        <4>2. CASE ~MakeOutput(p)
          <5>1. UNCHANGED <<target, maker, done, status>>
            BY <3>4, <4>2 DEF TryOutput, RetryOutput, disk
          <5> QED
            BY <3>1, <5>1, QuietStep
        <4> QED
          BY <4>1, <4>2
      <3>5. CASE MakeParent(p) /\ ~Fail(p)
        <4> DEFINE parent == Parent[target[p]]
        <4>1. parent \in Outputs
          BY <3>5, ParentAssumption DEF MakeParent, IInv, Carving, TypeOK
        <4>2. CASE maker[parent] = None
          <5>1. MakeDir(p, parent)
            BY <3>5, <4>2 DEF MakeParent
          <5> QED
            BY <4>1, <4>2, <5>1, Claims
        <4>3. CASE maker[parent] # None
          <5>1. UNCHANGED <<target, maker, done, status>>
            BY <3>5, <4>3 DEF MakeParent, disk
          <5> QED
            BY <3>1, <5>1, QuietStep
        <4> QED
          BY <4>2, <4>3
      <3>6. CASE OpenReport(p) /\ ~Fail(p)
        <4>1. UNCHANGED <<target, maker, status>>
          BY <3>6 DEF OpenReport
        <4> QED
          BY <3>1, <3>6, <4>1, OpenKeepsDone, QuietStep
      <3>7. CASE WriteReport(p) /\ ~Fail(p)
        BY <3>7, Finishes
      <3> QED
        BY <2>2, <3>2, <3>3, <3>4, <3>5, <3>6, <3>7 DEF Invocation
    <2> QED
      BY <2>1, <2>2 DEF Next, AllEnded
  <1> QED
    BY <1>1, <1>2, Inductive, PTL DEF Spec, ImplementsReportSet, Sets!Spec
=============================================================================
