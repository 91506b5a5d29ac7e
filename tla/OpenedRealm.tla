------------------------------ MODULE OpenedRealm ------------------------------
(***************************************************************************)
(* An application opens a Realm, and threads read fields of its Records and *)
(* of those of the Realms it has already, while it closes the Realm or lets *)
(* go of it: OpenRealm until open_realm returns, then RecordFields.         *)
(***************************************************************************)
EXTENDS OpenRealm, RecordFields

CONSTANT Opened  \* the Realm that is opened

ASSUME OpenedAssumption == Opened \in Realms

Init == OpenInit /\ FieldsInit

Opening == OpenNext /\ UNCHANGED fieldsVars

(* The caller has the Realm, and the frame of open_realm is gone.           *)
Receive ==
  /\ step = "returned"
  /\ step' = "received" /\ nativeSet' = FALSE
  /\ UNCHANGED <<fieldsVars, arguments, used, view, raised, cause, failed>>

(* A field is read, or the last owner of a Realm is let go of.  The Realm   *)
(* that goes takes its view with it.                                        *)
Reading ==
  /\ step = "received"
  /\ FieldsNext
  /\ view' = IF Living(Opened)' THEN view ELSE "closed"
  /\ UNCHANGED <<arguments, step, used, nativeSet, raised, cause, failed>>

(* Realm.close: the fields are read from what the Records have.             *)
CloseRealm ==
  /\ step = "received" /\ view = "open"
  /\ Opened \in owners
  /\ view' = "closed"
  /\ UNCHANGED <<fieldsVars, arguments, step, used, nativeSet, raised, cause,
                 failed>>

Next == Opening \/ Receive \/ Reading \/ CloseRealm

Spec == Init /\ [][Next]_<<openVars, fieldsVars>>
=============================================================================
