------------------------------- MODULE OpenRealm -------------------------------
(***************************************************************************)
(* open_realm: the checks of its arguments, the constructor of NativeRealm, *)
(* which opens a view and reads the schema, Realm.__init__, which takes the *)
(* schema over, and the handler that closes a view opened half way.  Every  *)
(* call into Realm Core and every conversion of the schema may fail.        *)
(***************************************************************************)
EXTENDS Naturals, Sequences

CONSTANTS
  Lengths,   \* how many bytes a key may have
  Absent,    \* an argument that is not given
  Missing    \* a path that leads nowhere

ASSUME LengthsAssumption == Lengths \subseteq Nat
ASSUME AbsentAssumption == {Absent, Missing} \cap Lengths = {}

VARIABLES
  realmPath,  \* the argument path: Missing, or it names a file
  key,        \* the argument key, by its length
  keyFile,    \* the argument key_file, by what it contains
  step,       \* the step open_realm is at
  used,       \* the length of key_data
  view,       \* the view in Realm Core: none, open or closed
  nativeSet,  \* the local `native` is no longer None
  raised,     \* the exception on its way, or the one that left
  cause,      \* its __cause__
  failed      \* history: everything that failed, in order

arguments == <<realmPath, key, keyFile>>
openVars == <<arguments, step, used, view, nativeSet, raised, cause, failed>>

NoError == "None"

(* The exceptions of the handler of open_realm.                             *)
Caught == {"NativeError", "KeyError", "TypeError", "UnicodeError"}

(* What a call of the bridge, and what the conversion of a schema may raise.*)
NativeErrors == {"NativeError", "MemoryError"}
SchemaErrors == Caught \cup {"MemoryError"}

OpenInit ==
  /\ realmPath \in {Missing, "file"}
  /\ key \in Lengths \cup {Absent}
  /\ keyFile \in Lengths \cup {Absent, Missing}
  /\ step = "sources" /\ used = 0
  /\ view = "none" /\ nativeSet = FALSE
  /\ raised = NoError /\ cause = NoError /\ failed = <<>>

Goto(place) ==
  /\ step' = place
  /\ UNCHANGED <<arguments, raised, cause, failed>>

(* An exception: to the handler if it is inside the try, and listed there.  *)
Fail(error, inTry) ==
  /\ raised' = error
  /\ failed' = Append(failed, error)
  /\ step' = IF inTry /\ error \in Caught THEN "handler" ELSE "raised"
  /\ UNCHANGED <<arguments, cause>>

-----------------------------------------------------------------------------
(* The arguments                                                            *)

CheckSources ==
  /\ step = "sources"
  /\ IF key # Absent /\ keyFile # Absent
     THEN Fail("ValueError", FALSE) ELSE Goto("path")
  /\ UNCHANGED <<used, view, nativeSet>>

ResolvePath ==
  /\ step = "path"
  /\ IF realmPath = Missing THEN Fail("OSError", FALSE) ELSE Goto("key")
  /\ UNCHANGED <<used, view, nativeSet>>

(* key_data: the argument, the content of the file, or nothing.             *)
ReadKey ==
  /\ step = "key"
  /\ IF keyFile = Missing
     THEN Fail("OSError", FALSE) /\ UNCHANGED used
     ELSE /\ used' = IF keyFile # Absent THEN keyFile
                     ELSE IF key # Absent THEN key ELSE 0
          /\ Goto("length")
  /\ UNCHANGED <<view, nativeSet>>

CheckLength ==
  /\ step = "length"
  /\ IF used \notin {0, 64} THEN Fail("ValueError", FALSE) ELSE Goto("configure")
  /\ UNCHANGED <<used, view, nativeSet>>

-----------------------------------------------------------------------------
(* The constructor of NativeRealm                                           *)

(* The arguments are converted, a TypeError if they cannot, and checked     *)
(* again, which cannot fail; the configuration is made.                     *)
Configure ==
  /\ step = "configure"
  /\ \/ Goto(IF used = 0 THEN "open" ELSE "encrypt")
     \/ \E error \in NativeErrors \cup {"TypeError"} : Fail(error, TRUE)
  /\ UNCHANGED <<used, view, nativeSet>>

Encrypt ==
  /\ step = "encrypt"
  /\ Goto("open") \/ \E error \in NativeErrors : Fail(error, TRUE)
  /\ UNCHANGED <<used, view, nativeSet>>

OpenView ==
  /\ step = "open"
  /\ \/ Goto("load") /\ view' = "open"
     \/ (\E error \in NativeErrors : Fail(error, TRUE)) /\ UNCHANGED view
  /\ UNCHANGED <<used, nativeSet>>

(* load_schema is the last part of the constructor.  When it throws, the    *)
(* members constructed so far go, and with m_realm the view.                *)
LoadSchema ==
  /\ step = "load"
  /\ \/ Goto("init") /\ nativeSet' = TRUE /\ UNCHANGED view
     \/ /\ \E error \in NativeErrors : Fail(error, TRUE)
        /\ view' = "closed" /\ UNCHANGED nativeSet
  /\ UNCHANGED used

-----------------------------------------------------------------------------
(* Realm.__init__ reads native.schema() into TableSchema and PropertySchema.*)

TakeSchema ==
  /\ step = "init"
  /\ Goto("returned") \/ \E error \in SchemaErrors : Fail(error, TRUE)
  /\ UNCHANGED <<used, view, nativeSet>>

-----------------------------------------------------------------------------
(* The handler                                                              *)

(* raise RealmOpenError(...) from error                                     *)
Translate ==
  /\ raised' = "RealmOpenError" /\ cause' = raised /\ step' = "raised"

\* Mutated form: the native view is left to itself.
Handle_NoClose ==
  /\ step = "handler"
  /\ Translate
  /\ UNCHANGED <<arguments, used, view, nativeSet, failed>>

\* Mutated form: a failure of close leaves the handler.
Handle_NotSuppressed ==
  /\ step = "handler"
  /\ \/ /\ view' = IF nativeSet THEN "closed" ELSE view
        /\ Translate /\ UNCHANGED failed
     \/ /\ nativeSet
        /\ failed' = Append(failed, "NativeError")
        /\ raised' = "NativeError" /\ step' = "raised" /\ UNCHANGED <<view, cause>>
  /\ UNCHANGED <<arguments, used, nativeSet>>

Handle ==
  /\ step = "handler"
  /\ \/ /\ view' = IF nativeSet THEN "closed" ELSE view
        /\ UNCHANGED failed
     \/ /\ nativeSet
        /\ failed' = Append(failed, "NativeError") /\ UNCHANGED view
  /\ Translate
  /\ UNCHANGED <<arguments, used, nativeSet>>

(* The caller lets go of the exception: its traceback was what kept the     *)
(* frame, and the frame's `native` a view that is still open.               *)
Drop ==
  /\ step = "raised"
  /\ step' = "dropped"
  /\ view' = IF nativeSet THEN "closed" ELSE view
  /\ nativeSet' = FALSE
  /\ UNCHANGED <<arguments, used, raised, cause, failed>>

Ended == step \in {"returned", "dropped"} /\ UNCHANGED openVars

OpenNext ==
  \/ CheckSources \/ ResolvePath \/ ReadKey \/ CheckLength
  \/ Configure \/ Encrypt \/ OpenView \/ LoadSchema \/ TakeSchema
  \/ Handle \/ Drop \/ Ended

OpenSpec == OpenInit /\ [][OpenNext]_openVars

-----------------------------------------------------------------------------
(* Properties                                                               *)

(* An open that raised leaves no view open, wherever it failed, except as   *)
(* long as somebody keeps an exception that is not translated, or one       *)
(* whose view could not be closed; a Realm that is returned has its view.   *)
ViewNotLeaked ==
  /\ step = "returned" => view = "open"
  /\ step = "dropped" => view # "open"
  /\ step = "raised" /\ view = "open" =>
       raised = "MemoryError" \/ Len(failed) = 2

(* What the caller is told is the first thing that failed, not what failed  *)
(* in cleaning up after it; private and internal exceptions arrive as       *)
(* RealmOpenError, all others as they are.                                  *)
FirstErrorReported ==
  step \in {"raised", "dropped"} =>
    IF failed[1] \in Caught
    THEN raised = "RealmOpenError" /\ cause = failed[1]
    ELSE raised = failed[1] /\ cause = NoError
=============================================================================
