----------------------------- MODULE RecordFields -----------------------------
(***************************************************************************)
(* The fields of Records: Record.__getitem__ converts the raw value of a    *)
(* field when it is first read and keeps what it came to, and RealmLink     *)
(* compares by the Realm it belongs to.  Records and links refer to their   *)
(* Realm weakly, and Realms go away while several threads read.             *)
(*                                                                          *)
(* A thread stores a field at most once, since nothing leaves _converted:   *)
(* a converted object is named by its field and the thread that made it.    *)
(***************************************************************************)
EXTENDS Timestamps

CONSTANTS
  Threads,
  Realms,
  RealmOf,      \* the Realm of the Record a field is of
  Targets,      \* what fields link to
  Unconvertible, \* a value _convert raises on
  Raws,         \* raw values of the fields of the Records an application holds
  None

Values == Targets \cup Timestamps \cup {Unconvertible}
ASSUME RealmOfAssumption == \A f \in DOMAIN RealmOf : RealmOf[f] \in Realms
ASSUME RawsAssumption ==
  \A r \in Raws : /\ DOMAIN r \subseteq DOMAIN RealmOf
                   /\ \A f \in DOMAIN r : r[f] \in Values
ASSUME NoneAssumption == None \notin Threads \cup Realms \cup DOMAIN RealmOf

VARIABLES
  raw,          \* _raw of all Records: what the native read left there
  owners,       \* the Realms the application owns
  converted,    \* _converted of all fields: the thread whose object is kept
  reading, at,  \* where each thread is in __getitem__, and of which field
  began,        \* history: what a call found when it began
  given,        \* history: the objects calls have returned
  crowded       \* history: fields two threads were converting at once

fieldsVars == <<raw, owners, converted, reading, at, began, given, crowded>>

Fields == DOMAIN raw
Object(field, by) == [field |-> field, by |-> by]

(* A call is past its miss and not done.                                    *)
InFlight(t, field) ==
  at[t] = field /\ reading[t] \in {"missed", "converting", "storing"}
Busy(t, field) == \E u \in Threads \ {t} : InFlight(u, field)

(* The bound method _convert owns the Realm while it runs.                  *)
Living(realm) ==
  \/ realm \in owners
  \/ \E t \in Threads : reading[t] = "converting" /\ RealmOf[at[t]] = realm

FieldsInit ==
  /\ raw \in Raws
  /\ owners = Realms
  /\ converted = [f \in Fields |-> None]
  /\ reading = [t \in Threads |-> "idle"]
  /\ at = [t \in Threads |-> None]
  /\ began = [t \in Threads |-> {}]
  /\ given = {} /\ crowded = {}

Reach(t, place) == reading' = [reading EXCEPT ![t] = place]

-----------------------------------------------------------------------------
(* Record.__getitem__                                                       *)

\* Mutated form: a kept field, too, is only served while the Realm lives.
Kept_WhileLiving(field) == converted[field] # None /\ Living(RealmOf[field])

(* key in self._converted                                                   *)
Kept(field) == converted[field] # None

Call(t, field) ==
  /\ reading[t] = "idle"
  /\ at' = [at EXCEPT ![t] = field]
  /\ began' = [began EXCEPT ![t] =
       { sign \in {"kept", "alive"} :
           \/ sign = "kept" /\ converted[field] # None
           \/ sign = "alive" /\ Living(RealmOf[field]) }]
  /\ UNCHANGED <<owners, converted>>

Hit(t, field) ==
  /\ Call(t, field) /\ Kept(field)
  /\ Reach(t, "returned")
  /\ given' = given \cup {Object(field, converted[field])}
  /\ UNCHANGED <<raw, crowded>>

Miss(t, field) ==
  /\ Call(t, field) /\ ~Kept(field)
  /\ Reach(t, "missed")
  /\ crowded' = crowded \cup IF Busy(t, field) THEN {field} ELSE {}
  /\ UNCHANGED <<raw, given>>

(* self._realm(): the weak reference becomes a strong one or raises.        *)
Dereference(t) ==
  /\ reading[t] = "missed"
  /\ Reach(t, IF Living(RealmOf[at[t]]) THEN "converting" ELSE "released")
  /\ UNCHANGED <<raw, owners, converted, at, began, given, crowded>>

(* _convert makes the object, or raises and leaves nothing behind.          *)
Convert(t) ==
  /\ reading[t] = "converting"
  /\ Reach(t, IF raw[at[t]] = Unconvertible THEN "undecodable" ELSE "storing")
  /\ UNCHANGED <<raw, owners, converted, at, began, given, crowded>>

\* Mutated form: the object is returned and not kept.
Store_Missing(t) ==
  /\ reading[t] = "storing"
  /\ given' = given \cup {Object(at[t], t)}
  /\ Reach(t, "returned")
  /\ UNCHANGED <<raw, owners, converted, at, began, crowded>>

(* self._converted[key] = converted, whoever stored the field meanwhile.    *)
Store(t) ==
  /\ reading[t] = "storing"
  /\ converted' = [converted EXCEPT ![at[t]] = t]
  /\ given' = given \cup {Object(at[t], t)}
  /\ Reach(t, "returned")
  /\ UNCHANGED <<raw, owners, at, began, crowded>>

Outcomes == {"returned", "released", "undecodable"}

Finish(t) ==
  /\ reading[t] \in Outcomes
  /\ Reach(t, "idle")
  /\ at' = [at EXCEPT ![t] = None]
  /\ began' = [began EXCEPT ![t] = {}]
  /\ UNCHANGED <<raw, owners, converted, given, crowded>>

-----------------------------------------------------------------------------
(* RealmLink.__eq__                                                         *)

IsLink(object) == raw[object.field] \in Targets

(* self._realm_ref()                                                        *)
RealmRef(object) ==
  IF Living(RealmOf[object.field]) THEN RealmOf[object.field] ELSE None

\* Mutated form: a link without its Realm equals nothing.
LinkEq_Dead(x, y) ==
  /\ RealmRef(x) = RealmRef(y) /\ RealmRef(x) # None
  /\ raw[x.field] = raw[y.field]

LinkEq(x, y) == RealmRef(x) = RealmRef(y) /\ raw[x.field] = raw[y.field]

-----------------------------------------------------------------------------
(* The application lets go of the last owner of a Realm.                    *)
LetGo(realm) ==
  /\ realm \in owners
  /\ owners' = owners \ {realm}
  /\ UNCHANGED <<raw, converted, reading, at, began, given, crowded>>

FieldsNext ==
  \/ \E t \in Threads :
       \/ \E f \in Fields : Hit(t, f) \/ Miss(t, f)
       \/ Dereference(t) \/ Convert(t) \/ Store(t) \/ Finish(t)
  \/ \E r \in Realms : LetGo(r)

FieldsSpec == FieldsInit /\ [][FieldsNext]_fieldsVars

-----------------------------------------------------------------------------
(* Properties                                                               *)

(* A field is one object for everybody who reads it, whatever happens to    *)
(* the Realm, unless two threads were converting it at the same time.       *)
OneObject ==
  \A x, y \in given : x.field = y.field => x = y \/ x.field \in crowded

(* What a call comes to is decided by what it found: a field once read is   *)
(* readable for ever; a field that was not kept when its Realm was gone is  *)
(* not readable by that call, even if another thread is about to keep it; a *)
(* call raises for a dead Realm or a value that cannot be decoded, and for  *)
(* nothing else.                                                            *)
AnsweredAsFound ==
  \A t \in Threads :
    /\ reading[t] = "returned" =>
         raw[at[t]] # Unconvertible /\ began[t] # {}
    /\ reading[t] \in {"released", "undecodable"} => "kept" \notin began[t]
    /\ reading[t] = "released" => ~Living(RealmOf[at[t]])
    /\ reading[t] = "undecodable" => raw[at[t]] = Unconvertible

(* The datetime of a timestamp that was read from a field is the closest    *)
(* there is, as the docstring of RealmTimestamp.datetime says.              *)
Closest ==
  \A o \in given : raw[o.field] \in Timestamps => ClosestDateTime(raw[o.field])

(* Links as keys: equal ones stay equal while their Realms go away one      *)
(* after the other, and those of two Realms are kept apart as long as one   *)
(* of the two lives; that they are equal afterwards is the most that can    *)
(* happen to them.                                                          *)
KeysKept ==
  [][ \A x, y \in { o \in given : IsLink(o) } :
        /\ LinkEq(x, y) => LinkEq(x, y)'
        /\ LinkEq(x, y)' =>
             \/ RealmOf[x.field] = RealmOf[y.field]
             \/ ~Living(RealmOf[x.field])' /\ ~Living(RealmOf[y.field])' ]_fieldsVars
=============================================================================
