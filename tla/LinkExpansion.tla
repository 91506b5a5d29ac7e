---------------------------- MODULE LinkExpansion ----------------------------
(***************************************************************************)
(* Record.to_dict: the recursive expansion of the links of a record into    *)
(* nested containers (Record._to_dict, Realm._plain_value), while other     *)
(* threads may close the Realm or let go of it.                             *)
(*                                                                          *)
(* The recursion is a stack of frames of _to_dict.  Records and links refer *)
(* to the Realm weakly, and raise where they look for it and it is gone.  A *)
(* frame begins a field with `self._realm()._plain_value`: it holds this    *)
(* bound method, which owns the Realm, until the call returns at the end of *)
(* the field.  A field is one value or a collection of them, an object the  *)
(* sequence of what its fields contain; values are links, plain values or   *)
(* values that cannot be decoded.  Python's recursion limit is left out.    *)
(***************************************************************************)
EXTENDS Naturals, Sequences, SequencesExt

CONSTANTS
  Objects,      \* identities of records
  Plain,        \* a value that is no link
  Undecodable,  \* a value _convert raises on
  Layouts,      \* what the fields of the objects may be
  Damaged,      \* objects the native read raises on
  Unlisted,     \* those of them in no table of the schema
  MaxDepths     \* the values of max_depth

(* A value, and whether it ends its field or more of the field follows.     *)
Items == [value : Objects \cup {Plain, Undecodable}, at : {"within", "end"}]

ASSUME ItemsAssumption == {Plain, Undecodable} \cap Objects = {}
ASSUME UnlistedAssumption == Unlisted \subseteq Damaged /\ Damaged \subseteq Objects
ASSUME LayoutsAssumption ==
  \A f \in Layouts :
    /\ f \in [Objects -> Seq(Items)]
    /\ \A o \in Objects : f[o] # <<>> => f[o][Len(f[o])].at = "end"
ASSUME DepthsAssumption == MaxDepths \subseteq Nat

VARIABLES
  fields,    \* the fields of each object, never assigned
  maxDepth,  \* the argument max_depth
  held,      \* objects whose Record somebody else holds: they are in the map
  owned,     \* the application owns the Realm
  native,    \* the native view: open or closed
  stack,     \* frames: the object, the item it is at, the depth that remains
  inField,   \* the frame on top is in a field, past self._realm()
  pins,      \* the frames that hold a bound method of the Realm
  seen,      \* the set the frames share
  out,       \* what was emitted: the place in the result and what stands there
  status     \* running, returned, or why it raised

vars == <<fields, maxDepth, held, owned, native, stack, inField, pins, seen,
          out, status>>
result == <<fields, maxDepth>>
world == <<held, owned, native>>
call == <<stack, inField, pins, seen, out>>

Root == stack[1].object
Top == stack[Len(stack)]
OnPath == { stack[k].object : k \in DOMAIN stack }

(* Where in the result the item is that the frame on top is at.             *)
Place == [k \in DOMAIN stack |-> stack[k].next]

Running == status = "running"

Frame(object, left) == [object |-> object, next |-> 1, left |-> left]

Init ==
  /\ fields \in Layouts /\ maxDepth \in MaxDepths
  /\ \E root \in Objects :
       /\ held \in SUBSET (Objects \ Unlisted) /\ root \in held
       /\ stack = <<Frame(root, maxDepth)>>
       /\ seen = {root}
  /\ owned = TRUE /\ native = "open"
  /\ inField = FALSE /\ pins = {}
  /\ out = {}
  /\ status = "running"

(* The reference count of the Realm: it is there while anyone owns it.      *)
Alive == owned \/ pins # {}

Raise(cause) ==
  /\ status' = cause
  /\ UNCHANGED <<result, world, call>>

-----------------------------------------------------------------------------
(* Record._to_dict                                                          *)

Entry(frame) == fields[frame.object][frame.next]

(* The items of the field that begins where the frame on top is.            *)
Field ==
  { k \in Top.next..Len(fields[Top.object]) :
      \A j \in Top.next..(k - 1) : fields[Top.object][j].at = "within" }

(* _convert takes every item of the field, before any of it is expanded.    *)
Decodable == \A k \in Field : fields[Top.object][k].value # Undecodable

\* Mutated form: _plain_value is a function, and no frame owns the Realm.
BeginField_Unbound ==
  /\ Running /\ ~inField /\ Top.next <= Len(fields[Top.object])
  /\ Alive
  /\ \/ ~Decodable /\ Raise("undecodable")
     \/ /\ Decodable
        /\ inField' = TRUE
        /\ UNCHANGED <<result, world, stack, pins, seen, out, status>>

(* The next field of the frame on top: self._realm()._plain_value is taken, *)
(* then its argument self[key].                                             *)
BeginField ==
  /\ Running /\ ~inField /\ Top.next <= Len(fields[Top.object])
  /\ Alive
  /\ \/ ~Decodable /\ Raise("undecodable")
     \/ /\ Decodable
        /\ inField' = TRUE
        /\ pins' = pins \cup {Len(stack)}
        /\ UNCHANGED <<result, world, stack, seen, out, status>>

(* A frame past an item lets go of the bound method if its field is over.   *)
PinsPast(k) == IF Entry(stack[k]).at = "within" THEN pins ELSE pins \ {k}

(* The value of an item; the frame goes on in the field or to the next one. *)
Emit(value) ==
  /\ out' = out \cup {<<Place, value>>}
  /\ stack' = [stack EXCEPT ![Len(stack)].next = @ + 1]
  /\ inField' = (Entry(Top).at = "within")
  /\ pins' = PinsPast(Len(stack))
  /\ UNCHANGED <<result, world, seen, status>>

\* Mutated form: the identity stays in the set after its frame returned.
Return_KeepsSeen ==
  /\ Running /\ ~inField /\ Top.next > Len(fields[Top.object])
  /\ UNCHANGED seen
  /\ IF Len(stack) = 1
     THEN status' = "returned" /\ UNCHANGED <<stack, inField, pins, out>>
     ELSE /\ stack' = [Front(stack) EXCEPT ![Len(stack) - 1].next = @ + 1]
          /\ inField' = (Entry(stack[Len(stack) - 1]).at = "within")
          /\ pins' = PinsPast(Len(stack) - 1)
          /\ UNCHANGED <<out, status>>
  /\ UNCHANGED <<result, world>>

(* A frame has done its fields.  Its place in the result was noted when it  *)
(* was entered, so the frame below goes on to its next item.                *)
Return ==
  /\ Running /\ ~inField /\ Top.next > Len(fields[Top.object])
  /\ seen' = seen \ {Top.object}
  /\ IF Len(stack) = 1
     THEN status' = "returned" /\ UNCHANGED <<stack, inField, pins, out>>
     ELSE /\ stack' = [Front(stack) EXCEPT ![Len(stack) - 1].next = @ + 1]
          /\ inField' = (Entry(stack[Len(stack) - 1]).at = "within")
          /\ pins' = PinsPast(Len(stack) - 1)
          /\ UNCHANGED <<out, status>>
  /\ UNCHANGED <<result, world>>

-----------------------------------------------------------------------------
(* Realm._plain_value                                                       *)

Item == Entry(Top).value

PlainValue ==
  /\ Running /\ inField /\ Item = Plain
  /\ Emit(Plain)

Expanding == Top.left > 0

(* {"$ref": ...} of a link that is not followed, which names its table.     *)
Reference ==
  /\ Running /\ inField /\ Item \in Objects
  /\ Alive /\ ~Expanding
  /\ IF Item \in Unlisted THEN Raise("unknownTable") ELSE Emit(<<"$ref", Item>>)

\* Mutated form: the map is not consulted.
Resolvable_NativeOnly(object) == native = "open" /\ object \notin Damaged

(* RealmLink.resolve: from the map when the Record is alive, which those of *)
(* the frames are, and natively otherwise.                                  *)
Resolvable(object) ==
  \/ object \in held \cup OnPath
  \/ native = "open" /\ object \notin Damaged

\* Mutated form: only a link of the record to itself counts as a cycle.
Cyclic_SelfOnly(object) == object = Top.object

(* identity in seen                                                         *)
Cyclic(object) == object \in seen

\* Mutated form: a read that fails is tried again.
Unresolved_Retries ==
  /\ Running /\ inField /\ Item \in Objects
  /\ Alive /\ Expanding /\ ~Resolvable(Item)
  /\ UNCHANGED vars

Unresolved ==
  /\ Running /\ inField /\ Item \in Objects
  /\ Alive /\ Expanding /\ ~Resolvable(Item)
  /\ Raise("unreadable")

(* The target is on the path already: {"$ref": ...} instead of a loop.      *)
CycleReference ==
  /\ Running /\ inField /\ Item \in Objects
  /\ Alive /\ Expanding /\ Resolvable(Item) /\ Cyclic(Item)
  /\ Emit(<<"$ref", Item>>)

(* The target's own _to_dict is entered.                                    *)
Descend ==
  /\ Running /\ inField /\ Item \in Objects
  /\ Alive /\ Expanding /\ Resolvable(Item) /\ ~Cyclic(Item)
  /\ out' = out \cup {<<Place, "dict">>}
  /\ stack' = Append(stack, Frame(Item, Top.left - 1))
  /\ seen' = seen \cup {Item}
  /\ inField' = FALSE
  /\ UNCHANGED <<result, world, pins, status>>

(* The weak reference is looked up for every field, self._realm(), and for  *)
(* every link, link.resolve() or link.table_name.                           *)
Dereferences ==
  IF inField THEN Item \in Objects ELSE Top.next <= Len(fields[Top.object])

Released == Running /\ Dereferences /\ ~Alive /\ Raise("released")

Expand == BeginField \/ Return \/ PlainValue \/ Reference \/ Unresolved
            \/ CycleReference \/ Descend \/ Released

-----------------------------------------------------------------------------
(* Other threads                                                            *)

Close ==
  /\ owned /\ native = "open"
  /\ native' = "closed"
  /\ UNCHANGED <<result, held, owned, call, status>>

(* The last owner outside this call is let go.                              *)
Release ==
  /\ owned
  /\ owned' = FALSE
  /\ UNCHANGED <<result, held, native, call, status>>

(* Somebody lets go of a Record; this call holds the one it started from.   *)
Forget ==
  \E object \in held \ {Root} :
    /\ held' = held \ {object}
    /\ UNCHANGED <<result, owned, native, call, status>>

Others == Running /\ (Close \/ Release \/ Forget)

Ended == ~Running /\ UNCHANGED vars

Next == Expand \/ Others \/ Ended

Spec == Init /\ [][Next]_vars

(* The call waits for nobody; nobody has to close or release anything.      *)
FairSpec == Spec /\ WF_vars(Expand)

-----------------------------------------------------------------------------
(* The result, defined by ways through the records, not by a traversal      *)

(* A way is the items followed from the first record to a place in the      *)
(* result: each step is an object and the number of the item taken in it.   *)
ItemNumbers == UNION { DOMAIN fields[object] : object \in Objects }
Steps == { s \in [object : Objects, item : ItemNumbers] :
             s.item \in DOMAIN fields[s.object] }
Value(step) == fields[step.object][step.item].value

(* The ways the documented expansion has: every link is followed, as far as *)
(* the depth allows it and no record is inside itself.                      *)
Ways ==
  { w \in UNION { [1..n -> Steps] : n \in 1..(maxDepth + 1) } :
      /\ w[1].object = Root
      /\ \A k \in 1..(Len(w) - 1) : w[k + 1].object = Value(w[k])
      /\ \A j, k \in DOMAIN w : w[j].object = w[k].object => j = k }

PlaceOf(w) == [k \in DOMAIN w |-> w[k].item]
Target(w) == Value(w[Len(w)])

(* What stands there: a value, or a link in full or as a "$ref".            *)
InFull(w) == Len(w) <= maxDepth /\ \A k \in DOMAIN w : w[k].object # Target(w)

ValueAt(w) ==
  IF Target(w) \notin Objects THEN Target(w)
  ELSE IF InFull(w) THEN "dict" ELSE <<"$ref", Target(w)>>

-----------------------------------------------------------------------------
(* Properties                                                               *)

Causes == {"released", "undecodable", "unreadable", "unknownTable"}

(* Types of the variables of a call of to_dict.                             *)
TypeOK ==
  /\ fields \in Layouts /\ maxDepth \in MaxDepths
  /\ held \subseteq Objects /\ owned \in BOOLEAN /\ native \in {"open", "closed"}
  /\ stack \in Seq([object : Objects, next : Nat \ {0}, left : 0..maxDepth])
  /\ stack # <<>>
  /\ inField \in BOOLEAN /\ pins \subseteq Nat \ {0} /\ seen \subseteq Objects
  /\ status \in {"running", "returned"} \cup Causes

(* The one set all frames share is the path and nothing else, after every   *)
(* return and every branch; no object is twice on the path, and the depth   *)
(* that remains is the depth not used.                                      *)
SeenIsPath ==
  Running =>
    /\ seen = OnPath
    /\ \A j, k \in DOMAIN stack : stack[j].object = stack[k].object => j = k
    /\ \A k \in DOMAIN stack : stack[k].left = maxDepth + 1 - k

(* What is returned is the expansion: every link within max_depth in full,  *)
(* also where a record occurs several times, a "$ref" exactly beyond it and *)
(* where a record would be inside itself, whatever others do meanwhile.     *)
ResultExact ==
  status = "returned" => out = { <<PlaceOf(w), ValueAt(w)>> : w \in Ways }

(* A call fails only for what it came across: a field of an expanded record *)
(* that cannot be decoded, a target that is damaged or read after close, a  *)
(* link beyond the depth to no table of the schema.                         *)
FailsForCause ==
  /\ status = "undecodable" => \E w \in Ways : Target(w) = Undecodable
  /\ status = "unreadable" =>
       \E w \in Ways : /\ ValueAt(w) = "dict" /\ Target(w) \notin held
                       /\ native = "closed" \/ Target(w) \in Damaged
  /\ status = "unknownTable" =>
       \E w \in Ways : Len(w) > maxDepth /\ Target(w) \in Unlisted

(* The Realm can go away between two fields of the first record only: from  *)
(* where a link is followed until its expansion is done and the field over, *)
(* the calls in progress own it, whatever fields began and ended inside.    *)
NestedKeepsRealm ==
  status = "released" => ~owned /\ Len(stack) = 1 /\ ~inField

(* Every call ends, on cyclic data too.                                     *)
Termination == <>(~Running)
=============================================================================
