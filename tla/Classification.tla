--------------------------- MODULE Classification ---------------------------
(***************************************************************************)
(* parser._classify_nodes: two runs of the iterative traversal _reachable,  *)
(* one from each top reference of the header, and the labelling of every    *)
(* array by the two sets they return.  The traversal is modelled one loop   *)
(* step at a time, with its stack `pending`, its visited set `seen` and the *)
(* generator over the children of the array being expanded.                 *)
(***************************************************************************)
EXTENDS ArrayGraph, FiniteSets

CONSTANTS
  Graphs,      \* the reference graphs _add_references may hand over
  TopRefs,     \* the values a top reference may have, resolvable or not
  NoLabels     \* classified before the labelling has run

ASSUME GraphsAssumption == \A g \in Graphs : WellFormed(g)
ASSUME NoLabelsAssumption ==
  \A g \in Graphs : NoLabels \notin [DOMAIN g -> Labels]

VARIABLES
  nodes,         \* offset -> child_refs: the argument, never assigned
  activeRoot,    \* header.active_top_ref
  inactiveRoot,  \* header.inactive_top_ref
  pc,            \* where the run is
  pending,       \* _reachable: the stack of offsets still to look at
  seen,          \* _reachable: the offsets already expanded
  rest,          \* _reachable: the child_refs the generator has not tested yet
  active,        \* the set the first traversal returned
  inactive,      \* the set the second traversal returned
  classified     \* the labels, by offset

vars == <<nodes, activeRoot, inactiveRoot, pc, pending, seen, rest, active,
          inactive, classified>>

walk == <<pending, seen, rest>>
args == <<nodes, activeRoot, inactiveRoot>>

Phases == {"enterActive", "walkActive", "enterInactive", "walkInactive",
           "label", "done"}

Init ==
  /\ nodes \in Graphs
  /\ activeRoot \in TopRefs
  /\ inactiveRoot \in TopRefs
  /\ pc = "enterActive"
  /\ pending = <<>> /\ seen = {} /\ rest = <<>>
  /\ active = {} /\ inactive = {}
  /\ classified = NoLabels

-----------------------------------------------------------------------------
(* _reachable(nodes, root)                                                  *)

\* Mutated form: one visited set serves both traversals.
StartWalk_KeepsSeen(root) ==
  /\ root \in DOMAIN nodes
  /\ pending' = <<root>>
  /\ rest' = <<>>
  /\ UNCHANGED seen

(* A root no candidate resolves returns the empty set at once; any other    *)
(* starts the traversal with the root alone on the stack.                   *)
StartWalk(root) ==
  /\ root \in DOMAIN nodes
  /\ pending' = <<root>>
  /\ seen' = {}
  /\ rest' = <<>>

\* Mutated form: the visited test comes before the pop and skips it.
SkipSeen_KeepsTop ==
  /\ rest = <<>> /\ pending # <<>>
  /\ pending[Len(pending)] \in seen
  /\ UNCHANGED walk

(* The loop takes the last offset of the stack and skips it when it has     *)
(* been expanded since it was pushed.                                       *)
SkipSeen ==
  /\ rest = <<>> /\ pending # <<>>
  /\ pending[Len(pending)] \in seen
  /\ pending' = SubSeq(pending, 1, Len(pending) - 1)
  /\ UNCHANGED <<seen, rest>>

\* Mutated form: an array is expanded again when it was pushed twice.
Expand_Again ==
  LET current == pending[Len(pending)]
  IN  /\ rest = <<>> /\ pending # <<>>
      /\ pending' = SubSeq(pending, 1, Len(pending) - 1)
      /\ seen' = seen \cup {current}
      /\ rest' = nodes[current]

Expand ==
  LET current == pending[Len(pending)]
  IN  /\ rest = <<>> /\ pending # <<>>
      /\ current \notin seen
      /\ pending' = SubSeq(pending, 1, Len(pending) - 1)
      /\ seen' = seen \cup {current}
      /\ rest' = nodes[current]

\* Mutated form: a visited child ends the loop over the children.
PushChild_StopsAtSeen ==
  /\ rest # <<>>
  /\ IF Head(rest) \in seen
     THEN rest' = <<>> /\ UNCHANGED pending
     ELSE rest' = Tail(rest) /\ pending' = Append(pending, Head(rest))
  /\ UNCHANGED seen

(* pending.extend(ref for ref in child_refs if ref not in seen), one        *)
(* reference at a time.                                                     *)
PushChild ==
  /\ rest # <<>>
  /\ pending' = IF Head(rest) \in seen THEN pending
                                       ELSE Append(pending, Head(rest))
  /\ rest' = Tail(rest)
  /\ UNCHANGED seen

WalkStep == SkipSeen \/ Expand \/ PushChild

WalkDone == rest = <<>> /\ pending = <<>>

-----------------------------------------------------------------------------
(* _classify_nodes(nodes, header)                                           *)

EnterActive ==
  /\ pc = "enterActive"
  /\ \/ StartWalk(activeRoot) /\ pc' = "walkActive"
     \/ /\ activeRoot \notin DOMAIN nodes
        /\ pc' = "enterInactive"
        /\ UNCHANGED walk
  /\ UNCHANGED <<args, active, inactive, classified>>

WalkActive ==
  /\ pc = "walkActive"
  /\ WalkStep
  /\ UNCHANGED <<args, pc, active, inactive, classified>>

ReturnActive ==
  /\ pc = "walkActive"
  /\ WalkDone
  /\ active' = seen
  /\ pc' = "enterInactive"
  /\ UNCHANGED <<args, walk, inactive, classified>>

EnterInactive ==
  /\ pc = "enterInactive"
  /\ \/ StartWalk(inactiveRoot) /\ pc' = "walkInactive"
     \/ /\ inactiveRoot \notin DOMAIN nodes
        /\ pc' = "label"
        /\ UNCHANGED walk
  /\ UNCHANGED <<args, active, inactive, classified>>

WalkInactive ==
  /\ pc = "walkInactive"
  /\ WalkStep
  /\ UNCHANGED <<args, pc, active, inactive, classified>>

ReturnInactive ==
  /\ pc = "walkInactive"
  /\ WalkDone
  /\ inactive' = seen
  /\ pc' = "label"
  /\ UNCHANGED <<args, walk, active, classified>>

\* Mutated form: the active set is tested before the shared one.
LabelOf_ActiveFirst(offset) ==
  CASE offset \in active            -> "active"
    [] offset \in inactive \ active -> "inactive"
    [] OTHER                        -> "orphan"

(* The order in which the offsets are visited (sorted) is the order of the  *)
(* report and does not change a label.                                      *)
LabelOf(offset) ==
  CASE offset \in active \cap inactive -> "shared"
    [] offset \in active \ inactive    -> "active"
    [] offset \in inactive \ active    -> "inactive"
    [] OTHER                           -> "orphan"

LabelNodes ==
  /\ pc = "label"
  /\ classified' = [offset \in DOMAIN nodes |-> LabelOf(offset)]
  /\ pc' = "done"
  /\ UNCHANGED <<args, walk, active, inactive>>

Finished == pc = "done" /\ UNCHANGED vars

Next ==
  \/ EnterActive \/ WalkActive \/ ReturnActive
  \/ EnterInactive \/ WalkInactive \/ ReturnInactive
  \/ LabelNodes
  \/ Finished

Spec == Init /\ [][Next]_vars

-----------------------------------------------------------------------------
(* Properties                                                               *)

(* Types of the variables of a run of _classify_nodes.                      *)
TypeOK ==
  /\ nodes \in Graphs
  /\ pc \in Phases
  /\ pending \in Seq(DOMAIN nodes) /\ rest \in Seq(DOMAIN nodes)
  /\ seen \subseteq DOMAIN nodes
  /\ active \subseteq DOMAIN nodes /\ inactive \subseteq DOMAIN nodes
  /\ classified \in {NoLabels} \cup [DOMAIN nodes -> Labels]

Walking == pc \in {"walkActive", "walkInactive"}
CurrentRoot == IF pc = "walkActive" THEN activeRoot ELSE inactiveRoot

(* The loop invariant of _reachable: it never takes up an array the root    *)
(* does not reach ("rather than inventing structure", its docstring), and   *)
(* whatever an expanded array refers to is expanded, on the stack or still  *)
(* to be tested, so that skipping a visited or repeated reference loses     *)
(* nothing, on cyclic graphs too.                                           *)
WalkInv ==
  Walking =>
    /\ CurrentRoot \in seen \cup Range(pending)
    /\ seen \cup Range(pending) \cup Range(rest) \subseteq Reach(nodes, CurrentRoot)
    /\ \A n \in seen :
         Children(nodes, n) \subseteq seen \cup Range(pending) \cup Range(rest)

(* The two sets the labels are computed from are exactly what each top      *)
(* reference reaches, the second walk leaving the first result alone.       *)
ReachExact ==
  /\ pc \in {"enterInactive", "walkInactive", "label", "done"} =>
       active = Reach(nodes, activeRoot)
  /\ pc \in {"label", "done"} => inactive = Reach(nodes, inactiveRoot)

(* What a traversal has left to do: the arrays not yet visited and their    *)
(* references, the references left to test, the offsets left on the stack.  *)
Work ==
  LET unseen == DOMAIN nodes \ seen
      refs   == FoldFunctionOnSet(LAMBDA r, n : Len(r) + n, 0, nodes, unseen)
  IN  2 * (Cardinality(unseen) + refs + Len(rest)) + Len(pending)

(* Every step of the loop leaves less to do, although a step may push an    *)
(* array that is on the stack already: cycles and arrays with many parents  *)
(* cost one visit and one test per reference ("harmless", the docstring).   *)
WorkShrinks == [][ WalkActive \/ WalkInactive => Work' < Work ]_vars

(* The labelling is the documented one and is published in one step.        *)
Labelling == INSTANCE ReachabilityLabels WITH labels <- classified
ImplementsLabelling == Labelling!Spec
=============================================================================
