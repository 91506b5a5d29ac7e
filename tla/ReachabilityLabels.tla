------------------------- MODULE ReachabilityLabels -------------------------
(***************************************************************************)
(* What classification promises, in one step: from the graph and the two    *)
(* top references of the header, every array gets the label of the roots    *)
(* that reach it, once, and the answer never changes afterwards.            *)
(***************************************************************************)
EXTENDS ArrayGraph

CONSTANTS
  Graphs,      \* the reference graphs a scan may produce
  TopRefs,     \* the values a top reference of the header may have
  NoLabels     \* the answer before there is one

VARIABLES nodes, activeRoot, inactiveRoot, labels

vars == <<nodes, activeRoot, inactiveRoot, labels>>

Init ==
  /\ nodes \in Graphs
  /\ activeRoot \in TopRefs
  /\ inactiveRoot \in TopRefs
  /\ labels = NoLabels

Publish ==
  /\ labels = NoLabels
  /\ CorrectLabels(nodes, activeRoot, inactiveRoot, labels')
  /\ UNCHANGED <<nodes, activeRoot, inactiveRoot>>

Spec == Init /\ [][Publish]_vars
=============================================================================
