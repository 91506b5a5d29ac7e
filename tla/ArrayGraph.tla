----------------------------- MODULE ArrayGraph -----------------------------
(***************************************************************************)
(* The reference graph of the arrays found in a Realm file, and what it     *)
(* means for an array to be reachable.  A graph is a function from the      *)
(* offsets of the validated arrays to their child_refs, the sequence of     *)
(* offsets _add_references attached to them (parser.py:176-196).  Nothing   *)
(* here is computed by the program: these are the definitions its           *)
(* traversal is measured against.                                           *)
(***************************************************************************)
EXTENDS Naturals, Sequences, Functions

Labels == {"active", "shared", "inactive", "orphan"}   \* models.Reachability

Children(nodes, n) == Range(nodes[n])

(* A reference graph is well formed when every child reference leads to     *)
(* another validated array, which is what _add_references filters for.      *)
WellFormed(nodes) ==
  \A n \in DOMAIN nodes : nodes[n] \in Seq(DOMAIN nodes)

(* A set of arrays no reference leads out of.                               *)
Closed(nodes, S) == \A n \in S : Children(nodes, n) \subseteq S

(* The arrays reachable from a top reference: the least closed set that     *)
(* contains it, and nothing when the reference names no validated array.    *)
Reach(nodes, root) ==
  { n \in DOMAIN nodes :
      /\ root \in DOMAIN nodes
      /\ \A S \in SUBSET DOMAIN nodes :
           root \in S /\ Closed(nodes, S) => n \in S }

(* The labelling the documentation promises, stated per label: active and   *)
(* inactive arrays are reachable from one root only, shared ones from both, *)
(* orphans from neither (README "Reachability means").                      *)
CorrectLabels(nodes, activeRoot, inactiveRoot, labels) ==
  LET A == Reach(nodes, activeRoot)
      I == Reach(nodes, inactiveRoot)
  IN  /\ labels \in [DOMAIN nodes -> Labels]
      /\ \A n \in DOMAIN nodes :
           /\ labels[n] = "active"   <=> n \in A \ I
           /\ labels[n] = "inactive" <=> n \in I \ A
           /\ labels[n] = "shared"   <=> n \in A \cap I
           /\ labels[n] = "orphan"   <=> n \notin A \cup I
=============================================================================
