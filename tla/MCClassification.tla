-------------------------- MODULE MCClassification --------------------------
(***************************************************************************)
(* Every reference graph over two arrays, with the references of an array   *)
(* in either order, and every graph over three arrays, with those of the    *)
(* first in any order and those of the others by offset.  As _add_references*)
(* leaves them (dict.fromkeys), the child_refs of an array do not repeat;   *)
(* self references, cycles and arrays with several parents all occur.  Top  *)
(* references are resolvable, dangling (40 in a graph without it) or null.  *)
(***************************************************************************)
EXTENDS Classification, SequencesExt

MCOffsets == {24, 32, 40}
AnyOrder(offsets)  == UNION { SetToSeqs(S) : S \in SUBSET offsets }
ByOffset(offsets)  == { SetToSortSeq(S, <) : S \in SUBSET offsets }
PairGraphs   == [{24, 32} -> AnyOrder({24, 32})]
TripleGraphs ==
  { g \in [MCOffsets -> AnyOrder(MCOffsets)] :
      \A n \in {32, 40} : g[n] \in ByOffset(MCOffsets) }
MCGraphs  == PairGraphs \cup TripleGraphs
MCTopRefs == MCOffsets \cup {0}
=============================================================================
