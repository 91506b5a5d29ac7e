--------------------------- MODULE MCRealmSession ---------------------------
(***************************************************************************)
(* Instances of RealmSession.  Two threads over two readable objects and a  *)
(* damaged one, which share an object key in different tables; one thread   *)
(* over the same objects, whose native reads are counted.                   *)
(***************************************************************************)
EXTENDS RealmSession, TLC

CONSTANTS c1, c2, r1, r2, r3, r4

OneCaller    == {c1}
TwoCallers   == {c1, c2}
ThreeRecords == {r1, r2, r3}
FourRecords  == {r1, r2, r3, r4}

MCTables  == {1, 2, 3}
MCKeys    == {7}
MCDamaged == {<<3, 7>>}

(* Callers and Record objects are interchangeable.                          *)
ThreadsSymmetry == Permutations(TwoCallers) \cup Permutations(FourRecords)
=============================================================================
