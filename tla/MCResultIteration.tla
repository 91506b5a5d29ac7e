------------------------- MODULE MCResultIteration -------------------------
(***************************************************************************)
(* Two consumers.  All result sets of up to two entries of one or two       *)
(* segments, and some of three; indexes beyond either end; slices forwards, *)
(* backwards, with a step and empty.                                        *)
(***************************************************************************)
EXTENDS ResultIteration

CONSTANTS c1, c2

Good == <<"readable">>
Bad == <<"damaged">>
Late == <<"readable", "damaged">>
Long == <<"readable", "readable">>
Shapes == {Good, Bad, Late, Long}

MCConsumers == {c1, c2}
MCLayouts ==
  UNION { [1..n -> Shapes] : n \in 0..2 } \cup
    { <<a, b, d>> : a \in {Good, Late}, b \in {Bad, Long}, d \in {Good, Bad} }
MCIndexes == -3..2

Backwards(n) == [j \in 1..n |-> n - j]
MCSlices ==
  [n \in 0..3 |-> {<<>>, Backwards(n)}
                   \cup (IF n > 1 THEN {<<1>>} ELSE {})
                   \cup (IF n > 2 THEN {<<0, 2>>, <<1, 2>>} ELSE {})]
=============================================================================
