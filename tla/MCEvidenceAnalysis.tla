------------------------- MODULE MCEvidenceAnalysis -------------------------
(***************************************************************************)
(* Two files under one path: empty, a Realm with one page of arrays or with *)
(* a short page at the end, random bytes in whole pages and not, bytes that *)
(* are random at one end only.  Others change something twice, so that a    *)
(* file can be replaced and put back, written and cut off.                  *)
(***************************************************************************)
EXTENDS EvidenceAnalysis

CONSTANTS this, other, Realm, Leaf, Noise, Scrap

MCInodes == {this, other}
MCPages == {Realm, Leaf, Noise, Scrap}
MCContents == { <<>>, <<Realm, Leaf>>, <<Realm, Noise, Scrap>>,
                <<Noise, Leaf, Noise>>, <<Leaf, Noise>>, <<Noise, Scrap>> }
=============================================================================
