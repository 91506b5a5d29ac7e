--------------------------- MODULE MCLinkExpansion ---------------------------
(***************************************************************************)
(* Every object graph over two records with up to two items each, those of  *)
(* the first in one field or two, and over three records with two links,    *)
(* two links and at most one: cycles of all lengths, a record linked twice, *)
(* a shared target at two depths.  d is in no table, c is damaged.          *)
(***************************************************************************)
EXTENDS LinkExpansion

CONSTANTS a, b, c, d

MCObjects == {a, b, c, d}
MCDepths == {0, 1, 3}

Complete(s) == s = <<>> \/ s[Len(s)].at = "end"
Contents(n, values) ==
  { s \in UNION { [1..k -> [value : values, at : {"within", "end"}]] : k \in 0..n } :
      Complete(s) }
Layout(x, y, z) ==
  [o \in MCObjects |-> CASE o = a -> x [] o = b -> y [] o = c -> z [] OTHER -> <<>>]

Separate(s) == \A k \in DOMAIN s : s[k].at = "end"
Pairs   == { Layout(x, y, <<>>) :
               x \in Contents(2, {a, b, Plain, Undecodable}),
               y \in { s \in Contents(2, {a, b, Undecodable}) : Separate(s) } }
Strays  == { Layout(x, y, <<>>) : x \in Contents(2, {b, d}), y \in Contents(1, {a, d}) }
Triples == { Layout(x, y, z) :
               x \in { s \in Contents(2, {a, b, c}) : Len(s) = 2 },
               y \in { s \in Contents(2, {a, b, c}) : Len(s) = 2 /\ Separate(s) },
               z \in Contents(1, {a, b}) }
MCLayouts == Pairs \cup Strays \cup Triples
=============================================================================
