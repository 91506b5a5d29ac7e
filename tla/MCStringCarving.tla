-------------------------- MODULE MCStringCarving ---------------------------
(***************************************************************************)
(* All payloads of up to five bytes: characters of one to three bytes, cut  *)
(* off and interrupted at every place, UTF-16 rows at even and odd offsets; *)
(* of four bytes also stray leads and characters of four bytes.  Files with *)
(* several nodes have references that look like text.                       *)
(***************************************************************************)
EXTENDS StringCarving

Payloads(n, bytes) == UNION { [1..k -> bytes] : k \in 0..n }
Data(p) == [has_refs |-> FALSE, payload |-> p]
References(p) == [has_refs |-> TRUE, payload |-> p]

(* The file's header and that of each array come before the payloads.       *)
Headers(nodes) == 24 + 8 * nodes

One == { [nodes |-> <<Data(p)>>, size |-> Headers(1) + Len(p)] :
           p \in Payloads(5, {"text", "zero", "cont", "lead2", "lead3"})
                   \cup Payloads(4, Bytes) }
Several ==
  { [nodes |-> <<Data(p), References(q), Data(q)>>,
     size |-> Headers(3) + Len(p) + 2 * Len(q)] :
      p \in Payloads(2, {"text", "zero", "lead2", "cont"}),
      q \in Payloads(2, {"text", "zero", "lead2", "cont"}) }

MCInputs == One \cup Several
=============================================================================
