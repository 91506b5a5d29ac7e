---------------------------- MODULE StringCarving ----------------------------
(***************************************************************************)
(* parser._extract_strings: what is carved from the payloads of the arrays. *)
(* The UTF-8 scanner is a loop over positions, the UTF-16 one a regular     *)
(* expression.                                                              *)
(*                                                                          *)
(* Bytes are known by the part they can play.  Whether a sequence of        *)
(* several bytes is a printable character is told by its first byte: one    *)
(* that is the lead of an unprintable character or of none whatever follows *)
(* is "stray".                                                              *)
(***************************************************************************)
EXTENDS Integers, Sequences, FiniteSets

CONSTANTS
  Inputs,    \* what there may be to carve: nodes and the size of the file
  Minimums,  \* values of minimum_string
  None       \* no run

Bytes == {"text",     \* printable ASCII
          "tab", "zero",
          "cont",     \* a continuation byte
          "lead2", "lead3", "lead4",
          "stray"}

Node == [has_refs : BOOLEAN, payload : Seq(Bytes)]

ASSUME InputsAssumption ==
  \A i \in Inputs :
    /\ i.nodes \in Seq(Node) /\ i.size \in Nat
    /\ \A n \in DOMAIN i.nodes : Len(i.nodes[n].payload) <= i.size
ASSUME MinimumsAssumption == Minimums \subseteq Nat \ {0}
ASSUME NoneAssumption == None \notin Nat

VARIABLES
  input,    \* nodes and data, never assigned
  minimum,  \* the argument minimum
  node,     \* the node the loop is at
  pc,       \* where in its body
  index,    \* _utf8_strings: the position
  start,    \* ... where the run began, or None
  chars,    \* ... the number of characters in it
  strings   \* what was found: node, encoding, first byte, byte behind it

arguments == <<input, minimum>>
run == <<start, chars>>
vars == <<arguments, node, pc, index, run, strings>>

Payload(n) == input.nodes[n].payload
payload == Payload(node)

Init ==
  /\ input \in Inputs /\ minimum \in Minimums
  /\ node = 1 /\ pc = "node"
  /\ index = 0 /\ start = None /\ chars = 0
  /\ strings = {}

Found(encoding, first, behind) == <<node, encoding, first, behind>>

-----------------------------------------------------------------------------
(* _utf8_strings                                                            *)

Leads == {"text", "tab", "lead2", "lead3", "lead4"}

(* How many bytes are decoded, by the first one.                            *)
Width(byte) ==
  CASE byte \in {"text", "tab", "zero"} -> 1
    [] byte \in {"cont", "lead2"} -> 2
    [] byte = "lead3" -> 3
    [] OTHER -> 4

WidthAt(p, i) == Width(p[i + 1])

(* A printable character or a tab is encoded in p from i on.                *)
Printable(p, i) ==
  /\ i < Len(p) /\ p[i + 1] \in Leads
  /\ i + WidthAt(p, i) <= Len(p)
  /\ \A k \in 1..(WidthAt(p, i) - 1) : p[i + k + 1] = "cont"

(* The character extends the run or begins one.                             *)
Take ==
  /\ pc = "utf8" /\ Printable(payload, index)
  /\ start' = IF start = None THEN index ELSE start
  /\ chars' = chars + 1
  /\ index' = index + WidthAt(payload, index)
  /\ UNCHANGED <<arguments, node, pc, strings>>

(* The run that ends here, if it has the minimum of characters.             *)
Kept ==
  IF start # None /\ chars >= minimum
  THEN strings \cup {Found("utf-8", start, index)} ELSE strings

\* Mutated form: the bytes that were to be decoded are skipped as a whole.
Break_SkipsAll ==
  /\ pc = "utf8" /\ index < Len(payload) /\ ~Printable(payload, index)
  /\ strings' = Kept
  /\ start' = None /\ chars' = 0
  /\ index' = index + WidthAt(payload, index)
  /\ UNCHANGED <<arguments, node, pc>>

(* Malformed, cut off or unprintable: scanning resumes at the next byte.    *)
Break ==
  /\ pc = "utf8" /\ index < Len(payload) /\ ~Printable(payload, index)
  /\ strings' = Kept
  /\ start' = None /\ chars' = 0
  /\ index' = index + 1
  /\ UNCHANGED <<arguments, node, pc>>

-----------------------------------------------------------------------------
(* _utf16le_pattern                                                         *)

(* A printable ASCII character in UTF-16LE, and n of them in a row.         *)
Printable16(p, i) ==
  i >= 0 /\ i + 2 <= Len(p) /\ p[i + 1] = "text" /\ p[i + 2] = "zero"
Row(p, i, n) == \A k \in 0..(n - 1) : Printable16(p, i + 2 * k)

(* The pattern is compiled only for a minimum that can occur in the file.   *)
Compiled == minimum <= input.size \div 2

EndUtf8 ==
  /\ pc = "utf8" /\ index >= Len(payload)
  /\ strings' = Kept
  /\ start' = None /\ chars' = 0
  /\ IF Compiled THEN pc' = "utf16" /\ index' = 0 /\ UNCHANGED node
                 ELSE pc' = "node" /\ node' = node + 1 /\ UNCHANGED index
  /\ UNCHANGED arguments

\* Mutated form: {minimum} instead of {minimum,} cuts long rows in pieces.
Match16_Exactly ==
  /\ pc = "utf16" /\ Row(payload, index, minimum)
  /\ strings' = strings \cup {Found("utf-16le", index, index + 2 * minimum)}
  /\ index' = index + 2 * minimum
  /\ UNCHANGED <<arguments, node, pc, run>>

(* The pattern is greedy and finditer goes on behind a match, or else at    *)
(* the next byte, of any parity.                                            *)
Match16 ==
  /\ pc = "utf16"
  /\ \E n \in minimum..Len(payload) :
       /\ Row(payload, index, n) /\ ~Printable16(payload, index + 2 * n)
       /\ strings' = strings \cup {Found("utf-16le", index, index + 2 * n)}
       /\ index' = index + 2 * n
  /\ UNCHANGED <<arguments, node, pc, run>>

Skip16 ==
  /\ pc = "utf16" /\ index < Len(payload) /\ ~Row(payload, index, minimum)
  /\ index' = index + 1
  /\ UNCHANGED <<arguments, node, pc, run, strings>>

EndUtf16 ==
  /\ pc = "utf16" /\ index >= Len(payload)
  /\ pc' = "node" /\ node' = node + 1
  /\ UNCHANGED <<arguments, index, run, strings>>

-----------------------------------------------------------------------------
(* The loop over the nodes                                                  *)

(* Encoded references are not text.                                         *)
SkipReferences ==
  /\ pc = "node" /\ node <= Len(input.nodes) /\ input.nodes[node].has_refs
  /\ node' = node + 1
  /\ UNCHANGED <<arguments, pc, index, run, strings>>

EnterNode ==
  /\ pc = "node" /\ node <= Len(input.nodes) /\ ~input.nodes[node].has_refs
  /\ pc' = "utf8" /\ index' = 0
  /\ UNCHANGED <<arguments, node, run, strings>>

Return ==
  /\ pc = "node" /\ node > Len(input.nodes)
  /\ pc' = "done"
  /\ UNCHANGED <<arguments, node, index, run, strings>>

Finished == pc = "done" /\ UNCHANGED vars

Next ==
  \/ SkipReferences \/ EnterNode \/ Return
  \/ Take \/ Break \/ EndUtf8
  \/ Match16 \/ Skip16 \/ EndUtf16
  \/ Finished

Spec == Init /\ [][Next]_vars

-----------------------------------------------------------------------------
(* What the strings of a payload p are, without scanning                    *)

(* The byte at b belongs to a printable character.                          *)
Covered(p, b) == \E i \in 0..b : Printable(p, i) /\ b < i + WidthAt(p, i)

(* A stretch of printable characters that can be made no longer.            *)
IsRun(p, s, e) ==
  /\ s < e
  /\ \A b \in s..(e - 1) : Covered(p, b)
  /\ s = 0 \/ ~Covered(p, s - 1)
  /\ ~Covered(p, e)

(* The characters that begin in it.                                         *)
CharsIn(p, s, e) == { i \in s..(e - 1) : Printable(p, i) }

Utf8Strings(p) ==
  { r \in (0..Len(p)) \X (0..Len(p)) :
      IsRun(p, r[1], r[2]) /\ Cardinality(CharsIn(p, r[1], r[2])) >= minimum }

(* The same in UTF-16LE, where all characters are two bytes.                *)
Utf16Strings(p) ==
  { r \in (0..Len(p)) \X (0..Len(p)) :
      \E n \in minimum..Len(p) :
        /\ r[2] = r[1] + 2 * n /\ Row(p, r[1], n)
        /\ ~Printable16(p, r[1] - 2) /\ ~Printable16(p, r[2]) }

StringsOf(n, encoding) ==
  { r \in (0..Len(Payload(n))) \X (0..Len(Payload(n))) :
      <<n, encoding, r[1], r[2]>> \in strings }

-----------------------------------------------------------------------------
(* Properties                                                               *)

Positions == Nat \cup {None}

(* Types of the variables of an extraction; the position never leaves the   *)
(* payload.                                                                 *)
TypeOK ==
  /\ input \in Inputs /\ minimum \in Minimums
  /\ node \in 1..(Len(input.nodes) + 1)
  /\ pc \in {"node", "utf8", "utf16", "done"}
  /\ pc \in {"utf8", "utf16"} => node <= Len(input.nodes) /\ index <= Len(payload)
  /\ index \in Nat /\ start \in Positions /\ chars \in Nat
  /\ strings \subseteq Nat \X {"utf-8", "utf-16le"} \X Nat \X Nat

(* The scanner finds exactly the stretches of printable characters with the *)
(* minimum of characters, whatever malformed, truncated or unprintable      *)
(* bytes lie between them, and nothing in references.                       *)
Utf8Exact ==
  pc = "done" =>
    \A n \in DOMAIN input.nodes :
      StringsOf(n, "utf-8") = IF input.nodes[n].has_refs THEN {}
                              ELSE Utf8Strings(Payload(n))

(* So does the pattern, also where rows begin at odd offsets, and where it  *)
(* is left out for a minimum too large for the file.                        *)
Utf16Exact ==
  pc = "done" =>
    \A n \in DOMAIN input.nodes :
      StringsOf(n, "utf-16le") = IF input.nodes[n].has_refs THEN {}
                                 ELSE Utf16Strings(Payload(n))
=============================================================================
