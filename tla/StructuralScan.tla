--------------------------- MODULE StructuralScan ---------------------------
(***************************************************************************)
(* What parser._analyze makes of the bytes of a Realm file before the       *)
(* arrays are labelled: the header, the arrays found by their signature,    *)
(* the references between them and the warnings on the top references.  The *)
(* scan is a loop over the hits of the signature, the references a loop     *)
(* over the elements of each array; both are modelled one turn at a time.   *)
(*                                                                          *)
(* A number of several bytes is exact below 2^16 and keeps its two lowest   *)
(* bytes above: it stays beyond the end of every file modelled here.        *)
(***************************************************************************)
EXTENDS ArrayGraph, Integers, FiniteSets

CONSTANTS
  Files,  \* the contents a file may have, sequences of bytes
  None    \* no header

Byte == 0..255
MaxSize == 65536

(* models.RealmHeader, as far as the analysis goes on with it.              *)
Headers == [active : Nat, inactive : Nat, reserved : Byte]

ASSUME NoneAssumption == None \notin Headers
ASSUME FilesAssumption == \A f \in Files : f \in Seq(Byte) /\ Len(f) <= MaxSize

VARIABLES
  data,        \* the mapped file, never assigned
  pc,          \* where the analysis is
  header,      \* what _parse_header returned
  offset,      \* _scan_array_candidates: the hit the loop is at, -1 for none
  candidates,  \* the keys of the dict of candidates, and then of `nodes`
  current,     \* _add_references: the array the outer loop is at
  index,       \* ... and the element of it the inner loop is at
  refs,        \* ... and the references attached to it so far
  nodes,       \* the result: offset -> child_refs, as far as it got
  warnings     \* which warnings were appended

vars == <<data, pc, header, offset, candidates, current, index, refs, nodes,
          warnings>>

FILE_HEADER_SIZE == 24
ARRAY_HEADER_SIZE == 8
WIDTHS == <<0, 1, 2, 4, 8, 16, 32, 64>>

-----------------------------------------------------------------------------
(* Bytes                                                                    *)

At(i) == data[i + 1]

(* The bytes from i are all ones, or those of a given sequence.             *)
AllOnes(i) == \A k \in 0..7 : At(i + k) = 255
Matches(i, bytes) == \A k \in 1..Len(bytes) : At(i + k - 1) = bytes[k]

(* int.from_bytes(data[i : i + size], "little"), and struct's <Q.           *)
Little(i, size) ==
  At(i) + (IF size > 1 THEN 256 * At(i + 1) ELSE 0)
        + (IF \E k \in 2..(size - 1) : At(i + k) # 0 THEN MaxSize ELSE 0)

(* int.from_bytes(data[i : i + 3], "big").                                  *)
Big(i) == 65536 * At(i) + 256 * At(i + 1) + At(i + 2)

REALM_MAGIC == <<84, 45, 68, 66>>
ARRAY_SIGNATURE == <<65, 65, 65, 65>>
STREAMING_COOKIE == <<200, 38, 229, 55, 82, 18, 52, 48>>

-----------------------------------------------------------------------------
(* _parse_header                                                            *)

ActiveSlot == At(23) % 2
Streaming == ActiveSlot = 0 /\ AllOnes(0)
Footer == Len(data) - 16

(* A file with the magic bytes, and with its footer when it was streamed.   *)
Recognized ==
  /\ Len(data) >= FILE_HEADER_SIZE
  /\ Matches(16, REALM_MAGIC)
  /\ Streaming => /\ Len(data) >= FILE_HEADER_SIZE + 16
                  /\ Matches(Footer + 8, STREAMING_COOKIE)

(* The references are the ones of the active slot and of the other slot, or *)
(* the footer's and none; a reference of all ones is none.                  *)
HeaderFields ==
  LET slot(n) == Little(8 * n, 8)
      other == 1 - ActiveSlot
  IN  [active   |-> IF Streaming THEN Little(Footer, 8) ELSE slot(ActiveSlot),
       inactive |-> IF Streaming \/ AllOnes(8 * other) THEN 0 ELSE slot(other),
       reserved |-> At(22)]

ParseHeader ==
  /\ pc = "header"
  /\ IF Recognized THEN header' = HeaderFields /\ pc' = "scan"
                   ELSE header' = None /\ pc' = "done"
  /\ UNCHANGED <<data, offset, candidates, current, index, refs, nodes,
                 warnings>>

-----------------------------------------------------------------------------
(* _array_size and _scan_array_candidates                                   *)

Flags(i) == At(i + 4)
WidthScheme(i) == (Flags(i) \div 8) % 4
Width(i) == WIDTHS[(Flags(i) % 8) + 1]
HasRefs(i) == (Flags(i) \div 64) % 2 = 1
ElementCount(i) == Big(i + 5)

(* The payload before it is aligned, by the width scheme of the array.      *)
RawPayload(i) ==
  IF WidthScheme(i) = 0 THEN (ElementCount(i) * Width(i) + 7) \div 8
  ELSE IF WidthScheme(i) = 1 THEN ElementCount(i) * Width(i)
  ELSE ElementCount(i)

PayloadSize(i) == ((RawPayload(i) + 7) \div 8) * 8
ArraySize(i) == ARRAY_HEADER_SIZE + PayloadSize(i)

\* Mutated form: an array may end beyond the file.
Plausible_Unbounded(i) ==
  /\ i % 8 = 0
  /\ i + ARRAY_HEADER_SIZE <= Len(data)
  /\ WidthScheme(i) # 3

(* What makes a hit a candidate: its alignment, a known width scheme and an *)
(* end within the file.                                                     *)
Plausible(i) ==
  /\ i % 8 = 0
  /\ i + ARRAY_HEADER_SIZE <= Len(data)
  /\ WidthScheme(i) # 3
  /\ i + ArraySize(i) <= Len(data)

(* Where the signature occurs behind the file header.                       *)
Hits == { i \in FILE_HEADER_SIZE..(Len(data) - 4) : Matches(i, ARRAY_SIGNATURE) }

(* data.find(ARRAY_SIGNATURE, start)                                        *)
Find(start) ==
  LET ahead == { i \in Hits : i >= start }
  IN  IF ahead = {} THEN -1
      ELSE CHOOSE i \in ahead : \A j \in ahead : i <= j

StartScan ==
  /\ pc = "scan"
  /\ offset' = Find(FILE_HEADER_SIZE)
  /\ pc' = "hit"
  /\ UNCHANGED <<data, header, candidates, current, index, refs, nodes,
                 warnings>>

\* Mutated form: the search resumes behind the signature.
ScanHit_SkipsSignature ==
  /\ pc = "hit" /\ offset # -1
  /\ candidates' = IF Plausible(offset) THEN candidates \cup {offset}
                                        ELSE candidates
  /\ offset' = Find(offset + 4)
  /\ UNCHANGED <<data, pc, header, current, index, refs, nodes, warnings>>

(* One turn of the loop; the search resumes one byte on, so that hits may   *)
(* overlap and lie inside the payload of a candidate.                       *)
ScanHit ==
  /\ pc = "hit" /\ offset # -1
  /\ candidates' = IF Plausible(offset) THEN candidates \cup {offset}
                                        ELSE candidates
  /\ offset' = Find(offset + 1)
  /\ UNCHANGED <<data, pc, header, current, index, refs, nodes, warnings>>

EndScan ==
  /\ pc = "hit" /\ offset = -1
  /\ pc' = "array"
  /\ UNCHANGED <<data, header, offset, candidates, current, index, refs, nodes,
                 warnings>>

-----------------------------------------------------------------------------
(* _add_references                                                          *)

Decoded(i) == HasRefs(i) /\ Width(i) \in {8, 16, 32, 64} /\ WidthScheme(i) = 0
Elements(i) == IF Decoded(i) THEN ElementCount(i) ELSE 0

(* The outer loop, in the order the scan filled the dict.                   *)
NextArray ==
  LET left == candidates \ DOMAIN nodes
  IN  /\ pc = "array" /\ left # {}
      /\ current' = CHOOSE i \in left : \A j \in left : i <= j
      /\ index' = 0
      /\ refs' = <<>>
      /\ pc' = "element"
      /\ UNCHANGED <<data, header, offset, candidates, nodes, warnings>>

ElementStart == current + ARRAY_HEADER_SIZE + index * (Width(current) \div 8)
Element == Little(ElementStart, Width(current) \div 8)

\* Mutated form: a reference need not lead to a candidate.
IsReference_Unresolved(value) == value # 0 /\ value % 2 = 0

(* Null, tagged and unknown offsets are left out.                           *)
IsReference(value) == value # 0 /\ value % 2 = 0 /\ value \in candidates

(* The inner loop; dict.fromkeys drops what is attached already.            *)
ReadElement ==
  /\ pc = "element" /\ index < Elements(current)
  /\ refs' = IF IsReference(Element) /\ Element \notin Range(refs)
             THEN Append(refs, Element) ELSE refs
  /\ index' = index + 1
  /\ UNCHANGED <<data, pc, header, offset, candidates, current, nodes, warnings>>

AttachRefs ==
  /\ pc = "element" /\ index = Elements(current)
  /\ nodes' = [i \in DOMAIN nodes \cup {current} |->
                 IF i = current THEN refs ELSE nodes[i]]
  /\ pc' = "array"
  /\ UNCHANGED <<data, header, offset, candidates, current, index, refs, warnings>>

-----------------------------------------------------------------------------
(* The warnings of _analyze                                                 *)

\* Mutated form: the first array behind the header counts as inside it.
Impossible_InclusiveHeader(reference) ==
  /\ reference # 0
  /\ \/ reference % 8 # 0
     \/ reference <= FILE_HEADER_SIZE \/ reference >= Len(data)

(* _top_reference_warning returns a text.                                   *)
Impossible(reference) ==
  /\ reference # 0
  /\ \/ reference % 8 # 0
     \/ reference < FILE_HEADER_SIZE \/ reference >= Len(data)

Warn ==
  LET when(condition, warning) == IF condition THEN {warning} ELSE {}
      active == header.active
      inactive == header.inactive
  IN  /\ pc = "array" /\ candidates = DOMAIN nodes
      /\ warnings' =
           when(Impossible(active), "activeImpossible")
             \cup when(Impossible(inactive), "inactiveImpossible")
             \cup when(active \notin DOMAIN nodes, "activeUnresolved")
             \cup when(inactive # 0 /\ inactive \notin DOMAIN nodes,
                       "inactiveUnresolved")
             \cup when(header.reserved # 0, "reserved")
      /\ pc' = "done"
      /\ UNCHANGED <<data, header, offset, candidates, current, index, refs, nodes>>

-----------------------------------------------------------------------------

Init ==
  /\ data \in Files
  /\ pc = "header"
  /\ header = None
  /\ offset = -1 /\ candidates = {}
  /\ current = 0 /\ index = 0 /\ refs = <<>>
  /\ nodes = [i \in {} |-> <<>>]
  /\ warnings = {}

Finished == pc = "done" /\ UNCHANGED vars

Next ==
  \/ ParseHeader
  \/ StartScan \/ ScanHit \/ EndScan
  \/ NextArray \/ ReadElement \/ AttachRefs
  \/ Warn
  \/ Finished

Spec == Init /\ [][Next]_vars

-----------------------------------------------------------------------------
(* Properties                                                               *)

AllWarnings == {"activeImpossible", "inactiveImpossible", "activeUnresolved",
                "inactiveUnresolved", "reserved"}

(* Types of the variables of an analysis.                                   *)
TypeOK ==
  /\ data \in Seq(Byte)
  /\ pc \in {"header", "scan", "hit", "array", "element", "done"}
  /\ header \in Headers \cup {None}
  /\ offset \in Nat \cup {-1}
  /\ candidates \subseteq Nat
  /\ current \in Nat /\ index \in Nat
  /\ refs \in Seq(Nat)
  /\ DOMAIN nodes \subseteq candidates
  /\ \A i \in DOMAIN nodes : nodes[i] \in Seq(Nat)
  /\ warnings \subseteq AllWarnings

(* No plausible array is missed and nothing else is found, whatever hits    *)
(* overlap, are misaligned or lie inside a candidate: up to where the scan  *)
(* is (`offset`), candidates are exactly the plausible hits.                *)
ScanExact ==
  /\ pc = "hit" =>
       candidates = { i \in Hits : Plausible(i) /\ (offset # -1 => i < offset) }
  /\ pc \in {"array", "element"} => candidates = { i \in Hits : Plausible(i) }

(* An element is decoded from bytes of its own array and of the file: the   *)
(* slice int.from_bytes is given is never cut short.                        *)
ElementsInside ==
  pc = "element" /\ index < Elements(current) =>
    /\ ElementStart + Width(current) \div 8 <= current + ArraySize(current)
    /\ current + ArraySize(current) <= Len(data)

(* The references an array has by the format: those among its elements.     *)
ReferencesOf(i) ==
  LET size == Width(i) \div 8
      value(k) == Little(i + ARRAY_HEADER_SIZE + k * size, size)
  IN  { v \in candidates :
          v # 0 /\ v % 2 = 0 /\ \E k \in 0..(Elements(i) - 1) : v = value(k) }

(* The graph the traversal is given has every candidate, leads nowhere      *)
(* else, names no child twice and loses no reference.                       *)
GraphExact ==
  pc = "done" /\ header # None =>
    /\ DOMAIN nodes = candidates
    /\ WellFormed(nodes)
    /\ \A i \in candidates :
         /\ Children(nodes, i) = ReferencesOf(i)
         /\ IsInjective(nodes[i])

(* A top reference that resolves is never called impossible, and one that   *)
(* does not is never passed over (a null inactive one aside).               *)
WarnedExactly ==
  pc = "done" /\ header # None =>
    /\ header.active \in DOMAIN nodes
         <=> warnings \cap {"activeImpossible", "activeUnresolved"} = {}
    /\ header.inactive \in DOMAIN nodes \cup {0}
         <=> warnings \cap {"inactiveImpossible", "inactiveUnresolved"} = {}

(* A streamed file is taken for a Realm only with the cookie that shows its *)
(* footer to be complete; it has no second top reference.                   *)
StreamingProtected ==
  header # None /\ AllOnes(0) /\ ActiveSlot = 0 =>
    Matches(Len(data) - 8, STREAMING_COOKIE) /\ header.inactive = 0
=============================================================================
