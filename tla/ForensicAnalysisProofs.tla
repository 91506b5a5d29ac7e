------------------------ MODULE ForensicAnalysisProofs ------------------------
(***************************************************************************)
(* Proofs about StructuralScan and about ForensicAnalysis, which composes   *)
(* it with the traversals and the carver, for every set of files below      *)
(* 64 KiB.  The argument about the scan has two halves: arithmetic about    *)
(* one array (SizeCoversElements) and the two loops, whose invariant says   *)
(* how far each of them got.  The steps of the composition are steps of     *)
(* its parts or leave them alone, so what is proved of Classification for   *)
(* every graph and of StringCarving for every payload holds of the graph    *)
(* the scan built and of the payloads it found.                             *)
(***************************************************************************)
EXTENDS ForensicAnalysis, SequenceTheorems, FiniteSetTheorems, TLAPS

(* The k-th element of the array at i.                                      *)
Value(i, k) ==
  Little(i + ARRAY_HEADER_SIZE + k * (Width(i) \div 8), Width(i) \div 8)

(* The sequence s has, once each, the references among the first n elements *)
(* of the array at i.                                                       *)
Attached(i, s, n) ==
  /\ s \in Seq(candidates)
  /\ IsInjective(s)
  /\ Range(s) = { v \in candidates :
                    v # 0 /\ v % 2 = 0 /\ \E k \in 0..(n - 1) : v = Value(i, k) }

(* How far the scan of the signatures is.                                   *)
Scanned ==
  /\ pc \in {"header", "scan"} => candidates = {}
  /\ pc \in {"header", "scan", "hit"} => DOMAIN nodes = {}
  /\ pc = "hit" => offset \in Hits \cup {-1}
  /\ pc = "done" /\ header # None => candidates = { i \in Hits : Plausible(i) }
  /\ ScanExact

(* How far the references are.                                              *)
Linked ==
  /\ nodes = [i \in DOMAIN nodes |-> nodes[i]]
  /\ \A i \in DOMAIN nodes : Attached(i, nodes[i], Elements(i))
  /\ pc = "element" => /\ current \in candidates \ DOMAIN nodes
                       /\ index <= Elements(current)
                       /\ Attached(current, refs, index)
  /\ pc = "done" /\ header # None => DOMAIN nodes = candidates

IInv ==
  /\ data \in Files
  /\ TypeOK
  /\ pc \notin {"header", "done"} => header # None
  /\ Scanned
  /\ Linked
  /\ WarnedExactly
  /\ StreamingProtected

-----------------------------------------------------------------------------
(* Bytes and numbers                                                        *)

(* A set of natural numbers that has a member has a least one.              *)
LEMMA Minimum ==
  ASSUME NEW T \in SUBSET Nat, T # {}
  PROVE  \E i \in T : \A j \in T : i <= j
  <1> DEFINE Less == OpToRel(<, Nat)
  <1>1. \E i \in T : \A j \in T : <<j, i>> \notin Less
    BY NatLessThanWellFounded, WFMin
  <1>2. \A i, j \in Nat : i < j => <<i, j>> \in Less
    BY Zenon DEF OpToRel
  <1>3. PICK i \in T : \A j \in T : <<j, i>> \notin Less
    BY <1>1, Zenon
  <1> HIDE DEF Less
  <1>4. ASSUME NEW j \in T PROVE ~(j < i)
    BY <1>2, <1>3, Zenon
  <1>5. \A j \in T : i \in Nat /\ j \in Nat /\ ~(j < i)
    BY <1>4, Zenon
  <1>6. \A j \in T : i <= j
    BY <1>5
  <1> QED
    BY <1>6

(* What may be read of a file.                                              *)
LEMMA Bytes ==
  ASSUME data \in Files
  PROVE  /\ Len(data) \in Nat /\ Len(data) <= MaxSize
         /\ \A i \in Nat : i < Len(data) => At(i) \in Byte
  BY FilesAssumption DEF At

(* A number decoded from bytes of the file is a natural number.             *)
LEMMA Numbers ==
  ASSUME data \in Files, NEW i \in Nat
  PROVE  /\ \A size \in {1, 2, 4, 8} : i + size <= Len(data) => Little(i, size) \in Nat
         /\ i + 3 <= Len(data) => Big(i) \in Nat
  <1>1. \A k \in Nat : i + k < Len(data) => At(i + k) \in Nat
    <2> SUFFICES ASSUME NEW k \in Nat, i + k < Len(data)
                 PROVE  At(i + k) \in Nat
      OBVIOUS
    <2> DEFINE j == i + k
    <2>1. j \in Nat /\ j < Len(data)
      OBVIOUS
    <2> HIDE DEF j
    <2>2. At(j) \in Byte
      BY <2>1, Bytes
    <2>3. Byte \subseteq Nat
      BY DEF Byte
    <2> QED
      BY <2>2, <2>3 DEF j
  <1>2. ASSUME NEW size \in {1, 2, 4, 8}, i + size <= Len(data)
        PROVE  Little(i, size) \in Nat
    <2>1. At(i) \in Nat
      <3>1. i < Len(data) /\ Byte \subseteq Nat
        BY <1>2, Bytes DEF Byte
      <3> QED
        BY <3>1, Bytes
    <2>2. size > 1 => At(i + 1) \in Nat
      BY <1>1, <1>2, Bytes
    <2> QED
      BY <2>1, <2>2 DEF Little, MaxSize
  <1>3. i + 3 <= Len(data) => Big(i) \in Nat
    <2> SUFFICES ASSUME i + 3 <= Len(data) PROVE Big(i) \in Nat
      OBVIOUS
    <2>1. At(i) \in Nat /\ At(i + 1) \in Nat /\ At(i + 2) \in Nat
      BY <1>1, Bytes
    <2> QED
      BY SMTT(30), <2>1 DEF Big
  <1> QED
    BY <1>2, <1>3

(* The aligned size of an array covers every element that is decoded.       *)
LEMMA SizeCoversElements ==
  ASSUME data \in Files, NEW i \in Nat, i + ARRAY_HEADER_SIZE <= Len(data)
  PROVE  /\ Elements(i) \in Nat
         /\ Elements(i) > 0 => Width(i) \div 8 \in {1, 2, 4, 8}
         /\ Elements(i) > 0 =>
              Elements(i) * (Width(i) \div 8) + ARRAY_HEADER_SIZE <= ArraySize(i)
  <1>1. ElementCount(i) \in Nat
    BY Numbers DEF ElementCount, ARRAY_HEADER_SIZE
  <1>2. CASE ~Decoded(i)
    BY <1>2 DEF Elements
  <1>3. CASE Decoded(i)
    <2> DEFINE c == ElementCount(i)
               w == Width(i)
    <2>1. /\ w \in {8, 16, 32, 64} /\ Elements(i) = c
          /\ RawPayload(i) = (c * w + 7) \div 8
      BY <1>3 DEF Decoded, Elements, RawPayload
    <2>2. /\ w \div 8 \in {1, 2, 4, 8}
          /\ (c * w + 7) \div 8 = c * (w \div 8)
      <3> HIDE DEF c, w
      <3>1. CASE w = 8
        BY <1>1, <3>1 DEF c
      <3>2. CASE w = 16
        BY <1>1, <3>2 DEF c
      <3>3. CASE w = 32
        BY <1>1, <3>3 DEF c
      <3>4. CASE w = 64
        BY <1>1, <3>4 DEF c
      <3> QED
        BY <2>1, <3>1, <3>2, <3>3, <3>4
    <2>3. c * (w \div 8) \in Nat
      BY <1>1, <2>2
    <2> DEFINE bytes == c * (w \div 8)
    <2>4. bytes <= ((bytes + 7) \div 8) * 8
      <3> HIDE DEF bytes
      <3>1. \A n \in Nat : n <= ((n + 7) \div 8) * 8
        OBVIOUS
      <3> QED
        BY <2>3, <3>1 DEF bytes
    <2>5. ArraySize(i) = ARRAY_HEADER_SIZE + ((bytes + 7) \div 8) * 8
      BY <2>1, <2>2 DEF ArraySize, PayloadSize
    <2>6. bytes + ARRAY_HEADER_SIZE <= ArraySize(i)
      <3> HIDE DEF bytes
      <3>1. bytes \in Nat
        BY <2>3 DEF bytes
      <3> QED
        BY <2>4, <2>5, <3>1 DEF ARRAY_HEADER_SIZE
    <2> QED
      BY <1>1, <2>1, <2>2, <2>6
  <1> QED
    BY <1>2, <1>3

(* The bytes do not change, so nothing that is read from them does.         *)
LEMMA SameBytes ==
  ASSUME UNCHANGED data
  PROVE  /\ Hits' = Hits
         /\ \A i : Plausible(i)' <=> Plausible(i)
         /\ \A i : Elements(i)' = Elements(i)
         /\ \A i, k : Value(i, k)' = Value(i, k)
         /\ \A i : Matches(Len(data) - 8, i)' <=> Matches(Len(data) - 8, i)
         /\ \A i : Impossible(i)' <=> Impossible(i)
         /\ (AllOnes(0)' <=> AllOnes(0)) /\ ActiveSlot' = ActiveSlot
  BY DEF Hits, Matches, At, Plausible, ArraySize, PayloadSize, RawPayload,
         WidthScheme, Width, Flags, ElementCount, Big, Elements, Decoded, HasRefs,
         Value, Little, AllOnes, ActiveSlot, Impossible

(* bytes.find gives the first hit at or behind its argument, or none.       *)
LEMMA FindFirst ==
  ASSUME data \in Files, NEW from \in Nat
  PROVE  \/ Find(from) = -1 /\ \A i \in Hits : i < from
         \/ /\ Find(from) \in Hits /\ Find(from) >= from
            /\ \A i \in Hits : i >= from => Find(from) <= i
  <1> DEFINE ahead == { i \in Hits : i >= from }
  <1>1. Hits \in SUBSET Nat
    BY Bytes DEF Hits, FILE_HEADER_SIZE
  <1>2. CASE ahead = {}
    BY <1>1, <1>2 DEF Find
  <1>3. CASE ahead # {}
    <2>1. \E i \in ahead : \A j \in ahead : i <= j
      BY <1>1, <1>3, Minimum
    <2>2. Find(from) = CHOOSE i \in ahead : \A j \in ahead : i <= j
      BY <1>3 DEF Find
    <2>3. Find(from) \in ahead /\ \A j \in ahead : Find(from) <= j
      BY <2>1, <2>2
    <2> QED
      BY <2>3
  <1> QED
    BY <1>2, <1>3

-----------------------------------------------------------------------------
(* The invariant                                                            *)

(* Nothing has been scanned when an analysis begins.                        *)
LEMMA InitIInv == Init => IInv
  <1> SUFFICES ASSUME Init PROVE IInv
    OBVIOUS
  <1>1. data \in Seq(Byte)
    BY FilesAssumption DEF Init
  <1>2. TypeOK
    BY <1>1 DEF Init, TypeOK
  <1>3. Scanned /\ Linked /\ WarnedExactly /\ StreamingProtected
    BY DEF Init, Scanned, ScanExact, Linked, WarnedExactly, StreamingProtected
  <1> QED
    BY <1>2, <1>3 DEF Init, IInv

(* The fields of a recognized header, a streamed one among them.            *)
LEMMA HeaderTyped ==
  ASSUME IInv, Recognized
  PROVE  /\ HeaderFields \in Headers
         /\ Streaming => HeaderFields.inactive = 0
  <1>1. /\ Len(data) >= 24 /\ Len(data) \in Nat
        /\ Streaming => Len(data) >= 40
    BY Bytes DEF Recognized, FILE_HEADER_SIZE, IInv
  <1>2. ActiveSlot \in {0, 1} /\ At(22) \in Byte
    <2>1. At(22) \in Byte /\ At(23) \in Byte
      BY <1>1, Bytes DEF IInv
    <2>2. \A n \in Byte : n % 2 \in {0, 1}
      BY DEF Byte
    <2> QED
      BY <2>1, <2>2 DEF ActiveSlot
  <1>3. Little(0, 8) \in Nat /\ Little(8, 8) \in Nat
    BY <1>1, Numbers DEF IInv
  <1>4. Streaming => Little(Footer, 8) \in Nat
    <2> SUFFICES ASSUME Streaming PROVE Little(Footer, 8) \in Nat
      OBVIOUS
    <2>1. Footer \in Nat /\ Footer + 8 <= Len(data)
      BY <1>1 DEF Footer
    <2> QED
      BY <2>1, Numbers DEF IInv
  <1>5. \A n \in {0, 1} : 8 * n \in {0, 8} /\ 1 - n \in {0, 1}
    OBVIOUS
  <1> QED
    BY <1>2, <1>3, <1>4, <1>5 DEF HeaderFields, Headers

(* _parse_header leaves the scan where it begins.                           *)
LEMMA ParsesHeader == ASSUME IInv, ParseHeader PROVE IInv'
  <1>1. /\ pc = "header" /\ UNCHANGED <<data, offset, candidates, current, index,
                                        refs, nodes, warnings>>
        /\ \/ Recognized /\ header' = HeaderFields /\ pc' = "scan"
           \/ header' = None /\ pc' = "done"
    BY DEF ParseHeader
  <1>2. TypeOK'
    BY <1>1, HeaderTyped DEF IInv, TypeOK
  <1>3. StreamingProtected'
    <2> SUFFICES ASSUME header' # None, AllOnes(0), ActiveSlot = 0
                 PROVE  /\ Matches(Len(data) - 8, STREAMING_COOKIE)
                        /\ header'.inactive = 0
      BY <1>1, SameBytes DEF StreamingProtected
    <2>1. Streaming /\ Recognized /\ header' = HeaderFields
      BY <1>1 DEF Streaming
    <2>2. Len(data) \in Nat /\ Footer + 8 = Len(data) - 8
      BY Bytes DEF Footer, IInv
    <2> QED
      BY <2>1, <2>2, HeaderTyped DEF Recognized
  <1>4. WarnedExactly'
    BY <1>1 DEF WarnedExactly
  <1>5. Scanned' /\ Linked'
    BY <1>1 DEF IInv, Scanned, ScanExact, Linked
  <1>6. (pc \notin {"header", "done"} => header # None)'
    BY <1>1, HeaderTyped, NoneAssumption
  <1> QED
    BY <1>1, <1>2, <1>3, <1>4, <1>5, <1>6 DEF IInv

(* What a step keeps that leaves the header alone and does not finish.      *)
LEMMA HeaderKept ==
  ASSUME IInv, UNCHANGED <<data, header>>, pc' # "done"
  PROVE  StreamingProtected' /\ WarnedExactly'
  BY SameBytes DEF IInv, StreamingProtected, WarnedExactly

(* The loop over the hits of the signature.                                 *)
LEMMA Scans == ASSUME IInv, StartScan \/ ScanHit \/ EndScan PROVE IInv'
  <1>1. /\ UNCHANGED <<data, header, current, index, refs, nodes, warnings>>
        /\ pc' \in {"hit", "array"} /\ pc \in {"scan", "hit"}
    BY DEF StartScan, ScanHit, EndScan
  <1>2. \A i \in Hits : i \in Nat /\ i >= 24
    BY Bytes DEF IInv, Hits, FILE_HEADER_SIZE
  <1>3. header # None /\ DOMAIN nodes = {} /\ data \in Files
    BY <1>1 DEF IInv, Scanned
  <1>4. StreamingProtected' /\ WarnedExactly'
    BY <1>1, HeaderKept
  <1>5. Linked'
    BY <1>1, <1>3 DEF Linked
  <1>6. /\ offset' \in Hits \cup {-1}
        /\ pc' = "hit" =>
             candidates' = { i \in Hits : Plausible(i) /\ (offset' # -1 => i < offset') }
        /\ pc' = "array" => candidates' = { i \in Hits : Plausible(i) }
    <2>1. CASE StartScan
      <3>1. candidates' = {} /\ pc' = "hit" /\ offset' = Find(24)
        BY <2>1 DEF StartScan, IInv, Scanned, FILE_HEADER_SIZE
      <3>2. \/ offset' = -1 /\ \A i \in Hits : i < 24
            \/ offset' \in Hits /\ \A i \in Hits : i >= 24 => offset' <= i
        BY <1>3, <3>1, FindFirst
      <3>3. \A i \in Hits : ~(offset' # -1 => i < offset')
        BY <1>2, <3>2
      <3> QED
        BY <3>1, <3>2, <3>3
    <2>2. CASE ScanHit
      <3>1. /\ pc' = "hit" /\ pc = "hit" /\ offset \in Hits
            /\ candidates = { i \in Hits : Plausible(i) /\ i < offset }
            /\ offset' = Find(offset + 1)
            /\ candidates' = IF Plausible(offset) THEN candidates \cup {offset}
                                                 ELSE candidates
        BY <2>2 DEF ScanHit, IInv, Scanned, ScanExact
      <3>2. offset \in Nat /\ offset + 1 \in Nat
        BY <1>2, <3>1
      <3>3. \/ offset' = -1 /\ \A i \in Hits : i < offset + 1
            \/ /\ offset' \in Hits /\ offset' >= offset + 1
               /\ \A i \in Hits : i >= offset + 1 => offset' <= i
        BY <1>3, <3>1, <3>2, FindFirst
      <3>4. candidates' = { i \in Hits : Plausible(i) /\ i <= offset }
        <4>1. \A i \in Hits : i <= offset <=> i < offset \/ i = offset
          BY <1>2, <3>2
        <4> QED
          BY <3>1, <4>1
      <3>5. \A i \in Hits : i <= offset <=> (offset' # -1 => i < offset')
        <4> SUFFICES ASSUME NEW i \in Hits
                     PROVE  i <= offset <=> (offset' # -1 => i < offset')
          OBVIOUS
        <4>1. CASE offset' = -1
          BY <1>2, <3>2, <3>3, <4>1
        <4>2. CASE offset' # -1
          <5>1. /\ offset' \in Nat /\ offset' >= offset + 1
                /\ i >= offset + 1 => offset' <= i
            BY <1>2, <3>3, <4>2
          <5> QED
            BY <1>2, <3>2, <4>2, <5>1
        <4> QED
          BY <4>1, <4>2
      <3> QED
        BY <3>1, <3>3, <3>4, <3>5
    <2>3. CASE EndScan
      BY <2>3 DEF EndScan, IInv, Scanned, ScanExact
    <2> QED
      BY <2>1, <2>2, <2>3
  <1>7. Scanned'
    BY <1>1, <1>3, <1>6, SameBytes DEF Scanned, ScanExact
  <1>8. TypeOK'
    BY <1>1, <1>2, <1>3, <1>6 DEF IInv, TypeOK
  <1> QED
    BY <1>1, <1>3, <1>4, <1>5, <1>7, <1>8 DEF IInv

(* What the scan leaves is not touched again.                               *)
LEMMA ScanKept ==
  ASSUME IInv, UNCHANGED <<data, header, candidates>>,
         pc \in {"array", "element"}, pc' \in {"array", "element"}
  PROVE  /\ header' # None
         /\ candidates' = { i \in Hits : Plausible(i) } /\ Scanned'
  <1>1. candidates = { i \in Hits : Plausible(i) } /\ header # None
    BY DEF IInv, Scanned, ScanExact
  <1> QED
    BY <1>1, SameBytes DEF Scanned, ScanExact

(* References keep their meaning as long as the bytes and candidates do.    *)
LEMMA AttachedKept ==
  ASSUME UNCHANGED <<data, candidates>>
  PROVE  /\ \A i, s, n : Attached(i, s, n)' <=> Attached(i, s, n)
         /\ \A i : Elements(i)' = Elements(i)
  BY SameBytes DEF Attached

(* The next array is taken up.                                              *)
LEMMA TakesArray == ASSUME IInv, NextArray PROVE IInv'
  <1> DEFINE left == candidates \ DOMAIN nodes
  <1>1. /\ pc = "array" /\ left # {} /\ left \in SUBSET Nat
        /\ current' = CHOOSE i \in left : \A j \in left : i <= j
        /\ index' = 0 /\ refs' = <<>> /\ pc' = "element"
        /\ UNCHANGED <<data, header, offset, candidates, nodes, warnings>>
    BY DEF NextArray, IInv, TypeOK
  <1>2. current' \in left
    <2>1. \E i \in left : \A j \in left : i <= j
      BY <1>1, Minimum
    <2> QED
      BY <1>1, <2>1
  <1>3. current' \in candidates \ DOMAIN nodes /\ current' \in Nat
    BY <1>1, <1>2
  <1>4. TypeOK'
    <2>1. TypeOK
      BY DEF IInv
    <2>2. current' \in Nat /\ index' \in Nat /\ refs' \in Seq(Nat) /\ pc' = "element"
      BY <1>1, <1>3
    <2> HIDE DEF left
    <2> QED
      BY <1>1, <2>1, <2>2 DEF TypeOK
  <1>5. Scanned' /\ header' # None
    BY <1>1, ScanKept
  <1>6. Elements(current') \in Nat
    <2>1. current' \in Hits /\ Plausible(current')
      BY <1>1, <1>3 DEF IInv, Scanned, ScanExact
    <2> QED
      BY <1>3, <2>1, SizeCoversElements DEF Plausible, IInv
  <1>7. Attached(current', <<>>, 0)
    BY DEF Attached, IsInjective, Range
  <1>8. Linked'
    BY <1>1, <1>3, <1>6, <1>7, AttachedKept, SameBytes DEF IInv, Linked
  <1> QED
    BY <1>1, <1>4, <1>5, <1>8, HeaderKept DEF IInv

(* Appending a reference that is not there keeps every one there once.      *)
LEMMA AppendNew ==
  ASSUME NEW S, NEW s \in Seq(S), NEW e \in S, e \notin Range(s), IsInjective(s)
  PROVE  /\ Append(s, e) \in Seq(S)
         /\ Range(Append(s, e)) = Range(s) \cup {e}
         /\ IsInjective(Append(s, e))
  <1>1. /\ Append(s, e) \in Seq(S) /\ Len(s) \in Nat /\ DOMAIN s = 1..Len(s)
        /\ DOMAIN Append(s, e) = 1..(Len(s) + 1)
        /\ \A j \in 1..Len(s) : Append(s, e)[j] = s[j]
        /\ Append(s, e)[Len(s) + 1] = e
    OBVIOUS
  <1>2. \A j \in 1..(Len(s) + 1) : j \in 1..Len(s) \/ j = Len(s) + 1
    BY <1>1
  <1>3. Len(s) + 1 \in 1..(Len(s) + 1) /\ 1..Len(s) \subseteq 1..(Len(s) + 1)
    BY <1>1
  <1>4. Range(Append(s, e)) = Range(s) \cup {e}
    BY <1>1, <1>2, <1>3 DEF Range
  <1>5. IsInjective(Append(s, e))
    <2> SUFFICES ASSUME NEW a \in 1..(Len(s) + 1), NEW b \in 1..(Len(s) + 1),
                        Append(s, e)[a] = Append(s, e)[b]
                 PROVE  a = b
      BY <1>1 DEF IsInjective
    <2>1. \A j \in 1..Len(s) : s[j] # e
      BY <1>1 DEF Range
    <2> QED
      BY <1>1, <1>2, <2>1 DEF IsInjective
  <1> QED
    BY <1>1, <1>4, <1>5

(* One more element is looked at.                                           *)
LEMMA ReadsElement == ASSUME IInv, ReadElement PROVE IInv'
  <1>1. /\ pc = "element" /\ index < Elements(current)
        /\ index' = index + 1 /\ UNCHANGED <<data, pc, header, offset, candidates,
                                             current, nodes, warnings>>
        /\ refs' = IF IsReference(Element) /\ Element \notin Range(refs)
                   THEN Append(refs, Element) ELSE refs
    BY DEF ReadElement
  <1>2. /\ current \in candidates \ DOMAIN nodes /\ current \in Nat
        /\ Attached(current, refs, index) /\ index \in Nat
        /\ candidates \subseteq Nat
    BY <1>1 DEF IInv, Linked, TypeOK
  <1>3. Elements(current) \in Nat
    <2>1. current \in Hits /\ Plausible(current)
      BY <1>1, <1>2 DEF IInv, Scanned, ScanExact
    <2> QED
      BY <1>2, <2>1, SizeCoversElements DEF Plausible, IInv
  <1>4. Attached(current, refs', index + 1)
    <2> DEFINE e == Value(current, index)
               Earlier(v, n) == \E k \in 0..(n - 1) : v = Value(current, k)
    <2>1. e = Element
      BY DEF Element, ElementStart, Value
    <2>2. \A v : Earlier(v, index + 1) <=> Earlier(v, index) \/ v = e
      <3>1. \A k : k \in 0..(index + 1 - 1) <=> k \in 0..(index - 1) \/ k = index
        BY <1>2
      <3> QED
        BY <3>1
    <2>3. /\ refs \in Seq(candidates) /\ IsInjective(refs)
          /\ Range(refs) = { v \in candidates : v # 0 /\ v % 2 = 0 /\ Earlier(v, index) }
      BY <1>2 DEF Attached
    <2> HIDE DEF e, Earlier
    <2>4. CASE IsReference(e) /\ e \notin Range(refs)
      <3>1. e \in candidates /\ e # 0 /\ e % 2 = 0 /\ refs' = Append(refs, e)
        BY <1>1, <2>1, <2>4 DEF IsReference
      <3>2. /\ refs' \in Seq(candidates) /\ IsInjective(refs')
            /\ Range(refs') = Range(refs) \cup {e}
        BY <2>3, <2>4, <3>1, AppendNew
      <3>3. Range(refs') =
              { v \in candidates : v # 0 /\ v % 2 = 0 /\ Earlier(v, index + 1) }
        BY <2>2, <2>3, <3>1, <3>2
      <3> QED
        BY <3>2, <3>3 DEF Attached, Earlier
    <2>5. CASE ~(IsReference(e) /\ e \notin Range(refs))
      <3>1. refs' = refs
        BY <1>1, <2>1, <2>5
      <3>2. Range(refs) =
              { v \in candidates : v # 0 /\ v % 2 = 0 /\ Earlier(v, index + 1) }
        BY <2>2, <2>3, <2>5 DEF IsReference
      <3> QED
        BY <2>3, <3>1, <3>2 DEF Attached, Earlier
    <2> QED
      BY <2>4, <2>5
  <1>5. TypeOK'
    <2>1. refs' \in Seq(Nat)
      <3>1. refs \in Seq(Nat)
        BY DEF IInv, TypeOK
      <3>2. IsReference(Element) => Element \in Nat
        BY <1>2 DEF IsReference
      <3>3. \A v \in Nat : Append(refs, v) \in Seq(Nat)
        BY <3>1
      <3> QED
        BY <1>1, <3>1, <3>2, <3>3
    <2> QED
      BY <1>1, <1>2, <2>1 DEF IInv, TypeOK
  <1>6. Linked'
    <2>1. \A i, s, n : Attached(i, s, n)' <=> Attached(i, s, n)
      BY <1>1, AttachedKept
    <2>2. Attached(current, refs, index)'
      BY <1>1, <1>4, SameBytes DEF Attached
    <2> QED
      BY <1>1, <1>2, <1>3, <2>1, <2>2, AttachedKept DEF IInv, Linked
  <1> QED
    BY <1>1, <1>5, <1>6, ScanKept, HeaderKept DEF IInv

(* The references of an array are complete.                                 *)
LEMMA Attaches == ASSUME IInv, AttachRefs PROVE IInv'
  <1>1. /\ pc = "element" /\ index = Elements(current) /\ pc' = "array"
        /\ nodes' = [i \in DOMAIN nodes \cup {current} |->
                       IF i = current THEN refs ELSE nodes[i]]
        /\ UNCHANGED <<data, header, offset, candidates, current, index, refs,
                       warnings>>
    BY DEF AttachRefs
  <1>2. /\ current \in candidates \ DOMAIN nodes
        /\ Attached(current, refs, Elements(current))
    BY <1>1 DEF IInv, Linked
  <1>3. TypeOK'
    BY <1>1, <1>2 DEF IInv, TypeOK
  <1>4. Linked'
    BY <1>1, <1>2, AttachedKept DEF IInv, Linked
  <1> QED
    BY <1>1, <1>3, <1>4, ScanKept, HeaderKept DEF IInv

(* A candidate is where a top reference may point to.                       *)
LEMMA CandidateIsPossible ==
  ASSUME data \in Files, NEW i \in Hits, Plausible(i)
  PROVE  i # 0 /\ ~Impossible(i)
  <1>1. i \in Nat /\ i >= 24 /\ i + 8 <= Len(data) /\ i % 8 = 0 /\ Len(data) \in Nat
    BY Bytes DEF Hits, Plausible, FILE_HEADER_SIZE, ARRAY_HEADER_SIZE
  <1> QED
    BY <1>1 DEF Impossible, FILE_HEADER_SIZE

(* The warnings change neither candidates nor references.                   *)
LEMMA Warns == ASSUME IInv, Warn PROVE IInv'
  <1>1. /\ pc = "array" /\ candidates = DOMAIN nodes /\ pc' = "done"
        /\ UNCHANGED <<data, header, offset, candidates, current, index, refs, nodes>>
    BY DEF Warn
  <1>2. candidates = { i \in Hits : Plausible(i) } /\ header \in Headers
    BY <1>1 DEF IInv, Scanned, ScanExact, TypeOK
  <1>3. /\ \A w \in warnings' : w \in AllWarnings
        /\ "activeImpossible" \in warnings' <=> Impossible(header.active)
        /\ "inactiveImpossible" \in warnings' <=> Impossible(header.inactive)
        /\ "activeUnresolved" \in warnings' <=> header.active \notin DOMAIN nodes
        /\ "inactiveUnresolved" \in warnings' <=>
             header.inactive # 0 /\ header.inactive \notin DOMAIN nodes
    BY DEF Warn, AllWarnings
  <1>4. WarnedExactly'
    <2>1. \A i \in DOMAIN nodes : i # 0 /\ ~Impossible(i)
      BY <1>1, <1>2, CandidateIsPossible DEF IInv
    <2>2. ~Impossible(0)
      BY DEF Impossible
    <2> QED
      BY <1>1, <1>3, <2>1, <2>2 DEF WarnedExactly
  <1>5. Scanned' /\ Linked'
    BY <1>1, <1>2, SameBytes, AttachedKept DEF IInv, Scanned, ScanExact, Linked
  <1>6. StreamingProtected'
    BY <1>1, SameBytes DEF IInv, StreamingProtected
  <1>7. TypeOK'
    BY <1>1, <1>3 DEF IInv, TypeOK
  <1> QED
    BY <1>1, <1>4, <1>5, <1>6, <1>7 DEF IInv

(* What the scan has done does not depend on what others do.                *)
LEMMA Stutters == ASSUME IInv, UNCHANGED vars PROVE IInv'
  BY SameBytes, AttachedKept
     DEF vars, IInv, TypeOK, Scanned, ScanExact, Linked, WarnedExactly,
         StreamingProtected

(* The loops of _scan_array_candidates and _add_references keep account of  *)
(* exactly what they have passed: IInv is an invariant of the scan.         *)
THEOREM Inductive == Spec => []IInv
  <1>1. IInv /\ [Next]_vars => IInv'
    BY ParsesHeader, Scans, TakesArray, ReadsElement, Attaches, Warns, Stutters
       DEF Next, Finished
  <1> QED
    BY <1>1, InitIInv, PTL DEF Spec

-----------------------------------------------------------------------------
(* The variables of an analysis keep their types.                           *)
THEOREM TypeCorrect == Spec => []TypeOK
  BY Inductive, PTL DEF IInv

(* The scan finds every plausible array and nothing else, in every file.    *)
THEOREM ScanFindsAll == Spec => []ScanExact
  BY Inductive, PTL DEF IInv, Scanned

(* No element is decoded from bytes beyond its array or the file.           *)
THEOREM DecodingStaysInside == Spec => []ElementsInside
  <1>1. IInv => ElementsInside
    <2> SUFFICES ASSUME IInv, pc = "element", index < Elements(current)
                 PROVE  /\ ElementStart + Width(current) \div 8
                              <= current + ArraySize(current)
                        /\ current + ArraySize(current) <= Len(data)
      BY DEF ElementsInside
    <2>1. /\ current \in Nat /\ index \in Nat
          /\ current \in Hits /\ Plausible(current)
      BY DEF IInv, TypeOK, Linked, Scanned, ScanExact
    <2> DEFINE n == Elements(current)
               size == Width(current) \div 8
               room == ArraySize(current)
    <2>2. current + room <= Len(data)
      BY <2>1 DEF Plausible
    <2>3. n \in Nat /\ size \in {1, 2, 4, 8} /\ n * size + 8 <= room
      BY <2>1, SizeCoversElements DEF Plausible, IInv, ARRAY_HEADER_SIZE
    <2>4. room \in Nat
      <3>1. ArraySize(current) = 8 + ((RawPayload(current) + 7) \div 8) * 8
        BY DEF ArraySize, PayloadSize, ARRAY_HEADER_SIZE
      <3>2. RawPayload(current) \in Nat
        <4>1. n > 0
          BY <2>1, <2>3
        <4>2. Decoded(current) /\ n = ElementCount(current)
          BY <4>1 DEF Elements
        <4>3. /\ RawPayload(current) = (n * Width(current) + 7) \div 8
              /\ Width(current) \in {8, 16, 32, 64}
          BY <4>2 DEF Decoded, RawPayload
        <4> QED
          BY <2>3, <4>3
      <3> QED
        BY <3>1, <3>2
    <2> HIDE DEF n, size, room
    <2>5. index * size + size <= n * size
      BY <2>1, <2>3 DEF n
    <2>6. current + 8 + index * size + size <= current + room
      BY <2>1, <2>3, <2>4, <2>5
    <2> QED
      BY <2>2, <2>6 DEF ElementStart, ARRAY_HEADER_SIZE, n, size, room
  <1> QED
    BY <1>1, Inductive, PTL

(* The graph has every candidate and exactly the references of the format,  *)
(* so the traversal is only ever given a well-formed graph.                 *)
THEOREM GraphCorrect == Spec => []GraphExact
  <1>1. IInv => GraphExact
    BY DEF IInv, Linked, GraphExact, Attached, WellFormed, Children, ReferencesOf, Value
  <1> QED
    BY <1>1, Inductive, PTL

(* A top reference is warned about exactly when it does not resolve.        *)
THEOREM WarningsCorrect == Spec => []WarnedExactly
  BY Inductive, PTL DEF IInv

(* No streamed file is recognized without the cookie of its footer.         *)
THEOREM FooterChecked == Spec => []StreamingProtected
  BY Inductive, PTL DEF IInv

-----------------------------------------------------------------------------
(* The traversals.  They are those of Classification on the graph the scan  *)
(* left behind; its proofs are for every well-formed graph.                 *)

FileGraphs ==
  UNION { [arrays -> Seq(arrays)] : arrays \in UNION { SUBSET Places(f) : f \in Files } }

Traversal == INSTANCE ClassificationProofs WITH
               pc <- walkPc, activeRoot <- header.active,
               inactiveRoot <- header.inactive,
               Graphs <- FileGraphs, TopRefs <- Nat

(* Before the graph is complete no traversal has begun.                     *)
Untouched ==
  /\ walkPc = "enterActive" /\ pending = <<>> /\ seen = {} /\ rest = <<>>
  /\ active = {} /\ inactive = {} /\ classified = NoLabels

(* From then on the graph is what the traversals work on.                   *)
Complete ==
  pc \in {"array", "done"} /\ header # None /\ candidates = DOMAIN nodes

Walked ==
  /\ Untouched \/ (Complete /\ Traversal!IInv)
  /\ walkPc = "done" =>
       classified = [o \in DOMAIN nodes |-> Traversal!LabelOf(o)]
  /\ pc = "done" /\ header # None => walkPc = "done"

(* What Classification assumes of its graphs and of NoLabels holds here.    *)
LEMMA TraversalAssumptions ==
  Traversal!GraphsAssumption /\ Traversal!NoLabelsAssumption
  <1>1. ASSUME NEW g \in FileGraphs
        PROVE  /\ Traversal!WellFormed(g)
               /\ NoLabels \notin [DOMAIN g -> Traversal!Labels]
    <2>1. PICK f \in Files : \E arrays \in SUBSET Places(f) : g \in [arrays -> Seq(arrays)]
      BY DEF FileGraphs
    <2>2. PICK arrays \in SUBSET Places(f) : g \in [arrays -> Seq(arrays)]
      BY <2>1
    <2> QED
      BY <2>2, NoLabelsAssumption DEF Traversal!WellFormed, Traversal!Labels, Labels
  <1> QED
    BY <1>1 DEF Traversal!GraphsAssumption, Traversal!NoLabelsAssumption

(* The complete graph is one of those.                                      *)
LEMMA CompleteIsWellFormed ==
  ASSUME IInv, Complete
  PROVE  nodes \in FileGraphs
  <1>1. data \in Files /\ candidates = { i \in Hits : Plausible(i) }
    BY DEF IInv, Complete, Scanned, ScanExact
  <1>2. candidates \in SUBSET Places(data)
    <2> SUFFICES ASSUME NEW i \in Hits, Plausible(i)
                 PROVE  i \in Places(data)
      BY <1>1
    <2> QED
      BY <1>1, Bytes DEF Hits, Plausible, Places, FILE_HEADER_SIZE, ARRAY_HEADER_SIZE
  <1>3. \A i \in DOMAIN nodes : nodes[i] \in Seq(candidates)
    BY DEF IInv, Linked, Attached
  <1>4. nodes \in [DOMAIN nodes -> Seq(DOMAIN nodes)]
    BY <1>3 DEF Complete, IInv, Linked
  <1> QED
    BY <1>1, <1>2, <1>4 DEF FileGraphs, Complete

(* The traversals begin where those of Classification begin.                *)
LEMMA TraversalBegins ==
  ASSUME IInv, Complete, Untouched
  PROVE  Traversal!IInv
  BY CompleteIsWellFormed
     DEF Untouched, Traversal!IInv, Traversal!TypeOK, Traversal!Phases,
         Traversal!WalkInv, Traversal!Walking, Traversal!ReachExact,
         Traversal!NotYet

(* A step of the composition is one of theirs, or none.                     *)
LEMMA TraversalSteps ==
  ASSUME Traversal!IInv, Traversal!Next \/ UNCHANGED Traversal!vars
  PROVE  Traversal!IInv'
  BY Traversal!NextIInv, TraversalAssumptions DEF Traversal!NextIInv

(* _analyze begins with no array found and no traversal begun.              *)
LEMMA AnalysisInitInv == AnalysisInit => IInv /\ Walked
  BY InitIInv DEF AnalysisInit, Init, Walked, Untouched

(* While arrays are being found no traversal has begun.                     *)
LEMMA FindsArrays ==
  ASSUME IInv, Walked, FindArrays
  PROVE  IInv' /\ Walked'
  <1>1. ~Complete
    BY NoneAssumption
       DEF FindArrays, Complete, ParseHeader, StartScan, ScanHit, EndScan,
           NextArray, ReadElement, AttachRefs, IInv, Linked
  <1>2. Untouched /\ Untouched' /\ walkPc' # "done"
    BY <1>1 DEF Walked, FindArrays, walked, Untouched
  <1>3. pc' = "done" => header' = None
    BY DEF FindArrays, ParseHeader, StartScan, ScanHit, EndScan,
           NextArray, ReadElement, AttachRefs
  <1>4. IInv'
    BY ParsesHeader, Scans, TakesArray, ReadsElement, Attaches DEF FindArrays
  <1> QED
    BY <1>2, <1>3, <1>4 DEF Walked

(* A step of a traversal is one of Classification.                          *)
LEMMA Classifies ==
  ASSUME IInv, Walked, Classify
  PROVE  IInv' /\ Walked'
  <1>1. Complete /\ Complete' /\ pc = "array"
    BY DEF Classify, GraphComplete, Complete, IInv, vars
  <1>2. Traversal!IInv
    BY <1>1, TraversalBegins DEF Walked
  <1>3. UNCHANGED vars
    BY DEF Classify
  <1>4. Traversal!Next
    BY DEF Classify, Traversal!Next,
           Walk!EnterActive, Walk!WalkActive, Walk!ReturnActive,
           Walk!EnterInactive, Walk!WalkInactive, Walk!ReturnInactive,
           Walk!LabelNodes, Walk!StartWalk, Walk!WalkStep, Walk!WalkDone,
           Walk!SkipSeen, Walk!Expand, Walk!PushChild, Walk!LabelOf,
           Walk!args, Walk!walk,
           Traversal!EnterActive, Traversal!WalkActive, Traversal!ReturnActive,
           Traversal!EnterInactive, Traversal!WalkInactive, Traversal!ReturnInactive,
           Traversal!LabelNodes, Traversal!StartWalk, Traversal!WalkStep, Traversal!WalkDone,
           Traversal!SkipSeen, Traversal!Expand, Traversal!PushChild, Traversal!LabelOf,
           Traversal!args, Traversal!walk
  <1>5. Traversal!IInv'
    BY <1>2, <1>4, TraversalSteps
  <1>6. walkPc' = "done" =>
          classified' = [o \in DOMAIN nodes' |-> Traversal!LabelOf(o)']
    <2> SUFFICES ASSUME walkPc' = "done"
                 PROVE  classified' = [o \in DOMAIN nodes' |-> Traversal!LabelOf(o)']
      OBVIOUS
    <2>1. Walk!LabelNodes
      BY DEF Classify, Walk!EnterActive, Walk!WalkActive, Walk!ReturnActive,
             Walk!EnterInactive, Walk!WalkInactive, Walk!ReturnInactive
    <2>2. /\ classified' = [o \in DOMAIN nodes |-> Walk!LabelOf(o)]
          /\ nodes' = nodes /\ active' = active /\ inactive' = inactive
      BY <2>1 DEF Walk!LabelNodes, Walk!args
    <2>3. ASSUME NEW o PROVE Traversal!LabelOf(o)' = Walk!LabelOf(o)
      BY <2>2 DEF Traversal!LabelOf, Walk!LabelOf
    <2> QED
      BY <2>2, <2>3
  <1>7. IInv'
    BY <1>3, Stutters
  <1>8. pc' = "array"
    BY <1>1, <1>3 DEF vars
  <1> QED
    BY <1>1, <1>5, <1>6, <1>7, <1>8 DEF Walked

(* The warnings and the carver leave the labels alone.                      *)
LEMMA LeavesLabels ==
  ASSUME IInv, Walked, UNCHANGED walked, UNCHANGED <<nodes, header>>,
         Complete => Complete',
         pc' = "done" /\ header # None => walkPc = "done"
  PROVE  Walked'
  <1>1. UNCHANGED Traversal!vars
    BY DEF walked, Traversal!vars
  <1>2. Traversal!IInv => Traversal!IInv'
    BY <1>1, TraversalSteps
  <1>3. Untouched => Untouched'
    BY DEF walked, Untouched
  <1>4. \A o : Traversal!LabelOf(o)' = Traversal!LabelOf(o)
    BY DEF walked, Traversal!LabelOf
  <1>5. walkPc' = "done" =>
          classified' = [o \in DOMAIN nodes' |-> Traversal!LabelOf(o)']
    BY <1>4 DEF Walked, walked
  <1>6. walkPc' = walkPc /\ header' = header
    BY DEF walked
  <1> QED
    BY <1>2, <1>3, <1>5, <1>6 DEF Walked

(* One step of _analyze, whichever of its calls takes it.                   *)
LEMMA AnalysisSteps ==
  ASSUME IInv, Walked, [AnalysisNext]_analysis
  PROVE  IInv' /\ Walked'
  <1>1. CASE FindArrays
    BY <1>1, FindsArrays
  <1>2. CASE Classify
    BY <1>2, Classifies
  <1>3. CASE WarnOfTops
    <2>1. IInv'
      BY <1>3, Warns DEF WarnOfTops
    <2>2. Walked'
      BY <1>3, LeavesLabels DEF WarnOfTops, Warn, Complete
    <2> QED
      BY <2>1, <2>2
  <1>4. CASE UNCHANGED <<vars, walked>>
    <2>1. IInv'
      BY <1>4, Stutters
    <2>2. Complete => Complete'
      BY <1>4 DEF vars, Complete
    <2>3. UNCHANGED <<nodes, header>> /\ pc' = pc
      BY <1>4 DEF vars
    <2>4. Walked'
      BY <1>4, <2>2, <2>3, LeavesLabels DEF Walked
    <2> QED
      BY <2>1, <2>4
  <1> QED
    BY <1>1, <1>2, <1>3, <1>4 DEF AnalysisNext, ExtractStrings, analysis

(* _analyze never gives the traversals an unfinished graph, and lets        *)
(* nothing change the graph or the labels afterwards.                       *)
THEOREM AnalysisInductive == AnalysisSpec => [](IInv /\ Walked)
  BY AnalysisInitInv, AnalysisSteps, PTL DEF AnalysisSpec

(* Whatever _analyze does, its header, scan and warnings behave as they do  *)
(* by themselves: the composition implements StructuralScan, so everything  *)
(* proved of Spec above holds of the whole analysis.                        *)
THEOREM AnalysisScans == AnalysisSpec => Spec
  <1>1. AnalysisInit => Init
    BY DEF AnalysisInit
  <1>2. [AnalysisNext]_analysis => [Next]_vars
    BY DEF AnalysisNext, FindArrays, Classify, WarnOfTops, ExtractStrings,
           Next, analysis
  <1> QED
    BY <1>1, <1>2, PTL DEF AnalysisSpec, Spec

-----------------------------------------------------------------------------
(* The labels.  The references in the bytes of the file make the same graph *)
(* as the references the scan attached, in another order at most.           *)

(* A set that some sequence lists without repetition is what the sequence   *)
(* made of it consists of.                                                  *)
LEMMA SetToSeqLists ==
  ASSUME NEW S, NEW s \in Seq(S), IsInjective(s), Range(s) = S
  PROVE  Range(SetToSeq(S)) = S
  <1> DEFINE n == Len(s)
             f == SetToSeq(S)
  <1>1. n \in Nat /\ s \in [1..n -> S]
    BY LenProperties
  <1>2. s \in Bijection(1..n, S)
    BY <1>1 DEF Bijection, Injection, Surjection, Range
  <1>3. Cardinality(S) = n /\ IsFiniteSet(S)
    BY <1>1, <1>2, FS_CountingElements, FS_NatBijection DEF ExistsBijection
  <1>4. f \in [1..n -> S] /\ IsInjective(f)
    BY <1>1, <1>3 DEF SetToSeq
  <1>5. f \in Injection(1..n, S)
    BY <1>4 DEF Injection
  <1>6. Cardinality(1..n) = n
    BY <1>1, FS_Interval
  <1> HIDE DEF n, f
  <1>7. f \in Surjection(1..n, S)
    BY <1>3, <1>5, <1>6, FS_Injection
  <1> QED
    BY <1>7 DEF Surjection, Range, f

(* What is reached depends only on which arrays refer to which.             *)
LEMMA SameReach ==
  ASSUME NEW g, NEW h, DOMAIN g = DOMAIN h,
         \A i \in DOMAIN g : Children(g, i) = Children(h, i),
         NEW root
  PROVE  Reach(g, root) = Reach(h, root)
  <1>1. \A S \in SUBSET DOMAIN g : Closed(g, S) <=> Closed(h, S)
    BY DEF Closed
  <1> QED
    BY <1>1 DEF Reach

(* Every array an analysis reports has the documented label for the         *)
(* references in the bytes of the file: what _scan_array_candidates,        *)
(* _add_references, _reachable and _classify_nodes make of them together.   *)
THEOREM LabelsAreFromBytes == AnalysisSpec => []LabelsFromBytes
  <1>1. ASSUME IInv, Walked, Done, header # None
        PROVE  CorrectLabels(GraphOfFile, header.active, header.inactive, classified)
    <2>1. pc = "done" /\ walkPc = "done"
      BY <1>1 DEF Done, Walked
    <2>2. Complete /\ Traversal!IInv
      BY <1>1, <2>1 DEF Walked, Untouched
    <2>3. classified = [o \in DOMAIN nodes |-> Traversal!LabelOf(o)]
      BY <1>1, <2>1 DEF Walked
    <2>4. /\ active = Traversal!Reach(nodes, header.active)
          /\ inactive = Traversal!Reach(nodes, header.inactive)
      BY <2>1, <2>2 DEF Traversal!IInv, Traversal!ReachExact
    <2>5. Traversal!CorrectLabels(nodes, header.active, header.inactive, classified)
      BY <2>3, <2>4, Traversal!LabelsCorrect, TraversalAssumptions
         DEF Traversal!LabelsCorrect
    <2>6. \A root : Traversal!Reach(nodes, root) = Reach(nodes, root)
      BY DEF Traversal!Reach, Reach, Traversal!Closed, Closed,
             Traversal!Children, Children, Traversal!Range, Range
    <2>7. CorrectLabels(nodes, header.active, header.inactive, classified)
      BY <2>5, <2>6 DEF Traversal!CorrectLabels, CorrectLabels, Traversal!Labels, Labels
    <2>8. DOMAIN GraphOfFile = DOMAIN nodes
      BY <1>1, <2>1, <2>2 DEF GraphOfFile, ArraysOfFile, IInv, Scanned, Complete
    <2>9. ASSUME NEW i \in DOMAIN nodes
          PROVE  Children(GraphOfFile, i) = Children(nodes, i)
      <3>1. Attached(i, nodes[i], Elements(i))
        BY <1>1 DEF IInv, Linked
      <3>2. Range(nodes[i]) = ReferencesOf(i) /\ IsInjective(nodes[i])
        BY <3>1 DEF Attached, ReferencesOf, Value
      <3>3. nodes[i] \in Seq(ReferencesOf(i))
        BY <3>1, <3>2, ElementOfSeq, LenProperties DEF Attached, Range
      <3>4. Range(SetToSeq(ReferencesOf(i))) = ReferencesOf(i)
        BY <3>2, <3>3, SetToSeqLists
      <3>5. GraphOfFile[i] = SetToSeq(ReferencesOf(i))
        BY <2>8 DEF GraphOfFile
      <3> QED
        BY <3>2, <3>4, <3>5 DEF Children
    <2>10. \A root : Reach(GraphOfFile, root) = Reach(nodes, root)
      BY <2>8, <2>9, SameReach
    <2> QED
      BY <2>7, <2>8, <2>10 DEF CorrectLabels
  <1>2. IInv /\ Walked => LabelsFromBytes
    BY <1>1 DEF LabelsFromBytes, IInv
  <1> QED
    BY <1>2, AnalysisInductive, PTL

-----------------------------------------------------------------------------
(* The strings                                                              *)

(* The members of a finite set of numbers by their rank: each once, each.   *)
LEMMA Ranked ==
  ASSUME NEW D \in SUBSET Nat, IsFiniteSet(D)
  PROVE  LET s == [ k \in 1..Cardinality(D) |->
                      CHOOSE i \in D : Cardinality({ j \in D : j < i }) = k - 1 ]
         IN  s \in Seq(D) /\ Range(s) = D
  <1> DEFINE n == Cardinality(D)
             Below(i) == { j \in D : j < i }
             rank == [ i \in D |-> Cardinality(Below(i)) ]
             s == [ k \in 1..n |-> CHOOSE i \in D : Cardinality(Below(i)) = k - 1 ]
  <1>1. n \in Nat /\ IsFiniteSet(0..(n - 1)) /\ Cardinality(0..(n - 1)) = n
    <2>1. n \in Nat
      BY FS_CardinalityType
    <2> HIDE DEF n
    <2>2. n - 1 \in Int /\ IF 0 > n - 1 THEN n = 0 ELSE (n - 1) - 0 + 1 = n
      BY <2>1
    <2> QED
      BY <2>1, <2>2, FS_Interval
  <1>2. ASSUME NEW i \in D, NEW T \in SUBSET D, Below(i) \subseteq T, i \in T
        PROVE  /\ Cardinality(Below(i)) \in Nat
               /\ Cardinality(Below(i)) < Cardinality(T)
    <2>1. IsFiniteSet(T)
      BY FS_Subset
    <2>2. i \notin Below(i)
      OBVIOUS
    <2>3. IsFiniteSet(Below(i)) /\ Cardinality(Below(i)) <= Cardinality(T)
          /\ (Cardinality(Below(i)) = Cardinality(T) => Below(i) = T)
      BY <1>2, <2>1, FS_Subset
    <2>4. Cardinality(Below(i)) \in Nat /\ Cardinality(T) \in Nat
      BY <2>1, <2>3, FS_CardinalityType
    <2> HIDE DEF Below
    <2> QED
      BY <1>2, <2>2, <2>3, <2>4
  <1>3. \A i \in D : rank[i] \in 0..(n - 1)
    BY <1>1, <1>2
  <1>4. ASSUME NEW i \in D, NEW j \in D, i < j
        PROVE  rank[i] < rank[j]
    <2>1. Below(i) \subseteq Below(j) /\ i \in Below(j) /\ Below(j) \in SUBSET D
      <3>1. \A x \in D : x \in Nat
        OBVIOUS
      <3>2. \A x \in D : x < i => x < j
        BY <1>4, <3>1
      <3> QED
        BY <1>4, <3>2
    <2> HIDE DEF Below
    <2> QED
      BY <1>2, <2>1
  <1>5. \A i, j \in D : rank[i] = rank[j] => i = j
    <2>1. \A i \in D : rank[i] \in Int
      BY <1>1, <1>3
    <2> HIDE DEF rank
    <2> QED
      BY <1>4, <2>1
  <1>6. rank \in Injection(D, 0..(n - 1))
    BY <1>3, <1>5 DEF Injection, IsInjective
  <1> HIDE DEF Below, n
  <1>7. rank \in Surjection(D, 0..(n - 1))
    BY <1>1, <1>6, FS_Injection DEF n
  <1>8. ASSUME NEW k \in 1..n
        PROVE  s[k] \in D /\ rank[s[k]] = k - 1
    <2>1. k - 1 \in 0..(n - 1)
      BY <1>1
    <2>2. \E i \in D : Cardinality(Below(i)) = k - 1
      BY <1>7, <2>1 DEF Surjection
    <2> QED
      BY <2>2
  <1>9. ASSUME NEW i \in D PROVE \E k \in 1..n : s[k] = i
    <2>1. rank[i] + 1 \in 1..n /\ (rank[i] + 1) - 1 = rank[i]
      BY <1>1, <1>3
    <2> HIDE DEF rank, s
    <2> QED
      BY <1>5, <1>8, <2>1
  <1>10. s \in Seq(D) /\ DOMAIN s = 1..n
    <2>1. DOMAIN s = 1..n /\ s = [k \in 1..n |-> s[k]]
      OBVIOUS
    <2> HIDE DEF s, rank
    <2>2. s \in [1..n -> D]
      BY <1>8, <2>1
    <2> QED
      BY <1>1, <2>1, <2>2
  <1> HIDE DEF s
  <1>11. Range(s) = D
    BY <1>8, <1>9, <1>10 DEF Range
  <1> QED
    BY <1>10, <1>11 DEF s, n, Below

(* The carver is that of StringCarving on the payloads of the arrays.       *)
Carveable ==
  { i \in [nodes : Seq(Carve!Node), size : Nat] :
      \A n \in DOMAIN i.nodes : Len(i.nodes[n].payload) <= i.size }

Carver == INSTANCE StringCarvingProofs WITH
            pc <- carvePc, index <- carveIndex, input <- Input,
            Inputs <- Carveable, Minimums <- Minimums \ {Absent}

(* Before the arrays are known nothing is carved.                           *)
Uncarved ==
  /\ carvePc = "node" /\ node = 1 /\ carveIndex = 0
  /\ start = None /\ chars = 0 /\ strings = {}

Carved ==
  /\ minimum \in Minimums
  /\ Uncarved \/ (Carving /\ Carver!IInv /\ Carver!InPayload)

(* What StringCarving assumes of its inputs holds of the payloads found.    *)
LEMMA CarverAssumptions ==
  /\ Carver!InputsAssumption /\ Carver!MinimumsAssumption /\ Carver!NoneAssumption
  <1>1. Carve!Node = Carver!Node
    BY DEF Carve!Node, Carver!Node, Carve!Bytes, Carver!Bytes
  <1>2. Carver!InputsAssumption
    BY <1>1 DEF Carver!InputsAssumption, Carveable
  <1> QED
    BY <1>2, MinimumsAssumption, NoRunAssumption
       DEF Carver!MinimumsAssumption, Carver!NoneAssumption

(* The payload of an array is within the file.                              *)
LEMMA PayloadInFile ==
  ASSUME data \in Files, NEW i \in Hits, Plausible(i)
  PROVE  /\ i \in Nat /\ PayloadSize(i) \in Nat
         /\ i + ARRAY_HEADER_SIZE + PayloadSize(i) <= Len(data)
         /\ Len(data) \in Nat
  <1>1. /\ i \in Nat /\ Len(data) \in Nat /\ i + 8 <= Len(data)
        /\ \A j \in Nat : j < Len(data) => At(j) \in Byte
    BY Bytes DEF Hits, Plausible, FILE_HEADER_SIZE, ARRAY_HEADER_SIZE
  <1>2. At(i + 4) \in Nat /\ At(i + 5) \in Nat /\ At(i + 5 + 1) \in Nat
        /\ At(i + 5 + 2) \in Nat
    <2>1. \A j \in {i + 4, i + 5, i + 5 + 1, i + 5 + 2} :
            j \in Nat /\ j < Len(data)
      BY <1>1
    <2>2. \A j \in {i + 4, i + 5, i + 5 + 1, i + 5 + 2} : At(j) \in Byte
      BY <1>1, <2>1
    <2> HIDE DEF At
    <2> QED
      BY <2>2 DEF Byte
  <1>3. ElementCount(i) \in Nat
    BY <1>2 DEF ElementCount, Big
  <1>4. Width(i) \in {0, 1, 2, 4, 8, 16, 32, 64}
    <2>1. Flags(i) \in Nat
      BY <1>2 DEF Flags
    <2>2. (Flags(i) % 8) + 1 \in 1..8
      BY <2>1
    <2> QED
      BY <2>2 DEF Width, WIDTHS
  <1>5. RawPayload(i) \in Nat
    <2>1. ElementCount(i) * Width(i) \in Nat
      BY <1>3, <1>4
    <2> QED
      BY <1>3, <2>1 DEF RawPayload
  <1>6. PayloadSize(i) \in Nat
    BY <1>5 DEF PayloadSize
  <1> QED
    BY <1>1, <1>6 DEF Plausible, ArraySize, ARRAY_HEADER_SIZE

(* The arrays are listed, each once.                                        *)
LEMMA ArraysListed ==
  ASSUME IInv, Complete
  PROVE  Arrays \in Seq(DOMAIN nodes) /\ Range(Arrays) = DOMAIN nodes
  <1>1. DOMAIN nodes \in SUBSET Nat /\ data \in Files
    BY DEF IInv, TypeOK, Complete
  <1>2. Len(data) \in Nat /\ \A i \in DOMAIN nodes : i <= Len(data)
    <2>1. \A i \in DOMAIN nodes : i \in Hits /\ Plausible(i)
      BY DEF IInv, Scanned, ScanExact, Complete
    <2> QED
      BY <1>1, <2>1, Bytes DEF Hits, FILE_HEADER_SIZE
  <1>3. IsFiniteSet(DOMAIN nodes)
    BY <1>1, <1>2, FS_BoundedSetOfNaturals
  <1> QED
    BY <1>1, <1>3, Ranked DEF Arrays

(* What the carver is given is of the kind StringCarving is about.          *)
LEMMA InputIsCarveable ==
  ASSUME IInv, Complete
  PROVE  Input \in Carveable
  <1> DEFINE Piece(array) == [has_refs |-> HasRefs(array), payload |-> Payload(array)]
  <1>1. data \in Files /\ Len(data) \in Nat
        /\ \A i \in DOMAIN nodes : i \in Hits /\ Plausible(i)
    BY Bytes DEF IInv, Scanned, ScanExact, Complete
  <1>2. Arrays \in Seq(DOMAIN nodes) /\ Len(Arrays) \in Nat
        /\ DOMAIN Arrays = 1..Len(Arrays)
    BY ArraysListed, LenProperties
  <1>3. ASSUME NEW array \in DOMAIN nodes
        PROVE  /\ Payload(array) \in Seq(Carve!Bytes)
               /\ Len(Payload(array)) = PayloadSize(array)
               /\ PayloadSize(array) <= Len(data)
    <2>1. /\ array \in Nat /\ PayloadSize(array) \in Nat
          /\ array + ARRAY_HEADER_SIZE + PayloadSize(array) <= Len(data)
      BY <1>1, PayloadInFile
    <2>2. \A i : PartOf(i) \in Carve!Bytes
      BY DEF PartOf, Carve!Bytes
    <2>3. Payload(array) \in [1..PayloadSize(array) -> Carve!Bytes]
      BY <2>2 DEF Payload
    <2> QED
      BY <1>1, <2>1, <2>3 DEF ARRAY_HEADER_SIZE
  <1>4. \A array \in DOMAIN nodes : Piece(array) \in Carve!Node
    BY <1>3 DEF Carve!Node, HasRefs
  <1>5. Input.nodes = [ k \in 1..Len(Arrays) |-> Piece(Arrays[k]) ]
        /\ Input = [nodes |-> Input.nodes, size |-> Len(data)]
    BY <1>2 DEF Input
  <1>6. \A k \in 1..Len(Arrays) : Arrays[k] \in DOMAIN nodes
    BY <1>2
  <1>7. Input.nodes \in [1..Len(Arrays) -> Carve!Node]
    <2> HIDE DEF Piece
    <2> QED
      BY <1>4, <1>5, <1>6
  <1>8. \A k \in 1..Len(Arrays) : Len(Input.nodes[k].payload) <= Len(data)
    BY <1>3, <1>5, <1>6
  <1>9. Input.nodes \in Seq(Carve!Node) /\ DOMAIN Input.nodes = 1..Len(Arrays)
    BY <1>2, <1>7
  <1> QED
    BY <1>1, <1>5, <1>8, <1>9 DEF Carveable

(* _extract_strings begins where StringCarving begins.                      *)
LEMMA CarverBegins ==
  ASSUME IInv, Complete, Carving, minimum \in Minimums, Uncarved
  PROVE  Carver!IInv /\ Carver!InPayload
  <1>1. Carver!Init
    BY InputIsCarveable DEF Carver!Init, Carving, Uncarved
  <1>2. Carver!IInv
    BY <1>1, Carver!InitIInv, CarverAssumptions DEF Carver!InitIInv
  <1>3. Carver!InPayload
    BY DEF Uncarved, Carver!InPayload
  <1> QED
    BY <1>2, <1>3

(* A step of the carver is one of StringCarving, or none.                   *)
LEMMA CarverSteps ==
  ASSUME Carver!IInv, Carver!InPayload, Carver!Next \/ UNCHANGED Carver!vars
  PROVE  Carver!IInv' /\ Carver!InPayload'
  <1>1. Carver!IInv'
    BY Carver!Inductive, CarverAssumptions DEF Carver!Inductive
  <1>2. Carver!InPayload'
    BY Carver!StaysInPayload, CarverAssumptions DEF Carver!StaysInPayload
  <1> QED
    BY <1>1, <1>2

(* A step of _extract_strings, on the payloads the scan found.              *)
LEMMA CarvesOn ==
  ASSUME IInv, Walked, Carved, ExtractStrings
  PROVE  Carved'
  <1>1. Carving /\ Carving' /\ minimum' \in Minimums
    BY DEF ExtractStrings, Carving, Carved, vars, walked,
           Carve!SkipReferences, Carve!EnterNode, Carve!Return, Carve!Take,
           Carve!Break, Carve!EndUtf8, Carve!Match16, Carve!Skip16,
           Carve!EndUtf16, Carve!arguments
  <1>2. Complete
    BY <1>1 DEF Carving, Complete, IInv, Linked
  <1>3. Carver!IInv /\ Carver!InPayload
    BY <1>1, <1>2, CarverBegins DEF Carved
  <1>4. Carver!Next
    <2>1. \/ Carver!SkipReferences \/ Carver!EnterNode \/ Carver!Return
          \/ Carver!Take \/ Carver!Break \/ Carver!EndUtf8
          \/ Carver!Match16 \/ Carver!Skip16 \/ Carver!EndUtf16
      BY DEF ExtractStrings,
             Carve!SkipReferences, Carve!EnterNode, Carve!Return, Carve!Take,
             Carve!Break, Carve!EndUtf8, Carve!Match16, Carve!Skip16, Carve!EndUtf16,
             Carve!arguments, Carve!run, Carve!payload, Carve!Payload, Carve!Kept,
             Carve!Found, Carve!Compiled, Carve!Row, Carve!Printable, Carve!Printable16,
             Carve!WidthAt, Carve!Width, Carve!Leads,
             Carver!SkipReferences, Carver!EnterNode, Carver!Return, Carver!Take,
             Carver!Break, Carver!EndUtf8, Carver!Match16, Carver!Skip16, Carver!EndUtf16,
             Carver!arguments, Carver!run, Carver!payload, Carver!Payload, Carver!Kept,
             Carver!Found, Carver!Compiled, Carver!Row, Carver!Printable, Carver!Printable16,
             Carver!WidthAt, Carver!Width, Carver!Leads
    <2> QED
      BY <2>1 DEF Carver!Next
  <1> QED
    BY <1>1, <1>3, <1>4, CarverSteps DEF Carved

(* The other steps are taken before there is anything to carve, or change   *)
(* nothing the carver looks at.                                             *)
LEMMA CarvesNot ==
  ASSUME IInv, Walked, Carved, UNCHANGED carved,
         FindArrays \/ Classify \/ WarnOfTops \/ UNCHANGED vars
  PROVE  Carved'
  <1>1. CASE UNCHANGED vars
    <2>1. UNCHANGED Carver!vars /\ (Carving => Carving')
      BY <1>1 DEF vars, carved, Carving, Carver!vars, Carver!arguments, Carver!run,
                  Input, Arrays, Payload, PartOf, Matches, HasRefs, Flags, At, PayloadSize, RawPayload,
                  WidthScheme, Width, ElementCount, Big
    <2>2. Carver!IInv /\ Carver!InPayload => Carver!IInv' /\ Carver!InPayload'
      BY <2>1, CarverSteps
    <2> QED
      BY <2>1, <2>2 DEF Carved, Uncarved, carved
  <1>2. CASE FindArrays \/ WarnOfTops
    <2>1. pc # "done"
      BY <1>2 DEF FindArrays, ParseHeader, StartScan, ScanHit, EndScan,
                  NextArray, ReadElement, AttachRefs, WarnOfTops, Warn
    <2>2. Uncarved
      BY <2>1 DEF Carved, Carving
    <2> QED
      BY <2>2 DEF Carved, Uncarved, carved
  <1> QED
    BY <1>1, <1>2 DEF Classify

(* _analyze carves only once every label is given, from the payloads of     *)
(* exactly the arrays found, and changes none of them meanwhile.            *)
THEOREM CarvingInductive == AnalysisSpec => [](IInv /\ Walked /\ Carved)
  <1>1. AnalysisInit => IInv /\ Walked /\ Carved
    BY AnalysisInitInv DEF AnalysisInit, Carved, Uncarved
  <1>2. IInv /\ Walked /\ Carved /\ [AnalysisNext]_analysis
          => (IInv /\ Walked /\ Carved)'
    <2> SUFFICES ASSUME IInv, Walked, Carved, [AnalysisNext]_analysis
                 PROVE  (IInv /\ Walked /\ Carved)'
      OBVIOUS
    <2>1. IInv' /\ Walked'
      BY AnalysisSteps
    <2>2. Carved'
      BY CarvesOn, CarvesNot
         DEF AnalysisNext, analysis, FindArrays, Classify, WarnOfTops
    <2> QED
      BY <2>1, <2>2
  <1> QED
    BY <1>1, <1>2, PTL DEF AnalysisSpec

(* The strings of a payload are the same in both readings of StringCarving. *)
LEMMA SameStrings ==
  ASSUME NEW p
  PROVE  /\ Carver!Utf8Strings(p) = Carve!Utf8Strings(p)
         /\ Carver!Utf16Strings(p) = Carve!Utf16Strings(p)
  <1>1. \A i : /\ Carver!Printable(p, i) = Carve!Printable(p, i)
               /\ Carver!WidthAt(p, i) = Carve!WidthAt(p, i)
               /\ Carver!Printable16(p, i) = Carve!Printable16(p, i)
    BY DEF Carver!Printable, Carver!Printable16, Carver!WidthAt, Carver!Width, Carver!Leads,
           Carve!Printable, Carve!Printable16, Carve!WidthAt, Carve!Width, Carve!Leads
  <1>2. \A b : Carver!Covered(p, b) = Carve!Covered(p, b)
    BY <1>1 DEF Carver!Covered, Carve!Covered
  <1>3. \A s, e : /\ Carver!IsRun(p, s, e) = Carve!IsRun(p, s, e)
                  /\ Carver!CharsIn(p, s, e) = Carve!CharsIn(p, s, e)
                  /\ Carver!Row(p, s, e) = Carve!Row(p, s, e)
    BY <1>1, <1>2 DEF Carver!IsRun, Carve!IsRun, Carver!CharsIn, Carve!CharsIn,
                      Carver!Row, Carve!Row
  <1>4. \A S : Carver!Cardinality(S) = Carve!Cardinality(S)
    BY DEF Carver!Cardinality, Carve!Cardinality
  <1> QED
    BY <1>1, <1>3, <1>4
       DEF Carver!Utf8Strings, Carver!Utf16Strings, Carve!Utf8Strings, Carve!Utf16Strings

(* The bytes of a payload, read at their places in the file.                *)
LEMMA PayloadOfFile ==
  ASSUME data \in Files, NEW array \in Hits, Plausible(array)
  PROVE  [ k \in 1..(ArraySize(array) - ARRAY_HEADER_SIZE) |->
             PartOf(array + ARRAY_HEADER_SIZE + k - 1) ] = Payload(array)
  <1>1. array \in Nat /\ PayloadSize(array) \in Nat
    BY PayloadInFile
  <1>2. ArraySize(array) - ARRAY_HEADER_SIZE = PayloadSize(array)
    BY <1>1 DEF ArraySize, ARRAY_HEADER_SIZE
  <1> QED
    BY <1>2 DEF Payload

(* The part of a byte is what UTF-8 makes of it and of those that follow.   *)
LEMMA Parts ==
  ASSUME NEW i \in Nat, At(i) \in Byte
  PROVE  /\ PartOf(i) \in {"text", "tab"} <=> At(i) \in 32..126 \cup {9}
         /\ PartOf(i) = "cont" <=> At(i) \in 128..191
         /\ \A width \in 2..4 :
              PartOf(i) = <<"lead2", "lead3", "lead4">>[width - 1] <=>
                \E c \in Characters : /\ Len(c) = width /\ i + width <= Len(data)
                                      /\ Matches(i, c)
  <1> DEFINE Leads(width) ==
        \E c \in Characters : /\ Len(c) = width /\ i + width <= Len(data)
                              /\ Matches(i, c)
  <1>1. ASSUME NEW width \in 2..4, Leads(width)
        PROVE  At(i) \in <<192..223, 224..239, 240..247>>[width - 1]
    <2>1. PICK c \in Characters : Len(c) = width /\ Matches(i, c)
      BY <1>1
    <2>2. c[1] \in <<192..223, 224..239, 240..247>>[width - 1]
      BY <2>1, CharactersAssumption
    <2>3. At(i) = c[1]
      <3>1. 1 \in 1..Len(c) /\ i + 1 - 1 = i
        BY <2>1
      <3> QED
        BY <2>1, <3>1 DEF Matches
    <2> QED
      BY <2>2, <2>3
  <1>2. /\ Leads(2) => At(i) \in 192..223
        /\ Leads(3) => At(i) \in 224..239
        /\ Leads(4) => At(i) \in 240..247
    <2> HIDE DEF Leads
    <2>1. 2 \in 2..4 /\ 3 \in 2..4 /\ 4 \in 2..4
      OBVIOUS
    <2> QED
      BY <1>1, <2>1
  <1>3. PartOf(i) = CASE At(i) \in 32..126 -> "text" [] At(i) = 9 -> "tab"
                      [] At(i) = 0 -> "zero" [] At(i) \in 128..191 -> "cont"
                      [] Leads(2) -> "lead2" [] Leads(3) -> "lead3"
                      [] Leads(4) -> "lead4" [] OTHER -> "stray"
    BY Zenon DEF PartOf
  <1> HIDE DEF Leads
  <1>4. /\ PartOf(i) = "lead2" <=> Leads(2)
        /\ PartOf(i) = "lead3" <=> Leads(3)
        /\ PartOf(i) = "lead4" <=> Leads(4)
    BY <1>2, <1>3
  <1>5. /\ PartOf(i) \in {"text", "tab"} <=> At(i) \in 32..126 \cup {9}
        /\ PartOf(i) = "cont" <=> At(i) \in 128..191
    BY <1>2, <1>3
  <1>6. \A width \in 2..4 :
          PartOf(i) = <<"lead2", "lead3", "lead4">>[width - 1] <=> Leads(width)
    BY <1>4
  <1> QED
    BY <1>5, <1>6 DEF Leads

(* What the carver takes for a character is one of ASCII or of Characters,  *)
(* in the bytes of the file and within the payload.                         *)
LEMMA PrintableInFile ==
  ASSUME data \in Files, NEW array \in Hits, Plausible(array),
         NEW k \in 0..(PayloadSize(array) - 1)
  PROVE  LET i == array + ARRAY_HEADER_SIZE + k IN
         Carve!Printable(Payload(array), k) <=>
           \/ At(i) \in 32..126 \cup {9}
           \/ \E c \in Characters :
                k + Len(c) <= PayloadSize(array) /\ Matches(i, c)
  <1> DEFINE n == PayloadSize(array)
             p == Payload(array)
             i == array + ARRAY_HEADER_SIZE + k
  <1>1. /\ array \in Nat /\ n \in Nat /\ Len(data) \in Nat
        /\ array + 8 + n <= Len(data)
    BY PayloadInFile DEF ARRAY_HEADER_SIZE
  <1>2. Len(p) = n /\ \A j \in 1..n : p[j] = PartOf(array + 8 + j - 1)
    BY <1>1 DEF Payload, ARRAY_HEADER_SIZE
  <1>3. \A j \in 0..(n - 1) : array + 8 + j \in Nat /\ At(array + 8 + j) \in Byte
    <2>1. \A j \in 0..(n - 1) : array + 8 + j \in Nat /\ array + 8 + j < Len(data)
      BY <1>1
    <2> QED
      BY <2>1, Bytes
  <1>4. i = array + 8 + k /\ i \in Nat /\ At(i) \in Byte
    BY <1>1, <1>3 DEF ARRAY_HEADER_SIZE
  <1>5. \A j \in 0..(n - 1) : p[j + 1] = PartOf(array + 8 + j)
    <2>1. \A j \in 0..(n - 1) : j + 1 \in 1..n /\ array + 8 + (j + 1) - 1 = array + 8 + j
      BY <1>1
    <2> HIDE DEF p, n
    <2> QED
      BY <1>2, <2>1
  <1>6. p[k + 1] = PartOf(i)
    BY <1>4, <1>5
  <1> HIDE DEF n, p, i
  <1>7. ASSUME Carve!Printable(p, k), At(i) \notin 32..126 \cup {9}
        PROVE  \E c \in Characters : k + Len(c) <= n /\ Matches(i, c)
    <2>1. PICK width \in 2..4 : PartOf(i) = <<"lead2", "lead3", "lead4">>[width - 1]
      <3>1. PartOf(i) \in {"lead2", "lead3", "lead4"}
        BY <1>4, <1>6, <1>7, Parts DEF Carve!Printable, Carve!Leads
      <3>2. \/ PartOf(i) = <<"lead2", "lead3", "lead4">>[2 - 1]
            \/ PartOf(i) = <<"lead2", "lead3", "lead4">>[3 - 1]
            \/ PartOf(i) = <<"lead2", "lead3", "lead4">>[4 - 1]
        BY <3>1
      <3>3. 2 \in 2..4 /\ 3 \in 2..4 /\ 4 \in 2..4
        OBVIOUS
      <3> QED
        BY <3>2, <3>3
    <2>2. PICK c \in Characters : Len(c) = width /\ Matches(i, c)
      BY <1>4, <2>1, Parts
    <2>3. Carve!WidthAt(p, k) = width
      BY <1>6, <2>1 DEF Carve!WidthAt, Carve!Width
    <2> QED
      BY <1>2, <1>7, <2>2, <2>3 DEF Carve!Printable
  <1>8. ASSUME At(i) \in 32..126 \cup {9}
        PROVE  Carve!Printable(p, k)
    <2>1. p[k + 1] \in {"text", "tab"}
      BY <1>4, <1>6, <1>8, Parts
    <2>2. Carve!WidthAt(p, k) = 1
      BY <2>1 DEF Carve!WidthAt, Carve!Width
    <2>3. k < n /\ k + 1 <= n /\ 1..(1 - 1) = {}
      BY <1>1 DEF n
    <2> QED
      BY <1>2, <2>1, <2>2, <2>3 DEF Carve!Printable, Carve!Leads
  <1>9. ASSUME NEW c \in Characters, k + Len(c) <= n, Matches(i, c)
        PROVE  Carve!Printable(p, k)
    <2> DEFINE width == Len(c)
    <2>1. /\ width \in 2..4 /\ \A j \in 2..width : c[j] \in 128..191
      BY CharactersAssumption
    <2> HIDE DEF width
    <2>2. k \in 0..(n - 1) /\ k + width <= n /\ i + width <= Len(data)
      BY <1>1, <1>4, <1>9, <2>1 DEF width, n
    <2>3. PartOf(i) = <<"lead2", "lead3", "lead4">>[width - 1]
      BY <1>4, <1>9, <2>1, <2>2, Parts DEF width
    <2>4. p[k + 1] \in {"lead2", "lead3", "lead4"} /\ Carve!WidthAt(p, k) = width
      BY <1>6, <2>1, <2>3 DEF Carve!WidthAt, Carve!Width
    <2>5. ASSUME NEW j \in 1..(width - 1) PROVE p[k + j + 1] = "cont"
      <3>1. k + j \in 0..(n - 1) /\ array + 8 + (k + j) = i + j
        BY <1>1, <1>4, <2>1, <2>2
      <3>2. p[k + j + 1] = PartOf(i + j) /\ i + j \in Nat /\ At(i + j) \in Byte
        BY <1>3, <1>5, <3>1
      <3>3. j + 1 \in 2..width /\ j + 1 \in 1..width /\ i + (j + 1) - 1 = i + j
        BY <1>4, <2>1
      <3>4. At(i + j) = c[j + 1]
        BY <1>9, <3>3 DEF Matches, width
      <3> QED
        BY <2>1, <3>2, <3>3, <3>4, Parts
    <2>6. k < Len(p) /\ k + width <= Len(p)
      BY <1>2, <2>1, <2>2
    <2> QED
      BY <2>4, <2>5, <2>6 DEF Carve!Printable, Carve!Leads
  <1> QED
    BY <1>7, <1>8, <1>9 DEF n, p, i

(* What is found of an array's payload, at its places in the file.          *)
Placed(array, encoding, extents) ==
  { <<array, encoding, array + ARRAY_HEADER_SIZE + r[1],
      array + ARRAY_HEADER_SIZE + r[2]>> : r \in extents }

Extents(array, encoding) ==
  IF HasRefs(array) THEN {}
  ELSE IF encoding = "utf-8" THEN Carve!Utf8Strings(Payload(array))
  ELSE Carve!Utf16Strings(Payload(array))

(* What is to be found of an array, encoding by encoding.                   *)
LEMMA StringsOfArray ==
  ASSUME data \in Files, NEW array \in Hits, Plausible(array)
  PROVE  StringsOfFile(array) =
           UNION { Placed(array, encoding, Extents(array, encoding)) :
                     encoding \in {"utf-8", "utf-16le"} }
  <1> DEFINE bytes == [ k \in 1..(ArraySize(array) - ARRAY_HEADER_SIZE) |->
                          PartOf(array + ARRAY_HEADER_SIZE + k - 1) ]
  <1>1. bytes = Payload(array)
    BY PayloadOfFile
  <1>2. StringsOfFile(array) =
          IF HasRefs(array) THEN {}
          ELSE Placed(array, "utf-8", Carve!Utf8Strings(bytes))
                 \cup Placed(array, "utf-16le", Carve!Utf16Strings(bytes))
    BY Zenon DEF StringsOfFile, Placed
  <1>3. Placed(array, "utf-8", {}) = {} /\ Placed(array, "utf-16le", {}) = {}
    BY DEF Placed
  <1>4. UNION { Placed(array, encoding, Extents(array, encoding)) :
                  encoding \in {"utf-8", "utf-16le"} }
          = Placed(array, "utf-8", Extents(array, "utf-8"))
              \cup Placed(array, "utf-16le", Extents(array, "utf-16le"))
    OBVIOUS
  <1> HIDE DEF bytes
  <1> QED
    BY <1>1, <1>2, <1>3, <1>4 DEF Extents

(* What the carver found, array by array.                                   *)
LEMMA FoundInArray ==
  ASSUME IInv, Complete, Carver!IInv, Carver!InPayload, carvePc = "done"
  PROVE  /\ \A n \in 1..Len(Arrays) : \A encoding \in {"utf-8", "utf-16le"} :
              Carver!StringsOf(n, encoding) = Extents(Arrays[n], encoding)
         /\ \A s \in strings :
              /\ s[1] \in 1..Len(Arrays) /\ s[2] \in {"utf-8", "utf-16le"}
              /\ s = <<s[1], s[2], s[3], s[4]>>
              /\ <<s[3], s[4]>> \in Carver!StringsOf(s[1], s[2])
  <1>1. /\ Arrays \in Seq(DOMAIN nodes) /\ DOMAIN Arrays = 1..Len(Arrays)
    BY ArraysListed, LenProperties
  <1>2. /\ DOMAIN Input.nodes = 1..Len(Arrays)
        /\ \A n \in 1..Len(Arrays) :
             /\ Input.nodes[n].has_refs = HasRefs(Arrays[n])
             /\ Carver!Payload(n) = Payload(Arrays[n])
    BY <1>1 DEF Input, Carver!Payload
  <1>3. ASSUME NEW n \in 1..Len(Arrays), NEW encoding \in {"utf-8", "utf-16le"}
        PROVE  Carver!StringsOf(n, encoding) = Extents(Arrays[n], encoding)
    <2>1. Carver!StringsOf(n, encoding) = Carver!Expected(n, encoding)
      BY <1>2, Carver!DoneIsExpected, CarverAssumptions
         DEF Carver!DoneIsExpected, Carver!Encodings
    <2> QED
      BY <1>2, <2>1, SameStrings DEF Carver!Expected, Extents
  <1>4. ASSUME NEW s \in strings
        PROVE  /\ s[1] \in 1..Len(Arrays) /\ s[2] \in {"utf-8", "utf-16le"}
               /\ s = <<s[1], s[2], s[3], s[4]>>
               /\ <<s[3], s[4]>> \in Carver!StringsOf(s[1], s[2])
    <2>1. s \in Nat \X {"utf-8", "utf-16le"} \X Nat \X Nat
      BY DEF Carver!IInv, Carver!TypeOK
    <2>2. /\ s[2] \in {"utf-8", "utf-16le"} /\ s = <<s[1], s[2], s[3], s[4]>>
      BY <2>1
    <2>3. /\ s[1] \in 1..Len(Arrays)
          /\ s[3] \in 0..Len(Carver!Payload(s[1]))
          /\ s[4] \in 0..Len(Carver!Payload(s[1]))
      BY <1>2 DEF Carver!InPayload
    <2>4. <<s[3], s[4]>> \in Carver!StringsOf(s[1], s[2])
      BY <2>2, <2>3 DEF Carver!StringsOf
    <2> QED
      BY <2>2, <2>3, <2>4
  <1> QED
    BY <1>3, <1>4

(* Every string an analysis reports stands at its offsets in the file, in   *)
(* the payload of the array it is reported for, and none of those the       *)
(* minimum asks for is missing, whatever _scan_array_candidates found.      *)
THEOREM StringsAreInPlace == AnalysisSpec => []StringsInPlace
  <1>1. ASSUME IInv, Walked, Carved, Done, header # None
        PROVE  Evidence = IF minimum = Absent THEN {}
                          ELSE UNION { StringsOfFile(array) : array \in ArraysOfFile }
    <2>1. Complete /\ pc = "done" /\ data \in Files
      BY <1>1 DEF Done, Complete, IInv, Linked
    <2>2. /\ DOMAIN nodes = ArraysOfFile
          /\ \A array \in ArraysOfFile : array \in Hits /\ Plausible(array)
      BY <1>1, <2>1 DEF ArraysOfFile, IInv, Scanned, Complete
    <2>3. CASE ~Carving
      <3>1. strings = {}
        BY <1>1, <2>3 DEF Carved, Uncarved
      <3>2. Evidence = {}
        BY <3>1 DEF Evidence
      <3>3. minimum = Absent \/ ArraysOfFile = {}
        BY <1>1, <2>1, <2>2, <2>3 DEF Carving
      <3> QED
        BY <3>2, <3>3
    <2>4. CASE Carving
      <3>1. carvePc = "done" /\ minimum # Absent
        BY <1>1, <2>4 DEF Done, Carving
      <3>2. Carver!IInv /\ Carver!InPayload
        BY <1>1, <3>1 DEF Carved, Uncarved
      <3>3. /\ \A n \in 1..Len(Arrays) : \A encoding \in {"utf-8", "utf-16le"} :
                 Carver!StringsOf(n, encoding) = Extents(Arrays[n], encoding)
            /\ \A s \in strings :
                 /\ s[1] \in 1..Len(Arrays) /\ s[2] \in {"utf-8", "utf-16le"}
                 /\ s = <<s[1], s[2], s[3], s[4]>>
                 /\ <<s[3], s[4]>> \in Carver!StringsOf(s[1], s[2])
        BY <1>1, <2>1, <3>1, <3>2, FoundInArray
      <3>4. /\ \A n \in 1..Len(Arrays) : Arrays[n] \in ArraysOfFile
            /\ \A array \in ArraysOfFile : \E n \in 1..Len(Arrays) : Arrays[n] = array
        BY <1>1, <2>1, <2>2, ArraysListed, LenProperties DEF Range
      <3>5. ASSUME NEW s \in strings
            PROVE  <<Arrays[s[1]], s[2], Arrays[s[1]] + ARRAY_HEADER_SIZE + s[3],
                     Arrays[s[1]] + ARRAY_HEADER_SIZE + s[4]>>
                     \in UNION { StringsOfFile(array) : array \in ArraysOfFile }
        <4> DEFINE array == Arrays[s[1]]
                   r == <<s[3], s[4]>>
        <4>1. array \in ArraysOfFile /\ s[2] \in {"utf-8", "utf-16le"}
              /\ r \in Extents(array, s[2])
          BY <3>3, <3>4
        <4>2. <<array, s[2], array + ARRAY_HEADER_SIZE + r[1],
                array + ARRAY_HEADER_SIZE + r[2]>>
                \in Placed(array, s[2], Extents(array, s[2]))
          BY <4>1 DEF Placed
        <4>3. Placed(array, s[2], Extents(array, s[2])) \subseteq StringsOfFile(array)
          BY <2>1, <2>2, <4>1, StringsOfArray
        <4> QED
          BY <4>1, <4>2, <4>3
      <3>6. ASSUME NEW array \in ArraysOfFile, NEW e \in StringsOfFile(array)
            PROVE  e \in Evidence
        <4>1. PICK encoding \in {"utf-8", "utf-16le"} :
                e \in Placed(array, encoding, Extents(array, encoding))
          BY <2>1, <2>2, StringsOfArray
        <4>2. PICK n \in 1..Len(Arrays) : Arrays[n] = array
          BY <3>4
        <4>3. PICK r \in Carver!StringsOf(n, encoding) :
                e = <<array, encoding, array + ARRAY_HEADER_SIZE + r[1],
                      array + ARRAY_HEADER_SIZE + r[2]>>
          BY <3>3, <4>1, <4>2 DEF Placed
        <4> DEFINE s == <<n, encoding, r[1], r[2]>>
        <4>4. s \in strings
          BY DEF Carver!StringsOf
        <4>5. s[1] = n /\ s[2] = encoding /\ s[3] = r[1] /\ s[4] = r[2]
          OBVIOUS
        <4> HIDE DEF s
        <4> QED
          BY <4>2, <4>3, <4>4, <4>5 DEF Evidence
      <3>7. Evidence \subseteq UNION { StringsOfFile(array) : array \in ArraysOfFile }
        BY <3>5 DEF Evidence
      <3>8. UNION { StringsOfFile(array) : array \in ArraysOfFile } \subseteq Evidence
        BY <3>6
      <3> QED
        BY <3>1, <3>7, <3>8
    <2> QED
      BY <2>3, <2>4
  <1>2. IInv /\ Walked /\ Carved => StringsInPlace
    BY <1>1 DEF StringsInPlace
  <1> QED
    BY <1>2, CarvingInductive, PTL
=============================================================================
