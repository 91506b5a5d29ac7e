--------------------------- MODULE ForensicAnalysis ---------------------------
(***************************************************************************)
(* parser._analyze once the file is mapped: the header and the arrays of    *)
(* StructuralScan, the labels of Classification, the warnings, and the      *)
(* strings of StringCarving, each on what the one before it left behind.    *)
(* The traversal gets the graph the scan built, the carver the payloads     *)
(* between the offsets the scan found.                                      *)
(***************************************************************************)
EXTENDS StructuralScan, SequencesExt

CONSTANTS
  Characters,  \* printable characters beyond ASCII, as UTF-8 encodes them
  Minimums,    \* the values of minimum_string, Absent among them
  Absent,      \* nothing is to be carved
  NoLabels

ASSUME CharactersAssumption ==
  \A c \in Characters :
    /\ c \in Seq(Byte) /\ Len(c) \in 2..4
    /\ c[1] \in <<192..223, 224..239, 240..247>>[Len(c) - 1]
    /\ \A k \in 2..Len(c) : c[k] \in 128..191

(* Where an array may begin, and no labels: not the labels of any arrays.   *)
Places(file) ==
  { i \in FILE_HEADER_SIZE..(Len(file) - ARRAY_HEADER_SIZE) : i % 8 = 0 }

ASSUME NoLabelsAssumption ==
  \A f \in Files : \A arrays \in SUBSET Places(f) :
    NoLabels \notin [arrays -> Labels]

(* What StringCarving assumes: no run is no position.                       *)
ASSUME NoRunAssumption == None \notin Nat
ASSUME MinimumsAssumption == Minimums \ {Absent} \subseteq Nat \ {0}

VARIABLES
  walkPc, pending, seen, rest, active, inactive, classified,
  minimum, carvePc, node, carveIndex, start, chars, strings

walked  == <<walkPc, pending, seen, rest, active, inactive, classified>>
carved  == <<minimum, carvePc, node, carveIndex, start, chars, strings>>
analysis == <<vars, walked, carved>>

(* _classify_nodes(nodes, header)                                           *)
Walk == INSTANCE Classification WITH
          pc <- walkPc, activeRoot <- header.active,
          inactiveRoot <- header.inactive, Graphs <- {}, TopRefs <- {}

(* The arrays, in the order of their offsets.                               *)
Arrays ==
  [ k \in 1..Cardinality(DOMAIN nodes) |->
      CHOOSE i \in DOMAIN nodes :
        Cardinality({ j \in DOMAIN nodes : j < i }) = k - 1 ]

(* The part the byte at i plays for the carver.                             *)
PartOf(i) ==
  LET byte == At(i)
      Leads(width) ==
        \E c \in Characters : /\ Len(c) = width /\ i + width <= Len(data)
                              /\ Matches(i, c)
  IN  CASE byte \in 32..126 -> "text"    [] byte = 9 -> "tab"
        [] byte = 0 -> "zero"            [] byte \in 128..191 -> "cont"
        [] Leads(2) -> "lead2"           [] Leads(3) -> "lead3"
        [] Leads(4) -> "lead4"           [] OTHER -> "stray"

\* Mutated form: the payload begins with the header of its array.
Payload_FromHeader(array) ==
  [ k \in 1..PayloadSize(array) |-> PartOf(array + k - 1) ]

(* data[payload_start : payload_start + node.payload_size]                  *)
Payload(array) ==
  [ k \in 1..PayloadSize(array) |-> PartOf(array + ARRAY_HEADER_SIZE + k - 1) ]

Input ==
  [nodes |-> [ k \in DOMAIN Arrays |->
                 [has_refs |-> HasRefs(Arrays[k]),
                  payload |-> Payload(Arrays[k])] ],
   size |-> Len(data)]

Carve == INSTANCE StringCarving WITH
           pc <- carvePc, index <- carveIndex, input <- Input,
           Inputs <- {}, Minimums <- Minimums \ {Absent}

AnalysisInit ==
  /\ Init
  /\ walkPc = "enterActive" /\ pending = <<>> /\ seen = {} /\ rest = <<>>
  /\ active = {} /\ inactive = {} /\ classified = NoLabels
  /\ minimum \in Minimums
  /\ carvePc = "node" /\ node = 1 /\ carveIndex = 0
  /\ start = None /\ chars = 0 /\ strings = {}

-----------------------------------------------------------------------------
(* The calls of _analyze, one after the other                               *)

FindArrays ==
  /\ \/ ParseHeader \/ StartScan \/ ScanHit \/ EndScan
     \/ NextArray \/ ReadElement \/ AttachRefs
  /\ UNCHANGED <<walked, carved>>

GraphComplete == pc = "array" /\ candidates = DOMAIN nodes

Classify ==
  /\ GraphComplete
  /\ UNCHANGED <<vars, carved>>
  /\ \/ Walk!EnterActive \/ Walk!WalkActive \/ Walk!ReturnActive
     \/ Walk!EnterInactive \/ Walk!WalkInactive \/ Walk!ReturnInactive
     \/ Walk!LabelNodes

WarnOfTops ==
  /\ walkPc = "done"
  /\ Warn
  /\ UNCHANGED <<walked, carved>>

(* if minimum_string is not None and arrays                                 *)
Carving ==
  /\ pc = "done" /\ header # None
  /\ minimum # Absent /\ DOMAIN nodes # {}

ExtractStrings ==
  /\ Carving
  /\ UNCHANGED <<vars, walked>>
  /\ \/ Carve!SkipReferences \/ Carve!EnterNode \/ Carve!Return
     \/ Carve!Take \/ Carve!Break \/ Carve!EndUtf8
     \/ Carve!Match16 \/ Carve!Skip16 \/ Carve!EndUtf16

Done == pc = "done" /\ (Carving => carvePc = "done")

AnalysisNext ==
  \/ FindArrays \/ Classify \/ WarnOfTops \/ ExtractStrings
  \/ Done /\ UNCHANGED analysis

AnalysisSpec == AnalysisInit /\ [][AnalysisNext]_analysis

(* One thread, waiting for nothing.                                         *)
FairSpec == AnalysisSpec /\ WF_analysis(AnalysisNext)

-----------------------------------------------------------------------------
(* Properties                                                               *)

(* The arrays of the file and the references between them, from its bytes.  *)
ArraysOfFile == { i \in Hits : Plausible(i) }
GraphOfFile ==
  [ i \in ArraysOfFile |-> SetToSeq(ReferencesOf(i)) ]

(* The strings of an array's payload, as they stand in the file.            *)
StringsOfFile(array) ==
  LET at == array + ARRAY_HEADER_SIZE
      bytes == [ k \in 1..(ArraySize(array) - ARRAY_HEADER_SIZE) |->
                   PartOf(at + k - 1) ]
      found(encoding, extents) ==
        { <<array, encoding, at + r[1], at + r[2]>> : r \in extents }
  IN  IF HasRefs(array) THEN {}
      ELSE found("utf-8", Carve!Utf8Strings(bytes))
             \cup found("utf-16le", Carve!Utf16Strings(bytes))

(* CarvedString: array_offset, encoding, file_offset and its end.           *)
Evidence ==
  { LET array == Arrays[s[1]]
        at == array + ARRAY_HEADER_SIZE
    IN  <<array, s[2], at + s[3], at + s[4]>> : s \in strings }

(* An array is labelled by what the bytes of the file make of it: the label *)
(* says which of the two top references reach it, by the references in its  *)
(* bytes, whatever arrays are on the way; those of a streamed file are from *)
(* a footer that is known to be complete.                                   *)
LabelsFromBytes ==
  Done /\ header # None =>
    /\ StreamingProtected
    /\ CorrectLabels(GraphOfFile, header.active, header.inactive, classified)

(* Every string carved lies in the payload of the array it is attributed    *)
(* to, at the offset in the file it is reported with, and nothing printable *)
(* in any payload is left out.                                              *)
StringsInPlace ==
  Done /\ header # None =>
    Evidence = IF minimum = Absent THEN {}
               ELSE UNION { StringsOfFile(array) : array \in ArraysOfFile }

(* Every analysis of a mapped file ends: the scan, whatever signatures      *)
(* overlap, the traversals on cyclic references, the carver on any bytes.   *)
Termination == <>Done
=============================================================================
