-------------------------- MODULE EvidenceAnalysis --------------------------
(***************************************************************************)
(* parser._analyze and the file it reads, while other programs write the    *)
(* file or put another one in its place.  The digest is read through the    *)
(* open file, the emptiness test goes by path, and the structure is read    *)
(* through a mapping made afterwards; what is found in the pages is the     *)
(* subject of StructuralScan and Classification.                            *)
(*                                                                          *)
(* A file is a sequence of pages.  The mapping shares the pages with the    *)
(* writers and keeps the length it was made with: touching a page that was  *)
(* cut off since ends the process.                                          *)
(***************************************************************************)
EXTENDS Naturals, Sequences

CONSTANTS
  Inodes,       \* files that may have the name, now or later
  Nothing,      \* no file
  Pages,        \* what may be in a page
  WithHeader,   \* pages that, coming first, are a Realm header
  WithArrays,   \* pages with arrays
  HighEntropy,  \* pages of random bytes
  Short,        \* pages that are not full, the last one only
  Contents,     \* what may be in a file
  SampleHalf,   \* pages sampled for the entropy at each end
  MaxChanges    \* bound: the changes others make

ASSUME NothingAssumption == Nothing \notin Inodes
ASSUME ContentsAssumption == Contents \subseteq Seq(Pages)
ASSUME BoundsAssumption == SampleHalf \in Nat /\ MaxChanges \in Nat

VARIABLES
  content,  \* the file system: what is in each file
  path,     \* ... and which one the path names
  changes,  \* how often others changed it
  pc,       \* where _analyze is
  carving,  \* minimum_string was given
  opened,   \* the file that was opened
  hashed,   \* the pages the digest was taken of
  statted,  \* the file whose size was tested
  mapped,   \* the length of the mapping
  whole,    \* ... is a multiple of the page size
  page,     \* the page a pass over the mapping is at
  views,    \* what each pass read: pairs of a page and what was in it
  class,    \* the classification that is returned
  start,    \* history: what was in the file when it was opened
  written   \* history: the opened file was written since

files == <<content, path, changes>>
mapping == <<mapped, whole>>
evidence == <<start, written>>
vars == <<files, pc, carving, opened, hashed, statted, mapping, page, views,
          class, evidence>>

Passes == {"entropy", "header", "scan", "references", "strings"}
Classes == {"empty", "plaintext-realm", "not-a-plain-realm",
            "possible-encrypted-or-unsupported-realm"}

File == content[opened]

Init ==
  /\ content \in [Inodes -> Contents] /\ path \in Inodes \cup {Nothing}
  /\ changes = 0
  /\ pc = "open" /\ carving \in BOOLEAN
  /\ opened = Nothing /\ hashed = <<>> /\ statted = Nothing
  /\ mapped = 0 /\ whole = TRUE
  /\ page = 1 /\ views = [p \in Passes |-> {}]
  /\ class = "none"
  /\ start = <<>> /\ written = FALSE

-----------------------------------------------------------------------------
(* The digest and the size                                                  *)

(* path.resolve(strict=True).open("rb")                                     *)
Open ==
  /\ pc = "open"
  /\ opened' = path
  /\ IF path = Nothing
     THEN pc' = "raised" /\ UNCHANGED start
     ELSE pc' = "hash" /\ start' = content[path]
  /\ UNCHANGED <<files, carving, hashed, statted, mapping, page, views, class,
                 written>>

(* One file.read of _sha256, which b"" ends.                                *)
HashPage ==
  /\ pc = "hash" /\ Len(hashed) < Len(File)
  /\ hashed' = Append(hashed, File[Len(hashed) + 1])
  /\ UNCHANGED <<files, pc, carving, opened, statted, mapping, page, views,
                 class, evidence>>

HashEnd ==
  /\ pc = "hash" /\ Len(hashed) >= Len(File)
  /\ pc' = "stat"
  /\ UNCHANGED <<files, carving, opened, hashed, statted, mapping, page, views,
                 class, evidence>>

\* Mutated form: there is no early return for an empty file.
Stat_NoReturn ==
  /\ pc = "stat"
  /\ statted' = path
  /\ pc' = IF path = Nothing THEN "raised" ELSE "map"
  /\ UNCHANGED <<files, carving, opened, hashed, mapping, page, views, class,
                 evidence>>

(* resolved.stat(), by path: an empty file returns at once.                 *)
Stat ==
  /\ pc = "stat"
  /\ statted' = path
  /\ IF path # Nothing /\ content[path] = <<>>
     THEN pc' = "done" /\ class' = "empty"
     ELSE pc' = (IF path = Nothing THEN "raised" ELSE "map") /\ UNCHANGED class
  /\ UNCHANGED <<files, carving, opened, hashed, mapping, page, views, evidence>>

-----------------------------------------------------------------------------
(* The mapping                                                              *)

\* Mutated form: the file is opened once more, by path.
Map_ByPath ==
  /\ pc = "map"
  /\ opened' = IF path = Nothing THEN opened ELSE path
  /\ LET file == content[opened'] IN
     /\ mapped' = Len(file)
     /\ whole' = (file # <<>> => file[Len(file)] \notin Short)
     /\ pc' = IF path = Nothing \/ file = <<>> THEN "raised" ELSE "entropy"
  /\ UNCHANGED <<files, carving, hashed, statted, page, views, class, evidence>>

(* mmap.mmap(file.fileno(), 0): the length the open file has now, and a     *)
(* ValueError when that is zero.                                            *)
Map ==
  /\ pc = "map"
  /\ mapped' = Len(File)
  /\ whole' = (File # <<>> => File[Len(File)] \notin Short)
  /\ pc' = IF File = <<>> THEN "raised" ELSE "entropy"
  /\ UNCHANGED <<files, carving, opened, hashed, statted, page, views, class,
                 evidence>>

View(pass, k) == { v[2] : v \in { w \in views[pass] : w[1] = k } }

(* The pages a pass looks at: both ends for the entropy, the first one for  *)
(* the header, all for the signatures, those where arrays were found after. *)
Wanted(pass, k) ==
  \/ pass = "entropy" /\ (k <= SampleHalf \/ k + SampleHalf > mapped)
  \/ pass = "header" /\ k = 1
  \/ pass = "scan"
  \/ pass \in {"references", "strings"} /\ View("scan", k) \subseteq WithArrays

(* _classify_headerless, by the entropy of the sample and the size.         *)
Headerless ==
  IF whole /\ \A v \in views["entropy"] : v[2] \in HighEntropy
  THEN "possible-encrypted-or-unsupported-realm" ELSE "not-a-plain-realm"

HasHeader == View("header", 1) \subseteq WithHeader
HasArrays == \E v \in views["scan"] : v[2] \in WithArrays

TurnPage ==
  /\ pc \in Passes /\ page <= mapped
  /\ IF ~Wanted(pc, page) THEN page' = page + 1 /\ UNCHANGED <<pc, views>>
     ELSE IF page <= Len(File)
     THEN /\ views' = [views EXCEPT ![pc] = @ \cup {<<page, File[page]>>}]
          /\ page' = page + 1
          /\ UNCHANGED pc
     ELSE pc' = "killed" /\ UNCHANGED <<page, views>>
  /\ UNCHANGED <<files, carving, opened, hashed, statted, mapping, class, evidence>>

(* A pass is over; what it found decides what comes next.                   *)
EndPass ==
  LET end(result) == pc' = "done" /\ class' = result
      next(pass) == pc' = pass /\ UNCHANGED class
  IN  /\ pc \in Passes /\ page > mapped
      /\ page' = 1
      /\ \/ pc = "entropy" /\ next("header")
         \/ pc = "header" /\ HasHeader /\ next("scan")
         \/ pc = "header" /\ ~HasHeader /\ end(Headerless)
         \/ pc = "scan" /\ next("references")
         \/ pc = "references" /\ carving /\ HasArrays /\ next("strings")
         \/ pc = "references" /\ ~(carving /\ HasArrays) /\ end("plaintext-realm")
         \/ pc = "strings" /\ end("plaintext-realm")
      /\ UNCHANGED <<files, carving, opened, hashed, statted, mapping, views,
                     evidence>>

Analyze == Open \/ HashPage \/ HashEnd \/ Stat \/ Map \/ TurnPage \/ EndPass

Ended == pc \in {"done", "raised", "killed"}

-----------------------------------------------------------------------------
(* Other programs                                                           *)

(* Another content is written into a file: pages changed, added, cut off.   *)
Write ==
  \E file \in Inodes, c \in Contents :
    /\ changes < MaxChanges /\ ~Ended /\ c # content[file]
    /\ content' = [content EXCEPT ![file] = c]
    /\ written' = (written \/ file = opened)
    /\ changes' = changes + 1
    /\ UNCHANGED <<path, pc, carving, opened, hashed, statted, mapping, page, views,
                   class, start>>

(* The path is removed, or made to name another file.                       *)
Replace ==
  \E file \in Inodes \cup {Nothing} :
    /\ changes < MaxChanges /\ ~Ended /\ file # path
    /\ path' = file
    /\ changes' = changes + 1
    /\ UNCHANGED <<content, pc, carving, opened, hashed, statted, mapping, page,
                   views, class, evidence>>

Finished == Ended /\ UNCHANGED vars

Next == Analyze \/ Write \/ Replace \/ Finished

Spec == Init /\ [][Next]_vars

-----------------------------------------------------------------------------
(* Properties                                                               *)

(* Types of the variables of an analysis.                                   *)
TypeOK ==
  /\ content \in [Inodes -> Contents] /\ path \in Inodes \cup {Nothing}
  /\ changes \in 0..MaxChanges
  /\ pc \in {"open", "hash", "stat", "map", "done", "raised", "killed"} \cup Passes
  /\ carving \in BOOLEAN
  /\ opened \in Inodes \cup {Nothing} /\ statted \in Inodes \cup {Nothing}
  /\ opened = Nothing => pc \in {"open", "raised"}
  /\ hashed \in Seq(Pages) /\ start \in Seq(Pages)
  /\ mapped \in Nat /\ whole \in BOOLEAN
  /\ page \in Nat \ {0}
  /\ views \in [Passes -> SUBSET ((Nat \ {0}) \X Pages)]
  /\ class \in Classes \cup {"none"}
  /\ class # "none" <=> pc = "done"
  /\ written \in BOOLEAN

Sampled(c) == { k \in DOMAIN c : k <= SampleHalf \/ k + SampleHalf > Len(c) }

(* The classification of a content by the documentation.                    *)
ClassOf(c) ==
  IF c = <<>> THEN "empty"
  ELSE IF c[1] \in WithHeader THEN "plaintext-realm"
  ELSE IF c[Len(c)] \notin Short /\ \A k \in Sampled(c) : c[k] \in HighEntropy
  THEN "possible-encrypted-or-unsupported-realm"
  ELSE "not-a-plain-realm"

(* Every part of the report describes the content c.                        *)
Describes(c) ==
  /\ hashed = c
  /\ class = ClassOf(c)
  /\ class # "empty" => mapped = Len(c)
  /\ \A pass \in Passes : \A v \in views[pass] : v[1] \in DOMAIN c /\ v[2] = c[v[1]]

(* As long as nobody writes the opened file, the report is of one content,  *)
(* whatever the path is made to name; only "empty" may be said of another   *)
(* file than the one that was hashed.                                       *)
ReportIsOneContent ==
  pc = "done" /\ ~written =>
    \/ Describes(start)
    \/ class = "empty" /\ hashed = start /\ statted # opened

(* An analysis fails only where there is no file, or for what others did to *)
(* it; in particular a file that is empty all along is no failure.          *)
FailsForCause ==
  pc \in {"raised", "killed"} => opened = Nothing \/ written \/ statted # opened

(* The digest, the structural offsets and the carved strings all describe   *)
(* the identical bytes (docstring of _analyze).                             *)
IdenticalBytes ==
  pc = "done" /\ class = "plaintext-realm" =>
    \A pass \in {"scan", "references", "strings"} : \A v \in views[pass] :
      v[1] \in DOMAIN hashed /\ v[2] = hashed[v[1]]
=============================================================================
