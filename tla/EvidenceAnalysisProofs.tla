----------------------- MODULE EvidenceAnalysisProofs -----------------------
(***************************************************************************)
(* Proofs about EvidenceAnalysis for any files, any contents, any sample    *)
(* and any number of changes by others.  While nobody writes the opened     *)
(* file, what each pass has read so far are the pages of the content the    *)
(* file had when it was opened (Read, Sound), and none that decides the     *)
(* classification is left out (Sampling, Heading).                          *)
(***************************************************************************)
EXTENDS EvidenceAnalysis, SequenceTheorems, TLAPS

(* The opened file still has the content it was opened with.                *)
Quiet == opened # Nothing /\ ~written

(* The digest is of the pages hashed so far, and then of all.               *)
Read ==
  /\ start \in Contents /\ File = start
  /\ pc = "hash" => /\ Len(hashed) <= Len(start)
                    /\ \A k \in 1..Len(hashed) : hashed[k] = start[k]
  /\ pc # "hash" => hashed = start

(* What a pass read is in the content.                                      *)
Sound ==
  /\ \A pass \in Passes : \A v \in views[pass] :
       v[1] \in DOMAIN start /\ v[2] = start[v[1]]
  /\ \A v \in views["entropy"] : v[1] \in Sampled(start)

(* The mapping has the length and the layout of the content.                *)
Mapped ==
  /\ pc \in Passes \cup {"map"} /\ statted = opened => start # <<>>
  /\ pc \in Passes => /\ start # <<>> /\ mapped = Len(start)
                      /\ whole = (start[Len(start)] \notin Short)

(* The sample is complete up to the page the pass is at, then as a whole.   *)
Sampling ==
  /\ pc = "entropy" =>
       \A k \in Sampled(start) : k < page => <<k, start[k]>> \in views["entropy"]
  /\ pc = "header" => \A k \in Sampled(start) : <<k, start[k]>> \in views["entropy"]

(* The header decided that the later passes take place.                     *)
Heading ==
  /\ pc = "header" /\ page > 1 => <<1, start[1]>> \in views["header"]
  /\ pc \in {"scan", "references", "strings"} => start[1] \in WithHeader

(* What is reported, or why nothing is.                                     *)
Outcome ==
  /\ pc = "done" => Describes(start) \/ (class = "empty" /\ statted # opened)
  /\ pc \in {"raised", "killed"} => statted # opened

(* Before the mapping nothing is viewed, before opening nothing is open.    *)
Early ==
  /\ pc = "open" => opened = Nothing
  /\ pc \in {"open", "hash", "stat", "map"} => \A pass \in Passes : views[pass] = {}
  /\ pc \in {"open", "hash", "stat", "map"} => page = 1
  /\ pc = "open" => hashed = <<>>

QuietInv == Quiet => Read /\ Sound /\ Mapped /\ Sampling /\ Heading /\ Outcome

IInv == TypeOK /\ Early /\ QuietInv

-----------------------------------------------------------------------------
(* The digest and the size                                                  *)

LEMMA FilesHaveContents ==
  ASSUME TypeOK, opened # Nothing
  PROVE  /\ opened \in Inodes /\ File \in Contents /\ File \in Seq(Pages)
         /\ Len(File) \in Nat /\ DOMAIN File = 1..Len(File)
  <1>1. opened \in Inodes /\ File \in Contents
    BY DEF TypeOK, File
  <1>2. File \in Seq(Pages)
    BY <1>1, ContentsAssumption
  <1> QED
    BY <1>1, <1>2, LenProperties

LEMMA InitInv ==
  ASSUME Init
  PROVE  IInv
  <1>1. views \in [Passes -> SUBSET ((Nat \ {0}) \X Pages)]
        /\ \A pass \in Passes : views[pass] = {}
    BY DEF Init
  <1>2. hashed \in Seq(Pages) /\ start \in Seq(Pages)
    BY EmptySeq DEF Init
  <1>3. changes \in 0..MaxChanges
    BY BoundsAssumption DEF Init
  <1>4. mapped \in Nat /\ page \in Nat \ {0} /\ class \in Classes \cup {"none"}
        /\ (class # "none" <=> pc = "done")
    BY DEF Init
  <1>5. TypeOK
    BY <1>1, <1>2, <1>3, <1>4 DEF Init, TypeOK
  <1> QED
    BY <1>1, <1>5 DEF Init, IInv, Early, QuietInv, Quiet

LEMMA OpenInv ==
  ASSUME IInv, Open
  PROVE  IInv'
  <1> USE DEF IInv
  <1>1. CASE path = Nothing
    BY <1>1 DEF Open, TypeOK, Early, QuietInv, Quiet, files, mapping
  <1>2. CASE path # Nothing
    <2>1. path \in Inodes /\ content[path] \in Contents /\ content[path] \in Seq(Pages)
      BY <1>2, ContentsAssumption DEF TypeOK
    <2>2. TypeOK'
      BY <1>2, <2>1, NothingAssumption DEF Open, TypeOK, files, mapping, Passes
    <2>3. Early'
      BY <1>2 DEF Open, Early
    <2>4. hashed' = <<>> /\ pc' = "hash" /\ start' = content[path] /\ opened' = path
          /\ views' = views /\ content' = content
      BY <1>2 DEF Open, Early, files
    <2>5. Read'
      <3>1. Len(<<>>) = 0 /\ Len(start') \in Nat
        BY <2>1, <2>4, LenProperties
      <3> QED
        BY <2>1, <2>4, <3>1 DEF Read, File
    <2>6. Sound'
      BY <2>4 DEF Sound, Early, Open, Passes
    <2>7. (Mapped /\ Sampling /\ Heading /\ Outcome)'
      BY <2>4 DEF Mapped, Sampling, Heading, Outcome, Passes
    <2> QED
      BY <2>2, <2>3, <2>5, <2>6, <2>7 DEF QuietInv
  <1> QED
    BY <1>1, <1>2

LEMMA HashPageInv ==
  ASSUME IInv, HashPage
  PROVE  IInv'
  <1> USE DEF IInv
  <1>1. /\ pc = "hash" /\ pc' = "hash" /\ opened # Nothing /\ Len(hashed) < Len(File)
        /\ hashed' = Append(hashed, File[Len(hashed) + 1])
    BY DEF HashPage, TypeOK
  <1>2. /\ File \in Seq(Pages) /\ Len(File) \in Nat /\ hashed \in Seq(Pages)
        /\ Len(hashed) \in Nat
    BY <1>1, FilesHaveContents, LenProperties DEF TypeOK
  <1>3. File[Len(hashed) + 1] \in Pages
    BY <1>1, <1>2, ElementOfSeq
  <1>4. /\ hashed' \in Seq(Pages) /\ Len(hashed') = Len(hashed) + 1
        /\ \A k \in 1..Len(hashed) : hashed'[k] = hashed[k]
        /\ hashed'[Len(hashed) + 1] = File[Len(hashed) + 1]
    BY <1>1, <1>2, <1>3, AppendProperties
  <1>5. TypeOK'
    BY <1>1, <1>4 DEF HashPage, TypeOK, files, mapping, evidence
  <1>6. Early'
    BY <1>1 DEF HashPage, Early
  <1>7. ASSUME Quiet' PROVE Read'
    <2>1. Read /\ File' = File /\ start' = start
      BY <1>7 DEF HashPage, QuietInv, Quiet, evidence, files, File
    <2>2. \A k \in 1..(Len(hashed) + 1) : hashed'[k] = start[k]
      BY <1>1, <1>2, <1>4, <2>1 DEF Read
    <2> QED
      BY <1>1, <1>2, <1>4, <2>1, <2>2 DEF Read
  <1>8. ASSUME Quiet' PROVE (Sound /\ Mapped /\ Sampling /\ Heading /\ Outcome)'
    BY <1>1, <1>8
    DEF HashPage, QuietInv, Quiet, evidence, Sound, Mapped, Sampling, Heading,
        Outcome, Passes, Sampled
  <1> QED
    BY <1>5, <1>6, <1>7, <1>8 DEF QuietInv

LEMMA HashEndInv ==
  ASSUME IInv, HashEnd
  PROVE  IInv'
  <1> USE DEF IInv
  <1>1. /\ pc = "hash" /\ pc' = "stat" /\ opened # Nothing /\ Len(hashed) >= Len(File)
    BY DEF HashEnd, TypeOK
  <1>2. TypeOK'
    BY <1>1 DEF HashEnd, TypeOK, files, mapping, evidence
  <1>3. Early'
    BY <1>1 DEF HashEnd, Early
  <1>4. ASSUME Quiet' PROVE Read'
    <2>1. Read /\ File' = File /\ start' = start /\ hashed' = hashed
      BY <1>4 DEF HashEnd, QuietInv, Quiet, evidence, files, File
    <2>2. /\ start \in Seq(Pages) /\ hashed \in Seq(Pages)
          /\ Len(start) \in Nat /\ Len(hashed) \in Nat
      BY <1>1, <2>1, FilesHaveContents, LenProperties DEF Read, TypeOK
    <2>3. hashed = start
      BY <1>1, <2>1, <2>2, SeqEqual DEF Read
    <2> QED
      BY <1>1, <2>1, <2>3 DEF Read
  <1>5. ASSUME Quiet' PROVE (Sound /\ Mapped /\ Sampling /\ Heading /\ Outcome)'
    BY <1>1, <1>5
    DEF HashEnd, QuietInv, Quiet, evidence, Sound, Mapped, Sampling, Heading,
        Outcome, Passes, Sampled
  <1> QED
    BY <1>2, <1>3, <1>4, <1>5 DEF QuietInv

LEMMA StatInv ==
  ASSUME IInv, Stat
  PROVE  IInv'
  <1> USE DEF IInv
  <1>1. pc = "stat" /\ opened # Nothing /\ statted' = path /\ views' = views
        /\ pc' \in {"done", "raised", "map"}
        /\ UNCHANGED <<files, opened, hashed, page, mapping, evidence, carving>>
    BY DEF Stat, TypeOK
  <1>2. /\ pc' = "done" => class' = "empty" /\ path # Nothing /\ content[path] = <<>>
        /\ pc' = "raised" => path = Nothing /\ class' = class
        /\ pc' = "map" => path # Nothing /\ content[path] # <<>> /\ class' = class
    BY DEF Stat
  <1>3. TypeOK'
    BY <1>1, <1>2 DEF TypeOK, Classes, files, mapping, evidence
  <1>4. Early'
    BY <1>1 DEF Early
  <1>5. ASSUME Quiet'
        PROVE  (Read /\ Sound /\ Mapped /\ Sampling /\ Heading /\ Outcome)'
    <2>1. Read /\ Sound /\ File' = File /\ start' = start /\ hashed' = hashed
          /\ hashed = start /\ File = start
      BY <1>1, <1>5 DEF QuietInv, Quiet, evidence, files, File, Read
    <2>2. statted' = opened => content[path] = start
      BY <1>1, <2>1 DEF File
    <2>3. Read'
      BY <1>1, <2>1 DEF Read
    <2>4. Sound'
      BY <1>1, <2>1 DEF Sound, Sampled
    <2>5. (Mapped /\ Sampling /\ Heading)'
      BY <1>1, <1>2, <2>1, <2>2 DEF Mapped, Sampling, Heading, Passes
    <2>6. CASE pc' = "done" /\ statted' = opened
      <3>1. hashed' = <<>> /\ start' = <<>> /\ class' = "empty"
        BY <1>2, <2>1, <2>2, <2>6
      <3>2. Describes(start)'
        BY <1>1, <2>4, <3>1 DEF Describes, ClassOf, Sound
      <3> QED
        BY <2>3, <2>4, <2>5, <2>6, <3>2 DEF Outcome
    <2>7. CASE ~(pc' = "done" /\ statted' = opened)
      <3>1. Outcome'
        BY <1>1, <1>2, <2>7 DEF Outcome
      <3> QED
        BY <2>3, <2>4, <2>5, <3>1
    <2> QED
      BY <2>6, <2>7
  <1> QED
    BY <1>3, <1>4, <1>5 DEF QuietInv

-----------------------------------------------------------------------------
(* The mapping                                                              *)

LEMMA MapInv ==
  ASSUME IInv, Map
  PROVE  IInv'
  <1> USE DEF IInv
  <1>1. /\ pc = "map" /\ opened # Nothing
        /\ pc' = IF File = <<>> THEN "raised" ELSE "entropy"
        /\ mapped' = Len(File) /\ whole' = (File # <<>> => File[Len(File)] \notin Short)
        /\ UNCHANGED <<files, opened, hashed, statted, page, views, class, evidence,
                       carving>>
    BY DEF Map, TypeOK
  <1>2. Len(File) \in Nat /\ page \in Nat \ {0}
    BY <1>1, FilesHaveContents DEF TypeOK
  <1>3. TypeOK'
    <2>1. whole' \in BOOLEAN
      BY <1>1, Zenon
    <2> QED
      BY <1>1, <1>2, <2>1 DEF TypeOK, Passes, files, evidence
  <1>4. Early'
    BY <1>1 DEF Early
  <1>5. ASSUME Quiet'
        PROVE  (Read /\ Sound /\ Mapped /\ Sampling /\ Heading /\ Outcome)'
    <2>1. Read /\ Sound /\ Mapped /\ File' = File /\ start' = start /\ hashed' = hashed
          /\ hashed = start /\ File = start
      BY <1>1, <1>5 DEF QuietInv, Quiet, evidence, files, File, Read
    <2>2. Read' /\ Sound'
      BY <1>1, <2>1 DEF Read, Sound, Sampled
    <2>3. Mapped'
      <3>1. start # <<>> => whole' = (start[Len(start)] \notin Short)
        BY <1>1, <2>1, Zenon
      <3> QED
        BY <1>1, <2>1, <3>1 DEF Mapped, Passes
    <2>4. (Heading /\ Outcome)'
      BY <1>1, <2>1 DEF Heading, Outcome, Mapped, Passes
    <2>5. Sampling'
      <3>1. \A k \in Sampled(start) : ~(k < page)
        BY <1>1, <2>1, FilesHaveContents DEF Sampled, Early
      <3> QED
        BY <1>1, <2>1, <3>1 DEF Sampling, Sampled
    <2> QED
      BY <2>2, <2>3, <2>4, <2>5
  <1> QED
    BY <1>3, <1>4, <1>5 DEF QuietInv
(* A page of the mapping is read: it is the page of the content.            *)
LEMMA TurnPageInv ==
  ASSUME IInv, TurnPage
  PROVE  IInv'
  <1> USE DEF IInv
  <1>1. /\ pc \in Passes /\ opened # Nothing /\ page <= mapped
        /\ mapped \in Nat /\ page \in Nat \ {0}
        /\ UNCHANGED <<files, opened, hashed, statted, mapping, class, evidence,
                       carving>>
    BY DEF TurnPage, TypeOK, Passes
  <1>2. CASE ~Wanted(pc, page)
    <2>1. page' = page + 1 /\ pc' = pc /\ views' = views
      BY <1>2 DEF TurnPage
    <2>2. TypeOK' /\ Early'
      BY <1>1, <2>1 DEF TypeOK, Early, files, mapping, evidence, Passes
    <2>3. ASSUME Quiet'
          PROVE  (Read /\ Sound /\ Mapped /\ Sampling /\ Heading /\ Outcome)'
      <3>1. Read /\ Sound /\ Mapped /\ Sampling /\ Heading /\ File' = File
            /\ start' = start
        BY <1>1, <2>3 DEF QuietInv, Quiet, evidence, files, File
      <3>2. (Read /\ Sound /\ Mapped /\ Outcome)'
        BY <1>1, <2>1, <3>1
        DEF Read, Sound, Mapped, Outcome, Sampled, Passes, mapping
      <3>3. pc = "entropy" => page \notin Sampled(start)
        BY <1>1, <1>2, <3>1 DEF Wanted, Sampled, Mapped
      <3>4. Sampling'
        <4>1. \A k \in Sampled(start) : k \in Nat
          BY <1>1, <3>1, FilesHaveContents DEF Sampled, Read
        <4>2. pc = "entropy" => \A k \in Sampled(start) : k < page + 1 => k < page
          BY <1>1, <3>3, <4>1
        <4> QED
          BY <2>1, <3>1, <4>2 DEF Sampling, Sampled
      <3>5. pc = "header" => page # 1
        BY <1>2 DEF Wanted
      <3>6. Heading'
        BY <1>1, <2>1, <3>1, <3>5 DEF Heading
      <3> QED
        BY <3>2, <3>4, <3>6
    <2> QED
      BY <2>2, <2>3 DEF QuietInv
  <1>3. CASE Wanted(pc, page) /\ page <= Len(File)
    <2>1. /\ page' = page + 1 /\ pc' = pc
          /\ views' = [views EXCEPT ![pc] = @ \cup {<<page, File[page]>>}]
      BY <1>3 DEF TurnPage
    <2>2. File \in Seq(Pages) /\ Len(File) \in Nat /\ DOMAIN File = 1..Len(File)
      BY <1>1, FilesHaveContents
    <2>3. page \in DOMAIN File /\ File[page] \in Pages
      BY <1>1, <1>3, <2>2, ElementOfSeq
    <2>4. views \in [Passes -> SUBSET ((Nat \ {0}) \X Pages)]
      BY DEF TypeOK
    <2>5. /\ views' \in [Passes -> SUBSET ((Nat \ {0}) \X Pages)]
          /\ \A pass \in Passes :
               views'[pass] = IF pass = pc THEN views[pass] \cup {<<page, File[page]>>}
                              ELSE views[pass]
      <3> DEFINE Pair == (Nat \ {0}) \X Pages
      <3>1. <<page, File[page]>> \in Pair
        BY <1>1, <2>3
      <3> HIDE DEF Pair
      <3>2. views \in [Passes -> SUBSET Pair]
        BY <2>4 DEF Pair
      <3>3. views[pc] \cup {<<page, File[page]>>} \in SUBSET Pair
        BY <1>1, <3>1, <3>2
      <3>4. views' \in [Passes -> SUBSET Pair]
        BY <2>1, <3>2, <3>3
      <3>5. \A pass \in Passes :
              views'[pass] = IF pass = pc THEN views[pass] \cup {<<page, File[page]>>}
                             ELSE views[pass]
        BY <2>1, <3>2
      <3> QED
        BY <3>4, <3>5 DEF Pair
    <2>6. TypeOK' /\ Early'
      BY <1>1, <2>1, <2>5 DEF TypeOK, Early, files, mapping, evidence, Passes
    <2>7. ASSUME Quiet'
          PROVE  (Read /\ Sound /\ Mapped /\ Sampling /\ Heading /\ Outcome)'
      <3>1. Read /\ Sound /\ Mapped /\ Sampling /\ Heading /\ File' = File
            /\ start' = start /\ File = start
        BY <1>1, <2>7 DEF QuietInv, Quiet, evidence, files, File, Read
      <3>2. (Read /\ Mapped /\ Outcome)'
        BY <1>1, <2>1, <3>1 DEF Read, Mapped, Outcome, Passes, mapping
      <3>3. pc = "entropy" => page \in Sampled(start)
        BY <1>1, <1>3, <2>3, <3>1 DEF Wanted, Sampled, Mapped
      <3>4. Sound'
        <4>1. \A pass \in Passes : \A v \in views'[pass] :
                v[1] \in DOMAIN start /\ v[2] = start[v[1]]
          BY <2>3, <2>5, <3>1 DEF Sound
        <4>2. "entropy" \in Passes
          BY DEF Passes
        <4>3. \A v \in views'["entropy"] : v[1] \in Sampled(start)
          BY <2>5, <3>1, <3>3, <4>2 DEF Sound
        <4> QED
          BY <3>1, <4>1, <4>3 DEF Sound, Sampled
      <3>5. Sampling'
        <4>1. \A k \in Sampled(start) : k \in Nat
          BY <2>2, <3>1 DEF Sampled
        <4>2. views["entropy"] \subseteq views'["entropy"]
              /\ (pc = "entropy" => <<page, start[page]>> \in views'["entropy"])
          BY <2>5, <3>1 DEF Passes
        <4>3. pc = "entropy" =>
                \A k \in Sampled(start) :
                  k < page + 1 => <<k, start[k]>> \in views'["entropy"]
          BY <1>1, <3>1, <4>1, <4>2 DEF Sampling
        <4> QED
          BY <2>1, <3>1, <4>2, <4>3 DEF Sampling, Sampled
      <3>6. Heading'
        <4>1. /\ views["header"] \subseteq views'["header"]
              /\ pc = "header" => <<page, start[page]>> \in views'["header"]
          BY <2>5, <3>1 DEF Passes
        <4>2. pc = "header" /\ page = 1 => <<1, start[1]>> \in views'["header"]
          BY <4>1
        <4> QED
          BY <1>1, <2>1, <3>1, <4>1, <4>2 DEF Heading
      <3> QED
        BY <3>2, <3>4, <3>5, <3>6
    <2> QED
      BY <2>6, <2>7 DEF QuietInv
  <1>4. CASE Wanted(pc, page) /\ ~(page <= Len(File))
    <2>1. page' = page /\ pc' = "killed" /\ views' = views
      BY <1>4 DEF TurnPage
    <2>2. TypeOK' /\ Early'
      BY <1>1, <2>1 DEF TypeOK, Early, files, mapping, evidence, Passes, Classes
    <2>3. ~Quiet'
      <3>1. Quiet' => File = start /\ mapped = Len(start)
        BY <1>1 DEF Quiet, QuietInv, evidence, Read, Mapped
      <3> QED
        BY <1>1, <1>4, <3>1
    <2> QED
      BY <2>2, <2>3 DEF QuietInv
  <1> QED
    BY <1>2, <1>3, <1>4
(* What decides the classification was read of the content.                 *)
LEMMA HeadlessClass ==
  ASSUME TypeOK, opened # Nothing, Read, Sound, Mapped, Sampling, Heading,
         pc = "header", page > mapped
  PROVE  /\ HasHeader <=> start[1] \in WithHeader
         /\ ~HasHeader => Headerless = ClassOf(start)
  <1>1. File = start /\ start # <<>> /\ mapped = Len(start)
        /\ whole = (start[Len(start)] \notin Short)
    BY DEF Read, Mapped, Passes
  <1>2. start \in Seq(Pages) /\ DOMAIN start = 1..Len(start) /\ Len(start) \in Nat \ {0}
    BY <1>1, FilesHaveContents, EmptySeq
  <1>3. View("header", 1) = {start[1]}
    <2>1. <<1, start[1]>> \in views["header"]
      BY <1>1, <1>2 DEF Heading, TypeOK
    <2>2. \A v \in views["header"] : v[1] = 1 => v[2] = start[1]
      BY DEF Sound, Passes
    <2> QED
      BY <2>1, <2>2 DEF View
  <1>4. HasHeader <=> start[1] \in WithHeader
    BY <1>3 DEF HasHeader
  <1>5. (\A v \in views["entropy"] : v[2] \in HighEntropy)
          <=> (\A k \in Sampled(start) : start[k] \in HighEntropy)
    <2>1. \A k \in Sampled(start) : <<k, start[k]>> \in views["entropy"]
      BY DEF Sampling
    <2>2. \A v \in views["entropy"] : v[1] \in Sampled(start) /\ v[2] = start[v[1]]
      BY DEF Sound, Passes
    <2> QED
      BY <2>1, <2>2
  <1>6. ASSUME ~HasHeader PROVE Headerless = ClassOf(start)
    BY <1>1, <1>4, <1>5, <1>6, Zenon DEF Headerless, ClassOf
  <1> QED
    BY <1>4, <1>6

LEMMA EndPassInv ==
  ASSUME IInv, EndPass
  PROVE  IInv'
  <1> USE DEF IInv
  <1>1. /\ pc \in Passes /\ opened # Nothing /\ page > mapped /\ page' = 1
        /\ pc' \in Passes \cup {"done"}
        /\ UNCHANGED <<files, opened, hashed, statted, mapping, views, evidence,
                       carving>>
    BY DEF EndPass, TypeOK, Passes
  <1>2. /\ pc' # "done" => class' = class
        /\ pc' = "done" => \/ pc = "header" /\ ~HasHeader /\ class' = Headerless
                           \/ pc \in {"references", "strings"}
                              /\ class' = "plaintext-realm"
    BY DEF EndPass, Passes
  <1>3. /\ pc' = "header" => pc = "entropy"
        /\ pc' \notin {"entropy", "hash", "stat", "map", "open", "raised", "killed"}
        /\ pc' = "scan" => HasHeader /\ pc = "header"
        /\ pc' = "references" => pc = "scan"
        /\ pc' = "strings" => pc = "references"
    BY DEF EndPass, Passes
  <1>4. class' \in Classes \cup {"none"} /\ (class' # "none" <=> pc' = "done")
    BY <1>1, <1>2 DEF TypeOK, Classes, Headerless, Passes
  <1>5. TypeOK' /\ Early'
    BY <1>1, <1>3, <1>4 DEF TypeOK, Early, files, mapping, evidence, Passes
  <1>6. ASSUME Quiet'
        PROVE  (Read /\ Sound /\ Mapped /\ Sampling /\ Heading /\ Outcome)'
    <2>1. Read /\ Sound /\ Mapped /\ Sampling /\ Heading /\ File' = File
          /\ start' = start
      BY <1>1, <1>6 DEF QuietInv, Quiet, evidence, files, File
    <2>2. File = start /\ start # <<>> /\ mapped = Len(start) /\ hashed = start
          /\ whole = (start[Len(start)] \notin Short)
      BY <1>1, <2>1 DEF Read, Mapped, Passes
    <2>3. (Read /\ Sound)'
      BY <1>1, <1>3, <2>1, <2>2 DEF Read, Sound, Sampled
    <2>4. Mapped'
      BY <1>1, <2>1, <2>2 DEF Mapped, mapping
    <2>5. Sampling'
      <3>1. \A k \in Sampled(start) : k <= mapped /\ k \in Nat
        BY <1>1, <2>2, FilesHaveContents DEF Sampled
      <3>2. pc = "entropy" =>
              \A k \in Sampled(start) : <<k, start[k]>> \in views["entropy"]
        BY <1>1, <2>1, <3>1 DEF Sampling, TypeOK
      <3> QED
        BY <1>1, <1>3, <2>1, <3>2 DEF Sampling, Sampled
    <2>6. pc = "header" => /\ HasHeader <=> start[1] \in WithHeader
                           /\ ~HasHeader => Headerless = ClassOf(start)
      BY <1>1, <2>1, HeadlessClass
    <2>7. Heading'
      BY <1>1, <1>3, <2>1, <2>6 DEF Heading, Passes
    <2>8. pc' = "done" => Describes(start)'
      <3>1. ASSUME pc' = "done" PROVE class' = ClassOf(start)
        <4>1. pc \in {"references", "strings"} => ClassOf(start) = "plaintext-realm"
          BY <2>1, <2>2 DEF Heading, ClassOf
        <4> QED
          BY <1>2, <2>6, <3>1, <4>1
      <3>2. ClassOf(start)' = ClassOf(start)
        BY <2>1 DEF ClassOf, Sampled
      <3> QED
        BY <1>1, <2>1, <2>2, <2>3, <3>1, <3>2 DEF Describes, Sound, mapping
    <2>9. Outcome'
      BY <1>3, <2>8 DEF Outcome
    <2> QED
      BY <2>3, <2>4, <2>5, <2>7, <2>9
  <1> QED
    BY <1>5, <1>6 DEF QuietInv

-----------------------------------------------------------------------------
(* Other programs                                                           *)

(* A write to the opened file ends what is claimed of it; one to another    *)
(* file, or a change of the path, changes nothing that was read.            *)
LEMMA WriteInv ==
  ASSUME IInv, Write
  PROVE  IInv'
  <1> USE DEF IInv
  <1>1. PICK file \in Inodes, c \in Contents :
          /\ changes < MaxChanges /\ ~Ended
          /\ content' = [content EXCEPT ![file] = c]
          /\ written' = (written \/ file = opened)
          /\ changes' = changes + 1
          /\ UNCHANGED <<path, pc, carving, opened, hashed, statted, mapping, page,
                         views, class, start>>
    BY DEF Write
  <1>2. changes' \in 0..MaxChanges
    BY <1>1, BoundsAssumption DEF TypeOK
  <1>3. written' \in BOOLEAN
    BY <1>1, Zenon DEF TypeOK
  <1>4. TypeOK' /\ Early'
    BY <1>1, <1>2, <1>3 DEF TypeOK, Early, mapping
  <1>5. ASSUME Quiet'
        PROVE  (Read /\ Sound /\ Mapped /\ Sampling /\ Heading /\ Outcome)'
    <2>1. Quiet /\ file # opened
      BY <1>1, <1>5 DEF Quiet
    <2>2. File' = File
      BY <1>1, <2>1 DEF File, TypeOK, Quiet
    <2> QED
      BY <1>1, <2>1, <2>2
      DEF QuietInv, Read, Sound, Mapped, Sampling, Heading, Outcome, Describes,
          ClassOf, Sampled, mapping, Ended
  <1> QED
    BY <1>4, <1>5 DEF QuietInv

LEMMA ReplaceInv ==
  ASSUME IInv, Replace
  PROVE  IInv'
  <1> USE DEF IInv
  <1>1. changes < MaxChanges /\ changes' = changes + 1
        /\ path' \in Inodes \cup {Nothing}
        /\ UNCHANGED <<content, pc, carving, opened, hashed, statted, mapping, page,
                       views, class, evidence>>
    BY DEF Replace
  <1>2. changes' \in 0..MaxChanges
    BY <1>1, BoundsAssumption DEF TypeOK
  <1>3. TypeOK' /\ Early'
    BY <1>1, <1>2 DEF TypeOK, Early, mapping, evidence
  <1> QED
    BY <1>1, <1>3
    DEF QuietInv, Quiet, Read, File, Sound, Mapped, Sampling, Heading, Outcome,
        Describes, ClassOf, Sampled, mapping, evidence

LEMMA StepInv ==
  ASSUME IInv, [Next]_vars
  PROVE  IInv'
  <1>1. CASE UNCHANGED vars
    BY <1>1
    DEF vars, files, mapping, evidence, IInv, TypeOK, Early, QuietInv, Quiet, Read,
        File, Sound, Mapped, Sampling, Heading, Outcome, Describes, ClassOf, Sampled
  <1> QED
    BY <1>1, OpenInv, HashPageInv, HashEndInv, StatInv, MapInv, TurnPageInv,
       EndPassInv, WriteInv, ReplaceInv
    DEF Next, Analyze, Finished

-----------------------------------------------------------------------------
(* What holds throughout                                                    *)

(* The inductive invariant.                                                 *)
THEOREM Inductive == Spec => []IInv
  <1>1. Init => IInv
    BY InitInv
  <1>2. IInv /\ [Next]_vars => IInv'
    BY StepInv
  <1> QED
    BY <1>1, <1>2, PTL DEF Spec

(* The variables of an analysis keep their types, and it has a result       *)
(* exactly when it returned.                                                *)
THEOREM TypeCorrect == Spec => []TypeOK
  <1>1. IInv => TypeOK
    BY DEF IInv
  <1> QED
    BY <1>1, Inductive, PTL

(* Unless the opened file is written, digest, classification, size and all  *)
(* that was read describe one content, whatever happens to the path; only   *)
(* an "empty" may be about another file.                                    *)
THEOREM OneContent == Spec => []ReportIsOneContent
  <1>1. ASSUME IInv PROVE ReportIsOneContent
    <2>1. ASSUME pc = "done", ~written
          PROVE  Read /\ Outcome
      BY <1>1, <2>1 DEF IInv, TypeOK, QuietInv, Quiet, Passes
    <2> QED
      BY <2>1 DEF ReportIsOneContent, Read, Outcome
  <1> QED
    BY <1>1, Inductive, PTL

(* An analysis of a file nobody touches never fails.                        *)
THEOREM OthersAreTheCause == Spec => []FailsForCause
  <1>1. ASSUME IInv PROVE FailsForCause
    BY <1>1 DEF IInv, QuietInv, Quiet, Outcome, FailsForCause
  <1> QED
    BY <1>1, Inductive, PTL
=============================================================================
