------------------------ MODULE StringCarvingProofs ------------------------
(***************************************************************************)
(* Proofs about StringCarving for every sequence of payloads.  For UTF-8    *)
(* the point is that no character lies across the position of the scanner,  *)
(* so a byte that cannot be decoded from is in no character at all; for     *)
(* UTF-16LE, that no row long enough lies across it, so a row that begins   *)
(* there has no character before it.                                        *)
(***************************************************************************)
EXTENDS StringCarving, FiniteSetTheorems, WellFoundedInduction, TLAPS

(* Where the run the scanner is in began, the position itself if in none.   *)
Begin == IF start = None THEN index ELSE start

(* The scanner is at x in p and its run began at s.                         *)
Scanning(p, s, x) ==
  /\ \A i \in 0..(x - 1) : Printable(p, i) => i + WidthAt(p, i) <= x
  /\ s <= x
  /\ \A b \in s..(x - 1) : Covered(p, b)
  /\ s = 0 \/ ~Covered(p, s - 1)

(* What was found of the runs that end up to s.                             *)
Utf8UpTo(p, s) == { r \in Utf8Strings(p) : r[2] <= s }
Utf16UpTo(p, x) == { r \in Utf16Strings(p) : r[1] < x }

InUtf8 ==
  pc = "utf8" =>
    /\ start # None => start < index
    /\ Scanning(payload, Begin, index)
    /\ chars = Cardinality(CharsIn(payload, Begin, index))
    /\ StringsOf(node, "utf-8") = Utf8UpTo(payload, Begin)
    /\ StringsOf(node, "utf-16le") = {}

InUtf16 ==
  pc = "utf16" =>
    /\ \A r \in Utf16Strings(payload) : r[1] < index => r[2] <= index
    /\ StringsOf(node, "utf-8") = Utf8Strings(payload)
    /\ StringsOf(node, "utf-16le") = Utf16UpTo(payload, index)

(* The nodes before the one the loop is at are done, the others untouched.  *)
Expected(n, encoding) ==
  IF input.nodes[n].has_refs THEN {}
  ELSE IF encoding = "utf-8" THEN Utf8Strings(Payload(n)) ELSE Utf16Strings(Payload(n))

NodesDone ==
  /\ \A n \in 1..(node - 1) : \A encoding \in {"utf-8", "utf-16le"} :
       StringsOf(n, encoding) = Expected(n, encoding)
  /\ \A s \in strings : s[1] <= node
  /\ pc = "node" => \A s \in strings : s[1] < node
  /\ pc \in {"node", "utf16", "done"} => start = None /\ chars = 0
  /\ pc = "done" => node = Len(input.nodes) + 1
  /\ pc \in {"utf8", "utf16"} => ~input.nodes[node].has_refs

IInv == TypeOK /\ NodesDone /\ InUtf8 /\ InUtf16

-----------------------------------------------------------------------------
(* Characters                                                               *)

(* A character has up to four bytes.                                        *)
LEMMA Widths ==
  ASSUME NEW byte
  PROVE  Width(byte) \in 1..4
  BY DEF Width

(* A printable character ends where the payload does, at the latest.        *)
LEMMA PrintableWidth ==
  ASSUME NEW p \in Seq(Bytes), NEW i \in Nat, Printable(p, i)
  PROVE  WidthAt(p, i) \in 1..4 /\ i + WidthAt(p, i) <= Len(p) /\ Len(p) \in Nat
  BY Widths DEF Printable, WidthAt

(* Characters do not overlap: a continuation byte is no lead.               *)
LEMMA NoOverlap ==
  ASSUME NEW p \in Seq(Bytes), NEW i \in Nat, NEW j \in Nat,
         Printable(p, i), Printable(p, j), i < j
  PROVE  i + WidthAt(p, i) <= j
  <1> DEFINE w == WidthAt(p, i)
  <1>1. w \in 1..4
    BY PrintableWidth
  <1> SUFFICES ASSUME j < i + w PROVE FALSE
    BY <1>1
  <1>2. j - i \in 1..(w - 1)
    BY <1>1
  <1>3. \A k \in 1..(w - 1) : p[i + k + 1] = "cont"
    BY DEF Printable
  <1>4. p[i + (j - i) + 1] = "cont"
    BY <1>2, <1>3
  <1>5. i + (j - i) + 1 = j + 1
    OBVIOUS
  <1>6. p[j + 1] \in Leads
    BY DEF Printable
  <1> QED
    BY <1>4, <1>5, <1>6 DEF Leads

(* Where no character begins, none is, if none lies across.                 *)
LEMMA BreakIsUncovered ==
  ASSUME NEW p \in Seq(Bytes), NEW x \in Nat, NEW s \in Nat,
         Scanning(p, s, x), ~Printable(p, x)
  PROVE  ~Covered(p, x) /\ Scanning(p, x + 1, x + 1)
  <1>1. \A i \in 0..x : Printable(p, i) => i + WidthAt(p, i) <= x
    BY DEF Scanning
  <1>2. \A i \in 0..x : Printable(p, i) => WidthAt(p, i) \in 1..4
    BY PrintableWidth
  <1>3. ~Covered(p, x)
    BY <1>1, <1>2 DEF Covered
  <1>4. \A i \in 0..(x + 1 - 1) : Printable(p, i) => i + WidthAt(p, i) <= x + 1
    BY <1>1, <1>2
  <1>5. x + 1 - 1 = x /\ \A b \in (x + 1)..(x + 1 - 1) : FALSE
    OBVIOUS
  <1> QED
    BY <1>3, <1>4, <1>5 DEF Scanning

(* No character lies across the end of the payload.                         *)
LEMMA EndIsUncovered ==
  ASSUME NEW p \in Seq(Bytes)
  PROVE  ~Covered(p, Len(p))
  <1>1. Len(p) \in Nat
    OBVIOUS
  <1>2. \A i \in 0..Len(p) : Printable(p, i) => i + WidthAt(p, i) <= Len(p)
    BY PrintableWidth
  <1>3. \A i \in 0..Len(p) : Printable(p, i) => WidthAt(p, i) \in 1..4
    BY PrintableWidth
  <1> QED
    BY <1>1, <1>2, <1>3 DEF Covered

(* A character that is taken keeps the run going and adds one to its count. *)
LEMMA TakeExtends ==
  ASSUME NEW p \in Seq(Bytes), NEW x \in Nat, NEW s \in Nat,
         Scanning(p, s, x), Printable(p, x)
  PROVE  LET y == x + WidthAt(p, x)
         IN  /\ y \in Nat /\ x < y /\ y <= Len(p)
             /\ Scanning(p, s, y)
             /\ Cardinality(CharsIn(p, s, y)) = Cardinality(CharsIn(p, s, x)) + 1
             /\ Cardinality(CharsIn(p, s, x)) \in Nat
  <1> DEFINE y == x + WidthAt(p, x)
  <1>1. y \in Nat /\ x < y /\ y <= Len(p)
    BY PrintableWidth
  <1>2. \A i \in Nat : x < i /\ i < y => ~Printable(p, i)
    <2> SUFFICES ASSUME NEW i \in Nat, x < i, i < y, Printable(p, i) PROVE FALSE
      OBVIOUS
    <2>1. y <= i
      BY NoOverlap
    <2> QED
      BY <1>1, <2>1
  <1>3. \A b \in x..(y - 1) : Covered(p, b)
    BY <1>1 DEF Covered
  <1>4. Scanning(p, s, y)
    <2>1. \A i \in 0..(y - 1) : Printable(p, i) => i + WidthAt(p, i) <= y
      <3> SUFFICES ASSUME NEW i \in 0..(y - 1), Printable(p, i)
                   PROVE  i + WidthAt(p, i) <= y
        OBVIOUS
      <3>1. i = x \/ i < x
        BY <1>1, <1>2
      <3>2. CASE i < x
        <4>1. WidthAt(p, i) \in 1..4 /\ i + WidthAt(p, i) <= x
          BY <3>2, PrintableWidth DEF Scanning
        <4> QED
          BY <1>1, <4>1
      <3>3. CASE i = x
        BY <1>1, <3>3
      <3> QED
        BY <3>1, <3>2, <3>3
    <2>2. \A b \in s..(y - 1) : b \in s..(x - 1) \/ b \in x..(y - 1)
      BY <1>1
    <2> QED
      BY <1>1, <1>3, <2>1, <2>2 DEF Scanning
  <1>5. IsFiniteSet(CharsIn(p, s, x)) /\ x \notin CharsIn(p, s, x)
    <2>1. IsFiniteSet(s..(x - 1))
      BY FS_Interval
    <2>2. CharsIn(p, s, x) \subseteq s..(x - 1)
      BY DEF CharsIn
    <2> QED
      BY <2>1, <2>2, FS_Subset
  <1>6. CharsIn(p, s, y) = CharsIn(p, s, x) \cup {x}
    <2>1. s <= x
      BY DEF Scanning
    <2> QED
      BY <1>1, <1>2, <2>1 DEF CharsIn
  <1>7. /\ Cardinality(CharsIn(p, s, x) \cup {x}) = Cardinality(CharsIn(p, s, x)) + 1
        /\ Cardinality(CharsIn(p, s, x)) \in Nat
    BY <1>5, FS_AddElement, FS_CardinalityType
  <1> QED
    BY <1>1, <1>4, <1>6, <1>7

(* A run that is over is the only one that ends since it began.             *)
LEMMA RunEnds ==
  ASSUME NEW p \in Seq(Bytes), NEW x \in 0..Len(p), NEW s \in Nat,
         Scanning(p, s, x), ~Covered(p, x), NEW y \in x..(x + 1),
         minimum \in Nat
  PROVE  Utf8UpTo(p, y) =
           Utf8UpTo(p, s) \cup
             (IF s < x /\ Cardinality(CharsIn(p, s, x)) >= minimum THEN {<<s, x>>}
              ELSE {})
  <1> DEFINE new == IF s < x /\ Cardinality(CharsIn(p, s, x)) >= minimum
                    THEN {<<s, x>>} ELSE {}
  <1>1. s <= x /\ Len(p) \in Nat /\ (\A b \in s..(x - 1) : Covered(p, b))
        /\ (s = 0 \/ ~Covered(p, s - 1))
    BY DEF Scanning
  <1>2. ASSUME NEW r \in Utf8UpTo(p, y), ~(r[2] <= s)
        PROVE  r \in new
    <2>1. /\ r \in (0..Len(p)) \X (0..Len(p)) /\ IsRun(p, r[1], r[2])
          /\ Cardinality(CharsIn(p, r[1], r[2])) >= minimum
          /\ r[2] <= y
      BY <1>2 DEF Utf8UpTo, Utf8Strings
    <2>2. r = <<r[1], r[2]>> /\ r[1] \in 0..Len(p) /\ r[2] \in 0..Len(p)
      BY <2>1
    <2>3. r[1] < r[2] /\ Covered(p, r[2] - 1) /\ ~Covered(p, r[2])
      BY <2>1, <2>2 DEF IsRun
    <2>4. r[2] # x + 1
      BY <2>2, <2>3
    <2>5. r[2] \notin s..(x - 1)
      BY <1>1, <2>3
    <2>6. r[2] = x /\ s < x
      BY <1>1, <1>2, <2>1, <2>2, <2>4, <2>5
    <2>7. ~(r[1] < s)
      <3> SUFFICES ASSUME r[1] < s PROVE FALSE
        OBVIOUS
      <3>1. s - 1 \in r[1]..(r[2] - 1) /\ s # 0
        BY <2>2, <2>6
      <3>2. Covered(p, s - 1)
        BY <2>1, <3>1 DEF IsRun
      <3> QED
        BY <1>1, <3>1, <3>2
    <2>8. ~(r[1] > s)
      <3> SUFFICES ASSUME r[1] > s PROVE FALSE
        OBVIOUS
      <3>1. r[1] - 1 \in s..(x - 1) /\ r[1] # 0
        BY <2>2, <2>3, <2>6
      <3>2. ~Covered(p, r[1] - 1)
        BY <2>1, <3>1 DEF IsRun
      <3> QED
        BY <1>1, <3>1, <3>2
    <2>9. r = <<s, x>>
      BY <2>2, <2>6, <2>7, <2>8
    <2> QED
      BY <2>1, <2>6, <2>9
  <1>3. ASSUME s < x, Cardinality(CharsIn(p, s, x)) >= minimum
        PROVE  <<s, x>> \in Utf8UpTo(p, y)
    <2>1. IsRun(p, s, x)
      BY <1>1, <1>3 DEF IsRun
    <2> QED
      BY <1>1, <1>3, <2>1 DEF Utf8UpTo, Utf8Strings
  <1>4. \A r \in Utf8UpTo(p, s) : r \in Utf8UpTo(p, y)
    BY <1>1 DEF Utf8UpTo, Utf8Strings
  <1>5. \A r \in Utf8UpTo(p, y) : r[2] <= s => r \in Utf8UpTo(p, s)
    BY DEF Utf8UpTo
  <1>6. \A r \in new : r \in Utf8UpTo(p, y)
    BY <1>3
  <1> HIDE DEF new
  <1>7. Utf8UpTo(p, y) = Utf8UpTo(p, s) \cup new
    BY <1>2, <1>4, <1>5, <1>6
  <1> QED
    BY <1>7 DEF new

-----------------------------------------------------------------------------
(* Rows of UTF-16LE                                                         *)

(* A set of natural numbers that has a member has a least one.              *)
LEMMA Minimum ==
  ASSUME NEW T \in SUBSET Nat, T # {}
  PROVE  \E i \in T : \A j \in T : i <= j
  <1> DEFINE Less == OpToRel(<, Nat)
  <1>1. \E i \in T : \A j \in T : <<j, i>> \notin Less
    BY NatLessThanWellFounded, WFMin
  <1>2. \A i, j \in Nat : i < j => <<i, j>> \in Less
    BY Zenon DEF OpToRel
  <1>3. PICK i \in T : \A j \in T : <<j, i>> \notin Less
    BY <1>1, Zenon
  <1> HIDE DEF Less
  <1>4. ASSUME NEW j \in T PROVE ~(j < i)
    BY <1>2, <1>3, Zenon
  <1>5. \A j \in T : i \in Nat /\ j \in Nat /\ ~(j < i)
    BY <1>4, Zenon
  <1>6. \A j \in T : i <= j
    BY <1>5
  <1> QED
    BY <1>6

(* What ends a row of n characters that begins at x.                        *)
LEMMA RowFits ==
  ASSUME NEW p \in Seq(Bytes), NEW x \in Nat, NEW n \in Nat \ {0}, Row(p, x, n)
  PROVE  Printable16(p, x) /\ x + 2 * n <= Len(p)
  <1>1. 0 \in 0..(n - 1) /\ n - 1 \in 0..(n - 1)
    OBVIOUS
  <1>2. Printable16(p, x + 2 * 0) /\ Printable16(p, x + 2 * (n - 1))
    BY <1>1 DEF Row
  <1> QED
    BY <1>2 DEF Printable16

(* A row that begins where no long row lies across has no character before, *)
(* or that one and the row would be a long row across.                      *)
LEMMA RowBegins ==
  ASSUME NEW p \in Seq(Bytes), NEW x \in Nat, minimum \in Nat \ {0},
         NEW n \in minimum..Len(p), Row(p, x, n), ~Printable16(p, x + 2 * n),
         \A r \in Utf16Strings(p) : r[1] < x => r[2] <= x
  PROVE  ~Printable16(p, x - 2)
  <1> SUFFICES ASSUME Printable16(p, x - 2) PROVE FALSE
    OBVIOUS
  <1> DEFINE T == { i \in Nat : \E k \in Nat : x = i + 2 * k /\ Row(p, i, k) }
  <1>1. x - 2 \in Nat /\ x - 2 \in T
    <2>1. x - 2 \in Nat
      BY DEF Printable16
    <2>2. Row(p, x - 2, 1)
      BY <2>1 DEF Row
    <2> QED
      BY <2>1, <2>2
  <1>2. PICK s \in T : \A j \in T : s <= j
    <2> HIDE DEF T
    <2>1. T \subseteq Nat
      BY DEF T
    <2> QED
      BY <1>1, <2>1, Minimum
  <1>3. PICK k \in Nat : x = s + 2 * k /\ Row(p, s, k)
    BY <1>2
  <1>4. s \in Nat /\ s < x
    BY <1>1, <1>2
  <1>5. ~Printable16(p, s - 2)
    <2> SUFFICES ASSUME Printable16(p, s - 2) PROVE FALSE
      OBVIOUS
    <2>1. s - 2 \in Nat
      BY <1>4 DEF Printable16
    <2>2. Row(p, s - 2, k + 1)
      <3> SUFFICES ASSUME NEW j \in 0..(k + 1 - 1) PROVE Printable16(p, s - 2 + 2 * j)
        BY DEF Row
      <3>1. CASE j = 0
        BY <3>1, <2>1
      <3>2. CASE j # 0
        <4>1. j - 1 \in 0..(k - 1) /\ s - 2 + 2 * j = s + 2 * (j - 1)
          BY <3>2, <1>4
        <4> QED
          BY <4>1, <1>3 DEF Row
      <3> QED
        BY <3>1, <3>2
    <2>3. x = s - 2 + 2 * (k + 1) /\ k + 1 \in Nat
      BY <1>3, <1>4
    <2>4. s - 2 \in T
      BY <2>1, <2>2, <2>3
    <2> QED
      BY <1>2, <1>4, <2>4
  <1>6. Row(p, s, k + n) /\ x + 2 * n = s + 2 * (k + n)
    <2>1. x + 2 * n = s + 2 * (k + n)
      BY <1>3, <1>4
    <2> SUFFICES ASSUME NEW j \in 0..(k + n - 1) PROVE Printable16(p, s + 2 * j)
      BY <2>1 DEF Row
    <2>2. CASE j < k
      BY <1>3, <2>2 DEF Row
    <2>3. CASE j >= k
      <3>1. j - k \in 0..(n - 1) /\ s + 2 * j = x + 2 * (j - k)
        BY <1>3, <1>4, <2>3
      <3> QED
        BY <3>1 DEF Row
    <2> QED
      BY <2>2, <2>3
  <1>7. s + 2 * (k + n) <= Len(p) /\ Len(p) \in Nat
    BY <1>4, <1>6, RowFits
  <1>8. <<s, s + 2 * (k + n)>> \in Utf16Strings(p)
    <2>1. k + n \in minimum..Len(p)
      BY <1>7, <1>4
    <2>2. <<s, s + 2 * (k + n)>> \in (0..Len(p)) \X (0..Len(p))
      BY <1>7, <1>4
    <2> QED
      BY <1>5, <1>6, <2>1, <2>2 DEF Utf16Strings
  <1> QED
    BY <1>4, <1>6, <1>8

(* A string of the payload begins with a row of its own.                    *)
LEMMA StringIsRow ==
  ASSUME NEW p \in Seq(Bytes), minimum \in Nat \ {0}, NEW r \in Utf16Strings(p)
  PROVE  /\ r = <<r[1], r[2]>> /\ r[1] \in 0..Len(p) /\ r[2] \in 0..Len(p)
         /\ Len(p) \in Nat
         /\ ~Printable16(p, r[1] - 2) /\ ~Printable16(p, r[2])
         /\ \E n \in minimum..Len(p) : r[2] = r[1] + 2 * n /\ Row(p, r[1], n)
  BY DEF Utf16Strings

(* Inside a row no string begins: not at an even offset, where a character  *)
(* is before it, nor at an odd one, where there is a zero.                  *)
LEMMA NoneBeginsInside ==
  ASSUME NEW p \in Seq(Bytes), NEW x \in Nat, NEW n \in Nat, Row(p, x, n),
         minimum \in Nat \ {0}, NEW r \in Utf16Strings(p),
         x < r[1], r[1] < x + 2 * n
  PROVE  FALSE
  <1>1. PICK m \in minimum..Len(p) : r[2] = r[1] + 2 * m /\ Row(p, r[1], m)
    BY StringIsRow
  <1>2. r[1] \in Nat /\ ~Printable16(p, r[1] - 2) /\ Len(p) \in Nat
    BY StringIsRow
  <1>3. Printable16(p, r[1])
    BY <1>1, <1>2, RowFits
  <1>4. \E k \in Nat : r[1] - x = 2 * k \/ r[1] - x = 2 * k + 1
    <2> DEFINE d == r[1] - x
    <2>1. d \in Nat
      BY <1>2
    <2> HIDE DEF d
    <2>2. d \div 2 \in Nat /\ (d = 2 * (d \div 2) \/ d = 2 * (d \div 2) + 1)
      BY <2>1
    <2> QED
      BY <2>2 DEF d
  <1>5. PICK k \in Nat : r[1] - x = 2 * k \/ r[1] - x = 2 * k + 1
    BY <1>4
  <1>6. CASE r[1] - x = 2 * k
    <2>1. k - 1 \in 0..(n - 1) /\ x + 2 * (k - 1) = r[1] - 2
      BY <1>2, <1>6
    <2> QED
      BY <1>2, <2>1 DEF Row
  <1>7. CASE r[1] - x = 2 * k + 1
    <2>1. k \in 0..(n - 1) /\ x + 2 * k + 2 = r[1] + 1
      BY <1>2, <1>7
    <2>2. p[x + 2 * k + 2] = "zero"
      BY <2>1 DEF Row, Printable16
    <2>3. p[r[1] + 1] = "text"
      BY <1>3 DEF Printable16
    <2> QED
      BY <2>1, <2>2, <2>3
  <1> QED
    BY <1>5, <1>6, <1>7

(* What one match adds, and that the next position is again one no row lies *)
(* across.                                                                  *)
LEMMA MatchEnds ==
  ASSUME NEW p \in Seq(Bytes), NEW x \in Nat, minimum \in Nat \ {0},
         NEW n \in minimum..Len(p), Row(p, x, n), ~Printable16(p, x + 2 * n),
         \A r \in Utf16Strings(p) : r[1] < x => r[2] <= x
  PROVE  /\ x + 2 * n \in Nat /\ x < x + 2 * n /\ x + 2 * n <= Len(p)
         /\ Utf16UpTo(p, x + 2 * n) = Utf16UpTo(p, x) \cup {<<x, x + 2 * n>>}
         /\ \A r \in Utf16Strings(p) : r[1] < x + 2 * n => r[2] <= x + 2 * n
  <1> DEFINE y == x + 2 * n
  <1>1. Len(p) \in Nat /\ n \in Nat \ {0}
    OBVIOUS
  <1>2. y \in Nat /\ x < y /\ y <= Len(p)
    BY <1>1, RowFits
  <1>3. <<x, y>> \in Utf16Strings(p)
    <2>1. <<x, y>> \in (0..Len(p)) \X (0..Len(p))
      BY <1>1, <1>2
    <2>2. ~Printable16(p, x - 2)
      BY RowBegins
    <2> QED
      BY <2>1, <2>2 DEF Utf16Strings
  <1>4. ASSUME NEW r \in Utf16Strings(p), r[1] < y
        PROVE  r = <<x, y>> \/ r[1] < x
    <2>1. /\ r = <<r[1], r[2]>> /\ r[1] \in Nat /\ r[2] \in Nat
          /\ ~Printable16(p, r[2])
      BY StringIsRow
    <2>2. r[1] < x \/ r[1] = x
      BY <1>1, <1>4, <2>1, NoneBeginsInside
    <2>3. CASE r[1] = x
      <3>1. PICK m \in minimum..Len(p) : r[2] = x + 2 * m /\ Row(p, x, m)
        BY <2>3, StringIsRow
      <3>2. ~(m < n)
        BY SMTT(30), <1>1, <2>1, <3>1 DEF Row
      <3>3. ~(n < m)
        <4> SUFFICES ASSUME n < m PROVE FALSE
          OBVIOUS
        <4>1. n \in 0..(m - 1)
          BY <1>1, <3>1
        <4> QED
          BY <3>1, <4>1 DEF Row
      <3>4. m = n
        BY <1>1, <3>1, <3>2, <3>3
      <3> QED
        BY <2>1, <2>3, <3>1, <3>4
    <2> QED
      BY <2>2, <2>3
  <1>5. Utf16UpTo(p, y) = Utf16UpTo(p, x) \cup {<<x, y>>}
    <2>1. \A r \in Utf16UpTo(p, y) : r \in Utf16UpTo(p, x) \/ r = <<x, y>>
      BY <1>4 DEF Utf16UpTo
    <2>2. \A r \in Utf16UpTo(p, x) : r \in Utf16UpTo(p, y)
      <3> SUFFICES ASSUME NEW r \in Utf16UpTo(p, x) PROVE r \in Utf16UpTo(p, y)
        OBVIOUS
      <3>1. r \in Utf16Strings(p) /\ r[1] < x
        BY DEF Utf16UpTo
      <3>2. r[1] \in Nat
        BY <3>1, StringIsRow
      <3> QED
        BY <1>2, <3>1, <3>2 DEF Utf16UpTo
    <2>3. <<x, y>> \in Utf16UpTo(p, y)
      BY <1>2, <1>3 DEF Utf16UpTo
    <2> QED
      BY <2>1, <2>2, <2>3
  <1>6. \A r \in Utf16Strings(p) : r[1] < y => r[2] <= y
    <2> SUFFICES ASSUME NEW r \in Utf16Strings(p), r[1] < y PROVE r[2] <= y
      OBVIOUS
    <2>1. r[2] \in Nat
      BY StringIsRow
    <2>2. r = <<x, y>> \/ r[2] <= x
      BY <1>4
    <2> QED
      BY <1>2, <2>1, <2>2
  <1> QED
    BY <1>2, <1>5, <1>6

(* Where no row of the minimum begins, no string does.                      *)
LEMMA SkipFindsNone ==
  ASSUME NEW p \in Seq(Bytes), NEW x \in Nat, minimum \in Nat \ {0},
         ~Row(p, x, minimum),
         \A r \in Utf16Strings(p) : r[1] < x => r[2] <= x
  PROVE  /\ Utf16UpTo(p, x + 1) = Utf16UpTo(p, x)
         /\ \A r \in Utf16Strings(p) : r[1] < x + 1 => r[2] <= x + 1
  <1>1. ASSUME NEW r \in Utf16Strings(p) PROVE r[1] \in Nat /\ r[2] \in Nat /\ r[1] # x
    <2>1. r[1] \in Nat /\ r[2] \in Nat
      BY StringIsRow
    <2>2. PICK m \in minimum..Len(p) : Row(p, r[1], m)
      BY StringIsRow
    <2>3. Row(p, r[1], minimum)
      BY <2>2 DEF Row
    <2> QED
      BY <2>1, <2>3
  <1>2. \A r \in Utf16Strings(p) : r[1] < x + 1 <=> r[1] < x
    BY <1>1
  <1> QED
    BY <1>1, <1>2 DEF Utf16UpTo

(* Behind the last byte all strings have begun.                             *)
LEMMA AllFound ==
  ASSUME NEW p \in Seq(Bytes), minimum \in Nat \ {0}
  PROVE  /\ Utf16UpTo(p, Len(p)) = Utf16Strings(p)
         /\ Utf16UpTo(p, 0) = {}
         /\ \A r \in Utf16Strings(p) : r[1] >= 0
         /\ 2 * minimum > Len(p) => Utf16Strings(p) = {}
  <1>1. ASSUME NEW r \in Utf16Strings(p)
        PROVE  r[1] \in Nat /\ r[1] + 2 * minimum <= Len(p) /\ Len(p) \in Nat
    <2>1. r[1] \in Nat /\ r[2] \in 0..Len(p) /\ Len(p) \in Nat
      BY StringIsRow
    <2>2. \E m \in minimum..Len(p) : r[2] = r[1] + 2 * m
      BY StringIsRow
    <2> QED
      BY <2>1, <2>2
  <1>2. \A r \in Utf16Strings(p) : r[1] < Len(p) /\ ~(r[1] < 0) /\ r[1] >= 0
    BY <1>1
  <1>3. ASSUME 2 * minimum > Len(p), Utf16Strings(p) # {} PROVE FALSE
    <2>1. PICK r \in Utf16Strings(p) : TRUE
      BY <1>3
    <2>2. r[1] \in Nat /\ r[1] + 2 * minimum <= Len(p) /\ Len(p) \in Nat
      BY <1>1, <2>1
    <2> QED
      BY <1>3, <2>2
  <1> QED
    BY <1>2, <1>3 DEF Utf16UpTo

-----------------------------------------------------------------------------
(* What a step does to the strings of a node                                *)

Encodings == {"utf-8", "utf-16le"}

(* What _extract_strings is given.                                          *)
LEMMA Arguments ==
  ASSUME input \in Inputs, minimum \in Minimums
  PROVE  /\ minimum \in Nat \ {0} /\ input.nodes \in Seq(Node) /\ input.size \in Nat
         /\ \A n \in 1..Len(input.nodes) :
              /\ Payload(n) \in Seq(Bytes) /\ Len(Payload(n)) \in Nat
              /\ Len(Payload(n)) <= input.size
  <1>1. /\ minimum \in Nat \ {0} /\ input.nodes \in Seq(Node) /\ input.size \in Nat
        /\ \A n \in DOMAIN input.nodes : Len(input.nodes[n].payload) <= input.size
    BY InputsAssumption, MinimumsAssumption
  <1>2. \A n \in 1..Len(input.nodes) : input.nodes[n] \in Node
    BY <1>1
  <1>3. \A n \in 1..Len(input.nodes) : Payload(n) \in Seq(Bytes)
    BY <1>2 DEF Node, Payload
  <1> QED
    BY <1>1, <1>3 DEF Payload

(* What is to be found does not change while the scanners are at work.      *)
LEMMA Frame ==
  ASSUME UNCHANGED arguments
  PROVE  /\ \A n, encoding : Expected(n, encoding)' = Expected(n, encoding)
         /\ \A n : Payload(n)' = Payload(n)
         /\ \A p : Utf8Strings(p)' = Utf8Strings(p) /\ Utf16Strings(p)' = Utf16Strings(p)
         /\ \A p, x : /\ Utf8UpTo(p, x)' = Utf8UpTo(p, x)
                      /\ Utf16UpTo(p, x)' = Utf16UpTo(p, x)
  <1>1. input' = input /\ minimum' = minimum
    BY DEF arguments
  <1>2. \A n : Payload(n)' = Payload(n)
    BY <1>1 DEF Payload
  <1>3. \A p : Utf8Strings(p)' = Utf8Strings(p) /\ Utf16Strings(p)' = Utf16Strings(p)
    BY <1>1 DEF Utf8Strings, Utf16Strings
  <1>4. \A p, x : /\ Utf8UpTo(p, x)' = Utf8UpTo(p, x)
                  /\ Utf16UpTo(p, x)' = Utf16UpTo(p, x)
    BY <1>3 DEF Utf8UpTo, Utf16UpTo
  <1>5. \A n, encoding : Expected(n, encoding)' = Expected(n, encoding)
    BY <1>1, <1>2, <1>3 DEF Expected
  <1> QED
    BY <1>2, <1>3, <1>4, <1>5

(* The node at hand is one of the nodes, primed or not.                     *)
LEMMA SameNode ==
  ASSUME UNCHANGED arguments, node' = node
  PROVE  \A n, encoding : n = node => StringsOf(node, encoding)' = StringsOf(n, encoding)'
  BY DEF StringsOf, arguments, Payload

(* Without a new string nothing more has been found anywhere.               *)
LEMMA NothingFound ==
  ASSUME UNCHANGED <<arguments, strings>>
  PROVE  \A n, encoding : StringsOf(n, encoding)' = StringsOf(n, encoding)
  BY DEF StringsOf, arguments, Payload

(* A new string is one more of its node and encoding and of no other.       *)
LEMMA OneFound ==
  ASSUME UNCHANGED arguments, NEW e, NEW a \in 0..Len(payload), NEW b \in 0..Len(payload),
         strings' = strings \cup {Found(e, a, b)}
  PROVE  /\ \A n, encoding : n # node \/ encoding # e =>
              StringsOf(n, encoding)' = StringsOf(n, encoding)
         /\ \A n : n = node => StringsOf(n, e)' = StringsOf(n, e) \cup {<<a, b>>}
  <1>1. \A n : Payload(n)' = Payload(n)
    BY Frame
  <1>2. \A n, encoding, c, d :
          <<n, encoding, c, d>> \in strings' <=>
            \/ <<n, encoding, c, d>> \in strings
            \/ n = node /\ encoding = e /\ c = a /\ d = b
    BY DEF Found
  <1>3. \A n, encoding : n # node \/ encoding # e =>
          StringsOf(n, encoding)' = StringsOf(n, encoding)
    BY <1>1, <1>2 DEF StringsOf
  <1>4. ASSUME NEW n, n = node
        PROVE  StringsOf(n, e)' = StringsOf(n, e) \cup {<<a, b>>}
    <2>1. Payload(n)' = payload /\ Payload(n) = payload
      BY <1>1, <1>4 DEF payload
    <2> DEFINE pairs == (0..Len(payload)) \X (0..Len(payload))
    <2>2. StringsOf(n, e)' = { r \in pairs : <<n, e, r[1], r[2]>> \in strings' }
      BY <2>1 DEF StringsOf
    <2>3. StringsOf(n, e) = { r \in pairs : <<n, e, r[1], r[2]>> \in strings }
      BY <2>1 DEF StringsOf
    <2>4. \A r \in pairs : r[1] = a /\ r[2] = b <=> r = <<a, b>>
      OBVIOUS
    <2>5. <<a, b>> \in pairs
      OBVIOUS
    <2> HIDE DEF pairs
    <2> QED
      BY <1>2, <1>4, <2>2, <2>3, <2>4, <2>5
  <1> QED
    BY <1>3, <1>4

(* What is kept where a run ends completes the strings up to there.         *)
LEMMA KeptIsFound ==
  ASSUME IInv, pc = "utf8", UNCHANGED arguments, strings' = Kept,
         ~Covered(payload, index), NEW y \in index..(index + 1)
  PROVE  /\ \A n : n = node => /\ StringsOf(n, "utf-8")' = Utf8UpTo(payload, y)
                               /\ StringsOf(n, "utf-16le")' = {}
         /\ \A n, encoding : n # node => StringsOf(n, encoding)' = StringsOf(n, encoding)
         /\ strings' \subseteq Nat \X Encodings \X Nat \X Nat
         /\ \A s \in strings' : s[1] <= node
  <1>1. /\ payload \in Seq(Bytes) /\ index \in 0..Len(payload) /\ Len(payload) \in Nat
        /\ minimum \in Nat /\ node \in Nat
    BY Arguments DEF IInv, TypeOK, payload
  <1>2. /\ strings \subseteq Nat \X Encodings \X Nat \X Nat
        /\ \A s \in strings : s[1] <= node
        /\ start = None \/ start \in Nat
    BY DEF IInv, TypeOK, NodesDone, Positions, Encodings
  <1>3. /\ start # None => start < index
        /\ Scanning(payload, Begin, index)
        /\ chars = Cardinality(CharsIn(payload, Begin, index))
        /\ StringsOf(node, "utf-8") = Utf8UpTo(payload, Begin)
        /\ StringsOf(node, "utf-16le") = {}
    BY DEF IInv, InUtf8
  <1>4. Begin \in Nat /\ (start = None => Begin = index) /\ (start # None => Begin = start)
    BY <1>1, <1>2 DEF Begin
  <1>5. Utf8UpTo(payload, y) =
          Utf8UpTo(payload, Begin) \cup
            (IF Begin < index /\ Cardinality(CharsIn(payload, Begin, index)) >= minimum
             THEN {<<Begin, index>>} ELSE {})
    BY <1>1, <1>3, <1>4, RunEnds
  <1>6. Begin < index <=> start # None
    BY <1>1, <1>3, <1>4
  <1>7. CASE start # None /\ chars >= minimum
    <2>1. strings' = strings \cup {Found("utf-8", start, index)}
      BY <1>7 DEF Kept
    <2>2. start \in 0..Len(payload)
      BY <1>1, <1>2, <1>3, <1>7
    <2>3. Utf8UpTo(payload, y) = Utf8UpTo(payload, Begin) \cup {<<start, index>>}
      BY <1>3, <1>4, <1>5, <1>6, <1>7
    <2>4. Found("utf-8", start, index) \in Nat \X Encodings \X Nat \X Nat
      BY <1>1, <2>2 DEF Found, Encodings
    <2>5. Found("utf-8", start, index)[1] = node /\ node <= node
      BY <1>1 DEF Found
    <2>6. strings' \subseteq Nat \X Encodings \X Nat \X Nat /\ \A s \in strings' : s[1] <= node
      BY <1>2, <2>1, <2>4, <2>5
    <2>7. index \in 0..Len(payload)
      BY <1>1
    <2>8. /\ \A n, encoding : n # node \/ encoding # "utf-8" =>
               StringsOf(n, encoding)' = StringsOf(n, encoding)
          /\ \A n : n = node =>
               StringsOf(n, "utf-8")' = StringsOf(n, "utf-8") \cup {<<start, index>>}
      BY <2>1, <2>2, <2>7, OneFound
    <2>9. \A n : n = node => /\ StringsOf(n, "utf-8")' = Utf8UpTo(payload, y)
                             /\ StringsOf(n, "utf-16le")' = {}
      BY <1>3, <2>3, <2>8
    <2> QED
      BY <2>6, <2>8, <2>9
  <1>8. CASE ~(start # None /\ chars >= minimum)
    <2>1. strings' = strings
      BY <1>8 DEF Kept
    <2>2. Utf8UpTo(payload, y) = Utf8UpTo(payload, Begin)
      BY <1>3, <1>5, <1>6, <1>8
    <2> QED
      BY <1>2, <1>3, <2>1, <2>2, NothingFound
  <1> QED
    BY <1>7, <1>8

-----------------------------------------------------------------------------
(* The invariant                                                            *)

LEMMA InitIInv == Init => IInv
  <1> SUFFICES ASSUME Init PROVE IInv
    OBVIOUS
  <1>1. /\ input \in Inputs /\ minimum \in Minimums /\ node = 1 /\ pc = "node"
        /\ index = 0 /\ start = None /\ chars = 0 /\ strings = {}
    BY DEF Init
  <1>2. Len(input.nodes) \in Nat
    BY <1>1, Arguments
  <1>3. TypeOK
    BY <1>1, <1>2 DEF TypeOK, Positions
  <1>4. NodesDone /\ InUtf8 /\ InUtf16
    BY <1>1 DEF NodesDone, InUtf8, InUtf16
  <1> QED
    BY <1>3, <1>4 DEF IInv

(* Where the loop stands in a node.                                         *)
LEMMA AtNode ==
  ASSUME IInv
  PROVE  /\ node \in Nat /\ index \in Nat /\ chars \in Nat
         /\ start = None \/ start \in Nat
         /\ minimum \in Nat \ {0} /\ Len(input.nodes) \in Nat
         /\ pc \in {"utf8", "utf16"} =>
              /\ node \in 1..Len(input.nodes) /\ payload \in Seq(Bytes)
              /\ Len(payload) \in Nat /\ index \in 0..Len(payload)
              /\ Len(payload) <= input.size /\ input.size \in Nat
              /\ ~input.nodes[node].has_refs
  BY Arguments DEF IInv, TypeOK, NodesDone, Positions, payload

LEMMA TakeStep == IInv /\ Take => IInv'
  <1> SUFFICES ASSUME IInv, Take PROVE IInv'
    OBVIOUS
  <1> DEFINE y == index + WidthAt(payload, index)
  <1>1. /\ pc = "utf8" /\ pc' = pc /\ node' = node /\ strings' = strings
        /\ input' = input /\ minimum' = minimum /\ UNCHANGED <<arguments, strings>>
        /\ start' = IF start = None THEN index ELSE start
        /\ chars' = chars + 1 /\ index' = y /\ Printable(payload, index)
    BY DEF Take, arguments
  <1>2. payload \in Seq(Bytes) /\ index \in Nat
    BY <1>1, AtNode
  <1>3. Begin \in Nat /\ (start = None => Begin = index) /\ (start # None => Begin = start)
    BY AtNode DEF Begin
  <1>4. /\ start # None => start < index
        /\ Scanning(payload, Begin, index)
        /\ chars = Cardinality(CharsIn(payload, Begin, index))
        /\ StringsOf(node, "utf-8") = Utf8UpTo(payload, Begin)
        /\ StringsOf(node, "utf-16le") = {}
    BY <1>1 DEF IInv, InUtf8
  <1>5. /\ y \in Nat /\ index < y /\ y <= Len(payload)
        /\ Scanning(payload, Begin, y)
        /\ Cardinality(CharsIn(payload, Begin, y)) = chars + 1
    BY <1>1, <1>2, <1>3, <1>4, TakeExtends
  <1>6. payload' = payload
    BY <1>1 DEF payload, Payload
  <1>7. start' = Begin /\ Begin' = Begin
    BY <1>1, <1>3, NoneAssumption DEF Begin
  <1>8. TypeOK'
    <2>1. start' \in Nat /\ chars' \in Nat /\ index' \in Nat /\ index' <= Len(payload')
      BY <1>1, <1>3, <1>5, <1>6, <1>7, AtNode
    <2> QED
      BY <1>1, <2>1 DEF IInv, TypeOK, Positions
  <1>9. \A n, encoding : StringsOf(n, encoding)' = StringsOf(n, encoding)
    BY <1>1, NothingFound
  <1>10. NodesDone'
    <2>1. \A n, encoding : Expected(n, encoding)' = Expected(n, encoding)
      BY <1>1, Frame
    <2> QED
      BY <1>1, <1>9, <2>1 DEF IInv, NodesDone
  <1>11. InUtf8'
    <2>1. start' < index'
      BY <1>1, <1>2, <1>3, <1>4, <1>5, <1>7
    <2>2. StringsOf(node, "utf-8")' = StringsOf(node, "utf-8")
          /\ StringsOf(node, "utf-16le")' = StringsOf(node, "utf-16le")
      BY <1>1, <1>6 DEF StringsOf, Payload
    <2>3. Utf8UpTo(payload, Begin)' = Utf8UpTo(payload, Begin)
      BY <1>1, <1>6, <1>7, Frame
    <2>4. Scanning(payload, Begin, index)'
      BY <1>1, <1>5, <1>6, <1>7 DEF Scanning
    <2>5. Cardinality(CharsIn(payload, Begin, index))' = chars'
      BY <1>1, <1>5, <1>6, <1>7 DEF CharsIn
    <2> QED
      BY <1>4, <2>1, <2>2, <2>3, <2>4, <2>5 DEF InUtf8
  <1>12. InUtf16'
    BY <1>1 DEF InUtf16
  <1> QED
    BY <1>8, <1>10, <1>11, <1>12 DEF IInv

LEMMA BreakStep == IInv /\ Break => IInv'
  <1> SUFFICES ASSUME IInv, Break PROVE IInv'
    OBVIOUS
  <1>1. /\ pc = "utf8" /\ pc' = pc /\ node' = node /\ strings' = Kept
        /\ input' = input /\ minimum' = minimum /\ UNCHANGED arguments
        /\ start' = None /\ chars' = 0 /\ index' = index + 1
        /\ index < Len(payload) /\ ~Printable(payload, index)
    BY DEF Break, arguments
  <1>2. payload \in Seq(Bytes) /\ index \in Nat /\ Len(payload) \in Nat
    BY <1>1, AtNode
  <1>3. Begin \in Nat /\ Scanning(payload, Begin, index)
    BY <1>1, AtNode DEF Begin, IInv, InUtf8
  <1>4. ~Covered(payload, index) /\ Scanning(payload, index + 1, index + 1)
    BY <1>1, <1>2, <1>3, BreakIsUncovered
  <1>5. /\ \A n : n = node => /\ StringsOf(n, "utf-8")' = Utf8UpTo(payload, index + 1)
                              /\ StringsOf(n, "utf-16le")' = {}
        /\ \A n, encoding : n # node => StringsOf(n, encoding)' = StringsOf(n, encoding)
        /\ strings' \subseteq Nat \X Encodings \X Nat \X Nat
        /\ \A s \in strings' : s[1] <= node
    <2>1. index + 1 \in index..(index + 1)
      BY <1>2
    <2> QED
      BY <1>1, <1>4, <2>1, KeptIsFound
  <1>6. payload' = payload /\ Begin' = index + 1
    BY <1>1 DEF payload, Payload, Begin
  <1>7. TypeOK'
    <2>1. index' \in Nat /\ index' <= Len(payload')
      BY <1>1, <1>2, <1>6
    <2> QED
      BY <1>1, <1>5, <2>1 DEF IInv, TypeOK, Positions, Encodings
  <1>8. NodesDone'
    <2>1. \A n, encoding : Expected(n, encoding)' = Expected(n, encoding)
      BY <1>1, Frame
    <2>2. \A n \in 1..(node - 1) : n # node
      BY AtNode
    <2> QED
      BY <1>1, <1>5, <2>1, <2>2 DEF IInv, NodesDone
  <1>9. InUtf8'
    <2>1. /\ StringsOf(node, "utf-8")' = Utf8UpTo(payload, index + 1)
          /\ StringsOf(node, "utf-16le")' = {}
      <3>1. PICK n : n = node
        OBVIOUS
      <3>2. \A encoding : StringsOf(node, encoding)' = StringsOf(n, encoding)'
        BY <1>1, <3>1, SameNode
      <3>3. StringsOf(n, "utf-8")' = Utf8UpTo(payload, index + 1)
            /\ StringsOf(n, "utf-16le")' = {}
        BY <1>5, <3>1
      <3> QED
        BY <3>2, <3>3
    <2>2. Utf8UpTo(payload, Begin)' = Utf8UpTo(payload, index + 1)
      BY <1>1, <1>6, Frame
    <2>3. Scanning(payload, Begin, index)'
      BY <1>1, <1>4, <1>6 DEF Scanning
    <2>4. Cardinality(CharsIn(payload, Begin, index))' = 0
      <3>1. CharsIn(payload, Begin, index)' = {}
        BY <1>1, <1>2, <1>6 DEF CharsIn
      <3> QED
        BY <3>1, FS_EmptySet
    <2> QED
      BY <1>1, <2>1, <2>2, <2>3, <2>4 DEF InUtf8
  <1>10. InUtf16'
    BY <1>1 DEF InUtf16
  <1> QED
    BY <1>7, <1>8, <1>9, <1>10 DEF IInv

LEMMA EndUtf8Step == IInv /\ EndUtf8 => IInv'
  <1> SUFFICES ASSUME IInv, EndUtf8 PROVE IInv'
    OBVIOUS
  <1>1. /\ pc = "utf8" /\ strings' = Kept
        /\ input' = input /\ minimum' = minimum /\ UNCHANGED arguments
        /\ start' = None /\ chars' = 0 /\ index >= Len(payload)
    BY DEF EndUtf8, arguments
  <1>2. \/ Compiled /\ pc' = "utf16" /\ index' = 0 /\ node' = node
        \/ ~Compiled /\ pc' = "node" /\ index' = index /\ node' = node + 1
    BY DEF EndUtf8
  <1>3. /\ payload \in Seq(Bytes) /\ Len(payload) \in Nat /\ node \in 1..Len(input.nodes)
        /\ index = Len(payload) /\ Len(input.nodes) \in Nat
        /\ ~input.nodes[node].has_refs /\ minimum \in Nat \ {0}
        /\ Len(payload) <= input.size /\ input.size \in Nat
    BY <1>1, AtNode
  <1>4. ~Covered(payload, index)
    BY <1>3, EndIsUncovered
  <1>5. Utf8UpTo(payload, index) = Utf8Strings(payload)
    BY <1>3 DEF Utf8UpTo, Utf8Strings
  <1>6. /\ \A n : n = node => /\ StringsOf(n, "utf-8")' = Utf8Strings(payload)
                              /\ StringsOf(n, "utf-16le")' = {}
        /\ \A n, encoding : n # node => StringsOf(n, encoding)' = StringsOf(n, encoding)
        /\ strings' \subseteq Nat \X Encodings \X Nat \X Nat
        /\ \A s \in strings' : s[1] <= node
    <2>1. index \in index..(index + 1)
      BY <1>3
    <2> QED
      BY <1>1, <1>4, <1>5, <2>1, KeptIsFound
  <1>7. \A n, encoding : Expected(n, encoding)' = Expected(n, encoding)
    BY <1>1, Frame
  <1>8. \A n \in 1..(node - 1) : \A encoding \in {"utf-8", "utf-16le"} :
          StringsOf(n, encoding)' = Expected(n, encoding)'
    <2>1. \A n \in 1..(node - 1) : n # node
      BY <1>3
    <2> QED
      BY <1>6, <1>7, <2>1 DEF IInv, NodesDone
  <1>9. CASE Compiled /\ pc' = "utf16" /\ index' = 0 /\ node' = node
    <2>1. payload' = payload
      BY <1>1, <1>9 DEF payload, Payload
    <2>2. TypeOK'
      BY <1>1, <1>3, <1>6, <1>9, <2>1 DEF IInv, TypeOK, Positions, Encodings
    <2>3. NodesDone'
      BY <1>1, <1>3, <1>6, <1>8, <1>9 DEF NodesDone
    <2>4. InUtf16'
      <3>1. PICK n : n = node
        OBVIOUS
      <3>2. \A encoding : StringsOf(node, encoding)' = StringsOf(n, encoding)'
        BY <1>1, <1>9, <3>1, SameNode
      <3>3. StringsOf(node, "utf-8")' = Utf8Strings(payload)
            /\ StringsOf(node, "utf-16le")' = {}
        BY <1>6, <3>1, <3>2
      <3>4. /\ Utf8Strings(payload)' = Utf8Strings(payload)
            /\ Utf16Strings(payload)' = Utf16Strings(payload)
            /\ Utf16UpTo(payload, index)' = Utf16UpTo(payload, 0)
        BY <1>1, <1>9, <2>1, Frame
      <3>5. Utf16UpTo(payload, 0) = {}
        BY <1>3, AllFound
      <3>6. \A r \in Utf16Strings(payload) : ~(r[1] < 0)
        <4>1. \A r \in Utf16Strings(payload) : r[1] \in Nat
          BY <1>3, StringIsRow
        <4> QED
          BY <4>1
      <3>7. \A r \in Utf16Strings(payload)' : r[1] < index' => r[2] <= index'
        BY <1>9, <3>4, <3>6
      <3> QED
        BY <3>3, <3>4, <3>5, <3>7 DEF InUtf16
    <2>5. InUtf8'
      BY <1>9 DEF InUtf8
    <2> QED
      BY <2>2, <2>3, <2>4, <2>5 DEF IInv
  <1>10. CASE ~Compiled /\ pc' = "node" /\ index' = index /\ node' = node + 1
    <2>1. TypeOK'
      <3>1. node' \in 1..(Len(input'.nodes) + 1)
        BY <1>1, <1>3, <1>10
      <3> QED
        BY <1>1, <1>6, <1>10, <3>1 DEF IInv, TypeOK, Positions, Encodings
    <2>2. 2 * minimum > Len(payload)
      BY <1>3, <1>10 DEF Compiled
    <2>3. Utf16Strings(payload) = {}
      BY <1>3, <2>2, AllFound
    <2>4. \A n : n = node => \A encoding \in {"utf-8", "utf-16le"} :
            StringsOf(n, encoding)' = Expected(n, encoding)'
      BY <1>3, <1>6, <1>7, <2>3 DEF Expected, payload
    <2>5. \A n \in 1..(node' - 1) : n \in 1..(node - 1) \/ n = node
      BY <1>3, <1>10
    <2>6. \A s \in strings' : s[1] < node' /\ s[1] <= node'
      BY <1>3, <1>6, <1>10
    <2>7. NodesDone'
      BY <1>1, <1>8, <1>10, <2>4, <2>5, <2>6 DEF NodesDone
    <2>8. InUtf8' /\ InUtf16'
      BY <1>10 DEF InUtf8, InUtf16
    <2> QED
      BY <2>1, <2>7, <2>8 DEF IInv
  <1> QED
    BY <1>2, <1>9, <1>10

LEMMA Match16Step == IInv /\ Match16 => IInv'
  <1> SUFFICES ASSUME IInv, Match16 PROVE IInv'
    OBVIOUS
  <1>1. /\ pc = "utf16" /\ pc' = pc /\ node' = node /\ start' = start /\ chars' = chars
        /\ input' = input /\ minimum' = minimum /\ UNCHANGED arguments
    BY DEF Match16, arguments, run
  <1>2. PICK n \in minimum..Len(payload) :
          /\ Row(payload, index, n) /\ ~Printable16(payload, index + 2 * n)
          /\ strings' = strings \cup {Found("utf-16le", index, index + 2 * n)}
          /\ index' = index + 2 * n
    BY DEF Match16
  <1> DEFINE y == index + 2 * n
  <1>3. /\ payload \in Seq(Bytes) /\ index \in 0..Len(payload) /\ Len(payload) \in Nat
        /\ minimum \in Nat \ {0} /\ node \in Nat
    BY <1>1, AtNode
  <1>4. /\ \A r \in Utf16Strings(payload) : r[1] < index => r[2] <= index
        /\ StringsOf(node, "utf-8") = Utf8Strings(payload)
        /\ StringsOf(node, "utf-16le") = Utf16UpTo(payload, index)
    BY <1>1 DEF IInv, InUtf16
  <1>5. /\ y \in Nat /\ index < y /\ y <= Len(payload)
        /\ Utf16UpTo(payload, y) = Utf16UpTo(payload, index) \cup {<<index, y>>}
        /\ \A r \in Utf16Strings(payload) : r[1] < y => r[2] <= y
    BY <1>2, <1>3, <1>4, MatchEnds
  <1>6. payload' = payload
    BY <1>1 DEF payload, Payload
  <1>7. /\ \A m, encoding : m # node \/ encoding # "utf-16le" =>
             StringsOf(m, encoding)' = StringsOf(m, encoding)
        /\ \A m : m = node =>
             StringsOf(m, "utf-16le")' = StringsOf(m, "utf-16le") \cup {<<index, y>>}
    <2>1. y \in 0..Len(payload)
      BY <1>3, <1>5
    <2> QED
      BY <1>1, <1>2, <1>3, <2>1, OneFound
  <1>8. /\ strings' \subseteq Nat \X Encodings \X Nat \X Nat
        /\ \A s \in strings' : s[1] <= node
    <2>1. Found("utf-16le", index, y) \in Nat \X Encodings \X Nat \X Nat
      BY <1>3, <1>5 DEF Found, Encodings
    <2>2. Found("utf-16le", index, y)[1] = node /\ node <= node
      BY <1>3 DEF Found
    <2> QED
      BY <1>2, <2>1, <2>2 DEF IInv, TypeOK, NodesDone, Encodings
  <1>9. TypeOK'
    BY <1>1, <1>2, <1>5, <1>6, <1>8 DEF IInv, TypeOK, Positions, Encodings
  <1>10. NodesDone'
    <2>1. \A m, encoding : Expected(m, encoding)' = Expected(m, encoding)
      BY <1>1, Frame
    <2>2. \A m \in 1..(node - 1) : m # node
      BY <1>3
    <2> QED
      BY <1>1, <1>7, <1>8, <2>1, <2>2 DEF IInv, NodesDone
  <1>11. InUtf16'
    <2>1. PICK m : m = node
      OBVIOUS
    <2>2. \A encoding : StringsOf(node, encoding)' = StringsOf(m, encoding)'
      BY <1>1, <2>1, SameNode
    <2>3. /\ StringsOf(node, "utf-8")' = Utf8Strings(payload)
          /\ StringsOf(node, "utf-16le")' = Utf16UpTo(payload, y)
      BY <1>4, <1>5, <1>7, <2>1, <2>2
    <2>4. /\ Utf8Strings(payload)' = Utf8Strings(payload)
          /\ Utf16Strings(payload)' = Utf16Strings(payload)
          /\ Utf16UpTo(payload, index)' = Utf16UpTo(payload, y)
      BY <1>1, <1>2, <1>6, Frame
    <2>5. \A r \in Utf16Strings(payload)' : r[1] < index' => r[2] <= index'
      BY <1>2, <1>5, <2>4
    <2> QED
      BY <2>3, <2>4, <2>5 DEF InUtf16
  <1>12. InUtf8'
    BY <1>1 DEF InUtf8
  <1> QED
    BY <1>9, <1>10, <1>11, <1>12 DEF IInv

LEMMA Skip16Step == IInv /\ Skip16 => IInv'
  <1> SUFFICES ASSUME IInv, Skip16 PROVE IInv'
    OBVIOUS
  <1>1. /\ pc = "utf16" /\ pc' = pc /\ node' = node /\ start' = start /\ chars' = chars
        /\ input' = input /\ minimum' = minimum /\ UNCHANGED <<arguments, strings>>
        /\ strings' = strings /\ index' = index + 1
        /\ index < Len(payload) /\ ~Row(payload, index, minimum)
    BY DEF Skip16, arguments, run
  <1>2. /\ payload \in Seq(Bytes) /\ index \in Nat /\ Len(payload) \in Nat
        /\ minimum \in Nat \ {0}
    BY <1>1, AtNode
  <1>3. /\ \A r \in Utf16Strings(payload) : r[1] < index => r[2] <= index
        /\ StringsOf(node, "utf-8") = Utf8Strings(payload)
        /\ StringsOf(node, "utf-16le") = Utf16UpTo(payload, index)
    BY <1>1 DEF IInv, InUtf16
  <1>4. /\ Utf16UpTo(payload, index + 1) = Utf16UpTo(payload, index)
        /\ \A r \in Utf16Strings(payload) : r[1] < index + 1 => r[2] <= index + 1
    BY <1>1, <1>2, <1>3, SkipFindsNone
  <1>5. payload' = payload
    BY <1>1 DEF payload, Payload
  <1>6. TypeOK'
    BY <1>1, <1>2, <1>5 DEF IInv, TypeOK
  <1>7. NodesDone'
    <2>1. \A m, encoding : Expected(m, encoding)' = Expected(m, encoding)
      BY <1>1, Frame
    <2>2. \A m, encoding : StringsOf(m, encoding)' = StringsOf(m, encoding)
      BY <1>1, NothingFound
    <2> QED
      BY <1>1, <2>1, <2>2 DEF IInv, NodesDone
  <1>8. InUtf16'
    <2>1. \A encoding : StringsOf(node, encoding)' = StringsOf(node, encoding)
      BY <1>1 DEF StringsOf, Payload
    <2>2. /\ Utf8Strings(payload)' = Utf8Strings(payload)
          /\ Utf16Strings(payload)' = Utf16Strings(payload)
          /\ Utf16UpTo(payload, index)' = Utf16UpTo(payload, index + 1)
      BY <1>1, <1>5, Frame
    <2>3. \A r \in Utf16Strings(payload)' : r[1] < index' => r[2] <= index'
      BY <1>1, <1>4, <2>2
    <2> QED
      BY <1>3, <1>4, <2>1, <2>2, <2>3 DEF InUtf16
  <1>9. InUtf8'
    BY <1>1 DEF InUtf8
  <1> QED
    BY <1>6, <1>7, <1>8, <1>9 DEF IInv

(* Leaving a node whose strings are as expected.                            *)
LEMMA NodeIsDone ==
  ASSUME IInv, UNCHANGED <<arguments, strings, start, chars>>,
         pc' = "node", node' = node + 1, index' \in Nat, start = None, chars = 0,
         node \in 1..Len(input.nodes),
         \A n, encoding : n = node /\ encoding \in Encodings =>
           StringsOf(n, encoding) = Expected(n, encoding)
  PROVE  IInv'
  <1>1. /\ input' = input /\ minimum' = minimum /\ UNCHANGED <<arguments, strings>>
        /\ strings' = strings /\ start' = start /\ chars' = chars
    BY DEF arguments
  <1>2. Len(input.nodes) \in Nat /\ node \in Nat
    BY AtNode
  <1>3. TypeOK'
    BY <1>1, <1>2 DEF IInv, TypeOK
  <1>4. NodesDone'
    <2>1. \A n, encoding : /\ Expected(n, encoding)' = Expected(n, encoding)
                           /\ StringsOf(n, encoding)' = StringsOf(n, encoding)
      BY <1>1, Frame, NothingFound
    <2>2. \A n \in 1..(node' - 1) : n \in 1..(node - 1) \/ n = node
      BY <1>2
    <2>3. \A n \in 1..(node' - 1) : \A encoding \in {"utf-8", "utf-16le"} :
            StringsOf(n, encoding)' = Expected(n, encoding)'
      BY <2>1, <2>2 DEF IInv, NodesDone, Encodings
    <2>4. \A s \in strings' : s[1] <= node /\ s[1] \in Nat
      BY <1>1 DEF IInv, NodesDone, TypeOK
    <2>5. \A s \in strings' : s[1] < node' /\ s[1] <= node'
      BY <1>2, <2>4
    <2> QED
      BY <1>1, <2>3, <2>5 DEF NodesDone
  <1>5. InUtf8' /\ InUtf16'
    BY DEF InUtf8, InUtf16
  <1> QED
    BY <1>3, <1>4, <1>5 DEF IInv

LEMMA EndUtf16Step == IInv /\ EndUtf16 => IInv'
  <1> SUFFICES ASSUME IInv, EndUtf16 PROVE IInv'
    OBVIOUS
  <1>1. /\ pc = "utf16" /\ pc' = "node" /\ node' = node + 1 /\ index >= Len(payload)
        /\ index' = index /\ UNCHANGED <<arguments, strings, start, chars>>
    BY DEF EndUtf16, run
  <1>2. /\ payload \in Seq(Bytes) /\ index = Len(payload) /\ index \in Nat
        /\ minimum \in Nat \ {0} /\ node \in 1..Len(input.nodes)
        /\ ~input.nodes[node].has_refs
    BY <1>1, AtNode
  <1>3. /\ StringsOf(node, "utf-8") = Utf8Strings(payload)
        /\ StringsOf(node, "utf-16le") = Utf16Strings(payload)
    BY <1>1, <1>2, AllFound DEF IInv, InUtf16
  <1>4. \A n, encoding : n = node /\ encoding \in Encodings =>
          StringsOf(n, encoding) = Expected(n, encoding)
    BY <1>2, <1>3 DEF Expected, payload, Encodings
  <1>5. start = None /\ chars = 0
    BY <1>1 DEF IInv, NodesDone
  <1> QED
    BY <1>1, <1>2, <1>4, <1>5, NodeIsDone

(* No string of the node the loop is about to look at has been found yet.   *)
LEMMA NoneYet ==
  ASSUME IInv, pc = "node"
  PROVE  \A n, encoding : n = node => StringsOf(n, encoding) = {}
  <1>1. \A s \in strings : s[1] < node /\ node \in Nat
    BY AtNode DEF IInv, NodesDone
  <1>2. \A encoding, a, b : <<node, encoding, a, b>> \notin strings
    BY <1>1
  <1> QED
    BY <1>2 DEF StringsOf

LEMMA SkipReferencesStep == IInv /\ SkipReferences => IInv'
  <1> SUFFICES ASSUME IInv, SkipReferences PROVE IInv'
    OBVIOUS
  <1>1. /\ pc = "node" /\ pc' = "node" /\ node' = node + 1 /\ input.nodes[node].has_refs
        /\ index' = index /\ UNCHANGED <<arguments, strings, start, chars>>
        /\ node <= Len(input.nodes)
    BY DEF SkipReferences, run
  <1>2. \A n, encoding : n = node /\ encoding \in Encodings =>
          StringsOf(n, encoding) = Expected(n, encoding)
    BY <1>1, NoneYet DEF Expected
  <1>3. start = None /\ chars = 0 /\ node \in 1..Len(input.nodes) /\ index \in Nat
    BY <1>1, AtNode DEF IInv, NodesDone, TypeOK
  <1> QED
    BY <1>1, <1>2, <1>3, NodeIsDone

LEMMA EnterNodeStep == IInv /\ EnterNode => IInv'
  <1> SUFFICES ASSUME IInv, EnterNode PROVE IInv'
    OBVIOUS
  <1>1. /\ pc = "node" /\ pc' = "utf8" /\ node' = node /\ ~input.nodes[node].has_refs
        /\ index' = 0 /\ UNCHANGED <<arguments, strings>> /\ strings' = strings
        /\ input' = input /\ minimum' = minimum /\ start' = start /\ chars' = chars
        /\ node <= Len(input.nodes)
    BY DEF EnterNode, run, arguments
  <1>2. start = None /\ chars = 0 /\ node \in 1..Len(input.nodes)
    BY <1>1, AtNode DEF IInv, NodesDone, TypeOK
  <1>3. payload \in Seq(Bytes) /\ Len(payload) \in Nat
    BY <1>2, Arguments DEF IInv, TypeOK, payload
  <1>4. payload' = payload /\ Begin' = 0
    BY <1>1, <1>2 DEF payload, Payload, Begin
  <1>5. TypeOK'
    BY <1>1, <1>2, <1>3, <1>4 DEF IInv, TypeOK
  <1>6. NodesDone'
    <2>1. \A n, encoding : /\ Expected(n, encoding)' = Expected(n, encoding)
                           /\ StringsOf(n, encoding)' = StringsOf(n, encoding)
      BY <1>1, Frame, NothingFound
    <2> QED
      BY <1>1, <2>1 DEF IInv, NodesDone
  <1>7. InUtf8'
    <2>1. \A encoding : StringsOf(node, encoding)' = {}
      <3>1. \A encoding : StringsOf(node, encoding)' = StringsOf(node, encoding)
        BY <1>1 DEF StringsOf, Payload
      <3> QED
        BY <1>1, <3>1, NoneYet
    <2>2. Utf8UpTo(payload, Begin)' = Utf8UpTo(payload, 0)
      BY <1>1, <1>4, Frame
    <2>3. Utf8UpTo(payload, 0) = {}
      BY <1>3 DEF Utf8UpTo, Utf8Strings, IsRun
    <2>4. Scanning(payload, Begin, index)'
      BY <1>1, <1>4 DEF Scanning
    <2>5. Cardinality(CharsIn(payload, Begin, index))' = 0
      <3>1. CharsIn(payload, Begin, index)' = {}
        BY <1>1, <1>4 DEF CharsIn
      <3> QED
        BY <3>1, FS_EmptySet
    <2> QED
      BY <1>1, <1>2, <2>1, <2>2, <2>3, <2>4, <2>5 DEF InUtf8
  <1>8. InUtf16'
    BY <1>1 DEF InUtf16
  <1> QED
    BY <1>5, <1>6, <1>7, <1>8 DEF IInv

LEMMA ReturnStep == IInv /\ Return => IInv'
  <1> SUFFICES ASSUME IInv, Return PROVE IInv'
    OBVIOUS
  <1>1. /\ pc = "node" /\ pc' = "done" /\ node' = node /\ node > Len(input.nodes)
        /\ UNCHANGED <<arguments, strings>> /\ strings' = strings /\ index' = index
        /\ input' = input /\ minimum' = minimum /\ start' = start /\ chars' = chars
    BY DEF Return, run, arguments
  <1>2. node = Len(input.nodes) + 1
    BY <1>1, AtNode DEF IInv, TypeOK
  <1>3. \A n, encoding : /\ Expected(n, encoding)' = Expected(n, encoding)
                         /\ StringsOf(n, encoding)' = StringsOf(n, encoding)
    BY <1>1, Frame, NothingFound
  <1>4. TypeOK'
    BY <1>1 DEF IInv, TypeOK
  <1>5. NodesDone'
    BY <1>1, <1>2, <1>3 DEF IInv, NodesDone
  <1>6. InUtf8' /\ InUtf16'
    BY <1>1 DEF InUtf8, InUtf16
  <1> QED
    BY <1>4, <1>5, <1>6 DEF IInv

LEMMA StutterStep == IInv /\ UNCHANGED vars => IInv'
  <1> SUFFICES ASSUME IInv, UNCHANGED vars PROVE IInv'
    OBVIOUS
  <1>1. /\ UNCHANGED <<arguments, strings>> /\ strings' = strings /\ index' = index
        /\ input' = input /\ minimum' = minimum /\ start' = start /\ chars' = chars
        /\ pc' = pc /\ node' = node
    BY DEF vars, run, arguments
  <1>2. payload' = payload /\ Begin' = Begin
    BY <1>1 DEF payload, Payload, Begin
  <1>3. \A n, encoding : /\ Expected(n, encoding)' = Expected(n, encoding)
                         /\ StringsOf(n, encoding)' = StringsOf(n, encoding)
    BY <1>1, Frame, NothingFound
  <1>4. TypeOK' /\ NodesDone'
    BY <1>1, <1>2, <1>3 DEF IInv, TypeOK, NodesDone
  <1>5. \A encoding : StringsOf(node, encoding)' = StringsOf(node, encoding)
    BY <1>1 DEF StringsOf, Payload
  <1>6. InUtf8'
    <2>1. Utf8UpTo(payload, Begin)' = Utf8UpTo(payload, Begin)
      BY <1>1, <1>2, Frame
    <2>2. /\ Scanning(payload, Begin, index)' <=> Scanning(payload, Begin, index)
          /\ CharsIn(payload, Begin, index)' = CharsIn(payload, Begin, index)
      BY <1>1, <1>2 DEF Scanning, CharsIn
    <2> QED
      BY <1>1, <1>5, <2>1, <2>2 DEF IInv, InUtf8
  <1>7. InUtf16'
    <2>1. /\ Utf8Strings(payload)' = Utf8Strings(payload)
          /\ Utf16Strings(payload)' = Utf16Strings(payload)
          /\ Utf16UpTo(payload, index)' = Utf16UpTo(payload, index)
      BY <1>1, <1>2, Frame
    <2> QED
      BY <1>1, <1>5, <2>1 DEF IInv, InUtf16
  <1> QED
    BY <1>4, <1>6, <1>7 DEF IInv

(* The invariant of _extract_strings: every step of either scanner leaves   *)
(* what was found the strings that lie before the position it goes to.      *)
THEOREM Inductive == IInv /\ [Next]_vars => IInv'
  <1> SUFFICES ASSUME IInv, [Next]_vars PROVE IInv'
    OBVIOUS
  <1>1. CASE SkipReferences \/ EnterNode \/ Return
    BY <1>1, SkipReferencesStep, EnterNodeStep, ReturnStep
  <1>2. CASE Take \/ Break \/ EndUtf8
    BY <1>2, TakeStep, BreakStep, EndUtf8Step
  <1>3. CASE Match16 \/ Skip16 \/ EndUtf16
    BY <1>3, Match16Step, Skip16Step, EndUtf16Step
  <1>4. CASE Finished \/ UNCHANGED vars
    BY <1>4, StutterStep DEF Finished
  <1> QED
    BY <1>1, <1>2, <1>3, <1>4 DEF Next

-----------------------------------------------------------------------------
(* Nothing else is found                                                    *)

(* Every string found is of a node and lies in the payload of that node.    *)
InPayload ==
  \A s \in strings :
    /\ s[1] \in DOMAIN input.nodes
    /\ s[3] \in 0..Len(Payload(s[1])) /\ s[4] \in 0..Len(Payload(s[1]))

(* What the node at hand adds lies in its payload.                          *)
LEMMA AddsInPayload ==
  ASSUME IInv, InPayload, UNCHANGED arguments, node \in 1..Len(input.nodes),
         NEW encoding, NEW first \in 0..Len(payload), NEW behind \in 0..Len(payload),
         strings' \subseteq strings \cup {Found(encoding, first, behind)}
  PROVE  InPayload'
  <1>1. input' = input /\ \A n : Payload(n)' = Payload(n)
    BY DEF arguments, Payload
  <1>2. input.nodes \in Seq(Node)
    BY Arguments DEF IInv, TypeOK
  <1> QED
    BY <1>1, <1>2 DEF InPayload, Found, payload

(* No scanner reports a place outside the payload it is in.                 *)
LEMMA StaysInPayload ==
  ASSUME IInv, InPayload, [Next]_vars
  PROVE  InPayload'
  <1>1. /\ input.nodes \in Seq(Node) /\ Len(input.nodes) \in Nat
        /\ node \in 1..(Len(input.nodes) + 1)
        /\ pc \in {"utf8", "utf16"} =>
             /\ node \in 1..Len(input.nodes) /\ Len(payload) \in Nat
             /\ payload \in Seq(Bytes) /\ index \in 0..Len(payload)
    <2>1. input.nodes \in Seq(Node) /\ Len(input.nodes) \in Nat
      BY Arguments DEF IInv, TypeOK
    <2> QED
      BY <2>1, Arguments DEF IInv, TypeOK, payload
  <1>2. CASE Break \/ EndUtf8
    <2>1. UNCHANGED arguments /\ pc = "utf8" /\ strings' = Kept
      BY <1>2 DEF Break, EndUtf8
    <2>2. CASE start = None
      <3>1. strings' = strings
        BY <2>1, <2>2 DEF Kept
      <3> QED
        BY <2>1, <3>1 DEF InPayload, Payload, arguments
    <2>3. CASE start # None
      <3>1. start \in 0..Len(payload)
        BY <1>1, <2>1, <2>3 DEF IInv, InUtf8, TypeOK, Positions
      <3>2. strings' \subseteq strings \cup {Found("utf-8", start, index)}
        BY <2>1 DEF Kept
      <3> QED
        BY <1>1, <2>1, <3>1, <3>2, AddsInPayload
    <2> QED
      BY <2>2, <2>3
  <1>3. CASE Match16
    <2>1. PICK n \in minimum..Len(payload) :
            /\ Row(payload, index, n)
            /\ strings' = strings \cup {Found("utf-16le", index, index + 2 * n)}
      BY <1>3 DEF Match16
    <2>2. UNCHANGED arguments /\ pc = "utf16" /\ minimum \in Nat \ {0}
      BY <1>3, Arguments DEF Match16, IInv, TypeOK
    <2>3. index + 2 * n \in 0..Len(payload)
      <3>1. n \in Nat \ {0}
        BY <1>1, <2>2
      <3> QED
        BY <1>1, <2>1, <2>2, <3>1, RowFits
    <2> QED
      BY <1>1, <2>1, <2>2, <2>3, AddsInPayload
  <1>4. CASE SkipReferences \/ EnterNode \/ Return \/ Take \/ Skip16 \/ EndUtf16
               \/ Finished \/ UNCHANGED vars
    <2>1. strings' = strings /\ input' = input
      BY <1>4 DEF SkipReferences, EnterNode, Return, Take, Skip16, EndUtf16,
                  Finished, vars, arguments
    <2> QED
      BY <2>1 DEF InPayload, Payload
  <1> QED
    BY <1>2, <1>3, <1>4 DEF Next

-----------------------------------------------------------------------------
(* Theorems                                                                 *)

(* The variables of _extract_strings keep their types, and the position of  *)
(* either scanner never leaves the payload.                                 *)
THEOREM TypeCorrect == Spec => []TypeOK
  <1>1. IInv => TypeOK
    BY DEF IInv
  <1> QED
    BY InitIInv, Inductive, <1>1, PTL DEF Spec

(* When the nodes are done, what was found of one is what was expected.     *)
LEMMA DoneIsExpected ==
  ASSUME IInv, pc = "done"
  PROVE  \A n \in DOMAIN input.nodes : \A encoding \in Encodings :
           StringsOf(n, encoding) = Expected(n, encoding)
  <1>1. input.nodes \in Seq(Node)
    BY Arguments DEF IInv, TypeOK
  <1>2. node = Len(input.nodes) + 1 /\ Len(input.nodes) \in Nat
    BY <1>1 DEF IInv, NodesDone
  <1>3. \A n \in DOMAIN input.nodes : n \in 1..(node - 1)
    BY <1>1, <1>2
  <1> QED
    BY <1>3 DEF IInv, NodesDone, Encodings

(* _utf8_strings finds exactly the maximal stretches of printable           *)
(* characters that have the minimum of them.                                *)
THEOREM Utf8IsExact == Spec => []Utf8Exact
  <1>1. IInv => Utf8Exact
    BY DoneIsExpected DEF Utf8Exact, Expected, Encodings
  <1> QED
    BY InitIInv, Inductive, <1>1, PTL DEF Spec

(* The UTF-16LE pattern, and leaving it out for a minimum that does not fit *)
(* into the file, finds exactly the maximal rows of the minimum or more.    *)
THEOREM Utf16IsExact == Spec => []Utf16Exact
  <1>1. IInv => Utf16Exact
    BY DoneIsExpected DEF Utf16Exact, Expected, Encodings
  <1> QED
    BY InitIInv, Inductive, <1>1, PTL DEF Spec
=============================================================================
