-------------------------- MODULE MCForensicAnalysis --------------------------
(***************************************************************************)
(* Files of a header and up to six words of eight bytes: arrays of every    *)
(* width scheme, with and without references, signatures off their          *)
(* alignment, overlapping and inside a payload; reference arrays that name  *)
(* one another, themselves and what is no array; text in both encodings,    *)
(* characters of two and three bytes whole, cut off and interrupted.        *)
(* Top references resolve, dangle and coincide, or are in the footer of a   *)
(* streamed file; files are cut off in a word and in the footer.            *)
(***************************************************************************)
EXTENDS ForensicAnalysis

Ref32   == <<65, 65, 65, 65, 70, 0, 0, 2>>    \* two 32-bit references
Ref8    == <<65, 65, 65, 65, 68, 0, 0, 3>>    \* three 8-bit references
Bits    == <<65, 65, 65, 65, 65, 0, 0, 9>>    \* 9 bits; the signature twice
Scaled  == <<65, 65, 65, 65, 74, 0, 0, 4>>    \* four 2-byte elements
Text    == <<65, 65, 65, 65, 16, 0, 0, 9>>    \* nine bytes
Short   == <<65, 65, 65, 65, 16, 0, 0, 3>>
Unknown == <<65, 65, 65, 65, 24, 0, 0, 0>>    \* the reserved scheme
Pair    == <<24, 0, 0, 0, 32, 0, 0, 0>>
Mixed   == <<24, 24, 41, 1, 40, 0, 66, 67>>   \* repeated, tagged, unknown
Wide    == <<32, 65, 0, 66, 0, 67, 65, 65>>   \* text, into the next word
Accents == <<66, 195, 169, 226, 130, 172, 195, 65>>
Cuts    == <<195, 169, 226, 130, 65, 195, 9, 226>>
Signs   == <<65, 65, 65, 65, 65, 65, 65, 65>>

Ones == [k \in 1..8 |-> 255]
Ref(n) == <<n, 0, 0, 0, 0, 0, 0, 0>>
FileHead(top0, top1, reserved, flags) ==
  top0 \o top1 \o REALM_MAGIC \o <<10, 10, reserved, flags>>

Bodies(n, words) == { FlattenSeq(s) : s \in [1..n -> words] }
UpTo(n, words) == UNION { Bodies(k, words) : k \in 0..n }

Plain(bodies) ==
  { head \o body : head \in { FileHead(Ref(24), Ref(32), 0, 0),
                              FileHead(Ref(40), Ref(24), 1, 1),
                              FileHead(Ref(28), Ref(16), 0, 0),
                              FileHead(Ref(200), Ones, 0, 0) }, body \in bodies }
Scanned == Plain(UpTo(3, {Ref32, Ref8, Bits, Scaled, Text, Unknown, Pair, Mixed, Wide}))
Deep == { FileHead(Ref(24), Ref(40), 0, 0) \o Ref8 \o body :
            body \in Bodies(3, {Ref8, Text, Short, Mixed, Wide, Signs}) }
Shared ==    \* two arrays that refer to a third, in both orders
  { FileHead(Ref(top), Ref(40), 0, 0) \o Ref8 \o first \o Ref8 \o second \o third :
      top \in {24, 56}, first \in {<<40, 56, 24, 0, 9, 0, 0, 0>>, <<56, 40, 0, 0, 0, 0, 0, 0>>},
      second \in {Ref(56), Ref(24)}, third \in Bodies(2, {Ref8, Short, Mixed}) }
Beyond ==
  { FileHead(Ref(24), Ref(32), 0, 0) \o first \o body :
      first \in {Text, Short}, body \in Bodies(2, {Accents, Cuts, Wide, Short}) }
Cut  == { SubSeq(f, 1, Len(f) - n) :
            f \in Plain(Bodies(2, {Ref32, Ref8, Text, Pair})), n \in {1, 4, 5} }
Streamed ==
  { FileHead(Ones, second, 0, flags) \o body :
      second \in {Ones, Ref(32)}, flags \in {0, 1},
      body \in UpTo(4, {Ref8, Mixed, Ref(24), STREAMING_COOKIE}) }
Foreign == { SubSeq(Ones \o Ones \o Ones \o Ref8, 1, n) : n \in {1, 23, 24, 32} }

MCFiles ==
  Scanned \cup Deep \cup Shared \cup Beyond \cup Cut \cup Streamed \cup Foreign

MCCharacters == {<<195, 169>>, <<226, 130, 172>>}
=============================================================================
