------------------------ MODULE LinkExpansionProofs ------------------------
(***************************************************************************)
(* Proofs about LinkExpansion for every set of object graphs, cyclic or     *)
(* not, and every max_depth.  SeenIsPath is nearly inductive by itself: the *)
(* two places where the set and the stack change are a descent to an object *)
(* that is not in the set, and a return, which takes out one that occurs    *)
(* nowhere below.  The frames that own the Realm are those below the top,   *)
(* and the top in a field: where none does, the stack is one frame between  *)
(* two fields.  For the result the frames are read as a way through the     *)
(* records: an entry was emitted exactly for the ways that come before it,  *)
(* or that it continues, and a return is a step that passes no way.         *)
(* The fields to_dict reads, RecordFields, are proved about at the end.     *)
(***************************************************************************)
EXTENDS LinkExpansion, RecordFields, SequenceTheorems, TLAPS

Frames == [object : Objects, next : Nat \ {0}, left : 0..maxDepth]

(* The frames that own the Realm are those in a field.  Every frame below   *)
(* the one on top is: it went down inside its field, which is not over.     *)
Pinning ==
  Running => /\ inField => pins = 1..Len(stack)
             /\ ~inField => pins = 1..(Len(stack) - 1)

IInv == TypeOK /\ SeenIsPath /\ Pinning /\ NestedKeepsRealm

-----------------------------------------------------------------------------
(* The stack                                                                *)

LEMMA Onward ==
  ASSUME NEW r \in Frames
  PROVE  LET g == [r EXCEPT !.next = @ + 1]
         IN  /\ g \in Frames /\ g.object = r.object /\ g.left = r.left
             /\ g.next = r.next + 1
  <1>1. [r EXCEPT !.next = @ + 1].object = r.object
    BY DEF Frames
  <1>2. [r EXCEPT !.next = @ + 1].left = r.left
    BY DEF Frames
  <1>3. [r EXCEPT !.next = @ + 1].next = r.next + 1
    BY DEF Frames
  <1>4. [r EXCEPT !.next = @ + 1] \in Frames
    BY DEF Frames
  <1> QED
    BY <1>1, <1>2, <1>3, <1>4

(* The frame on top goes on to its next field.                              *)
LEMMA AdvanceFrame ==
  ASSUME NEW s \in Seq(Frames), NEW n \in 1..Len(s)
  PROVE  LET t == [s EXCEPT ![n].next = @ + 1]
         IN  /\ t \in Seq(Frames) /\ Len(t) = Len(s)
             /\ \A k \in 1..Len(s) : /\ t[k].object = s[k].object
                                     /\ t[k].left = s[k].left
                                     /\ t[k].next = IF k = n THEN s[k].next + 1
                                                    ELSE s[k].next
  <1> DEFINE f == [s[n] EXCEPT !.next = @ + 1]
             t == [s EXCEPT ![n] = f]
  <1>1. s[n] \in Frames
    BY ElementOfSeq
  <1>2. /\ f \in Frames /\ f.object = s[n].object /\ f.left = s[n].left
        /\ f.next = s[n].next + 1
    BY <1>1, Onward
  <1>3. t \in Seq(Frames) /\ Len(t) = Len(s)
        /\ \A k \in 1..Len(s) : t[k] = IF k = n THEN f ELSE s[k]
    BY <1>2, ExceptSeq
  <1>4. [s EXCEPT ![n].next = @ + 1] = t
    OBVIOUS
  <1> QED
    BY <1>2, <1>3, <1>4

(* The frame on top is left behind.                                         *)
LEMMA PopFrame ==
  ASSUME NEW s \in Seq(Frames), Len(s) > 1
  PROVE  /\ Front(s) \in Seq(Frames) /\ Len(Front(s)) = Len(s) - 1
         /\ \A k \in 1..(Len(s) - 1) : Front(s)[k] = s[k]
  <1>1. \A k \in 1..(Len(s) - 1) : s[k] \in Frames
    BY ElementOfSeq
  <1> QED
    BY <1>1, SubSeqProperties DEF Front

LEMMA StackShape ==
  ASSUME TypeOK
  PROVE  /\ stack \in Seq(Frames) /\ Len(stack) \in Nat \ {0}
         /\ DOMAIN stack = 1..Len(stack)
         /\ \A k \in 1..Len(stack) : stack[k] \in Frames
         /\ Top \in Frames
  <1>1. stack \in Seq(Frames) /\ stack # <<>>
    BY DEF TypeOK, Frames
  <1>2. Len(stack) \in Nat \ {0} /\ DOMAIN stack = 1..Len(stack)
    BY <1>1, EmptySeq, LenProperties
  <1> QED
    BY <1>1, <1>2, ElementOfSeq DEF Top

-----------------------------------------------------------------------------
(* The steps                                                                *)

(* What a step that keeps the stack has to keep for the invariant.          *)
LEMMA StackKept ==
  ASSUME IInv, UNCHANGED <<fields, maxDepth, stack, seen>>,
         held' \subseteq held, owned' \in BOOLEAN, native' \in {"open", "closed"},
         inField' \in BOOLEAN, status' \in {"running", "returned"} \cup Causes,
         status' = "running" => Running,
         pins' \subseteq Nat \ {0}, Pinning',
         status' = "released" => ~owned' /\ Len(stack) = 1 /\ ~inField'
  PROVE  IInv'
  <1>1. TypeOK'
    BY DEF IInv, TypeOK
  <1>2. SeenIsPath'
    BY DEF IInv, SeenIsPath, Running, OnPath
  <1>3. NestedKeepsRealm'
    BY DEF NestedKeepsRealm
  <1> QED
    BY <1>1, <1>2, <1>3 DEF IInv

(* A step that does not touch the frames either.                            *)
LEMMA CallKept ==
  ASSUME IInv, UNCHANGED <<fields, maxDepth, call>>,
         held' \subseteq held, owned' \in BOOLEAN, native' \in {"open", "closed"},
         status' \in {"running", "returned"} \cup Causes,
         status' = "running" => Running,
         status' = "released" => ~owned' /\ Len(stack) = 1 /\ ~inField
  PROVE  IInv'
  <1>1. UNCHANGED <<stack, inField, pins, seen>>
    BY DEF call
  <1>2. Pinning'
    BY <1>1 DEF IInv, Pinning, Running
  <1>3. pins' \subseteq Nat \ {0} /\ inField' \in BOOLEAN
    BY <1>1 DEF IInv, TypeOK
  <1> QED
    BY <1>1, <1>2, <1>3, StackKept

(* The value of a field is emitted; the path stays as it is.                *)
LEMMA EmitInv ==
  ASSUME IInv, Running, inField, NEW value, Emit(value)
  PROVE  IInv'
  <1>1. TypeOK /\ SeenIsPath /\ status' = "running"
    BY DEF IInv, Emit, Running
  <1>2. /\ stack' \in Seq(Frames) /\ Len(stack') = Len(stack)
        /\ \A k \in 1..Len(stack) : /\ stack'[k].object = stack[k].object
                                    /\ stack'[k].left = stack[k].left
    BY <1>1, StackShape, AdvanceFrame DEF Emit
  <1>3. DOMAIN stack' = 1..Len(stack) /\ DOMAIN stack = 1..Len(stack) /\ stack' # <<>>
    BY <1>1, <1>2, StackShape, LenProperties, EmptySeq
  <1>4. TypeOK'
    <2>1. pins' \subseteq Nat \ {0} /\ inField' \in BOOLEAN
      BY <1>1 DEF TypeOK, Emit, PinsPast
    <2> QED
      BY <1>1, <1>2, <1>3, <2>1 DEF TypeOK, Emit, result, world, Frames
  <1>5. OnPath' = OnPath
    BY <1>2, <1>3 DEF OnPath
  <1>6. SeenIsPath'
    BY <1>1, <1>2, <1>3, <1>5 DEF SeenIsPath, Emit, Running, result
  <1>7. Pinning'
    <2>1. Len(stack) \in Nat \ {0} /\ Len(stack') = Len(stack)
      BY <1>1, <1>2, StackShape
    <2>2. pins = 1..Len(stack)
      BY DEF IInv, Pinning
    <2>3. CASE Entry(Top).at = "within"
      BY <1>1, <2>1, <2>2, <2>3 DEF Pinning, Emit, PinsPast, Top
    <2>4. CASE Entry(Top).at # "within"
      <3>1. pins' = 1..Len(stack) \ {Len(stack)} /\ inField' = FALSE
        BY <2>2, <2>4 DEF Emit, PinsPast, Top
      <3> QED
        BY <2>1, <3>1 DEF Pinning
    <2> QED
      BY <2>3, <2>4
  <1> QED
    BY <1>1, <1>4, <1>6, <1>7 DEF IInv, NestedKeepsRealm

(* A frame that begins a field is the one more that owns the Realm.         *)
LEMMA BeginFieldInv ==
  ASSUME IInv, BeginField
  PROVE  IInv'
  <1>1. TypeOK /\ Running /\ ~inField
    BY DEF IInv, BeginField
  <1>2. CASE Raise("undecodable")
    BY <1>1, <1>2, CallKept DEF Raise, result, world, TypeOK, Causes, Running
  <1>3. CASE /\ inField' = TRUE /\ pins' = pins \cup {Len(stack)}
             /\ UNCHANGED <<result, world, stack, seen, out, status>>
    <2>1. Len(stack) \in Nat \ {0} /\ pins = 1..(Len(stack) - 1)
      BY <1>1, StackShape DEF IInv, Pinning
    <2>2. pins' = 1..Len(stack)
      BY <1>3, <2>1
    <2>3. Pinning' /\ pins' \subseteq Nat \ {0}
      BY <1>3, <2>1, <2>2 DEF Pinning
    <2> QED
      BY <1>1, <1>3, <2>3, StackKept DEF result, world, TypeOK, Running
  <1> QED
    BY <1>2, <1>3 DEF BeginField

(* Where the Realm is gone no frame is in a field, so the frame is the one  *)
(* the call began with.                                                     *)
LEMMA ReleasedInv ==
  ASSUME IInv, Released
  PROVE  IInv'
  <1>1. TypeOK /\ Running /\ ~owned /\ pins = {} /\ Raise("released")
    BY DEF IInv, Released, Alive
  <1>2. Len(stack) \in Nat \ {0}
    BY <1>1, StackShape
  <1>3. /\ inField => pins = 1..Len(stack)
        /\ ~inField => pins = 1..(Len(stack) - 1)
    BY <1>1 DEF IInv, Pinning
  <1>4. ~inField /\ Len(stack) = 1
    <2>1. inField \in BOOLEAN
      BY <1>1 DEF TypeOK
    <2>2. inField => 1 \in pins
      BY <1>2, <1>3
    <2>3. ASSUME NEW n \in Nat \ {0}, n # 1 PROVE 1 \in 1..(n - 1)
      BY SMT, <2>3
    <2>4. ~inField => Len(stack) = 1
      BY <1>1, <1>2, <1>3, <2>3, Zenon
    <2> QED
      BY <1>1, <2>1, <2>2, <2>4
  <1> QED
    BY <1>1, <1>4, CallKept DEF Raise, result, world, TypeOK, Causes, Running

LEMMA ReturnInv ==
  ASSUME IInv, Return
  PROVE  IInv'
  <1> USE DEF IInv
  <1>1. TypeOK /\ Running /\ SeenIsPath
    BY DEF Return
  <1>2. CASE Len(stack) = 1
    <2>1. TypeOK'
      BY <1>1, <1>2 DEF TypeOK, Return, result, world
    <2> QED
      BY <1>2, <2>1 DEF Return, SeenIsPath, Pinning, NestedKeepsRealm, Running
  <1>3. CASE Len(stack) # 1
    <2> DEFINE n == Len(stack)
               t == Front(stack)
    <2>1. stack \in Seq(Frames) /\ n \in Nat /\ n > 1 /\ DOMAIN stack = 1..n
      BY <1>1, <1>3, StackShape
    <2>2. /\ t \in Seq(Frames) /\ Len(t) = n - 1
          /\ \A k \in 1..(n - 1) : t[k] = stack[k]
      BY <2>1, PopFrame
    <2> HIDE DEF t
    <2>3. stack' = [t EXCEPT ![n - 1].next = @ + 1]
      BY <1>3 DEF Return, t
    <2>4. n - 1 \in 1..Len(t)
      BY <2>1, <2>2
    <2>5. /\ stack' \in Seq(Frames) /\ Len(stack') = n - 1
          /\ \A k \in 1..(n - 1) : /\ stack'[k].object = stack[k].object
                                   /\ stack'[k].left = stack[k].left
      BY <2>2, <2>3, <2>4, AdvanceFrame
    <2>6. DOMAIN stack' = 1..(n - 1) /\ stack' # <<>>
      BY <2>1, <2>5, LenProperties, EmptySeq
    <2>7. TypeOK'
      <3>1. pins' \subseteq Nat \ {0} /\ inField' \in BOOLEAN
        BY <1>1, <1>3 DEF TypeOK, Return, PinsPast
      <3> QED
        BY <1>1, <1>3, <2>5, <2>6, <3>1 DEF TypeOK, Return, result, world, Frames
    <2>8. /\ seen = OnPath /\ seen' = seen \ {Top.object} /\ maxDepth' = maxDepth
          /\ \A j, k \in 1..n : stack[j].object = stack[k].object => j = k
          /\ \A k \in 1..n : stack[k].left = maxDepth + 1 - k
      BY <1>1, <2>1 DEF SeenIsPath, Return, result
    <2>9. OnPath = { stack[k].object : k \in 1..n }
          /\ OnPath' = { stack[k].object : k \in 1..(n - 1) }
      BY <2>1, <2>5, <2>6, Zenon DEF OnPath
    <2>10. seen' = OnPath'
      <3>1. 1..n = 1..(n - 1) \cup {n} /\ n \notin 1..(n - 1)
        BY <2>1
      <3>2. Top.object = stack[n].object
        BY DEF Top
      <3> QED
        BY SMTT(30), <2>8, <2>9, <3>1, <3>2
    <2>11. SeenIsPath'
      <3>1. \A k \in 1..(n - 1) : k \in 1..n
        BY <2>1
      <3>2. \A k \in 1..(n - 1) : stack'[k].left = maxDepth' + 1 - k
        BY <2>5, <2>8, <3>1
      <3>3. \A j, k \in 1..(n - 1) :
              stack'[j].object = stack'[k].object => j = k
        BY <2>5, <2>8, <3>1
      <3> QED
        BY <2>6, <2>10, <3>2, <3>3 DEF SeenIsPath
    <2>12. Pinning'
      <3>1. /\ pins = 1..(n - 1) /\ pins' = PinsPast(n - 1)
            /\ inField' = (Entry(stack[n - 1]).at = "within")
        BY <1>3 DEF Pinning, Return
      <3>2. CASE Entry(stack[n - 1]).at = "within"
        BY <2>1, <2>5, <3>1, <3>2 DEF Pinning, PinsPast
      <3>3. CASE Entry(stack[n - 1]).at # "within"
        <4>1. pins' = 1..(n - 1) \ {n - 1} /\ inField' = FALSE
          BY <3>1, <3>3 DEF PinsPast
        <4>2. pins' = 1..(n - 2)
          BY <2>1, <4>1
        <4> QED
          BY <2>1, <2>5, <4>1, <4>2 DEF Pinning
      <3> QED
        BY <3>2, <3>3
    <2> QED
      BY <1>1, <1>3, <2>7, <2>11, <2>12 DEF Return, NestedKeepsRealm, Running
  <1> QED
    BY <1>2, <1>3

LEMMA DescendInv ==
  ASSUME IInv, Descend
  PROVE  IInv'
  <1> USE DEF IInv
  <1> DEFINE n == Len(stack)
             f == Frame(Item, Top.left - 1)
  <1>1. TypeOK /\ Running /\ SeenIsPath /\ Item \in Objects /\ Item \notin seen
        /\ Top.left > 0 /\ stack' = Append(stack, f) /\ seen' = seen \cup {Item}
    BY DEF Descend, Cyclic, Expanding
  <1>2. stack \in Seq(Frames) /\ n \in Nat \ {0} /\ DOMAIN stack = 1..n
        /\ Top \in Frames
    BY <1>1, StackShape
  <1>3. maxDepth \in Nat
    BY <1>1, DepthsAssumption DEF TypeOK
  <1>4. f \in Frames /\ f.object = Item /\ f.left = Top.left - 1
    BY <1>1, <1>2, <1>3 DEF Frame, Frames
  <1> HIDE DEF f
  <1>5. /\ stack' \in Seq(Frames) /\ Len(stack') = n + 1 /\ stack' # <<>>
        /\ \A k \in 1..n : stack'[k] = stack[k]
        /\ stack'[n + 1] = f
    BY <1>1, <1>2, <1>4, AppendProperties
  <1>6. DOMAIN stack' = 1..(n + 1)
    BY <1>5, LenProperties
  <1>7. TypeOK'
    BY <1>1, <1>5 DEF TypeOK, Descend, result, world, Frames
  <1>8. OnPath' = OnPath \cup {Item}
    BY <1>2, <1>4, <1>5, <1>6 DEF OnPath
  <1>9. SeenIsPath'
    <2>1. seen = OnPath /\ maxDepth' = maxDepth
      BY <1>1 DEF SeenIsPath, Descend, result
    <2>2. ASSUME NEW k \in 1..n PROVE stack[k].object # Item
      BY <1>1, <1>2, <2>1 DEF OnPath
    <2>3. ASSUME NEW j \in 1..(n + 1), NEW k \in 1..(n + 1),
                 stack'[j].object = stack'[k].object
          PROVE  j = k
      <3>1. CASE j \in 1..n /\ k \in 1..n
        BY <1>1, <1>2, <1>5, <2>3, <3>1 DEF SeenIsPath
      <3> QED
        BY <1>2, <1>4, <1>5, <2>2, <2>3, <3>1
    <2>4. ASSUME NEW k \in 1..(n + 1) PROVE stack'[k].left = maxDepth + 1 - k
      <3>1. CASE k \in 1..n
        BY <1>1, <1>2, <1>5, <3>1 DEF SeenIsPath
      <3>2. CASE k = n + 1
        <4>1. Top.left = maxDepth + 1 - n
          BY <1>1, <1>2 DEF SeenIsPath, Top
        <4> QED
          BY <1>2, <1>3, <1>4, <1>5, <3>2, <4>1
      <3> QED
        BY <1>2, <3>1, <3>2
    <2> QED
      BY <1>1, <1>6, <1>8, <2>1, <2>3, <2>4 DEF SeenIsPath
  <1>10. Pinning'
    <2>1. pins = 1..n /\ pins' = pins /\ inField' = FALSE
      BY DEF Descend, Pinning
    <2>2. Len(stack') - 1 = n
      BY <1>2, <1>5
    <2> QED
      BY <2>1, <2>2 DEF Pinning
  <1> QED
    BY <1>1, <1>7, <1>9, <1>10 DEF Descend, NestedKeepsRealm, Running

LEMMA OthersInv ==
  ASSUME IInv, Others
  PROVE  IInv'
  <1>1. TypeOK /\ Running
    BY DEF IInv, Others
  <1>2. CASE Close
    BY <1>1, <1>2, CallKept DEF Close, result, call, TypeOK, Running
  <1>3. CASE Release
    BY <1>1, <1>3, CallKept DEF Release, result, call, TypeOK, Running
  <1>4. CASE Forget
    BY <1>1, <1>4, CallKept DEF Forget, result, call, TypeOK, Running
  <1> QED
    BY <1>2, <1>3, <1>4 DEF Others

LEMMA StepInv ==
  ASSUME IInv, [Next]_vars
  PROVE  IInv'
  <1>1. CASE PlainValue
    BY <1>1, EmitInv DEF PlainValue
  <1>2. CASE Reference
    <2>1. CASE Item \in Unlisted
      BY <1>2, <2>1, CallKept
      DEF Reference, Raise, result, world, call, IInv, TypeOK, Causes, Running
    <2> QED
      BY <1>2, <2>1, EmitInv DEF Reference
  <1>3. CASE CycleReference
    BY <1>3, EmitInv DEF CycleReference
  <1>4. CASE Unresolved
    BY <1>4, CallKept
    DEF Unresolved, Raise, result, world, call, IInv, TypeOK, Causes, Running
  <1>5. CASE UNCHANGED vars
    BY <1>5, CallKept
    DEF vars, call, IInv, TypeOK, Running, NestedKeepsRealm
  <1> QED
    BY <1>1, <1>2, <1>3, <1>4, <1>5, BeginFieldInv, ReturnInv, DescendInv,
       ReleasedInv, OthersInv
    DEF Next, Expand, Ended

LEMMA InitInv ==
  ASSUME Init
  PROVE  IInv
  <1>1. PICK root \in Objects :
          stack = <<Frame(root, maxDepth)>> /\ seen = {root}
    BY DEF Init
  <1>2. maxDepth \in Nat
    BY DepthsAssumption DEF Init
  <1>3. Frame(root, maxDepth) \in Frames
    BY <1>2 DEF Frame, Frames
  <1>4. /\ stack \in Seq(Frames) /\ Len(stack) = 1 /\ stack # <<>>
        /\ DOMAIN stack = {1} /\ stack[1] = Frame(root, maxDepth)
    BY <1>1, <1>3
  <1>5. TypeOK
    BY <1>1, <1>4 DEF Init, TypeOK, Frames
  <1>6. SeenIsPath
    BY <1>1, <1>2, <1>4 DEF SeenIsPath, OnPath, Frame
  <1>7. Pinning
    BY <1>4 DEF Init, Pinning
  <1> QED
    BY <1>5, <1>6, <1>7 DEF Init, IInv, NestedKeepsRealm

-----------------------------------------------------------------------------
(* The result.  An entry is there when the traversal has passed its way:    *)
(* the way follows the frames up to some frame, where it took an earlier    *)
(* item, or it ends with the item that the frame above belongs to.          *)

(* The frames are a way themselves, the one to the item on top apart.       *)
Trace ==
  /\ \A k \in 1..(Len(stack) - 1) :
       /\ stack[k].next \in DOMAIN fields[stack[k].object]
       /\ stack[k + 1].object = Entry(stack[k]).value
  /\ Top.next <= Len(fields[Top.object]) + 1
  /\ inField => Top.next \in DOMAIN fields[Top.object]

Follows(w, n) ==
  \A j \in 1..n : w[j].object = stack[j].object /\ w[j].item = stack[j].next

PassedAt(w, k) ==
  /\ Follows(w, k - 1) /\ w[k].object = stack[k].object
  /\ \/ w[k].item < stack[k].next
     \/ w[k].item = stack[k].next /\ k = Len(w) /\ k < Len(stack)

Passed(w) == \E k \in 1..Len(w) : k <= Len(stack) /\ PassedAt(w, k)

Emitted ==
  Running => out = { <<PlaceOf(w), ValueAt(w)>> : w \in { v \in Ways : Passed(v) } }

(* The way to item i of the frame on top.                                   *)
WayTo(i) ==
  [k \in DOMAIN stack |->
     [object |-> stack[k].object,
      item |-> IF k = Len(stack) THEN i ELSE stack[k].next]]

(* The inductive invariant of the result: at any time the entries are those *)
(* of the ways passed.                                                      *)
ExpandInv == IInv /\ Trace /\ Emitted /\ ResultExact /\ FailsForCause

(* Fields are sequences of items, the last of which ends a field.           *)
LEMMA FieldShape ==
  ASSUME TypeOK, NEW o \in Objects
  PROVE  /\ fields[o] \in Seq(Items) /\ Len(fields[o]) \in Nat
         /\ DOMAIN fields[o] = 1..Len(fields[o])
         /\ \A i \in 1..Len(fields[o]) : fields[o][i] \in Items
         /\ Len(fields[o]) # 0 => fields[o][Len(fields[o])].at = "end"
  <1>1. fields \in [Objects -> Seq(Items)] /\ (fields[o] # <<>> =>
          fields[o][Len(fields[o])].at = "end")
    BY LayoutsAssumption DEF TypeOK
  <1>2. fields[o] \in Seq(Items)
    BY <1>1
  <1>3. Len(fields[o]) # 0 => fields[o] # <<>>
    BY <1>2, EmptySeq
  <1> QED
    BY <1>1, <1>2, <1>3, LenProperties, ElementOfSeq

(* What being a way means, step by step.                                    *)
LEMMA WayShape ==
  ASSUME TypeOK, NEW w \in Ways
  PROVE  /\ w \in Seq(Steps) /\ Len(w) \in Nat /\ 1 <= Len(w) /\ Len(w) <= maxDepth + 1
         /\ DOMAIN w = 1..Len(w)
         /\ \A k \in 1..Len(w) :
              /\ w[k] = [object |-> w[k].object, item |-> w[k].item]
              /\ w[k].object \in Objects
              /\ w[k].item \in 1..Len(fields[w[k].object])
         /\ w[1].object = Root
         /\ \A k \in 1..(Len(w) - 1) : w[k + 1].object = Value(w[k])
         /\ \A j, k \in 1..Len(w) : w[j].object = w[k].object => j = k
  <1>1. maxDepth \in Nat
    BY DepthsAssumption DEF TypeOK
  <1>2. PICK n \in 1..(maxDepth + 1) : w \in [1..n -> Steps]
    BY DEF Ways
  <1>3. w \in Seq(Steps) /\ n \in Nat
    BY <1>1, <1>2, SeqDef
  <1>4. Len(w) \in Nat /\ DOMAIN w = 1..Len(w) /\ DOMAIN w = 1..n
    BY <1>2, <1>3, LenProperties
  <1>5. Len(w) = n
    BY <1>1, <1>2, <1>4
  <1>6. ASSUME NEW k \in 1..Len(w)
        PROVE  /\ w[k] = [object |-> w[k].object, item |-> w[k].item]
               /\ w[k].object \in Objects
               /\ w[k].item \in 1..Len(fields[w[k].object])
    <2>1. w[k] \in Steps
      BY <1>2, <1>5
    <2>2. w[k] \in [object : Objects, item : ItemNumbers]
          /\ w[k].item \in DOMAIN fields[w[k].object]
      BY <2>1 DEF Steps
    <2> QED
      BY <2>2, FieldShape
  <1> QED
    BY <1>1, <1>2, <1>3, <1>4, <1>5, <1>6 DEF Ways

(* The frames, with any item of the one on top, are a way.                  *)
LEMMA WayToIsWay ==
  ASSUME TypeOK, SeenIsPath, Trace, Running, NEW i \in DOMAIN fields[Top.object]
  PROVE  /\ WayTo(i) \in Ways /\ Len(WayTo(i)) = Len(stack)
         /\ Target(WayTo(i)) = fields[Top.object][i].value
         /\ i = Top.next => PlaceOf(WayTo(i)) = Place
         /\ \A k \in 1..Len(stack) : WayTo(i)[k].object = stack[k].object
  <1> DEFINE n == Len(stack)
             w == WayTo(i)
  <1>1. /\ stack \in Seq(Frames) /\ n \in Nat \ {0} /\ DOMAIN stack = 1..n
        /\ \A k \in 1..n : stack[k] \in Frames
        /\ Top = stack[n]
    BY StackShape DEF Top
  <1>2. maxDepth \in Nat
    BY DepthsAssumption DEF TypeOK
  <1>3. n \in 1..(maxDepth + 1)
    <2>1. stack[n].left = maxDepth + 1 - n /\ stack[n].left \in Nat
      BY <1>1, <1>2 DEF SeenIsPath, Frames
    <2> QED
      BY <1>1, <1>2, <2>1
  <1>4. ASSUME NEW k \in 1..n
        PROVE  /\ w[k] \in Steps
               /\ w[k].object = stack[k].object
               /\ w[k].item = IF k = n THEN i ELSE stack[k].next
    <2>1. stack[k].object \in Objects
      BY <1>1 DEF Frames
    <2>2. w[k] = [object |-> stack[k].object, item |-> IF k = n THEN i ELSE stack[k].next]
      BY <1>1 DEF WayTo
    <2>3. w[k].item \in DOMAIN fields[stack[k].object]
      <3>1. CASE k = n
        BY <1>1, <2>2, <3>1
      <3>2. CASE k # n
        <4>1. n \in Nat
          BY <1>1
        <4> HIDE DEF n
        <4>2. k \in 1..(n - 1)
          BY <3>2, <4>1
        <4>3. stack[k].next \in DOMAIN fields[stack[k].object]
          BY <4>2 DEF Trace, n
        <4> QED
          BY <2>2, <3>2, <4>3
      <3> QED
        BY <3>1, <3>2
    <2> QED
      BY <2>1, <2>2, <2>3 DEF Steps, ItemNumbers
  <1>5. w \in [1..n -> Steps] /\ DOMAIN w = 1..n
    <2>1. w = [k \in 1..n |-> w[k]]
      BY <1>1 DEF WayTo
    <2> HIDE DEF w
    <2> QED
      BY <1>4, <2>1
  <1>6. w \in Seq(Steps) /\ Len(w) = n
    <2>1. w \in Seq(Steps)
      BY <1>1, <1>5, SeqDef
    <2>2. Len(w) \in Nat /\ DOMAIN w = 1..Len(w)
      BY <2>1, LenProperties
    <2> HIDE DEF w
    <2> QED
      BY <1>1, <1>5, <2>1, <2>2
  <1> HIDE DEF w
  <1>7. n \in Nat /\ 1 \in 1..n /\ n \in 1..n
    BY <1>1
  <1>8. ASSUME NEW k \in 1..(n - 1)
        PROVE  w[k + 1].object = Value(w[k])
    <2>1. k \in 1..n /\ k + 1 \in 1..n /\ k # n
      BY <1>7
    <2>2. w[k + 1].object = stack[k + 1].object /\ w[k].object = stack[k].object
          /\ w[k].item = stack[k].next
      BY <1>4, <2>1
    <2> QED
      BY <1>1, <2>2 DEF Value, Trace, Entry
  <1>9. \A j, k \in 1..n : w[j].object = w[k].object => j = k
    BY <1>1, <1>4 DEF SeenIsPath
  <1>10. w[1].object = Root
    BY <1>7, <1>4 DEF Root
  <1>11. w \in Ways
    BY <1>3, <1>5, <1>6, <1>8, <1>9, <1>10 DEF Ways
  <1>12. Target(w) = fields[Top.object][i].value
    <2>1. w[n].object = Top.object /\ w[n].item = i
      BY <1>1, <1>4, <1>7
    <2> QED
      BY <1>6, <2>1 DEF Target, Value
  <1>13. i = Top.next => PlaceOf(w) = Place
    BY <1>1, <1>4, <1>5 DEF PlaceOf, Place
  <1> QED
    BY <1>4, <1>6, <1>11, <1>12, <1>13 DEF w

(* It is the only way that follows the frames to the item on top.           *)
LEMMA WayToIsOnly ==
  ASSUME TypeOK, NEW w \in Ways, Len(w) = Len(stack), Follows(w, Len(stack))
  PROVE  w = WayTo(Top.next)
  <1>1. DOMAIN stack = 1..Len(stack) /\ Len(stack) \in Nat
    BY StackShape
  <1>2. DOMAIN w = 1..Len(stack) /\ w = [k \in 1..Len(stack) |-> w[k]]
        /\ \A k \in 1..Len(stack) : w[k] = [object |-> w[k].object, item |-> w[k].item]
    <2>1. w \in [1..Len(w) -> Steps]
      BY WayShape, LenProperties
    <2> QED
      BY <2>1, WayShape
  <1>3. \A k \in 1..Len(stack) :
          w[k] = [object |-> stack[k].object,
                  item |-> IF k = Len(stack) THEN Top.next ELSE stack[k].next]
    BY <1>1, <1>2 DEF Follows, Top
  <1> QED
    BY <1>1, <1>2, <1>3 DEF WayTo

(* What is documented for a place does not change while it is computed.     *)
LEMMA WaysStay ==
  ASSUME UNCHANGED <<fields, maxDepth>>, Root' = Root
  PROVE  /\ Ways' = Ways
         /\ \A w : /\ PlaceOf(w)' = PlaceOf(w) /\ ValueAt(w)' = ValueAt(w)
                   /\ Target(w)' = Target(w)
  BY DEF Ways, Steps, ItemNumbers, Value, PlaceOf, ValueAt, Target, InFull

(* A way that follows all frames ends with the item on top, unless that is  *)
(* a link in full.                                                          *)
LEMMA EndsHere ==
  ASSUME TypeOK, Trace, NEW w \in Ways, Len(stack) <= Len(w), Follows(w, Len(stack)),
         \/ Item \notin Objects \/ Len(stack) > maxDepth \/ Item \in OnPath
  PROVE  Len(w) = Len(stack)
  <1> DEFINE n == Len(stack)
  <1>1. n \in Nat \ {0} /\ DOMAIN stack = 1..n /\ Top = stack[n]
    BY StackShape DEF Top
  <1>2. maxDepth \in Nat
    BY DepthsAssumption DEF TypeOK
  <1>3. SUFFICES ASSUME n + 1 <= Len(w) PROVE FALSE
    BY <1>1, WayShape
  <1>4. n \in 1..(Len(w) - 1) /\ n \in 1..Len(w) /\ n + 1 \in 1..Len(w)
    BY <1>1, <1>3, WayShape
  <1>5. w[n + 1].object = Item
    <2>1. w[n + 1].object = Value(w[n])
      BY <1>4, WayShape
    <2>2. w[n].object = Top.object /\ w[n].item = Top.next
      BY <1>1 DEF Follows
    <2> QED
      BY <2>1, <2>2 DEF Value, Item, Entry
  <1>6. Item \in Objects /\ n <= maxDepth
    <2>1. w[n + 1].object \in Objects
      BY <1>4, WayShape
    <2>2. Len(w) \in Nat /\ Len(w) <= maxDepth + 1
      BY WayShape
    <2> QED
      BY <1>1, <1>2, <1>3, <1>5, <2>1, <2>2
  <1>7. Item \notin OnPath
    <2>1. ASSUME NEW j \in 1..n PROVE stack[j].object # Item
      <3>1. j \in 1..Len(w) /\ j # n + 1
        BY <1>1, <1>3, WayShape
      <3>2. w[j].object # w[n + 1].object
        BY <1>4, <3>1, WayShape
      <3> QED
        BY <1>5, <3>2 DEF Follows
    <2> QED
      BY <1>1, <2>1 DEF OnPath
  <1> QED
    BY <1>1, <1>2, <1>6, <1>7

(* The item on top done with, its way is passed too, and no other.          *)
LEMMA PassedByEmit ==
  ASSUME TypeOK, SeenIsPath, Trace, Running, Top.next \in DOMAIN fields[Top.object],
         \/ Item \notin Objects \/ Len(stack) > maxDepth \/ Item \in OnPath,
         Len(stack') = Len(stack),
         \A k \in 1..Len(stack) :
           /\ stack'[k].object = stack[k].object
           /\ stack'[k].next = IF k = Len(stack) THEN stack[k].next + 1
                               ELSE stack[k].next,
         NEW w \in Ways
  PROVE  Passed(w)' <=> Passed(w) \/ w = WayTo(Top.next)
  <1> DEFINE n == Len(stack)
  <1>1. n \in Nat \ {0} /\ n \in 1..n /\ DOMAIN stack = 1..n /\ Top = stack[n]
        /\ \A k \in 1..n : stack[k].next \in Nat
    <2>1. ASSUME NEW k \in 1..n PROVE stack[k].next \in Nat
      BY StackShape DEF Frames
    <2>2. n \in Nat \ {0} /\ DOMAIN stack = 1..n
      BY StackShape
    <2>3. n \in 1..n
      BY <2>2
    <2> QED
      BY <2>1, <2>2, <2>3 DEF Top
  <1>2. Len(w) \in Nat /\ \A k \in 1..Len(w) : w[k].item \in Nat
    <2>1. ASSUME NEW k \in 1..Len(w) PROVE w[k].item \in Nat
      <3>1. w[k].object \in Objects /\ w[k].item \in 1..Len(fields[w[k].object])
        BY WayShape
      <3> QED
        BY <3>1, FieldShape
    <2>2. Len(w) \in Nat
      BY WayShape
    <2> QED
      BY <2>1, <2>2
  <1>3. ASSUME NEW k \in 1..Len(w), k <= n
        PROVE  Follows(w, k - 1)' <=> Follows(w, k - 1)
    <2>1. \A j \in 1..(k - 1) : j \in 1..n /\ j # n
      BY <1>1, <1>2, <1>3
    <2> QED
      BY <2>1 DEF Follows
  <1>4. ASSUME Passed(w)'
        PROVE  Passed(w) \/ w = WayTo(Top.next)
    <2>1. PICK k \in 1..Len(w) : k <= n /\ PassedAt(w, k)'
      BY <1>4 DEF Passed
    <2>2. k \in 1..n
      BY <1>1, <1>2, <2>1
    <2>3. Follows(w, k - 1) /\ w[k].object = stack[k].object
          /\ \/ w[k].item < stack'[k].next
             \/ w[k].item = stack'[k].next /\ k = Len(w) /\ k < n
      BY <1>3, <2>1, <2>2 DEF PassedAt
    <2>4. CASE k # n
      BY <2>1, <2>2, <2>3, <2>4 DEF Passed, PassedAt
    <2>5. CASE k = n
      <3>1. w[n].item < stack[n].next \/ w[n].item = stack[n].next
        BY <1>1, <1>2, <2>1, <2>2, <2>3, <2>5
      <3>2. CASE w[n].item < stack[n].next
        BY <2>1, <2>3, <2>5, <3>2 DEF Passed, PassedAt
      <3>3. CASE w[n].item = stack[n].next
        <4>1. Follows(w, n)
          <5>1. \A j \in 1..n : j = n \/ j \in 1..(n - 1)
            BY <1>1
          <5> QED
            BY <2>3, <2>5, <3>3, <5>1 DEF Follows
        <4>2. n <= Len(w)
          BY <1>2, <2>1, <2>5
        <4> QED
          BY <4>1, <4>2, EndsHere, WayToIsOnly
      <3> QED
        BY <3>1, <3>2, <3>3
    <2> QED
      BY <2>4, <2>5
  <1>5. ASSUME Passed(w)
        PROVE  Passed(w)'
    <2>1. PICK k \in 1..Len(w) : k <= n /\ PassedAt(w, k)
      BY <1>5 DEF Passed
    <2>2. k \in 1..n
      BY <1>1, <1>2, <2>1
    <2>3. PassedAt(w, k)'
      BY <1>1, <1>2, <1>3, <2>1, <2>2 DEF PassedAt
    <2> QED
      BY <2>1, <2>3 DEF Passed
  <1>6. ASSUME w = WayTo(Top.next)
        PROVE  Passed(w)'
    <2>1. Len(w) = n /\ \A k \in 1..n : w[k].object = stack[k].object
                                        /\ w[k].item = stack[k].next
      BY <1>1, <1>6, WayToIsWay DEF WayTo
    <2>2. PassedAt(w, n)'
      <3>1. Follows(w, n - 1)
        BY <1>1, <2>1 DEF Follows
      <3>2. w[n].item < stack'[n].next /\ w[n].object = stack'[n].object
        BY <1>1, <2>1
      <3> QED
        BY <1>1, <1>3, <2>1, <3>1, <3>2 DEF PassedAt
    <2> QED
      BY <1>1, <2>1, <2>2 DEF Passed
  <1> QED
    BY <1>4, <1>5, <1>6

(* A way that goes on follows one frame more.                               *)
LEMMA FollowsOn ==
  ASSUME NEW w, NEW n \in Nat \ {0}, Follows(w, n - 1),
         w[n].object = stack[n].object, w[n].item = stack[n].next
  PROVE  Follows(w, n)
  <1>1. \A j \in 1..n : j = n \/ j \in 1..(n - 1)
    OBVIOUS
  <1> QED
    BY <1>1 DEF Follows

(* A record entered, the way to it is passed and none of those that go on.  *)
LEMMA PassedByDescent ==
  ASSUME TypeOK, SeenIsPath, Trace, Running, Top.next \in DOMAIN fields[Top.object],
         Len(stack') = Len(stack) + 1,
         \A k \in 1..Len(stack) : stack'[k] = stack[k],
         stack'[Len(stack) + 1].next = 1,
         NEW w \in Ways
  PROVE  Passed(w)' <=> Passed(w) \/ w = WayTo(Top.next)
  <1>0. PICK n : n = Len(stack)
    OBVIOUS
  <1> USE <1>0
  <1>1. n \in Nat \ {0} /\ n \in 1..n /\ DOMAIN stack = 1..n /\ Top = stack[n]
    BY StackShape DEF Top
  <1>2. Len(w) \in Nat
    BY WayShape
  <1>7. n \in Nat \ {0} /\ n \in Nat /\ n \in 1..n /\ n < n + 1 /\ n <= n + 1
    BY <1>1
  <1>3. ASSUME NEW k \in 1..Len(w), k <= n + 1
        PROVE  Follows(w, k - 1)' <=> Follows(w, k - 1)
    <2>1. \A j \in 1..(k - 1) : j \in 1..n
      BY <1>1, <1>2, <1>3
    <2> QED
      BY <2>1 DEF Follows
  <1>4. ASSUME Passed(w)'
        PROVE  Passed(w) \/ w = WayTo(Top.next)
    <2>1. PICK k \in 1..Len(w) : k <= n + 1 /\ PassedAt(w, k)'
      BY <1>4 DEF Passed
    <2>2. Follows(w, k - 1) /\ w[k].object = stack'[k].object
          /\ \/ w[k].item < stack'[k].next
             \/ w[k].item = stack'[k].next /\ k = Len(w) /\ k < n + 1
      BY <1>3, <2>1 DEF PassedAt
    <2>3. k # n + 1
      <3>1. w[k].object \in Objects /\ w[k].item \in 1..Len(fields[w[k].object])
        BY WayShape
      <3>2. w[k].item \in Nat \ {0}
        BY <3>1, FieldShape
      <3> QED
        BY <1>1, <2>2, <3>2
    <2>4. k \in 1..n
      BY <1>1, <1>2, <2>1, <2>3
    <2>5. CASE w[k].item < stack[k].next \/ k < n
      BY <1>1, <1>2, <2>1, <2>2, <2>4, <2>5 DEF Passed, PassedAt
    <2>6. CASE ~(w[k].item < stack[k].next \/ k < n)
      <3>1. k = n
        BY <1>7, <2>4, <2>6
      <3>2. w[n].item = stack[n].next /\ Len(w) = n
        BY <1>1, <2>2, <2>6, <3>1
      <3>3. Follows(w, n)
        BY <1>7, <2>2, <2>4, <3>1, <3>2, FollowsOn
      <3> QED
        BY <3>2, <3>3, WayToIsOnly
    <2> QED
      BY <2>5, <2>6
  <1>5. ASSUME Passed(w)
        PROVE  Passed(w)'
    <2>1. PICK k \in 1..Len(w) : k <= n /\ PassedAt(w, k)
      BY <1>5 DEF Passed
    <2>2. k \in 1..n /\ k <= n + 1
      BY <1>1, <1>2, <2>1
    <2>3. PassedAt(w, k)'
      BY <1>1, <1>2, <1>3, <2>1, <2>2 DEF PassedAt
    <2> QED
      BY <2>1, <2>2, <2>3 DEF Passed
  <1>6. ASSUME w = WayTo(Top.next)
        PROVE  Passed(w)'
    <2>1. Len(w) = n /\ \A k \in 1..n : w[k].object = stack[k].object
                                        /\ w[k].item = stack[k].next
      BY <1>1, <1>6, WayToIsWay DEF WayTo
    <2>2. PassedAt(w, n)'
      <3>1. Follows(w, n - 1)
        BY <1>1, <2>1 DEF Follows
      <3>2. w[n].item = stack'[n].next /\ w[n].object = stack'[n].object
        BY <1>7, <2>1
      <3>3. Follows(w, n - 1)'
        BY <1>3, <1>7, <2>1, <3>1
      <3> QED
        BY <1>7, <2>1, <3>2, <3>3 DEF PassedAt
    <2> QED
      BY <1>7, <2>1, <2>2 DEF Passed
  <1> QED
    BY <1>4, <1>5, <1>6

(* A frame has returned when all ways through it are passed, so that the    *)
(* return passes none.                                                      *)
LEMMA PassedByReturn ==
  ASSUME TypeOK, SeenIsPath, Trace, Running, Top.next > Len(fields[Top.object]),
         Len(stack) > 1, Len(stack') = Len(stack) - 1,
         \A k \in 1..(Len(stack) - 1) :
           /\ stack'[k].object = stack[k].object
           /\ stack'[k].next = IF k = Len(stack) - 1 THEN stack[k].next + 1
                               ELSE stack[k].next,
         NEW w \in Ways
  PROVE  Passed(w)' <=> Passed(w)
  <1>0. PICK n : n = Len(stack)
    OBVIOUS
  <1> USE <1>0
  <1> DEFINE m == n - 1
  <1>1. n \in Nat \ {0} /\ n \in 1..n /\ DOMAIN stack = 1..n /\ Top = stack[n]
        /\ \A k \in 1..n : stack[k].next \in Nat
    BY StackShape DEF Top, Frames
  <1>2. m \in 1..n /\ m \in Nat \ {0} /\ m \in 1..m /\ n = m + 1 /\ m = n - 1
    BY <1>1
  <1>7. /\ Len(stack') = m
        /\ \A k \in 1..m :
             /\ stack'[k].object = stack[k].object
             /\ stack'[k].next = IF k = m THEN stack[k].next + 1 ELSE stack[k].next
    OBVIOUS
  <1> HIDE DEF m
  <1>3. Len(w) \in Nat /\ \A k \in 1..Len(w) : w[k].item \in Nat
    <2>1. ASSUME NEW k \in 1..Len(w) PROVE w[k].item \in Nat
      <3>1. w[k].object \in Objects /\ w[k].item \in 1..Len(fields[w[k].object])
        BY WayShape
      <3> QED
        BY <3>1, FieldShape
    <2> QED
      BY <2>1, WayShape
  <1>4. ASSUME NEW k \in 1..Len(w), k <= m
        PROVE  Follows(w, k - 1)' <=> Follows(w, k - 1)
    <2>1. \A j \in 1..(k - 1) : j \in 1..m /\ j # m
      BY <1>2, <1>3, <1>4
    <2> QED
      BY <1>7, <2>1 DEF Follows
  <1>5. ASSUME Passed(w)'
        PROVE  Passed(w)
    <2>1. PICK k \in 1..Len(w) : k <= m /\ PassedAt(w, k)'
      BY <1>5, <1>7 DEF Passed
    <2>2. k \in 1..m
      BY <1>2, <1>3, <2>1
    <2>3. Follows(w, k - 1) /\ w[k].object = stack[k].object
          /\ \/ w[k].item < stack'[k].next
             \/ w[k].item = stack'[k].next /\ k = Len(w) /\ k < m
      BY <1>4, <1>7, <2>1, <2>2 DEF PassedAt
    <2>4. CASE k # m
      <3>1. PassedAt(w, k)
        BY <1>2, <1>7, <2>2, <2>3, <2>4 DEF PassedAt
      <3> QED
        BY <1>2, <2>1, <2>2, <3>1 DEF Passed
    <2>5. CASE k = m
      <3>5. m \in 1..Len(w) /\ m <= n /\ m < n
        BY <1>2, <2>1, <2>5
      <3>1. w[m].item < stack[m].next \/ w[m].item = stack[m].next
        <4>1. w[m].item < stack[m].next + 1
          BY <1>2, <1>7, <2>3, <2>5
        <4>2. w[m].item \in Nat /\ stack[m].next \in Nat
          BY <1>1, <1>2, <1>3, <3>5
        <4> QED
          BY <4>1, <4>2
      <3>2. CASE w[m].item < stack[m].next
        BY <2>3, <2>5, <3>2, <3>5 DEF Passed, PassedAt
      <3>3. CASE w[m].item = stack[m].next /\ Len(w) = m
        BY <2>3, <2>5, <3>3, <3>5 DEF Passed, PassedAt
      <3>4. CASE w[m].item = stack[m].next /\ Len(w) # m
        <4>1. m \in 1..(Len(w) - 1) /\ n \in 1..Len(w)
          BY <1>2, <1>3, <2>1, <2>5, <3>4
        <4>2. Follows(w, m)
          BY <1>2, <2>3, <2>5, <3>4, FollowsOn
        <4>3. w[n].object = stack[n].object
          <5>1. w[n].object = Value(w[m])
            BY <1>2, <4>1, WayShape
          <5>2. stack[n].object = fields[stack[m].object][stack[m].next].value
            BY <1>2 DEF Trace, Entry
          <5> QED
            BY <2>3, <2>5, <3>4, <5>1, <5>2 DEF Value
        <4>4. w[n].item < stack[n].next
          <5>1. /\ w[n].object \in Objects
                /\ w[n].item \in 1..Len(fields[Top.object])
                /\ Len(fields[Top.object]) \in Nat
            BY <1>1, <4>1, <4>3, WayShape, FieldShape
          <5> QED
            BY <1>1, <5>1
        <4>5. PassedAt(w, n)
          BY <1>2, <4>2, <4>3, <4>4 DEF PassedAt
        <4>6. n \in 1..Len(w) /\ n <= n
          BY <1>2, <4>1
        <4> QED
          BY <4>5, <4>6 DEF Passed
      <3> QED
        BY <3>1, <3>2, <3>3, <3>4
    <2> QED
      BY <2>4, <2>5
  <1>6. ASSUME Passed(w)
        PROVE  Passed(w)'
    <2>1. PICK k \in 1..Len(w) : k <= n /\ PassedAt(w, k)
      BY <1>6 DEF Passed
    <2>2. CASE k = n
      <3>1. m \in 1..Len(w) /\ Follows(w, m)
        BY <1>2, <1>3, <2>1, <2>2 DEF PassedAt
      <3>2. Follows(w, m - 1)
        BY <1>2, <3>1 DEF Follows
      <3>3. w[m].object = stack[m].object /\ w[m].item = stack[m].next
            /\ stack[m].next \in Nat
        BY <1>1, <1>2, <3>1 DEF Follows
      <3>4. w[m].object = stack'[m].object /\ w[m].item < stack'[m].next
        BY <1>2, <1>7, <3>3
      <3>5. PassedAt(w, m)'
        BY <1>2, <1>4, <3>1, <3>2, <3>4 DEF PassedAt
      <3> QED
        BY <1>2, <1>7, <3>1, <3>5 DEF Passed
    <2>3. CASE k # n
      <3>1. k \in 1..m /\ k <= m
        BY <1>2, <1>3, <2>1, <2>3
      <3>2. Follows(w, k - 1)' /\ w[k].object = stack'[k].object
        BY <1>4, <1>7, <2>1, <3>1 DEF PassedAt
      <3>3. \/ w[k].item < stack'[k].next
            \/ w[k].item = stack'[k].next /\ k = Len(w) /\ k < m
        <4>1. w[k].item \in Nat /\ stack[k].next \in Nat
          BY <1>1, <1>2, <1>3, <2>1, <3>1
        <4> QED
          BY <1>2, <1>7, <2>1, <3>1, <4>1 DEF PassedAt
      <3>4. PassedAt(w, k)'
        BY <1>7, <3>2, <3>3 DEF PassedAt
      <3> QED
        BY <1>7, <2>1, <3>1, <3>4 DEF Passed
    <2> QED
      BY <2>2, <2>3
  <1> QED
    BY <1>5, <1>6

-----------------------------------------------------------------------------
(* The steps, for the result                                                *)

(* What stands at the item on top.                                          *)
LEMMA ValueHere ==
  ASSUME TypeOK, SeenIsPath, Trace, Running, inField
  PROVE  /\ Target(WayTo(Top.next)) = Item
         /\ InFull(WayTo(Top.next)) <=> Len(stack) <= maxDepth /\ Item \notin OnPath
         /\ Expanding <=> Len(stack) <= maxDepth
  <1> DEFINE w == WayTo(Top.next)
  <1>1. Len(stack) \in Nat \ {0} /\ DOMAIN stack = 1..Len(stack) /\ Top = stack[Len(stack)]
    BY StackShape DEF Top
  <1>2. /\ w \in Ways /\ Len(w) = Len(stack) /\ Target(w) = Item
        /\ \A k \in 1..Len(stack) : w[k].object = stack[k].object
    BY WayToIsWay DEF Trace, Item, Entry
  <1>3. DOMAIN w = 1..Len(stack)
    BY <1>2, WayShape
  <1>4. maxDepth \in Nat /\ Top.left = maxDepth + 1 - Len(stack)
    BY <1>1, DepthsAssumption DEF TypeOK, SeenIsPath
  <1> HIDE DEF w
  <1>5. InFull(w) <=> Len(stack) <= maxDepth /\ Item \notin OnPath
    BY <1>1, <1>2, <1>3 DEF InFull, OnPath
  <1> QED
    BY <1>1, <1>2, <1>4, <1>5 DEF Expanding, w

(* One more entry for one more way.                                         *)
LEMMA EntryAdded ==
  ASSUME Running, Emitted, UNCHANGED <<fields, maxDepth>>, Root' = Root, NEW h \in Ways,
         out' = out \cup {<<PlaceOf(h), ValueAt(h)>>},
         \A w \in Ways : Passed(w)' <=> Passed(w) \/ w = h
  PROVE  Emitted'
  <1> DEFINE entry(w) == <<PlaceOf(w), ValueAt(w)>>
  <1>1. out = { entry(w) : w \in { v \in Ways : Passed(v) } }
    BY DEF Emitted
  <1>2. { v \in Ways' : Passed(v)' } = { v \in Ways : Passed(v) } \cup {h}
    BY WaysStay
  <1>3. \A w : entry(w)' = entry(w)
    BY WaysStay
  <1> HIDE DEF entry
  <1>4. out' = { entry(w)' : w \in { v \in Ways' : Passed(v)' } }
    BY <1>1, <1>2, <1>3 DEF entry
  <1> QED
    BY <1>4 DEF Emitted, entry

(* The item on top is emitted as what the documentation has at its place.   *)
LEMMA EmitExact ==
  ASSUME ExpandInv, Running, inField, NEW value, Emit(value),
         \/ Item \notin Objects \/ Len(stack) > maxDepth \/ Item \in OnPath,
         value = ValueAt(WayTo(Top.next))
  PROVE  Trace' /\ Emitted' /\ ResultExact' /\ FailsForCause'
  <1>0. PICK n : n = Len(stack)
    OBVIOUS
  <1> USE <1>0
  <1>1. TypeOK /\ SeenIsPath /\ Trace /\ Emitted /\ status' = "running"
        /\ UNCHANGED <<fields, maxDepth>>
    BY DEF ExpandInv, IInv, Emit, Running, result
  <1>2. /\ stack \in Seq(Frames) /\ n \in Nat \ {0} /\ n \in 1..n
        /\ \A k \in 1..n : stack[k] \in Frames
        /\ Top = stack[n]
    BY <1>1, StackShape DEF Top
  <1>3. /\ Len(stack') = n
        /\ \A k \in 1..n : /\ stack'[k].object = stack[k].object
                           /\ stack'[k].next = IF k = n THEN stack[k].next + 1
                                               ELSE stack[k].next
    BY <1>2, AdvanceFrame DEF Emit
  <1>4. Top.object \in Objects /\ Top.next \in Nat /\ Top.next \in DOMAIN fields[Top.object]
    BY <1>1, <1>2 DEF Frames, Trace
  <1>5. /\ Len(fields[Top.object]) \in Nat
        /\ DOMAIN fields[Top.object] = 1..Len(fields[Top.object])
        /\ fields[Top.object][Len(fields[Top.object])].at = "end"
    BY <1>1, <1>4, FieldShape
  <1>6. Root' = Root
    BY <1>2, <1>3 DEF Root
  <1>7. Trace'
    <2>1. Top'.object = Top.object /\ Top'.next = Top.next + 1
      BY <1>2, <1>3 DEF Top
    <2>2. ASSUME inField'
          PROVE  Top.next + 1 \in DOMAIN fields[Top.object]
      <3>1. Top.next # Len(fields[Top.object])
        BY <1>5, <2>2 DEF Emit, Entry
      <3> QED
        BY <1>4, <1>5, <3>1
    <2>3. Top.next + 1 <= Len(fields[Top.object]) + 1
      BY <1>4, <1>5
    <2>4. ASSUME NEW k \in 1..(n - 1)
          PROVE  /\ stack'[k].next \in DOMAIN fields[stack'[k].object]
                 /\ stack'[k + 1].object = fields[stack'[k].object][stack'[k].next].value
      <3>1. k \in 1..n /\ k + 1 \in 1..n /\ k # n
        BY <1>2
      <3> QED
        BY <1>1, <1>3, <3>1 DEF Trace, Entry
    <2> QED
      BY <1>1, <1>3, <2>1, <2>2, <2>3, <2>4 DEF Trace, Entry
  <1>8. Emitted'
    <2>1. WayTo(Top.next) \in Ways /\ PlaceOf(WayTo(Top.next)) = Place
      BY <1>1, <1>4, WayToIsWay
    <2>2. out' = out \cup {<<PlaceOf(WayTo(Top.next)), ValueAt(WayTo(Top.next))>>}
      BY <2>1 DEF Emit
    <2>3. \A w \in Ways : Passed(w)' <=> Passed(w) \/ w = WayTo(Top.next)
      BY <1>1, <1>3, <1>4, PassedByEmit
    <2> QED
      BY <1>1, <1>6, <2>1, <2>2, <2>3, EntryAdded
  <1> QED
    BY <1>1, <1>7, <1>8 DEF ResultExact, FailsForCause

(* A link in full is noted at its place and its record entered.             *)
LEMMA DescendExact ==
  ASSUME ExpandInv, Descend
  PROVE  Trace' /\ Emitted' /\ ResultExact' /\ FailsForCause'
  <1>0. PICK n : n = Len(stack)
    OBVIOUS
  <1> USE <1>0
  <1>1. TypeOK /\ SeenIsPath /\ Trace /\ Emitted /\ Running /\ inField /\ status' = "running"
        /\ UNCHANGED <<fields, maxDepth>> /\ ~inField'
    BY DEF ExpandInv, IInv, Descend, Running, result
  <1>2. /\ stack \in Seq(Frames) /\ n \in Nat \ {0} /\ n \in 1..n
        /\ \A k \in 1..n : stack[k] \in Frames
        /\ Top = stack[n]
    BY <1>1, StackShape DEF Top
  <1>3. Item \in Objects /\ Expanding /\ Item \notin OnPath
        /\ out' = out \cup {<<Place, "dict">>}
    BY <1>1 DEF Descend, Cyclic, SeenIsPath
  <1>4. Top.next \in DOMAIN fields[Top.object]
    BY <1>1 DEF Trace
  <1>5. /\ Len(stack') = n + 1 /\ \A k \in 1..n : stack'[k] = stack[k]
        /\ stack'[n + 1] = Frame(Item, Top.left - 1)
    <2>1. maxDepth \in Nat /\ Top.left \in 0..maxDepth /\ Top.left > 0
      BY <1>1, <1>2, <1>3, DepthsAssumption DEF TypeOK, Frames, Expanding
    <2>2. Frame(Item, Top.left - 1) \in Frames
      BY <1>3, <2>1 DEF Frame, Frames
    <2>3. stack' = Append(stack, Frame(Item, Top.left - 1))
      BY DEF Descend
    <2> QED
      BY <1>2, <2>2, <2>3, AppendProperties
  <1>6. Root' = Root
    BY <1>2, <1>5 DEF Root
  <1>7. Trace'
    <2>1. Top'.object = Item /\ Top'.next = 1
      BY <1>2, <1>5 DEF Top, Frame
    <2>2. Len(fields[Item]) \in Nat
      BY <1>1, <1>3, FieldShape
    <2>3. ASSUME NEW k \in 1..n
          PROVE  /\ stack'[k].next \in DOMAIN fields[stack'[k].object]
                 /\ stack'[k + 1].object = fields[stack'[k].object][stack'[k].next].value
      <3>1. CASE k = n
        BY <1>2, <1>4, <1>5, <3>1 DEF Frame, Item, Entry
      <3>2. CASE k # n
        <4>1. k \in 1..(n - 1) /\ k + 1 \in 1..n
          BY <1>2, <3>2
        <4> QED
          BY <1>1, <1>5, <4>1 DEF Trace, Entry
      <3> QED
        BY <3>1, <3>2
    <2>4. 1..(Len(stack') - 1) = 1..n
      BY <1>2, <1>5
    <2> QED
      <3>1. Top'.next \in Nat /\ Top'.next <= Len(fields'[Top'.object]) + 1
        BY <1>1, <1>3, <2>1, <2>2 DEF Descend
      <3>2. ~inField' /\ fields' = fields
        BY <1>1 DEF Descend
      <3>3. \A k \in 1..(Len(stack') - 1) :
              /\ stack'[k].next \in DOMAIN fields'[stack'[k].object]
              /\ stack'[k + 1].object
                   = fields'[stack'[k].object][stack'[k].next].value
        BY <2>3, <2>4, <3>2
      <3> QED
        BY <3>1, <3>2, <3>3 DEF Trace, Entry
  <1>8. Emitted'
    <2>1. WayTo(Top.next) \in Ways /\ PlaceOf(WayTo(Top.next)) = Place
      BY <1>1, <1>4, WayToIsWay
    <2>2. ValueAt(WayTo(Top.next)) = "dict"
      BY <1>1, <1>3, ValueHere DEF ValueAt
    <2>3. \A w \in Ways : Passed(w)' <=> Passed(w) \/ w = WayTo(Top.next)
      BY <1>1, <1>4, <1>5, PassedByDescent DEF Frame
    <2> QED
      BY <1>1, <1>3, <1>6, <2>1, <2>2, <2>3, EntryAdded
  <1> QED
    BY <1>1, <1>7, <1>8 DEF ResultExact, FailsForCause

(* The call ends with every way passed; a frame inside passes none by it.   *)
LEMMA ReturnExact ==
  ASSUME ExpandInv, Return
  PROVE  Trace' /\ Emitted' /\ ResultExact' /\ FailsForCause'
  <1>0. PICK n : n = Len(stack)
    OBVIOUS
  <1> USE <1>0
  <1>1. TypeOK /\ SeenIsPath /\ Trace /\ Emitted /\ Running /\ ~inField
        /\ UNCHANGED <<fields, maxDepth, out>> /\ Top.next > Len(fields[Top.object])
    BY DEF ExpandInv, IInv, Return, result
  <1>2. /\ stack \in Seq(Frames) /\ n \in Nat \ {0} /\ n \in 1..n
        /\ \A k \in 1..n : stack[k] \in Frames
        /\ Top = stack[n]
    BY <1>1, StackShape DEF Top
  <1>3. CASE n = 1
    <2>1. UNCHANGED <<stack, inField>> /\ status' = "returned"
      BY <1>3 DEF Return
    <2>2. Root' = Root /\ Root = Top.object
      BY <1>2, <1>3, <2>1 DEF Root
    <2>3. Trace'
      BY <1>1, <2>1 DEF Trace, Top, Entry
    <2>4. ASSUME NEW w \in Ways PROVE Passed(w)
      <3>1. Top.object \in Objects /\ Top.next \in Nat
        BY <1>2 DEF Frames
      <3>2. Len(fields[Top.object]) \in Nat
        BY <1>1, <3>1, FieldShape
      <3>3. w[1].object = Top.object /\ 1 \in 1..Len(w)
            /\ w[1].item \in 1..Len(fields[Top.object])
        <4>1. Len(w) \in Nat /\ 1 <= Len(w) /\ w[1].object = Root
          BY <1>1, WayShape
        <4>2. 1 \in 1..Len(w)
          BY <4>1
        <4>3. w[1].item \in 1..Len(fields[w[1].object])
          BY <1>1, <4>2, WayShape
        <4> QED
          BY <2>2, <4>1, <4>2, <4>3
      <3>4. w[1].item < stack[1].next
        BY <1>1, <1>2, <1>3, <3>1, <3>2, <3>3
      <3>5. Follows(w, 0)
        BY DEF Follows
      <3> QED
        BY <1>2, <1>3, <3>3, <3>4, <3>5 DEF Passed, PassedAt
    <2>5. out = { <<PlaceOf(w), ValueAt(w)>> : w \in Ways }
      BY <1>1, <2>4 DEF Emitted
    <2>6. ResultExact'
      BY <1>1, <2>2, <2>5, WaysStay DEF ResultExact
    <2> QED
      BY <2>1, <2>3, <2>6 DEF Emitted, Running, FailsForCause
  <1>4. CASE n # 1
    <2> DEFINE m == n - 1
    <2>1. m \in 1..n /\ m \in Nat \ {0} /\ m \in 1..m /\ n = m + 1 /\ n > 1
      BY <1>2, <1>4
    <2>2. /\ Front(stack) \in Seq(Frames) /\ Len(Front(stack)) = m
          /\ \A k \in 1..m : Front(stack)[k] = stack[k]
      BY <1>2, <2>1, PopFrame
    <2>3. /\ stack' = [Front(stack) EXCEPT ![m].next = @ + 1]
          /\ inField' = (Entry(stack[m]).at = "within") /\ status' = "running"
      BY <1>1, <1>4 DEF Return, Running
    <2> HIDE DEF m
    <2>4. /\ Len(stack') = m
          /\ \A k \in 1..m : /\ stack'[k].object = stack[k].object
                             /\ stack'[k].next = IF k = m THEN stack[k].next + 1
                                                 ELSE stack[k].next
      BY <2>1, <2>2, <2>3, AdvanceFrame
    <2>5. Root' = Root
      BY <2>1, <2>4 DEF Root
    <2>6. /\ stack[m].object \in Objects /\ stack[m].next \in Nat
          /\ stack[m].next \in DOMAIN fields[stack[m].object]
      <3>1. m \in 1..(n - 1)
        BY <1>2, <2>1
      <3> QED
        BY <1>1, <1>2, <2>1, <3>1 DEF Trace, Frames
    <2>7. /\ Len(fields[stack[m].object]) \in Nat
          /\ DOMAIN fields[stack[m].object] = 1..Len(fields[stack[m].object])
          /\ fields[stack[m].object][Len(fields[stack[m].object])].at = "end"
      BY <1>1, <2>6, FieldShape
    <2>8. Trace'
      <3>1. Top'.object = stack[m].object /\ Top'.next = stack[m].next + 1
        BY <2>1, <2>4 DEF Top
      <3>2. ASSUME inField'
            PROVE  stack[m].next + 1 \in DOMAIN fields[stack[m].object]
        <4>1. stack[m].next # Len(fields[stack[m].object])
          BY <2>3, <2>7, <3>2 DEF Entry
        <4> QED
          BY <2>6, <2>7, <4>1
      <3>3. stack[m].next + 1 <= Len(fields[stack[m].object]) + 1
        BY <2>6, <2>7
      <3>4. ASSUME NEW k \in 1..(m - 1)
            PROVE  /\ stack'[k].next \in DOMAIN fields[stack'[k].object]
                   /\ stack'[k + 1].object = fields[stack'[k].object][stack'[k].next].value
        <4>1. k \in 1..m /\ k + 1 \in 1..m /\ k # m /\ k \in 1..(n - 1)
          BY <2>1
        <4> QED
          BY <1>1, <2>4, <4>1 DEF Trace, Entry
      <3> QED
        BY <1>1, <2>4, <3>1, <3>2, <3>3, <3>4 DEF Trace, Entry
    <2>9. Emitted'
      <3>1. ASSUME NEW w \in Ways PROVE Passed(w)' <=> Passed(w)
        BY <1>1, <2>1, <2>4, PassedByReturn DEF m
      <3> QED
        BY <1>1, <2>5, <3>1, WaysStay DEF Emitted
    <2> QED
      BY <2>3, <2>8, <2>9 DEF ResultExact, FailsForCause
  <1> QED
    BY <1>3, <1>4

(* Steps that leave the stack and the result alone.                         *)
LEMMA NothingPassed ==
  ASSUME UNCHANGED <<fields, maxDepth, stack>>
  PROVE  /\ Ways' = Ways /\ Root' = Root
         /\ \A w : Passed(w)' <=> Passed(w)
  <1>1. Root' = Root
    BY DEF Root
  <1>2. \A w : Passed(w)' <=> Passed(w)
    BY DEF Passed, PassedAt, Follows
  <1> QED
    BY <1>1, <1>2, WaysStay

(* The same frames: whatever was emitted stays exact.                       *)
LEMMA StackKeptExact ==
  ASSUME Trace, Emitted, Running, UNCHANGED <<fields, maxDepth, stack, out>>,
         inField' => inField \/ Top.next \in DOMAIN fields[Top.object],
         status' # "returned"
  PROVE  Trace' /\ Emitted' /\ ResultExact'
  <1>1. Trace'
    BY DEF Trace, Top, Entry
  <1>2. Emitted'
    BY NothingPassed, WaysStay DEF Emitted
  <1> QED
    BY <1>1, <1>2 DEF ResultExact

(* A call gives up at an item, which is the end of a way.                   *)
LEMMA RaiseExact ==
  ASSUME ExpandInv, Running,
         \/ BeginField /\ status' # "running"
         \/ Released
         \/ Reference /\ Item \in Unlisted
         \/ Unresolved
  PROVE  Trace' /\ Emitted' /\ ResultExact' /\ FailsForCause'
  <1>1. TypeOK /\ SeenIsPath /\ Trace /\ Emitted
    BY DEF ExpandInv, IInv
  <1>2. PICK cause \in Causes : Raise(cause)
    BY DEF BeginField, Released, Reference, Unresolved, Causes, Running
  <1>3. UNCHANGED <<fields, maxDepth, stack, out, inField, held, native>> /\ status' = cause
    BY <1>2 DEF Raise, result, world, call
  <1>4. Trace' /\ Emitted' /\ ResultExact'
    BY <1>1, <1>2, <1>3, StackKeptExact DEF Causes
  <1>5. Root' = Root
    BY <1>3 DEF Root
  <1>6. Top \in Frames /\ Len(stack) \in Nat /\ maxDepth \in Nat
    BY <1>1, StackShape, DepthsAssumption DEF TypeOK
  <1>7. FailsForCause'
    <2>1. CASE BeginField
      <3>1. ~Decodable /\ Raise("undecodable")
        BY <1>2, <2>1 DEF BeginField, Raise, Running, Causes
      <3>2. FailsForCause'
        <4>1. PICK k \in Field : fields[Top.object][k].value = Undecodable
          BY <3>1 DEF Decodable
        <4>2. k \in DOMAIN fields[Top.object]
          <5>1. Len(fields[Top.object]) \in Nat
                /\ DOMAIN fields[Top.object] = 1..Len(fields[Top.object])
            BY <1>1, <1>6, FieldShape DEF Frames
          <5>2. Top.next \in Nat \ {0} /\ k \in Top.next..Len(fields[Top.object])
            BY <1>6 DEF Field, Frames
          <5> QED
            BY <5>1, <5>2
        <4>3. WayTo(k) \in Ways /\ Target(WayTo(k)) = Undecodable
          BY <1>1, <4>1, <4>2, WayToIsWay
        <4>4. \E w \in Ways' : Target(w)' = Undecodable
          BY <1>3, <1>5, <4>3, WaysStay
        <4> QED
          BY <3>1, <4>4 DEF Raise, FailsForCause
      <3> QED
        BY <3>2
    <2>2. CASE Reference /\ Item \in Unlisted
      <3>1. inField /\ ~Expanding /\ Raise("unknownTable")
        BY <2>2 DEF Reference
      <3>2. /\ WayTo(Top.next) \in Ways /\ Len(WayTo(Top.next)) > maxDepth
            /\ Target(WayTo(Top.next)) \in Unlisted
        BY <1>1, <1>6, <2>2, <3>1, ValueHere, WayToIsWay DEF Trace
      <3>3. \E w \in Ways' : Len(w) > maxDepth' /\ Target(w)' \in Unlisted
        BY <1>3, <1>5, <3>2, WaysStay
      <3> QED
        BY <3>1, <3>3 DEF Raise, FailsForCause
    <2>3. CASE Unresolved
      <3>1. /\ inField /\ Expanding /\ Item \in Objects /\ Raise("unreadable")
            /\ Item \notin held \cup OnPath
            /\ native = "closed" \/ Item \in Damaged
        BY <1>1, <2>3 DEF Unresolved, Resolvable, TypeOK
      <3>2. /\ WayTo(Top.next) \in Ways /\ Target(WayTo(Top.next)) = Item
            /\ ValueAt(WayTo(Top.next)) = "dict"
        BY <1>1, <3>1, ValueHere, WayToIsWay DEF Trace, ValueAt
      <3>3. \E w \in Ways' : /\ ValueAt(w)' = "dict" /\ Target(w)' \notin held'
                             /\ native' = "closed" \/ Target(w)' \in Damaged
        BY <1>3, <1>5, <3>1, <3>2, WaysStay
      <3> QED
        BY <3>1, <3>3 DEF Raise, FailsForCause
    <2>4. CASE Released
      BY <2>4 DEF Released, Raise, FailsForCause
    <2> QED
      BY <2>1, <2>2, <2>3, <2>4
  <1> QED
    BY <1>4, <1>7

(* Every step keeps the result exact.                                       *)
LEMMA StepExact ==
  ASSUME ExpandInv, [Next]_vars
  PROVE  ExpandInv'
  <1>1. IInv /\ TypeOK /\ SeenIsPath /\ Trace /\ Emitted
    BY DEF ExpandInv, IInv
  <1>2. IInv'
    BY <1>1, StepInv
  <1>3. SUFFICES Trace' /\ Emitted' /\ ResultExact' /\ FailsForCause'
    BY <1>2 DEF ExpandInv
  <1>4. CASE BeginField
    <2>1. CASE status' = "running"
      <3>1. UNCHANGED <<fields, maxDepth, stack, out, status>> /\ Running
            /\ ~inField /\ Top.next <= Len(fields[Top.object])
        BY <1>4, <2>1 DEF BeginField, Raise, result, world
      <3>2. Top.next \in DOMAIN fields[Top.object]
        <4>1. Top \in Frames
          BY <1>1, StackShape
        <4>2. Len(fields[Top.object]) \in Nat
              /\ DOMAIN fields[Top.object] = 1..Len(fields[Top.object])
          BY <1>1, <4>1, FieldShape DEF Frames
        <4>3. Top.next \in Nat \ {0}
          BY <4>1 DEF Frames
        <4> QED
          BY <3>1, <4>2, <4>3
      <3> QED
        BY <1>1, <2>1, <3>1, <3>2, StackKeptExact DEF FailsForCause
    <2> QED
      BY <1>4, <2>1, RaiseExact DEF BeginField
  <1>5. CASE PlainValue
    <2>1. Running /\ inField /\ Item = Plain /\ Emit(Plain) /\ Item \notin Objects
      BY <1>5, ItemsAssumption DEF PlainValue
    <2>2. ValueAt(WayTo(Top.next)) = Plain
      BY <1>1, <2>1, ValueHere DEF ValueAt
    <2> QED
      BY <2>1, <2>2, EmitExact
  <1>6. CASE Reference
    <2>1. CASE Item \in Unlisted
      BY <1>6, <2>1, RaiseExact DEF Reference
    <2>2. CASE Item \notin Unlisted
      <3>1. Running /\ inField /\ Item \in Objects /\ ~Expanding
            /\ Emit(<<"$ref", Item>>)
        BY <1>6, <2>2 DEF Reference
      <3>2. ~(Len(stack) <= maxDepth)
        BY <1>1, <3>1, ValueHere
      <3>3. Len(stack) > maxDepth
        <4>1. Len(stack) \in Nat /\ maxDepth \in Nat
          BY <1>1, StackShape, DepthsAssumption DEF TypeOK
        <4> QED
          BY <3>2, <4>1
      <3>4. ValueAt(WayTo(Top.next)) = <<"$ref", Item>>
        BY <1>1, <3>1, <3>2, ValueHere DEF ValueAt
      <3> QED
        BY <3>1, <3>3, <3>4, EmitExact
    <2> QED
      BY <2>1, <2>2
  <1>7. CASE CycleReference
    <2>1. Running /\ inField /\ Item \in Objects /\ Item \in OnPath
          /\ Emit(<<"$ref", Item>>)
      BY <1>1, <1>7 DEF CycleReference, Cyclic, SeenIsPath
    <2>2. ValueAt(WayTo(Top.next)) = <<"$ref", Item>>
      BY <1>1, <2>1, ValueHere DEF ValueAt
    <2> QED
      BY <2>1, <2>2, EmitExact
  <1>8. CASE Unresolved
    BY <1>8, RaiseExact DEF Unresolved
  <1>9. CASE Others
    <2>1. Running /\ UNCHANGED <<fields, maxDepth, stack, out, inField, status>>
      BY <1>9 DEF Others, Close, Release, Forget, result, call
    <2> QED
      BY <1>1, <2>1, StackKeptExact DEF Running, FailsForCause
  <1>10. CASE UNCHANGED vars
    <2>1. UNCHANGED <<fields, maxDepth, stack, out, inField, status, held, native>>
      BY <1>10 DEF vars
    <2>2. Trace'
      BY <1>1, <2>1 DEF Trace, Top, Entry
    <2>3. /\ Ways' = Ways /\ \A w : Passed(w)' <=> Passed(w)
          /\ \A w : /\ PlaceOf(w)' = PlaceOf(w) /\ ValueAt(w)' = ValueAt(w)
                    /\ Target(w)' = Target(w)
      BY <2>1, NothingPassed, WaysStay
    <2>4. Emitted' /\ ResultExact' /\ FailsForCause'
      BY <2>1, <2>3 DEF ExpandInv, Emitted, Running, ResultExact, FailsForCause
    <2> QED
      BY <2>2, <2>4
  <1>11. CASE Released
    BY <1>11, RaiseExact DEF Released
  <1> QED
    BY <1>4, <1>5, <1>6, <1>7, <1>8, <1>9, <1>10, <1>11, ReturnExact, DescendExact
    DEF Next, Expand, Ended

(* At the start no way is passed and nothing is emitted.                    *)
LEMMA InitExact ==
  ASSUME Init
  PROVE  ExpandInv
  <1>1. PICK root \in Objects : stack = <<Frame(root, maxDepth)>>
    BY DEF Init
  <1>2. IInv /\ TypeOK
    BY InitInv DEF IInv
  <1>3. Len(stack) = 1 /\ stack[1] = Frame(root, maxDepth) /\ Top = Frame(root, maxDepth)
    BY <1>1 DEF Top
  <1>4. Len(fields[root]) \in Nat
    BY <1>2, FieldShape
  <1>5. Trace
    BY <1>3, <1>4 DEF Init, Trace, Frame
  <1>6. ASSUME NEW w \in Ways PROVE ~Passed(w)
    <2>1. SUFFICES ASSUME NEW k \in 1..Len(w), k <= 1, PassedAt(w, k) PROVE FALSE
      BY <1>3 DEF Passed
    <2>2. w[k].object \in Objects /\ w[k].item \in 1..Len(fields[w[k].object])
      BY <1>2, <2>1, WayShape
    <2>3. w[k].item \in Nat \ {0}
      BY <1>2, <2>2, FieldShape
    <2>4. k = 1
      <3>1. Len(w) \in Nat
        BY <1>2, WayShape
      <3> QED
        BY <2>1, <3>1
    <2>5. \/ w[1].item < 1
          \/ w[1].item = 1 /\ 1 < 1
      BY <1>3, <2>1, <2>4 DEF PassedAt, Frame
    <2> QED
      BY <2>3, <2>4, <2>5
  <1>7. Emitted
    BY <1>6 DEF Init, Emitted
  <1> QED
    BY <1>2, <1>5, <1>7 DEF ExpandInv, Init, ResultExact, FailsForCause

-----------------------------------------------------------------------------
(* What holds throughout                                                    *)

(* The inductive invariant.                                                 *)
THEOREM Inductive == Spec => []IInv
  <1>1. Init => IInv
    BY InitInv
  <1>2. IInv /\ [Next]_vars => IInv'
    BY StepInv
  <1> QED
    BY <1>1, <1>2, PTL DEF Spec

(* The variables of a call of to_dict keep their types: the depth that      *)
(* remains never gets negative, on any object graph.                        *)
THEOREM TypeCorrect == Spec => []TypeOK
  <1>1. IInv => TypeOK
    BY DEF IInv
  <1> QED
    BY <1>1, Inductive, PTL

(* The shared set is the path being expanded and no object is on it twice:  *)
(* the recursion is never deeper than max_depth or the number of objects.   *)
THEOREM PathTracked == Spec => []SeenIsPath
  <1>1. IInv => SeenIsPath
    BY DEF IInv
  <1> QED
    BY <1>1, Inductive, PTL

(* No nested expansion fails for a Realm that was let go of: by Pinning,    *)
(* every frame below the top still holds the bound method of its field.     *)
THEOREM ExpansionOwnsRealm == Spec => []NestedKeepsRealm
  <1>1. IInv => NestedKeepsRealm
    BY DEF IInv
  <1> QED
    BY <1>1, Inductive, PTL

(* The inductive invariant with the result in it.                           *)
THEOREM ExpandInductive == Spec => []ExpandInv
  <1>1. Init => ExpandInv
    BY InitExact
  <1>2. ExpandInv /\ [Next]_vars => ExpandInv'
    BY StepExact
  <1> QED
    BY <1>1, <1>2, PTL DEF Spec

(* What to_dict returns is the documented expansion of the record, whatever *)
(* the object graph and the depth, and whatever other threads do meanwhile. *)
THEOREM ExpansionExact == Spec => []ResultExact
  <1>1. ExpandInv => ResultExact
    BY DEF ExpandInv
  <1> QED
    BY <1>1, ExpandInductive, PTL

(* A call that fails came across the cause on the way it was at.            *)
THEOREM FailuresHaveCause == Spec => []FailsForCause
  <1>1. ExpandInv => FailsForCause
    BY DEF ExpandInv
  <1> QED
    BY <1>1, ExpandInductive, PTL

-----------------------------------------------------------------------------
(***************************************************************************)
(* Record.__getitem__ and RealmLink.__eq__, which to_dict is built on:      *)
(* RecordFields.                                                            *)
(***************************************************************************)

InCall == {"missed", "converting", "storing"}

RecordTypeOK ==
  /\ raw \in Raws /\ owners \subseteq Realms
  /\ converted \in [Fields -> Threads \cup {None}]
  /\ reading \in [Threads -> InCall \cup Outcomes \cup {"idle"}]
  /\ at \in [Threads -> Fields \cup {None}]
  /\ \A t \in Threads : reading[t] # "idle" => at[t] \in Fields
  /\ began \in [Threads -> SUBSET {"kept", "alive"}]
  /\ given \subseteq [field : Fields, by : Threads]
  /\ crowded \subseteq Fields

(* A field nobody crowded is converted by the only thread in its way, and   *)
(* whoever was given it has the object that is kept.                        *)
OneReader ==
  /\ \A t \in Threads, f \in Fields :
       InFlight(t, f) /\ f \notin crowded =>
         converted[f] = None /\ ~Busy(t, f)
  /\ \A o \in given : o.field \notin crowded => converted[o.field] = o.by

(* What a call has found decides where it can be.                           *)
FoundDecides(t) ==
  /\ reading[t] \in InCall \cup {"released", "undecodable"} => "kept" \notin began[t]
  /\ reading[t] = "missed" =>
       "alive" \in began[t] \/ ~Living(RealmOf[at[t]])
  /\ reading[t] \in {"converting", "storing"} => "alive" \in began[t]
  /\ reading[t] \in {"storing", "returned"} => raw[at[t]] # Unconvertible
  /\ reading[t] = "returned" => began[t] # {}
  /\ reading[t] = "released" => ~Living(RealmOf[at[t]])
  /\ reading[t] = "undecodable" => raw[at[t]] = Unconvertible

(* Only what could be decoded is kept.                                      *)
KeptDecodes == \A f \in Fields : converted[f] # None => raw[f] # Unconvertible

(* The inductive invariant of the fields of Records.                        *)
RecordInv ==
  /\ RecordTypeOK /\ OneReader /\ KeptDecodes
  /\ \A t \in Threads : FoundDecides(t)

(* At the start nobody has asked for anything.                              *)
LEMMA RecordInit ==
  ASSUME FieldsInit
  PROVE  RecordInv
  BY DEF FieldsInit, RecordInv, RecordTypeOK, OneReader, KeptDecodes, FoundDecides,
         Fields, InFlight, InCall, Outcomes

(* The types, and that no step changes what a field holds.                  *)
LEMMA RecordTypes ==
  ASSUME RecordInv, [FieldsNext]_fieldsVars
  PROVE  RecordTypeOK'
  <1> USE DEF RecordInv, RecordTypeOK, Fields, InCall, Outcomes
  <1>1. ASSUME NEW t \in Threads, NEW f \in Fields, Hit(t, f)
        PROVE  RecordTypeOK'
    <2>1. converted[f] \in Threads
      BY <1>1 DEF Hit, Kept
    <2> QED
      BY <1>1, <2>1 DEF Hit, Call, Reach, Object
  <1>2. ASSUME NEW t \in Threads, NEW f \in Fields, Miss(t, f)
        PROVE  RecordTypeOK'
    BY <1>2 DEF Miss, Call, Reach
  <1>3. ASSUME NEW t \in Threads, Dereference(t)
        PROVE  RecordTypeOK'
    BY <1>3 DEF Dereference, Reach
  <1>4. ASSUME NEW t \in Threads, Convert(t)
        PROVE  RecordTypeOK'
    BY <1>4 DEF Convert, Reach
  <1>5. ASSUME NEW t \in Threads, Store(t)
        PROVE  RecordTypeOK'
    BY <1>5 DEF Store, Reach, Object
  <1>6. ASSUME NEW t \in Threads, Finish(t)
        PROVE  RecordTypeOK'
    BY <1>6 DEF Finish, Reach
  <1>7. ASSUME NEW r \in Realms, LetGo(r)
        PROVE  RecordTypeOK'
    BY <1>7 DEF LetGo
  <1>8. CASE UNCHANGED fieldsVars
    BY <1>8 DEF fieldsVars
  <1> QED
    BY <1>1, <1>2, <1>3, <1>4, <1>5, <1>6, <1>7, <1>8 DEF FieldsNext

(* A Realm that is gone stays gone: the strong reference a call takes is    *)
(* taken from one that lives.                                               *)
LEMMA DeadStaysDead ==
  ASSUME RecordInv, [FieldsNext]_fieldsVars, NEW realm, Living(realm)'
  PROVE  Living(realm)
  <1> USE DEF RecordInv, RecordTypeOK, Living
  <1>1. ASSUME NEW t \in Threads,
               \E f \in Fields : Hit(t, f) \/ Miss(t, f)
        PROVE  Living(realm)
    BY <1>1 DEF Hit, Miss, Call, Reach
  <1>2. ASSUME NEW t \in Threads, Dereference(t)
        PROVE  Living(realm)
    BY <1>2 DEF Dereference, Reach
  <1>3. ASSUME NEW t \in Threads,
               Convert(t) \/ Store(t) \/ Finish(t)
        PROVE  Living(realm)
    BY <1>3 DEF Convert, Store, Finish, Reach,
                Outcomes
  <1>4. ASSUME NEW r \in Realms, LetGo(r)
        PROVE  Living(realm)
    BY <1>4 DEF LetGo
  <1>5. CASE UNCHANGED fieldsVars
    BY <1>5 DEF fieldsVars
  <1> QED
    BY <1>1, <1>2, <1>3, <1>4, <1>5 DEF FieldsNext

(* What is kept is kept for good, and comes from a value that decodes.      *)
LEMMA KeptStays ==
  ASSUME RecordInv, [FieldsNext]_fieldsVars
  PROVE  /\ KeptDecodes'
         /\ \A f \in Fields : converted[f] # None => converted'[f] # None
  <1> USE DEF RecordInv, RecordTypeOK, Fields, KeptDecodes
  <1>1. ASSUME NEW t \in Threads, Store(t)
        PROVE  /\ KeptDecodes'
               /\ \A f \in Fields : converted[f] # None => converted'[f] # None
    <2>1. raw[at[t]] # Unconvertible /\ None # t
      BY <1>1, NoneAssumption DEF Store, FoundDecides
    <2> QED
      BY <1>1, <2>1 DEF Store
  <1>2. ASSUME UNCHANGED <<raw, converted>>
        PROVE  /\ KeptDecodes'
               /\ \A f \in Fields : converted[f] # None => converted'[f] # None
    BY <1>2
  <1> QED
    BY <1>1, <1>2
    DEF FieldsNext, Hit, Miss, Call, Dereference,
        Convert, Finish, LetGo, fieldsVars

(* Who is in the way of a field: nobody new but by a miss, which finds out. *)
LEMMA OneReaderStays ==
  ASSUME RecordInv, [FieldsNext]_fieldsVars
  PROVE  OneReader'
  <1> USE DEF RecordInv, RecordTypeOK, Fields, OneReader, InFlight,
              Busy
  <1>1. ASSUME NEW t \in Threads, NEW f \in Fields, Hit(t, f)
        PROVE  OneReader'
    BY <1>1 DEF Hit, Call, Reach, Object
  <1>2. ASSUME NEW t \in Threads, NEW f \in Fields, Miss(t, f)
        PROVE  OneReader'
    BY <1>2 DEF Miss, Call, Reach, Kept
  <1>3. ASSUME NEW t \in Threads, Dereference(t)
        PROVE  OneReader'
    BY <1>3 DEF Dereference, Reach
  <1>4. ASSUME NEW t \in Threads, Convert(t)
        PROVE  OneReader'
    BY <1>4 DEF Convert, Reach
  <1>5. ASSUME NEW t \in Threads, Store(t)
        PROVE  OneReader'
    BY <1>5, NoneAssumption DEF Store, Reach, Object
  <1>6. ASSUME NEW t \in Threads, Finish(t)
        PROVE  OneReader'
    BY <1>6 DEF Finish, Reach
  <1>7. ASSUME NEW r \in Realms, LetGo(r)
        PROVE  OneReader'
    BY <1>7 DEF LetGo
  <1>8. CASE UNCHANGED fieldsVars
    BY <1>8 DEF fieldsVars
  <1> QED
    BY <1>1, <1>2, <1>3, <1>4, <1>5, <1>6, <1>7, <1>8 DEF FieldsNext

(* What a thread has found is not undone by any step, its own or another's. *)
LEMMA FoundStays ==
  ASSUME RecordInv, [FieldsNext]_fieldsVars,
         NEW u \in Threads
  PROVE  FoundDecides(u)'
  <1> USE DEF RecordInv, RecordTypeOK, Fields, InCall, Outcomes
  <1>1. FoundDecides(u)
    OBVIOUS
  <1>2. ASSUME UNCHANGED <<raw, reading[u], at[u], began[u]>>
        PROVE  FoundDecides(u)'
    BY <1>1, <1>2, DeadStaysDead DEF FoundDecides
  <1>3. ASSUME NEW f \in Fields, Hit(u, f)
        PROVE  FoundDecides(u)'
    BY <1>3 DEF Hit, Call, Reach, Kept, FoundDecides,
                KeptDecodes
  <1>4. ASSUME NEW f \in Fields, Miss(u, f)
        PROVE  FoundDecides(u)'
    <2>1. /\ reading'[u] = "missed" /\ at'[u] = f /\ "kept" \notin began'[u]
          /\ "alive" \in began'[u] <=> Living(RealmOf[f])
      BY <1>4 DEF Miss, Call, Reach, Kept
    <2> QED
      BY <2>1, DeadStaysDead DEF FoundDecides
  <1>5. CASE Dereference(u)
    BY <1>1, <1>5, DeadStaysDead DEF Dereference, Reach, FoundDecides
  <1>6. CASE Convert(u)
    BY <1>1, <1>6 DEF Convert, Reach, FoundDecides
  <1>7. CASE Store(u)
    BY <1>1, <1>7 DEF Store, Reach, FoundDecides
  <1>8. CASE Finish(u)
    BY <1>8 DEF Finish, Reach, FoundDecides
  <1>9. ASSUME NEW t \in Threads, t # u,
               \/ \E f \in Fields : Hit(t, f) \/ Miss(t, f)
               \/ Dereference(t) \/ Convert(t)
               \/ Store(t) \/ Finish(t)
        PROVE  UNCHANGED <<raw, reading[u], at[u], began[u]>>
    BY <1>9 DEF Hit, Miss, Call, Reach,
                Dereference, Convert, Store, Finish
  <1>10. ASSUME NEW r \in Realms, LetGo(r)
         PROVE  UNCHANGED <<raw, reading[u], at[u], began[u]>>
    BY <1>10 DEF LetGo
  <1>11. CASE UNCHANGED fieldsVars
    BY <1>2, <1>11 DEF fieldsVars
  <1> QED
    BY <1>2, <1>3, <1>4, <1>5, <1>6, <1>7, <1>8, <1>9, <1>10, <1>11
    DEF FieldsNext

(* It holds throughout.                                                     *)
THEOREM RecordInductive == FieldsSpec => []RecordInv
  <1>1. RecordInv /\ [FieldsNext]_fieldsVars => RecordInv'
    BY RecordTypes, KeptStays, OneReaderStays, FoundStays DEF RecordInv
  <1> QED
    BY <1>1, RecordInit, PTL DEF FieldsSpec

(* Without two threads converting it at the same time, a field is one and   *)
(* the same object for everybody who ever reads it.                         *)
THEOREM FieldIsOneObject == FieldsSpec => []OneObject
  <1>1. RecordInv => OneObject
    BY DEF RecordInv, RecordTypeOK, OneReader, OneObject
  <1> QED
    BY <1>1, RecordInductive, PTL

(* What a call of __getitem__ comes to was decided when it began, by what   *)
(* was kept and whether the Realm lived, whatever other threads did since.  *)
THEOREM CallAnsweredAsFound == FieldsSpec => []AnsweredAsFound
  <1>1. RecordInv => AnsweredAsFound
    BY DEF RecordInv, FoundDecides, AnsweredAsFound
  <1> QED
    BY <1>1, RecordInductive, PTL

-----------------------------------------------------------------------------
(* RealmTimestamp.datetime                                                  *)

(* In microseconds and nanoseconds.                                         *)
LEMMA Units ==
  Second \in Int /\ Million \in Int /\ Second = 1000 * Million
  BY SMT DEF Second, Million

(* Floor division leaves less than a microsecond, on both sides of the      *)
(* epoch, and takes a negative timestamp to the second before.              *)
LEMMA Floor ==
  ASSUME NEW n \in Int, - Second < n, n < Second,
         NEW micro, micro = n \div 1000,
         NEW carry, carry = micro \div Million,
         NEW rest, rest = micro % Million
  PROVE  /\ micro \in Int /\ carry \in Int /\ rest \in Int
         /\ 0 <= n - 1000 * micro /\ n - 1000 * micro < 1000
         /\ micro - Million * carry = rest
         /\ 0 <= rest /\ rest < Million
         /\ carry = IF n < 0 THEN -1 ELSE 0
  <1>1. micro \in Int /\ 0 <= n - 1000 * micro /\ n - 1000 * micro < 1000
    BY SMT
  <1>2. - Million <= micro /\ micro < Million /\ (n < 0 <=> micro < 0)
    BY SMT, <1>1 DEF Second, Million
  <1>3. /\ carry \in Int /\ rest \in Int /\ micro - Million * carry = rest
        /\ 0 <= rest /\ rest < Million
    BY SMT, <1>1 DEF Million
  <1>4. carry = IF n < 0 THEN -1 ELSE 0
    BY SMT, <1>1, <1>2, <1>3 DEF Million
  <1> QED
    BY <1>1, <1>3, <1>4

(* Every timestamp Realm Core can hold is rounded down to its microsecond,  *)
(* before the epoch and after it, and refused exactly outside the range.    *)
THEOREM DateTimeRoundsDown ==
  ASSUME NEW t \in Timestamps
  PROVE  RoundedDown(t)
  <1> DEFINE s == t.seconds
             n == t.nanoseconds
             micro == n \div 1000
             carry == micro \div Million
             rest == micro % Million
             second == s + carry
             answer == [second |-> second, microsecond |-> rest]
  <1>1. /\ s \in Int /\ n \in (1 - Second)..(Second - 1)
        /\ s > 0 => n >= 0
        /\ s < 0 => n <= 0
    BY TimestampsAssumption
  <1>2. FirstSecond \in Int /\ LastSecond \in Int
    BY RangeAssumption
  <1>3. Second \in Int /\ Million \in Int
    BY Units
  <1>4. n \in Int /\ - Second < n /\ n < Second
    BY <1>1, <1>3
  <1>5. DateTime(t) =
          IF InRange(second) THEN answer ELSE RealmError
    BY DEF DateTime, Microseconds
  <1>6. RoundedDown(t) <=>
          IF DateTime(t) = RealmError
          THEN \/ s < FirstSecond \/ s > LastSecond
               \/ s = FirstSecond /\ n < 0
          ELSE /\ Ahead(t, DateTime(t)) \in 0..999
               /\ DateTime(t).second \in FirstSecond..LastSecond
               /\ DateTime(t).microsecond \in 0..(Million - 1)
    BY Zenon DEF RoundedDown
  <1> HIDE DEF s, n, micro, carry, rest
  <1>7. /\ micro \in Int /\ carry \in Int /\ rest \in Int
        /\ 0 <= n - 1000 * micro /\ n - 1000 * micro < 1000
        /\ micro - Million * carry = rest
        /\ 0 <= rest /\ rest < Million
        /\ carry = IF n < 0 THEN -1 ELSE 0
    BY <1>4, Floor DEF micro, carry, rest
  <1>8. CASE InRange(second)
    <2>1. answer # RealmError
      BY <1>1, <1>7, RealmErrorAssumption
    <2>2. DateTime(t).second = second /\ DateTime(t).microsecond = rest
      BY <1>5, <1>8
    <2>3. Ahead(t, DateTime(t)) = n - 1000 * micro
      <3>0. Ahead(t, DateTime(t)) = ((s - second) * Second + n) - 1000 * rest
        <4>1. Ahead(t, DateTime(t))
                = ((s - DateTime(t).second) * Second + n)
                    - 1000 * DateTime(t).microsecond
          BY Zenon DEF Ahead, s, n
        <4> DEFINE left == DateTime(t).second
                   micros == DateTime(t).microsecond
        <4>2. left = second /\ micros = rest
          BY <2>2
        <4>3. Ahead(t, DateTime(t)) = ((s - left) * Second + n) - 1000 * micros
          BY <4>1
        <4> HIDE DEF left, micros, second
        <4> QED
          BY <4>2, <4>3
      <3>1. s - second = - carry
        BY SMT, <1>1, <1>7
      <3>2. carry * Second = 1000 * (Million * carry)
        BY SMT, <1>3, <1>7, Units
      <3>3. (- carry) * Second = - (carry * Second)
        BY SMT, <1>3, <1>7
      <3>4. (s - second) * Second = - (1000 * (Million * carry))
        BY <3>1, <3>2, <3>3
      <3> DEFINE lost   == (s - second) * Second
                 borrow == Million * carry
      <3>5. borrow \in Int
        BY SMT, <1>3, <1>7
      <3>6. lost = - (1000 * borrow) /\ micro - borrow = rest
        BY <1>7, <3>4
      <3> HIDE DEF second, lost, borrow
      <3>7. (lost + n) - 1000 * rest = n - 1000 * micro
        BY SMT, <1>4, <1>7, <3>5, <3>6
      <3> QED
        BY <3>0, <3>7 DEF lost
    <2>4. n - 1000 * micro \in 0..999
      BY <1>4, <1>7
    <2>5. second \in FirstSecond..LastSecond
      BY <1>1, <1>2, <1>7, <1>8 DEF InRange
    <2>6. rest \in 0..(Million - 1)
      BY <1>3, <1>7
    <2> QED
      BY <1>5, <1>6, <1>8, <2>1, <2>2, <2>3, <2>4, <2>5, <2>6
  <1>9. CASE ~InRange(second)
    <2>1. \/ s < FirstSecond \/ s > LastSecond
          \/ s = FirstSecond /\ n < 0
      BY <1>1, <1>2, <1>4, <1>7, <1>9 DEF InRange
    <2> QED
      BY <1>5, <1>6, <1>9, <2>1
  <1> QED
    BY <1>8, <1>9

-----------------------------------------------------------------------------
(* RealmLink.__eq__                                                         *)

(* Links compare by the Realm while it lives, and a dead one stays dead.    *)
LEMMA LinksStay ==
  ASSUME RecordInv, [FieldsNext]_fieldsVars, NEW x \in given, NEW y \in given
  PROVE  /\ LinkEq(x, y) => LinkEq(x, y)'
         /\ LinkEq(x, y)' =>
              \/ RealmOf[x.field] = RealmOf[y.field]
              \/ ~Living(RealmOf[x.field])' /\ ~Living(RealmOf[y.field])'
  <1>1. raw' = raw
    BY DEF FieldsNext, Hit, Miss, Dereference, Convert,
           Store, Finish, LetGo, fieldsVars
  <1>2. x.field \in Fields /\ y.field \in Fields
    BY DEF RecordInv, RecordTypeOK
  <1>3. RealmOf[x.field] # None /\ RealmOf[y.field] # None
    BY <1>2, RawsAssumption, RealmOfAssumption, NoneAssumption
    DEF RecordInv, RecordTypeOK, Fields
  <1>4. /\ Living(RealmOf[x.field])' => Living(RealmOf[x.field])
        /\ Living(RealmOf[y.field])' => Living(RealmOf[y.field])
    BY DeadStaysDead
  <1> QED
    BY <1>1, <1>3, <1>4 DEF LinkEq, RealmRef

(* Equal links stay equal, and links of two Realms are equal only once both *)
(* are gone, so that a link can be the key of a dict.                       *)
THEOREM LinksAreKeys == FieldsSpec => KeysKept
  <1> DEFINE Keep ==
        \A x, y \in { o \in given : IsLink(o) } :
          /\ LinkEq(x, y) => LinkEq(x, y)'
          /\ LinkEq(x, y)' =>
               \/ RealmOf[x.field] = RealmOf[y.field]
               \/ ~Living(RealmOf[x.field])' /\ ~Living(RealmOf[y.field])'
  <1>1. RecordInv /\ [FieldsNext]_fieldsVars => [Keep]_fieldsVars
    BY LinksStay
  <1>2. FieldsSpec => [][Keep]_fieldsVars
    BY <1>1, RecordInductive, PTL DEF FieldsSpec
  <1> QED
    BY <1>2, PTL DEF KeysKept
=============================================================================
