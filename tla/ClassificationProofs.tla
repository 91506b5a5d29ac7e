------------------------ MODULE ClassificationProofs ------------------------
(***************************************************************************)
(* Proofs about Classification for every set of reference graphs and every  *)
(* set of top references.  The inductive invariant is the loop invariant    *)
(* WalkInv, exactness of the sets already returned, and the fact that what  *)
(* has not been computed yet still has its initial value: a root that no    *)
(* candidate resolves returns the empty set by not touching it.             *)
(***************************************************************************)
EXTENDS Classification, SequenceTheorems, TLAPS

-----------------------------------------------------------------------------
(* What the operations on the stack do to the set of offsets on it          *)

(* The range of a sequence over S lies in S and holds each of its entries.  *)
LEMMA RangeSeq ==
  ASSUME NEW S, NEW s \in Seq(S)
  PROVE  /\ Range(s) \subseteq S
         /\ \A x : x \in Range(s) <=> \E i \in 1..Len(s) : x = s[i]
  <1>1. Range(s) = { s[i] : i \in 1..Len(s) }
    BY RangeEquality
  <1> QED
    BY <1>1, RangeOfSeq

(* The empty stack holds no offset.                                         *)
LEMMA RangeEmpty == Range(<<>>) = {}
  BY DEF Range

(* A stack of one entry holds that entry.                                   *)
LEMMA RangeSingle ==
  ASSUME NEW S, NEW e \in S
  PROVE  <<e>> \in Seq(S) /\ Range(<<e>>) = {e}
  <1>1. Range(<<e>>) = { <<e>>[i] : i \in 1..1 }
    BY DEF Range
  <1> QED
    BY <1>1

(* Pushing an offset adds it to the stack's offsets.                        *)
LEMMA RangeAppend ==
  ASSUME NEW S, NEW s \in Seq(S), NEW e \in S
  PROVE  /\ Append(s, e) \in Seq(S)
         /\ Range(Append(s, e)) = Range(s) \cup {e}
  <1>1. Append(s, e) \in Seq(S) /\ Len(s) \in Nat
    BY AppendProperties, LenProperties
  <1>2. /\ Len(Append(s, e)) = Len(s) + 1
        /\ \A i \in 1..Len(s) : Append(s, e)[i] = s[i]
        /\ Append(s, e)[Len(s) + 1] = e
    BY AppendProperties
  <1>3. ASSUME NEW x \in Range(Append(s, e))
        PROVE  x \in Range(s) \cup {e}
    <2>1. PICK i \in 1..Len(Append(s, e)) : x = Append(s, e)[i]
      BY <1>1, RangeSeq
    <2>2. i \in 1..Len(s) \/ i = Len(s) + 1
      BY <1>1, <1>2
    <2> QED
      BY <1>2, <2>1, <2>2, RangeSeq
  <1>4. ASSUME NEW x \in Range(s) \cup {e}
        PROVE  x \in Range(Append(s, e))
    <2>1. CASE x = e
      <3>1. /\ Len(s) + 1 \in 1..Len(Append(s, e))
            /\ x = Append(s, e)[Len(s) + 1]
        BY <1>1, <1>2, <2>1
      <3> QED
        BY <1>1, <3>1, RangeSeq
    <2>2. CASE x \in Range(s)
      <3>1. PICK i \in 1..Len(s) : x = s[i]
        BY <2>2, RangeSeq
      <3>2. i \in 1..Len(Append(s, e)) /\ x = Append(s, e)[i]
        BY <1>1, <1>2, <3>1
      <3> QED
        BY <1>1, <3>2, RangeSeq
    <2> QED
      BY <2>1, <2>2
  <1> QED
    BY <1>1, <1>3, <1>4

(* Popping the top leaves the other offsets: nothing but the top is lost.   *)
LEMMA RangePop ==
  ASSUME NEW S, NEW s \in Seq(S), s # <<>>
  PROVE  /\ s[Len(s)] \in S
         /\ SubSeq(s, 1, Len(s) - 1) \in Seq(S)
         /\ Range(s) = Range(SubSeq(s, 1, Len(s) - 1)) \cup {s[Len(s)]}
  <1> DEFINE front == SubSeq(s, 1, Len(s) - 1)
  <1>1. Len(s) \in Nat /\ Len(s) # 0
    BY EmptySeq, LenProperties
  <1>2. \A i \in 1..Len(s) : s[i] \in S
    BY ElementOfSeq
  <1>3. s[Len(s)] \in S
    BY <1>1, <1>2
  <1>4. /\ front \in Seq(S)
        /\ Len(front) = Len(s) - 1
        /\ \A i \in 1..(Len(s) - 1) : front[i] = s[i]
    <2>1. \A i \in 1..(Len(s) - 1) : s[i] \in S
      BY <1>1, <1>2
    <2>2. /\ front \in Seq(S)
          /\ Len(front) = IF 1 <= Len(s) - 1 THEN Len(s) - 1 - 1 + 1 ELSE 0
          /\ \A i \in 1..(Len(s) - 1 - 1 + 1) : front[i] = s[1 + i - 1]
      BY <1>1, <2>1, SubSeqProperties
    <2> HIDE DEF front
    <2>3. Len(front) = Len(s) - 1
      <3>1. CASE Len(s) = 1
        BY <2>2, <3>1
      <3>2. CASE Len(s) # 1
        <4>1. \A n \in Nat : n # 0 /\ n # 1 =>
                              1 <= n - 1 /\ n - 1 - 1 + 1 = n - 1
          OBVIOUS
        <4>2. 1 <= Len(s) - 1 /\ Len(s) - 1 - 1 + 1 = Len(s) - 1
          BY <1>1, <3>2, <4>1
        <4> QED
          BY <2>2, <4>2
      <3> QED
        BY <3>1, <3>2
    <2>4. ASSUME NEW i \in 1..(Len(s) - 1)
          PROVE  front[i] = s[i]
      <3>1. Len(s) - 1 - 1 + 1 = Len(s) - 1 /\ 1 + i - 1 = i
        BY <1>1
      <3> QED
        BY <2>2, <3>1
    <2> QED
      BY <2>2, <2>3, <2>4
  <1> HIDE DEF front
  <1>5. ASSUME NEW x \in Range(s)
        PROVE  x \in Range(front) \cup {s[Len(s)]}
    <2>1. PICK i \in 1..Len(s) : x = s[i]
      BY RangeSeq
    <2>2. i = Len(s) \/ i \in 1..(Len(s) - 1)
      BY <1>1
    <2> QED
      BY <1>4, <2>1, <2>2, RangeSeq
  <1>6. ASSUME NEW x \in Range(front) \cup {s[Len(s)]}
        PROVE  x \in Range(s)
    <2>1. CASE x = s[Len(s)]
      BY <1>1, <2>1, RangeSeq
    <2>2. CASE x \in Range(front)
      <3>1. PICK i \in 1..Len(front) : x = front[i]
        BY <1>4, <2>2, RangeSeq
      <3>2. i \in 1..Len(s) /\ x = s[i]
        BY <1>1, <1>4, <3>1
      <3> QED
        BY <3>2, RangeSeq
    <2> QED
      BY <2>1, <2>2
  <1> QED
    BY <1>3, <1>4, <1>5, <1>6 DEF front

(* Testing a child moves it out of the references still to be tested.       *)
LEMMA RangeTail ==
  ASSUME NEW S, NEW s \in Seq(S), s # <<>>
  PROVE  /\ Head(s) \in S
         /\ Tail(s) \in Seq(S)
         /\ Range(s) = {Head(s)} \cup Range(Tail(s))
  <1>1. Len(s) \in Nat /\ Len(s) # 0
    BY EmptySeq, LenProperties
  <1>2. /\ Head(s) \in S
        /\ Tail(s) \in Seq(S)
        /\ Len(Tail(s)) = Len(s) - 1
        /\ \A i \in 1..Len(Tail(s)) : Tail(s)[i] = s[i + 1]
    BY HeadTailProperties
  <1>3. Head(s) = s[1]
    OBVIOUS
  <1>4. ASSUME NEW x \in Range(s)
        PROVE  x \in {Head(s)} \cup Range(Tail(s))
    <2>1. PICK i \in 1..Len(s) : x = s[i]
      BY RangeSeq
    <2>2. CASE i = 1
      BY <1>3, <2>1, <2>2
    <2>3. CASE i # 1
      <3>1. i - 1 \in 1..Len(Tail(s)) /\ x = Tail(s)[i - 1]
        BY <1>1, <1>2, <2>1, <2>3
      <3>2. \E j \in 1..Len(Tail(s)) : x = Tail(s)[j]
        BY <3>1
      <3> QED
        BY <1>2, <3>2, RangeSeq
    <2> QED
      BY <2>2, <2>3
  <1>5. ASSUME NEW x \in {Head(s)} \cup Range(Tail(s))
        PROVE  x \in Range(s)
    <2>1. CASE x = Head(s)
      BY <1>1, <1>3, <2>1, RangeSeq
    <2>2. CASE x \in Range(Tail(s))
      <3>1. PICK i \in 1..Len(Tail(s)) : x = Tail(s)[i]
        BY ZenonT(60), <1>2, <2>2, RangeSeq
      <3>2. i + 1 \in 1..Len(s) /\ x = s[i + 1]
        BY <1>1, <1>2, <3>1
      <3> QED
        BY <3>2, RangeSeq
    <2> QED
      BY <2>1, <2>2
  <1> QED
    BY <1>2, <1>4, <1>5

-----------------------------------------------------------------------------
(* Reachability as a least closed set                                       *)

(* A resolvable root reaches itself.                                        *)
LEMMA ReachRoot ==
  ASSUME NEW g, NEW r \in DOMAIN g
  PROVE  r \in Reach(g, r)
  BY DEF Reach

(* Whatever a reachable array refers to is reachable.                       *)
LEMMA ReachClosed ==
  ASSUME NEW g, WellFormed(g), NEW r, NEW n \in Reach(g, r)
  PROVE  Children(g, n) \subseteq Reach(g, r)
  <1>1. n \in DOMAIN g /\ r \in DOMAIN g
    BY DEF Reach
  <1>2. Children(g, n) \subseteq DOMAIN g
    BY <1>1, RangeSeq DEF WellFormed, Children
  <1>3. ASSUME NEW c \in Children(g, n),
               NEW S \in SUBSET DOMAIN g, r \in S, Closed(g, S)
        PROVE  c \in S
    <2>1. n \in S
      BY <1>3 DEF Reach
    <2> QED
      BY <1>3, <2>1 DEF Closed
  <1> QED
    BY <1>1, <1>2, <1>3 DEF Reach

(* A closed set with the root in it holds everything the root reaches.      *)
LEMMA ReachLeast ==
  ASSUME NEW g, NEW r, NEW S \in SUBSET DOMAIN g, r \in S, Closed(g, S)
  PROVE  Reach(g, r) \subseteq S
  BY DEF Reach

(* A root that names no validated array reaches nothing.                    *)
LEMMA ReachUnresolved ==
  ASSUME NEW g, NEW r, r \notin DOMAIN g
  PROVE  Reach(g, r) = {}
  BY DEF Reach

-----------------------------------------------------------------------------
(* The inductive invariant                                                  *)

(* Results that have not been computed yet are empty, and so is the list of *)
(* references to test outside a walk.                                       *)
NotYet ==
  /\ pc \in {"enterActive", "walkActive"} => active = {}
  /\ pc \notin {"label", "done"} => inactive = {}
  /\ pc # "done" => classified = NoLabels

IInv == TypeOK /\ WalkInv /\ ReachExact /\ NotYet

(* The inductive invariant holds when the function is entered.              *)
LEMMA InitIInv == Init => IInv
  BY DEF Init, IInv, TypeOK, Phases, WalkInv, Walking, ReachExact, NotYet

(* Entering the traversal establishes the loop invariant.                   *)
LEMMA StartWalkInv ==
  ASSUME IInv, NEW root, StartWalk(root), UNCHANGED nodes
  PROVE  /\ pending' \in Seq(DOMAIN nodes) /\ rest' \in Seq(DOMAIN nodes)
         /\ seen' = {}
         /\ Range(pending') = {root} /\ Range(rest') = {}
         /\ root \in Reach(nodes, root)
  <1>1. root \in DOMAIN nodes /\ pending' = <<root>> /\ rest' = <<>> /\ seen' = {}
    BY DEF StartWalk
  <1>2. <<>> \in Seq(DOMAIN nodes) /\ Range(<<>>) = {}
    BY RangeEmpty, EmptySeq
  <1>3. <<root>> \in Seq(DOMAIN nodes) /\ Range(<<root>>) = {root}
    BY <1>1, RangeSingle
  <1> QED
    BY <1>1, <1>2, <1>3, ReachRoot

(* One step of the loop keeps the loop invariant: stated for either root,   *)
(* since both traversals run the same code.                                 *)
LEMMA WalkStepInv ==
  ASSUME TypeOK, NEW root,
         root \in seen \cup Range(pending),
         seen \cup Range(pending) \cup Range(rest) \subseteq Reach(nodes, root),
         \A n \in seen :
           Children(nodes, n) \subseteq seen \cup Range(pending) \cup Range(rest),
         WalkStep, nodes' = nodes
  PROVE  /\ pending' \in Seq(DOMAIN nodes) /\ rest' \in Seq(DOMAIN nodes)
         /\ seen' \subseteq DOMAIN nodes
         /\ root \in seen' \cup Range(pending')
         /\ seen' \cup Range(pending') \cup Range(rest') \subseteq Reach(nodes, root)
         /\ \A n \in seen' :
              Children(nodes, n) \subseteq seen' \cup Range(pending') \cup Range(rest')
  <1> DEFINE top == pending[Len(pending)]
  <1>1. /\ pending \in Seq(DOMAIN nodes) /\ rest \in Seq(DOMAIN nodes)
        /\ seen \subseteq DOMAIN nodes
        /\ WellFormed(nodes)
    BY GraphsAssumption DEF TypeOK
  <1>2. Range(<<>>) = {}
    BY RangeEmpty
  <1>3. CASE SkipSeen
    <2>1. /\ pending # <<>> /\ top \in seen
          /\ pending' = SubSeq(pending, 1, Len(pending) - 1)
          /\ seen' = seen /\ rest' = rest
      BY <1>3 DEF SkipSeen
    <2>2. /\ pending' \in Seq(DOMAIN nodes)
          /\ Range(pending) = Range(pending') \cup {top}
      BY <1>1, <2>1, RangePop
    <2> QED
      BY <1>1, <2>1, <2>2
  <1>4. CASE Expand
    <2>1. /\ pending # <<>> /\ rest = <<>>
          /\ pending' = SubSeq(pending, 1, Len(pending) - 1)
          /\ seen' = seen \cup {top}
          /\ rest' = nodes[top]
      BY <1>4 DEF Expand
    <2>2. /\ pending' \in Seq(DOMAIN nodes)
          /\ Range(pending) = Range(pending') \cup {top}
          /\ top \in DOMAIN nodes
      BY <1>1, <2>1, RangePop
    <2>3. rest' \in Seq(DOMAIN nodes) /\ Range(rest') = Children(nodes, top)
      BY <1>1, <2>1, <2>2 DEF WellFormed, Children
    <2>4. Children(nodes, top) \subseteq Reach(nodes, root)
      <3>1. top \in Reach(nodes, root)
        BY <2>2
      <3> QED
        BY <1>1, <3>1, ReachClosed
    <2>5. Range(rest) = {}
      BY <1>2, <2>1
    <2>6. seen' \cup Range(pending') = seen \cup Range(pending)
      BY <2>1, <2>2
    <2> HIDE DEF top
    <2> QED
      BY <1>1, <2>1, <2>2, <2>3, <2>4, <2>5, <2>6
  <1>5. CASE PushChild
    <2> DEFINE child == Head(rest)
    <2>1. /\ rest # <<>>
          /\ pending' = IF child \in seen THEN pending ELSE Append(pending, child)
          /\ rest' = Tail(rest)
          /\ seen' = seen
      BY <1>5 DEF PushChild
    <2>2. /\ child \in DOMAIN nodes
          /\ rest' \in Seq(DOMAIN nodes)
          /\ Range(rest) = {child} \cup Range(rest')
      BY <1>1, <2>1, RangeTail
    <2>3. CASE child \in seen
      BY <1>1, <2>1, <2>2, <2>3
    <2>4. CASE child \notin seen
      <3>1. /\ pending' \in Seq(DOMAIN nodes)
            /\ Range(pending') = Range(pending) \cup {child}
        BY <1>1, <2>1, <2>2, <2>4, RangeAppend
      <3> HIDE DEF child
      <3>2. seen' \cup Range(pending') \cup Range(rest')
              = seen \cup Range(pending) \cup Range(rest)
        BY <2>1, <2>2, <3>1
      <3> QED
        BY <1>1, <2>1, <2>2, <3>1, <3>2
    <2> QED
      BY <2>3, <2>4
  <1> QED
    BY <1>3, <1>4, <1>5 DEF WalkStep

(* When the loop ends the visited set is exactly what the root reaches.     *)
LEMMA WalkDoneExact ==
  ASSUME TypeOK, NEW root,
         root \in seen \cup Range(pending),
         seen \cup Range(pending) \cup Range(rest) \subseteq Reach(nodes, root),
         \A n \in seen :
           Children(nodes, n) \subseteq seen \cup Range(pending) \cup Range(rest),
         WalkDone
  PROVE  seen = Reach(nodes, root)
  <1>1. Range(pending) = {} /\ Range(rest) = {}
    BY RangeEmpty DEF WalkDone
  <1>2. seen \in SUBSET DOMAIN nodes /\ root \in seen /\ Closed(nodes, seen)
    BY <1>1 DEF TypeOK, Closed
  <1>3. Reach(nodes, root) \subseteq seen
    BY <1>2, ReachLeast
  <1> QED
    BY <1>1, <1>3

-----------------------------------------------------------------------------
(* Every step keeps the inductive invariant                                 *)

(* Entering the first traversal, or skipping it for an unresolved root.     *)
LEMMA EnterActiveIInv == IInv /\ EnterActive => IInv'
  <1> SUFFICES ASSUME IInv, EnterActive
               PROVE  IInv'
    OBVIOUS
  <1>1. /\ pc = "enterActive"
        /\ UNCHANGED <<args, active, inactive, classified>>
        /\ active = {} /\ inactive = {} /\ classified = NoLabels
    BY DEF EnterActive, IInv, NotYet
  <1>2. CASE StartWalk(activeRoot) /\ pc' = "walkActive"
    <2>1. /\ pending' \in Seq(DOMAIN nodes) /\ rest' \in Seq(DOMAIN nodes)
          /\ seen' = {}
          /\ Range(pending') = {activeRoot} /\ Range(rest') = {}
          /\ activeRoot \in Reach(nodes, activeRoot)
      BY <1>1, <1>2, StartWalkInv DEF args
    <2>2. TypeOK'
      BY <1>1, <1>2, <2>1 DEF IInv, TypeOK, Phases, args
    <2>3. WalkInv'
      BY <1>1, <1>2, <2>1 DEF WalkInv, CurrentRoot, args
    <2> QED
      BY <1>1, <1>2, <2>2, <2>3 DEF IInv, ReachExact, NotYet, args
  <1>3. CASE activeRoot \notin DOMAIN nodes /\ pc' = "enterInactive" /\ UNCHANGED walk
    <2>1. TypeOK'
      BY <1>1, <1>3 DEF IInv, TypeOK, Phases, args, walk
    <2>2. WalkInv' /\ NotYet'
      BY <1>1, <1>3 DEF WalkInv, Walking, NotYet, args
    <2>3. ReachExact'
      BY <1>1, <1>3, ReachUnresolved DEF ReachExact, args
    <2> QED
      BY <2>1, <2>2, <2>3 DEF IInv
  <1> QED
    BY <1>2, <1>3 DEF EnterActive

(* Entering the second traversal, or skipping it for an unresolved root.    *)
LEMMA EnterInactiveIInv == IInv /\ EnterInactive => IInv'
  <1> SUFFICES ASSUME IInv, EnterInactive
               PROVE  IInv'
    OBVIOUS
  <1>1. /\ pc = "enterInactive"
        /\ UNCHANGED <<args, active, inactive, classified>>
        /\ active = Reach(nodes, activeRoot)
        /\ inactive = {} /\ classified = NoLabels
    BY DEF EnterInactive, IInv, NotYet, ReachExact
  <1>2. CASE StartWalk(inactiveRoot) /\ pc' = "walkInactive"
    <2>1. /\ pending' \in Seq(DOMAIN nodes) /\ rest' \in Seq(DOMAIN nodes)
          /\ seen' = {}
          /\ Range(pending') = {inactiveRoot} /\ Range(rest') = {}
          /\ inactiveRoot \in Reach(nodes, inactiveRoot)
      BY <1>1, <1>2, StartWalkInv DEF args
    <2>2. TypeOK'
      BY <1>1, <1>2, <2>1 DEF IInv, TypeOK, Phases, args
    <2>3. WalkInv'
      BY <1>1, <1>2, <2>1 DEF WalkInv, CurrentRoot, args
    <2> QED
      BY <1>1, <1>2, <2>2, <2>3 DEF IInv, ReachExact, NotYet, args
  <1>3. CASE inactiveRoot \notin DOMAIN nodes /\ pc' = "label" /\ UNCHANGED walk
    <2>1. TypeOK'
      BY <1>1, <1>3 DEF IInv, TypeOK, Phases, args, walk
    <2>2. WalkInv' /\ NotYet'
      BY <1>1, <1>3 DEF WalkInv, Walking, NotYet, args
    <2>3. ReachExact'
      BY <1>1, <1>3, ReachUnresolved DEF ReachExact, args
    <2> QED
      BY <2>1, <2>2, <2>3 DEF IInv
  <1> QED
    BY <1>2, <1>3 DEF EnterInactive

(* A loop step of either traversal.                                         *)
LEMMA WalkIInv == IInv /\ (WalkActive \/ WalkInactive) => IInv'
  <1> SUFFICES ASSUME IInv, WalkActive \/ WalkInactive
               PROVE  IInv'
    OBVIOUS
  <1>1. /\ Walking /\ WalkStep
        /\ UNCHANGED <<args, pc, active, inactive, classified>>
    BY DEF WalkActive, WalkInactive, Walking
  <1>2. /\ nodes' = nodes /\ CurrentRoot' = CurrentRoot /\ Walking'
    BY <1>1 DEF args, CurrentRoot, Walking
  <1>3. /\ CurrentRoot \in seen \cup Range(pending)
        /\ seen \cup Range(pending) \cup Range(rest) \subseteq Reach(nodes, CurrentRoot)
        /\ \A n \in seen :
             Children(nodes, n) \subseteq seen \cup Range(pending) \cup Range(rest)
    BY <1>1 DEF IInv, WalkInv
  <1>4. /\ pending' \in Seq(DOMAIN nodes) /\ rest' \in Seq(DOMAIN nodes)
        /\ seen' \subseteq DOMAIN nodes
        /\ CurrentRoot \in seen' \cup Range(pending')
        /\ seen' \cup Range(pending') \cup Range(rest') \subseteq Reach(nodes, CurrentRoot)
        /\ \A n \in seen' :
             Children(nodes, n) \subseteq seen' \cup Range(pending') \cup Range(rest')
    BY <1>1, <1>2, <1>3, WalkStepInv DEF IInv
  <1>5. TypeOK'
    BY <1>1, <1>4 DEF IInv, TypeOK, args
  <1>6. WalkInv'
    BY <1>2, <1>4 DEF WalkInv
  <1>7. ReachExact' /\ NotYet'
    BY <1>1 DEF IInv, ReachExact, NotYet, args
  <1> QED
    BY <1>5, <1>6, <1>7 DEF IInv

(* Either traversal returns exactly what its root reaches.                  *)
LEMMA ReturnIInv == IInv /\ (ReturnActive \/ ReturnInactive) => IInv'
  <1> SUFFICES ASSUME IInv, ReturnActive \/ ReturnInactive
               PROVE  IInv'
    OBVIOUS
  <1>1. Walking /\ WalkDone /\ UNCHANGED <<args, walk, classified>>
    BY DEF ReturnActive, ReturnInactive, Walking
  <1>2. seen = Reach(nodes, CurrentRoot)
    BY <1>1, WalkDoneExact DEF IInv, WalkInv
  <1>3. CASE ReturnActive
    <2>1. /\ pc = "walkActive" /\ pc' = "enterInactive"
          /\ active' = seen /\ inactive' = inactive
      BY <1>3 DEF ReturnActive
    <2>2. active' = Reach(nodes, activeRoot)
      BY <1>2, <2>1 DEF CurrentRoot
    <2>3. TypeOK'
      BY <1>1, <2>1 DEF IInv, TypeOK, Phases, args, walk
    <2> QED
      BY <1>1, <2>1, <2>2, <2>3
         DEF IInv, WalkInv, Walking, ReachExact, NotYet, args
  <1>4. CASE ReturnInactive
    <2>1. /\ pc = "walkInactive" /\ pc' = "label"
          /\ inactive' = seen /\ active' = active
      BY <1>4 DEF ReturnInactive
    <2>2. inactive' = Reach(nodes, inactiveRoot)
      BY <1>2, <2>1 DEF CurrentRoot
    <2>3. TypeOK'
      BY <1>1, <2>1 DEF IInv, TypeOK, Phases, args, walk
    <2> QED
      BY <1>1, <2>1, <2>2, <2>3
         DEF IInv, WalkInv, Walking, ReachExact, NotYet, args
  <1> QED
    BY <1>3, <1>4

(* The labels are a function from the arrays to the four labels.            *)
LEMMA LabelNodesIInv == IInv /\ LabelNodes => IInv'
  <1> SUFFICES ASSUME IInv, LabelNodes
               PROVE  IInv'
    OBVIOUS
  <1>1. /\ pc = "label" /\ pc' = "done"
        /\ UNCHANGED <<args, walk, active, inactive>>
        /\ classified' = [offset \in DOMAIN nodes |-> LabelOf(offset)]
    BY DEF LabelNodes
  <1>2. \A offset : LabelOf(offset) \in Labels
    BY DEF LabelOf, Labels
  <1>3. classified' \in [DOMAIN nodes -> Labels]
    BY <1>1, <1>2
  <1>4. TypeOK'
    BY <1>1, <1>3 DEF IInv, TypeOK, Phases, args, walk
  <1> QED
    BY <1>1, <1>4 DEF IInv, WalkInv, Walking, ReachExact, NotYet, args

(* The invariant is inductive.                                              *)
LEMMA NextIInv == IInv /\ [Next]_vars => IInv'
  <1> SUFFICES ASSUME IInv, [Next]_vars
               PROVE  IInv'
    OBVIOUS
  <1>1. CASE EnterActive
    BY <1>1, EnterActiveIInv
  <1>2. CASE EnterInactive
    BY <1>2, EnterInactiveIInv
  <1>3. CASE WalkActive \/ WalkInactive
    BY <1>3, WalkIInv
  <1>4. CASE ReturnActive \/ ReturnInactive
    BY <1>4, ReturnIInv
  <1>5. CASE LabelNodes
    BY <1>5, LabelNodesIInv
  <1>6. CASE UNCHANGED vars
    BY <1>6 DEF vars, IInv, TypeOK, WalkInv, Walking, CurrentRoot, ReachExact,
                NotYet
  <1> QED
    BY <1>1, <1>2, <1>3, <1>4, <1>5, <1>6 DEF Next, Finished

(* The inductive invariant holds throughout every run.                      *)
THEOREM Inductive == Spec => []IInv
  BY InitIInv, NextIInv, PTL DEF Spec

(* The variables of the traversals keep their types, on every graph.        *)
THEOREM TypeCorrect == Spec => []TypeOK
  <1>1. IInv => TypeOK
    BY DEF IInv
  <1> QED
    BY <1>1, Inductive, PTL

(* The traversal invents no structure and overlooks none (_reachable).      *)
THEOREM TraversalCorrect == Spec => []WalkInv
  <1>1. IInv => WalkInv
    BY DEF IInv
  <1> QED
    BY <1>1, Inductive, PTL

(* The sets handed to the labelling are exactly what each root reaches, on  *)
(* every reference graph: cyclic, shared, with repeated references or with  *)
(* a root that resolves to nothing.                                         *)
THEOREM ReachabilityExact == Spec => []ReachExact
  <1>1. IInv => ReachExact
    BY DEF IInv
  <1> QED
    BY <1>1, Inductive, PTL

-----------------------------------------------------------------------------
(* Refinement                                                               *)

(* From exact sets, the labelling of the code is the documented one.        *)
LEMMA LabelsCorrect ==
  ASSUME active = Reach(nodes, activeRoot),
         inactive = Reach(nodes, inactiveRoot)
  PROVE  CorrectLabels(nodes, activeRoot, inactiveRoot,
                       [offset \in DOMAIN nodes |-> LabelOf(offset)])
  <1> DEFINE labels == [offset \in DOMAIN nodes |-> LabelOf(offset)]
  <1>1. labels \in [DOMAIN nodes -> Labels]
    BY DEF LabelOf, Labels
  <1>2. ASSUME NEW n \in DOMAIN nodes
        PROVE  /\ LabelOf(n) = "active"   <=> n \in active \ inactive
               /\ LabelOf(n) = "inactive" <=> n \in inactive \ active
               /\ LabelOf(n) = "shared"   <=> n \in active \cap inactive
               /\ LabelOf(n) = "orphan"   <=> n \notin active \cup inactive
    BY DEF LabelOf
  <1> QED
    BY <1>1, <1>2 DEF CorrectLabels

(* Every run of the two traversals and the labelling implements the one     *)
(* step specification: the answer appears at once, is the documented one    *)
(* and is never changed.                                                    *)
THEOREM Refinement == Spec => ImplementsLabelling
  <1>1. Init => Labelling!Init
    BY DEF Init, Labelling!Init
  <1>2. IInv /\ [Next]_vars => [Labelling!Publish]_(Labelling!vars)
    <2> SUFFICES ASSUME IInv, [Next]_vars
                 PROVE  Labelling!Publish \/ UNCHANGED Labelling!vars
      OBVIOUS
    <2>1. CASE LabelNodes
      <3>1. /\ active = Reach(nodes, activeRoot)
            /\ inactive = Reach(nodes, inactiveRoot)
            /\ classified = NoLabels
        BY <2>1 DEF LabelNodes, IInv, ReachExact, NotYet
      <3>2. CorrectLabels(nodes, activeRoot, inactiveRoot, classified')
        BY <2>1, <3>1, LabelsCorrect DEF LabelNodes
      <3>3. Labelling!CorrectLabels(nodes, activeRoot, inactiveRoot, classified')
        BY <3>2 DEF CorrectLabels, Reach, Closed, Children, Labels, Range,
                    Labelling!CorrectLabels, Labelling!Reach, Labelling!Closed,
                    Labelling!Children, Labelling!Labels, Labelling!Range
      <3> QED
        BY <2>1, <3>1, <3>3 DEF LabelNodes, args, Labelling!Publish
    <2>2. CASE EnterActive \/ WalkActive \/ ReturnActive
      BY <2>2 DEF EnterActive, WalkActive, ReturnActive, args, Labelling!vars
    <2>3. CASE EnterInactive \/ WalkInactive \/ ReturnInactive
      BY <2>3 DEF EnterInactive, WalkInactive, ReturnInactive, args,
                  Labelling!vars
    <2>4. CASE UNCHANGED vars
      BY <2>4 DEF vars, Labelling!vars
    <2> QED
      BY <2>1, <2>2, <2>3, <2>4 DEF Next, Finished
  <1> QED
    BY <1>1, <1>2, Inductive, PTL DEF Spec, ImplementsLabelling, Labelling!Spec
=============================================================================
