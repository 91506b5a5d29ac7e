----------------------- MODULE ResultIterationProofs -----------------------
(***************************************************************************)
(* Proofs about ResultIteration for any number of consumers of a result set *)
(* of any size, damaged anywhere.  Consumers share only the native view, so *)
(* the invariant is one of each consumer that a step of another one, or     *)
(* closing the view, preserves.                                             *)
(***************************************************************************)
EXTENDS ResultIteration, TLAPS

Functions ==
  /\ kind \in [Consumers -> Kinds] /\ DOMAIN plan = Consumers
  /\ next \in [Consumers -> Nat] /\ at \in [Consumers -> Nat]
  /\ status \in [Consumers -> {"suspended", "running", "callback"} \cup Over]
  /\ events \in [Consumers -> Seq({"given", "reported"} \X Int)]
  /\ entries \in Layouts /\ native \in {"open", "closed"}

Typed(c) ==
  /\ plan[c] \in Plans(kind[c])
  /\ next[c] \in 1..(Len(plan[c]) + 1)
  /\ at[c] > 0 => Reading(c) /\ at[c] < Len(Current(c))

InTurn(c) ==
  /\ \A j \in DOMAIN events[c] : events[c][j][2] = Position(plan[c][j])
  /\ Len(events[c]) = IF status[c] = "callback" \/ (status[c] = "raised" /\ kind[c] = "valid")
                      THEN next[c] ELSE next[c] - 1

(* What became of the entries of a consumer had its reason.                 *)
Told(c) ==
  \A j \in DOMAIN events[c] :
    /\ InRange(plan[c][j])
    /\ events[c][j][1] = "given" => Intact(events[c][j][2])
    /\ events[c][j][1] = "reported" =>
         kind[c] = "valid" /\ (~Intact(events[c][j][2]) \/ native = "closed")

(* The segments read so far, and why a consumer is where it is.             *)
Stands(c) ==
  /\ at[c] > 0 => \A j \in 1..at[c] : Current(c)[j] = "readable"
  /\ status[c] \in {"callback", "raised"} =>
       /\ next[c] <= Len(plan[c]) /\ InRange(plan[c][next[c]])
       /\ ~Intact(Place(c)) \/ native = "closed"
  /\ status[c] = "callback" => kind[c] = "valid"
  /\ status[c] = "IndexError" => next[c] <= Len(plan[c]) /\ ~InRange(plan[c][next[c]])
  /\ status[c] = "returned" => next[c] = Len(plan[c]) + 1

CInv(c) == Typed(c) /\ InTurn(c) /\ Told(c) /\ Stands(c)

IInv == Functions /\ \A c \in Consumers : CInv(c)

-----------------------------------------------------------------------------
(* Facts about a consumer                                                   *)

LEMMA PlanIsSequence ==
  ASSUME NEW c \in Consumers, Functions, Typed(c)
  PROVE  /\ plan[c] \in Seq(Int) /\ Len(plan[c]) \in Nat
         /\ kind[c] \in {"iter", "valid"} =>
              /\ Len(plan[c]) = m_count
              /\ \A j \in DOMAIN plan[c] : plan[c][j] \in 0..(m_count - 1)
         /\ kind[c] = "index" => Len(plan[c]) = 1
         /\ m_count \in Nat
  <1>1. m_count \in Nat /\ entries \in Layouts
    BY LayoutsAssumption DEF Functions, m_count
  <1>2. kind[c] \in Kinds
    BY DEF Functions
  <1>3. CASE kind[c] = "index"
    <2>1. PICK k \in Indexes : plan[c] = <<k>>
      BY <1>3 DEF Typed, Plans
    <2>2. k \in Int
      BY IndexesAssumption
    <2> QED
      BY <1>1, <1>3, <2>1, <2>2
  <1>4. CASE kind[c] = "slice"
    <2>1. plan[c] \in Slices[m_count]
      BY <1>4 DEF Typed, Plans
    <2>2. plan[c] \in Seq(0..(m_count - 1))
      BY <1>1, <2>1, SlicesAssumption DEF m_count
    <2>3. 0..(m_count - 1) \subseteq Int
      BY <1>1
    <2> QED
      BY <1>1, <1>4, <2>2, <2>3
  <1>5. CASE kind[c] \in {"iter", "valid"}
    <2>1. plan[c] = [j \in 1..m_count |-> j - 1]
      BY <1>5 DEF Typed, Plans
    <2> QED
      BY <1>1, <1>5, <2>1
  <1> QED
    BY <1>2, <1>3, <1>4, <1>5 DEF Kinds

LEMMA EntryRead ==
  ASSUME NEW c \in Consumers, Functions, Typed(c), next[c] <= Len(plan[c]),
         InRange(plan[c][next[c]])
  PROVE  /\ Place(c) \in 0..(m_count - 1) /\ m_count \in Nat
         /\ Current(c) \in Seq(Segment) /\ Len(Current(c)) \in Nat \ {0}
  <1>1. plan[c][next[c]] \in Int /\ m_count \in Nat
    BY PlanIsSequence DEF Typed
  <1>2. Place(c) \in 0..(m_count - 1)
    BY <1>1 DEF InRange, Place, Position
  <1>3. entries \in Seq(Entry)
    BY LayoutsAssumption DEF Functions
  <1>4. Current(c) \in Entry
    BY <1>1, <1>2, <1>3 DEF Current, m_count
  <1> QED
    BY <1>1, <1>2, <1>4 DEF Entry

(* A consumer that a step leaves alone, while the view at most gets closed. *)
LEMMA LeftAlone ==
  ASSUME NEW c \in Consumers, CInv(c), UNCHANGED result,
         native' = native \/ native' = "closed",
         next'[c] = next[c], at'[c] = at[c], status'[c] = status[c], events'[c] = events[c]
  PROVE  CInv(c)'
  <1>1. entries' = entries /\ kind' = kind /\ plan' = plan
    BY DEF result
  <1>2. /\ m_count' = m_count /\ Plans(kind[c])' = Plans(kind[c])
        /\ \A k : Position(k)' = Position(k) /\ (InRange(k)' <=> InRange(k))
        /\ \A place : Intact(place)' <=> Intact(place)
    BY <1>1 DEF m_count, Plans, Position, InRange, Intact
  <1>3. (Reading(c)' <=> Reading(c)) /\ Place(c)' = Place(c) /\ Current(c)' = Current(c)
    BY <1>1, <1>2 DEF Reading, Place, Current
  <1>4. Typed(c)'
    BY <1>1, <1>2, <1>3 DEF CInv, Typed
  <1>5. InTurn(c)'
    BY <1>1, <1>2 DEF CInv, InTurn
  <1>6. Told(c)'
    BY <1>1, <1>2 DEF CInv, Told
  <1>7. Stands(c)'
    BY <1>1, <1>2, <1>3 DEF CInv, Stands
  <1> QED
    BY <1>4, <1>5, <1>6, <1>7 DEF CInv

-----------------------------------------------------------------------------
(* One step of a consumer                                                   *)

LEMMA OthersLeftAlone ==
  ASSUME IInv, NEW c \in Consumers, UNCHANGED result, native' = native,
         Functions', CInv(c)',
         \A d \in Consumers \ {c} :
           /\ next'[d] = next[d] /\ at'[d] = at[d]
           /\ status'[d] = status[d] /\ events'[d] = events[d]
  PROVE  IInv'
  <1>1. \A d \in Consumers \ {c} : CInv(d)'
    BY LeftAlone DEF IInv
  <1> QED
    BY <1>1 DEF IInv

(* What a step that leaves the result set and the view alone does not       *)
(* change of the operators of a consumer.                                   *)
LEMMA SameResult ==
  ASSUME NEW c \in Consumers, UNCHANGED <<result, native>>
  PROVE  /\ entries' = entries /\ kind' = kind /\ plan' = plan /\ native' = native
         /\ m_count' = m_count /\ Plans(kind[c])' = Plans(kind[c])
         /\ \A k : Position(k)' = Position(k) /\ (InRange(k)' <=> InRange(k))
         /\ \A place : Intact(place)' <=> Intact(place)
         /\ next'[c] = next[c] => Place(c)' = Place(c) /\ Current(c)' = Current(c)
  BY DEF result, m_count, Plans, Position, InRange, Intact, Place, Current

(* Steps that only move a consumer from one status to another.              *)
LEMMA StatusStep ==
  ASSUME IInv, NEW c \in Consumers, NEW what, Now(c, what),
         UNCHANGED <<result, native, next, at, events>>,
         what \in {"suspended", "running", "callback"} \cup Over,
         at[c] = 0,
         status[c] = "callback" => what = "raised",
         status[c] # "callback" => what # "callback" /\ (what = "raised" => kind[c] # "valid"),
         what = "raised" =>
           /\ next[c] <= Len(plan[c]) /\ InRange(plan[c][next[c]])
           /\ ~Intact(Place(c)) \/ native = "closed",
         status[c] = "raised" => FALSE,
         what = "IndexError" => next[c] <= Len(plan[c]) /\ ~InRange(plan[c][next[c]]),
         what = "returned" => next[c] = Len(plan[c]) + 1
  PROVE  IInv'
  <1>1. /\ next' = next /\ at' = at /\ events' = events /\ UNCHANGED <<result, native>>
        /\ UNCHANGED result /\ native' = native
    OBVIOUS
  <1>2. status' = [status EXCEPT ![c] = what] /\ DOMAIN status = Consumers
    BY DEF Now, IInv, Functions
  <1>3. status'[c] = what /\ \A d \in Consumers \ {c} : status'[d] = status[d]
    BY <1>2
  <1>4. Functions'
    BY <1>1, <1>2 DEF IInv, Functions, result
  <1>5. CInv(c)
    BY DEF IInv
  <1>6. Typed(c)' /\ Told(c)'
    BY <1>1, <1>5, SameResult DEF CInv, Typed, Told
  <1>7. InTurn(c)'
    BY <1>1, <1>3, <1>5, SameResult DEF CInv, InTurn, Stands
  <1>8. Stands(c)'
    BY <1>1, <1>3, <1>5, SameResult DEF CInv, Stands
  <1>9. CInv(c)'
    BY <1>6, <1>7, <1>8 DEF CInv
  <1> QED
    BY <1>1, <1>3, <1>4, <1>9, OthersLeftAlone

(* Outside an entry nothing of it is read.                                  *)
LEMMA OutsideEntry ==
  ASSUME IInv, NEW c \in Consumers, ~Reading(c)
  PROVE  at[c] = 0
  BY DEF IInv, Functions, CInv, Typed

LEMMA ResumeStep == \A c \in Consumers : IInv /\ Resume(c) => IInv'
  <1> SUFFICES ASSUME NEW c \in Consumers, IInv, Resume(c) PROVE IInv'
    OBVIOUS
  <1>1. at[c] = 0
    BY OutsideEntry DEF Resume, Reading
  <1> QED
    BY <1>1, StatusStep DEF Resume

LEMMA DropStep == \A c \in Consumers : IInv /\ Drop(c) => IInv'
  <1> SUFFICES ASSUME NEW c \in Consumers, IInv, Drop(c) PROVE IInv'
    OBVIOUS
  <1>1. at[c] = 0
    BY OutsideEntry DEF Drop, Reading
  <1> QED
    BY <1>1, StatusStep DEF Drop, Over

LEMMA FinishStep == \A c \in Consumers : IInv /\ Finish(c) => IInv'
  <1> SUFFICES ASSUME NEW c \in Consumers, IInv, Finish(c) PROVE IInv'
    OBVIOUS
  <1>1. Len(plan[c]) \in Nat /\ next[c] \in 1..(Len(plan[c]) + 1)
    BY PlanIsSequence DEF IInv, CInv, Typed
  <1>2. next[c] = Len(plan[c]) + 1 /\ ~(next[c] <= Len(plan[c]))
    BY <1>1 DEF Finish
  <1>3. at[c] = 0
    BY <1>2, OutsideEntry DEF Reading
  <1> QED
    BY <1>2, <1>3, StatusStep DEF Finish, Over

LEMMA OutOfRangeStep == \A c \in Consumers : IInv /\ OutOfRange(c) => IInv'
  <1> SUFFICES ASSUME NEW c \in Consumers, IInv, OutOfRange(c) PROVE IInv'
    OBVIOUS
  <1>1. at[c] = 0
    BY OutsideEntry DEF OutOfRange, Reading
  <1> QED
    BY <1>1, StatusStep DEF OutOfRange, Over

LEMMA CallbackRaisesStep == \A c \in Consumers : IInv /\ CallbackRaises(c) => IInv'
  <1> SUFFICES ASSUME NEW c \in Consumers, IInv, CallbackRaises(c) PROVE IInv'
    OBVIOUS
  <1>1. at[c] = 0
    BY OutsideEntry DEF CallbackRaises, Reading
  <1>2. /\ next[c] <= Len(plan[c]) /\ InRange(plan[c][next[c]])
        /\ ~Intact(Place(c)) \/ native = "closed"
    BY DEF IInv, CInv, Stands, CallbackRaises
  <1> QED
    BY <1>1, <1>2, StatusStep DEF CallbackRaises, Over

-----------------------------------------------------------------------------
(* Reading an entry                                                         *)

LEMMA EntryHolds ==
  ASSUME IInv, NEW c \in Consumers, Reading(c)
  PROVE  /\ Place(c) \in 0..(m_count - 1) /\ m_count \in Nat
         /\ Len(Current(c)) \in Nat /\ at[c] \in Nat /\ at[c] + 1 \in 1..Len(Current(c))
         /\ \A j \in 1..at[c] : Current(c)[j] = "readable"
         /\ DOMAIN Current(c) = 1..Len(Current(c))
         /\ Intact(Place(c)) <=> \A j \in DOMAIN Current(c) : Current(c)[j] = "readable"
         /\ Len(plan[c]) \in Nat /\ next[c] \in 1..Len(plan[c])
         /\ Len(events[c]) = next[c] - 1
  <1>1. /\ Functions /\ Typed(c) /\ next[c] <= Len(plan[c]) /\ InRange(plan[c][next[c]])
        /\ Stands(c) /\ InTurn(c) /\ status[c] = "running"
    BY DEF IInv, CInv, Reading
  <1>2. /\ Place(c) \in 0..(m_count - 1) /\ m_count \in Nat
        /\ Current(c) \in Seq(Segment) /\ Len(Current(c)) \in Nat \ {0}
    BY <1>1, EntryRead
  <1>3. at[c] \in Nat /\ at[c] + 1 \in 1..Len(Current(c))
    BY <1>1, <1>2 DEF Functions, Typed
  <1>4. \A j \in 1..at[c] : Current(c)[j] = "readable"
    BY <1>1, <1>3 DEF Stands
  <1>5. Intact(Place(c)) <=> \A j \in DOMAIN Current(c) : Current(c)[j] = "readable"
    BY DEF Intact, Current
  <1>6. Len(plan[c]) \in Nat /\ next[c] \in 1..Len(plan[c])
    BY <1>1, PlanIsSequence DEF Typed
  <1>7. Len(events[c]) = next[c] - 1
    BY <1>1 DEF InTurn
  <1> QED
    BY <1>2, <1>3, <1>4, <1>5, <1>6, <1>7

LEMMA UnreadableIsCause ==
  ASSUME IInv, NEW c \in Consumers, Reading(c), ~Readable(c)
  PROVE  ~Intact(Place(c)) \/ native = "closed"
  <1>1. native = "open" \/ native = "closed"
    BY DEF IInv, Functions
  <1>2. at[c] + 1 \in DOMAIN Current(c)
        /\ (Intact(Place(c)) <=> \A j \in DOMAIN Current(c) : Current(c)[j] = "readable")
    BY EntryHolds
  <1> QED
    BY <1>1, <1>2 DEF Readable

LEMMA ReadOnStep == \A c \in Consumers : IInv /\ ReadOn(c) => IInv'
  <1> SUFFICES ASSUME NEW c \in Consumers, IInv, ReadOn(c) PROVE IInv'
    OBVIOUS
  <1>1. /\ Reading(c) /\ Readable(c) /\ at[c] + 1 < Len(Current(c))
        /\ at' = [at EXCEPT ![c] = @ + 1] /\ UNCHANGED <<result, native>>
        /\ UNCHANGED result /\ native' = native
        /\ next' = next /\ status' = status /\ events' = events
    BY DEF ReadOn
  <1>2. /\ at[c] \in Nat /\ Len(Current(c)) \in Nat
        /\ \A j \in 1..at[c] : Current(c)[j] = "readable"
    BY <1>1, EntryHolds
  <1>3. at'[c] = at[c] + 1 /\ \A d \in Consumers \ {c} : at'[d] = at[d]
    BY <1>1 DEF IInv, Functions
  <1>4. Functions'
    <2>1. at' \in [Consumers -> Nat]
      BY <1>1, <1>2 DEF IInv, Functions
    <2> QED
      BY <1>1, <2>1 DEF IInv, Functions, result
  <1>5. CInv(c) /\ Place(c)' = Place(c) /\ Current(c)' = Current(c)
    BY <1>1, SameResult DEF IInv
  <1>6. Reading(c)'
    BY <1>1, SameResult DEF Reading
  <1>7. Typed(c)'
    BY <1>1, <1>3, <1>5, <1>6, SameResult DEF CInv, Typed
  <1>8. InTurn(c)' /\ Told(c)'
    BY <1>1, <1>5, SameResult DEF CInv, InTurn, Told
  <1>9. Stands(c)'
    <2>1. \A j \in 1..at'[c] : Current(c)'[j] = "readable"
      <3>1. \A j \in 1..at'[c] : j \in 1..at[c] \/ j = at[c] + 1
        BY <1>2, <1>3
      <3>2. Current(c)[at[c] + 1] = "readable"
        BY <1>1 DEF Readable
      <3> QED
        BY <1>2, <1>5, <3>1, <3>2
    <2>2. status'[c] = "running"
      BY <1>1 DEF Reading
    <2> QED
      BY <2>1, <2>2 DEF Stands
  <1>10. CInv(c)'
    BY <1>7, <1>8, <1>9 DEF CInv
  <1> QED
    BY <1>1, <1>3, <1>4, <1>10, OthersLeftAlone

LEMMA RaiseStep == \A c \in Consumers : IInv /\ Raise(c) => IInv'
  <1> SUFFICES ASSUME NEW c \in Consumers, IInv, Raise(c) PROVE IInv'
    OBVIOUS
  <1>1. /\ Reading(c) /\ ~Readable(c) /\ kind[c] # "valid"
        /\ status' = [status EXCEPT ![c] = "raised"]
        /\ at' = [at EXCEPT ![c] = 0] /\ UNCHANGED <<result, native>>
        /\ UNCHANGED result /\ native' = native
        /\ next' = next /\ events' = events
    BY DEF Raise, Now
  <1>2. /\ status'[c] = "raised" /\ at'[c] = 0
        /\ \A d \in Consumers \ {c} : status'[d] = status[d] /\ at'[d] = at[d]
    BY <1>1 DEF IInv, Functions
  <1>3. Functions'
    BY <1>1 DEF IInv, Functions, result, Over
  <1>4. CInv(c) /\ status[c] = "running"
    BY <1>1 DEF IInv, Reading
  <1>5. Typed(c)' /\ Told(c)'
    BY <1>1, <1>2, <1>4, SameResult DEF CInv, Typed, Told
  <1>6. InTurn(c)'
    BY <1>1, <1>2, <1>4, SameResult DEF CInv, InTurn
  <1>7. Stands(c)'
    <2>1. /\ next[c] <= Len(plan[c]) /\ InRange(plan[c][next[c]])
          /\ ~Intact(Place(c)) \/ native = "closed"
      BY <1>1, UnreadableIsCause DEF Reading
    <2> QED
      BY <1>1, <1>2, <2>1, SameResult DEF Stands
  <1>8. CInv(c)'
    BY <1>5, <1>6, <1>7 DEF CInv
  <1> QED
    BY <1>1, <1>2, <1>3, <1>8, OthersLeftAlone

(* The next event of a consumer that has had next - 1.                      *)
LEMMA EventAppended ==
  ASSUME IInv, NEW c \in Consumers, Reading(c), NEW fate \in {"given", "reported"},
         events' = [events EXCEPT ![c] = Append(@, <<fate, Place(c)>>)],
         UNCHANGED <<result, native>>,
         fate = "given" => Intact(Place(c)),
         fate = "reported" => kind[c] = "valid" /\ (~Intact(Place(c)) \/ native = "closed")
  PROVE  /\ events' \in [Consumers -> Seq({"given", "reported"} \X Int)]
         /\ Len(events'[c]) = next[c]
         /\ \A j \in DOMAIN events'[c] : events'[c][j][2] = Position(plan[c][j])
         /\ Told(c)'
         /\ \A d \in Consumers \ {c} : events'[d] = events[d]
  <1>1. /\ Place(c) \in Int /\ Len(events[c]) = next[c] - 1 /\ next[c] \in Nat \ {0}
    BY EntryHolds
  <1>2. events[c] \in Seq({"given", "reported"} \X Int) /\ CInv(c)
        /\ events \in [Consumers -> Seq({"given", "reported"} \X Int)]
    BY DEF IInv, Functions
  <1> DEFINE e == <<fate, Place(c)>>
  <1>3. e \in {"given", "reported"} \X Int /\ e[1] = fate /\ e[2] = Place(c)
    BY <1>1
  <1> HIDE DEF e
  <1>4. events'[c] = Append(events[c], e) /\ \A d \in Consumers \ {c} : events'[d] = events[d]
    BY <1>2 DEF e
  <1>5. Append(events[c], e) \in Seq({"given", "reported"} \X Int)
    BY <1>2, <1>3
  <1>6. events' \in [Consumers -> Seq({"given", "reported"} \X Int)]
    BY <1>2, <1>5 DEF e
  <1>7. /\ Len(events'[c]) = next[c] /\ DOMAIN events'[c] = 1..next[c]
        /\ events'[c][next[c]] = e
        /\ \A j \in 1..next[c] : j # next[c] =>
             j \in DOMAIN events[c] /\ events'[c][j] = events[c][j]
    BY <1>1, <1>2, <1>3, <1>4
  <1>8. e[2] = Position(plan[c][next[c]]) /\ InRange(plan[c][next[c]])
    BY <1>3 DEF Place, Reading
  <1>9. \A j \in DOMAIN events'[c] : events'[c][j][2] = Position(plan[c][j])
    BY <1>2, <1>7, <1>8 DEF CInv, InTurn
  <1>10. \A j \in DOMAIN events'[c] :
           /\ InRange(plan[c][j])
           /\ events'[c][j][1] = "given" => Intact(events'[c][j][2])
           /\ events'[c][j][1] = "reported" =>
                kind[c] = "valid" /\ (~Intact(events'[c][j][2]) \/ native = "closed")
    <2> SUFFICES ASSUME NEW j \in DOMAIN events'[c]
                 PROVE /\ InRange(plan[c][j])
                       /\ events'[c][j][1] = "given" => Intact(events'[c][j][2])
                       /\ events'[c][j][1] = "reported" =>
                            kind[c] = "valid"
                            /\ (~Intact(events'[c][j][2]) \/ native = "closed")
      OBVIOUS
    <2>1. CASE j = next[c]
      BY <1>3, <1>7, <1>8, <2>1
    <2>2. CASE j # next[c]
      BY <1>2, <1>7, <2>2 DEF CInv, Told
    <2> QED
      BY <2>1, <2>2
  <1>11. Told(c)'
    BY <1>10, SameResult DEF Told
  <1> QED
    BY <1>4, <1>6, <1>7, <1>9, <1>11

LEMMA ReportStep == \A c \in Consumers : IInv /\ Report(c) => IInv'
  <1> SUFFICES ASSUME NEW c \in Consumers, IInv, Report(c) PROVE IInv'
    OBVIOUS
  <1>1. /\ Reading(c) /\ ~Readable(c) /\ kind[c] = "valid"
        /\ status' = [status EXCEPT ![c] = "callback"]
        /\ events' = [events EXCEPT ![c] = Append(@, <<"reported", Place(c)>>)]
        /\ at' = [at EXCEPT ![c] = 0] /\ UNCHANGED <<result, native>>
        /\ UNCHANGED result /\ native' = native /\ next' = next
    BY DEF Report, Now
  <1>2. /\ status'[c] = "callback" /\ at'[c] = 0
        /\ \A d \in Consumers \ {c} : status'[d] = status[d] /\ at'[d] = at[d]
    BY <1>1 DEF IInv, Functions
  <1>3. ~Intact(Place(c)) \/ native = "closed"
    BY <1>1, UnreadableIsCause
  <1>4. /\ events' \in [Consumers -> Seq({"given", "reported"} \X Int)]
        /\ Len(events'[c]) = next[c]
        /\ \A j \in DOMAIN events'[c] : events'[c][j][2] = Position(plan[c][j])
        /\ Told(c)'
        /\ \A d \in Consumers \ {c} : events'[d] = events[d]
    BY <1>1, <1>3, EventAppended
  <1>5. Functions'
    BY <1>1, <1>4 DEF IInv, Functions, result, Over
  <1>6. CInv(c)
    BY DEF IInv
  <1>7. Typed(c)'
    BY <1>1, <1>2, <1>6, SameResult DEF CInv, Typed
  <1>8. InTurn(c)'
    BY <1>1, <1>2, <1>4, SameResult DEF InTurn
  <1>9. Stands(c)'
    <2>1. next[c] <= Len(plan[c]) /\ InRange(plan[c][next[c]])
      BY <1>1 DEF Reading
    <2> QED
      BY <1>1, <1>2, <1>3, <2>1, SameResult DEF Stands
  <1>10. CInv(c)'
    BY <1>4, <1>7, <1>8, <1>9 DEF CInv
  <1> QED
    BY <1>1, <1>2, <1>4, <1>5, <1>10, OthersLeftAlone

LEMMA GiveStep == \A c \in Consumers : IInv /\ Give(c) => IInv'
  <1> SUFFICES ASSUME NEW c \in Consumers, IInv, Give(c) PROVE IInv'
    OBVIOUS
  <1> DEFINE what == IF Generator(c) THEN "suspended" ELSE "running"
  <1>1. /\ Reading(c) /\ Readable(c) /\ at[c] + 1 = Len(Current(c))
        /\ status' = [status EXCEPT ![c] = what]
        /\ events' = [events EXCEPT ![c] = Append(@, <<"given", Place(c)>>)]
        /\ next' = [next EXCEPT ![c] = @ + 1]
        /\ at' = [at EXCEPT ![c] = 0] /\ UNCHANGED <<result, native>>
        /\ UNCHANGED result /\ native' = native
    BY DEF Give, Now
  <1>2. what \in {"suspended", "running"}
    OBVIOUS
  <1> HIDE DEF what
  <1>3. /\ status'[c] = what /\ at'[c] = 0 /\ next'[c] = next[c] + 1
        /\ \A d \in Consumers \ {c} :
             status'[d] = status[d] /\ at'[d] = at[d] /\ next'[d] = next[d]
    BY <1>1 DEF IInv, Functions
  <1>4. Intact(Place(c))
    <2>1. /\ Len(Current(c)) \in Nat /\ at[c] \in Nat
          /\ \A j \in 1..at[c] : Current(c)[j] = "readable"
          /\ DOMAIN Current(c) = 1..Len(Current(c))
          /\ Intact(Place(c)) <=> \A j \in DOMAIN Current(c) : Current(c)[j] = "readable"
      BY <1>1, EntryHolds
    <2>2. Current(c)[at[c] + 1] = "readable"
      BY <1>1 DEF Readable
    <2>3. \A j \in 1..Len(Current(c)) : j \in 1..at[c] \/ j = at[c] + 1
      BY <1>1, <2>1
    <2> QED
      BY <2>1, <2>2, <2>3
  <1>5. /\ events' \in [Consumers -> Seq({"given", "reported"} \X Int)]
        /\ Len(events'[c]) = next[c]
        /\ \A j \in DOMAIN events'[c] : events'[c][j][2] = Position(plan[c][j])
        /\ Told(c)'
        /\ \A d \in Consumers \ {c} : events'[d] = events[d]
    BY <1>1, <1>4, EventAppended
  <1>6. Functions'
    BY <1>1, <1>2, <1>5 DEF IInv, Functions, result
  <1>7. CInv(c) /\ next[c] \in 1..Len(plan[c]) /\ Len(plan[c]) \in Nat
    BY <1>1, EntryHolds DEF IInv
  <1>8. Typed(c)'
    BY <1>1, <1>3, <1>7, SameResult DEF CInv, Typed
  <1>9. InTurn(c)'
    BY <1>1, <1>2, <1>3, <1>5, <1>7, SameResult DEF InTurn
  <1>10. Stands(c)'
    BY <1>2, <1>3 DEF Stands
  <1>11. CInv(c)'
    BY <1>5, <1>8, <1>9, <1>10 DEF CInv
  <1> QED
    BY <1>1, <1>3, <1>5, <1>6, <1>11, OthersLeftAlone

LEMMA ContinueStep == \A c \in Consumers : IInv /\ Continue(c) => IInv'
  <1> SUFFICES ASSUME NEW c \in Consumers, IInv, Continue(c) PROVE IInv'
    OBVIOUS
  <1>1. /\ status[c] = "callback" /\ status' = [status EXCEPT ![c] = "running"]
        /\ next' = [next EXCEPT ![c] = @ + 1] /\ at' = at /\ events' = events
        /\ UNCHANGED <<result, native>> /\ UNCHANGED result /\ native' = native
    BY DEF Continue, Now
  <1>2. /\ status'[c] = "running" /\ next'[c] = next[c] + 1
        /\ \A d \in Consumers \ {c} : status'[d] = status[d] /\ next'[d] = next[d]
    BY <1>1 DEF IInv, Functions
  <1>3. Functions'
    BY <1>1 DEF IInv, Functions, result
  <1>4. CInv(c) /\ at[c] = 0
    BY <1>1, OutsideEntry DEF IInv, Reading
  <1>5. Len(plan[c]) \in Nat /\ next[c] \in 1..Len(plan[c])
    BY <1>1, <1>4, PlanIsSequence DEF IInv, CInv, Typed, Stands
  <1>6. Typed(c)'
    BY <1>1, <1>2, <1>4, <1>5, SameResult DEF CInv, Typed
  <1>7. InTurn(c)' /\ Told(c)'
    BY <1>1, <1>2, <1>4, <1>5, SameResult DEF CInv, InTurn, Told
  <1>8. Stands(c)'
    BY <1>1, <1>2, <1>4 DEF Stands
  <1>9. CInv(c)'
    BY <1>6, <1>7, <1>8 DEF CInv
  <1> QED
    BY <1>1, <1>2, <1>3, <1>9, OthersLeftAlone

-----------------------------------------------------------------------------
(* The invariant                                                            *)

LEMMA InitIInv == Init => IInv
  <1> SUFFICES ASSUME Init PROVE IInv
    OBVIOUS
  <1>1. Functions
    BY DEF Init, Functions
  <1>2. ASSUME NEW c \in Consumers PROVE CInv(c)
    <2>1. /\ plan[c] \in Plans(kind[c]) /\ next[c] = 1 /\ at[c] = 0
          /\ status[c] = "suspended" /\ events[c] = <<>>
      BY DEF Init
    <2>2. Len(plan[c]) \in Nat
      <3>1. kind[c] \in Kinds /\ m_count \in Nat /\ entries \in Layouts
        BY <1>1, LayoutsAssumption DEF Functions, m_count
      <3>2. CASE kind[c] = "index"
        BY <2>1, <3>2 DEF Plans
      <3>3. CASE kind[c] = "slice"
        BY <2>1, <3>1, <3>3, SlicesAssumption DEF Plans, m_count
      <3>4. CASE kind[c] \in {"iter", "valid"}
        BY <2>1, <3>1, <3>4 DEF Plans
      <3> QED
        BY <3>1, <3>2, <3>3, <3>4 DEF Kinds
    <2> QED
      BY <2>1, <2>2 DEF CInv, Typed, InTurn, Told, Stands
  <1> QED
    BY <1>1, <1>2 DEF IInv

LEMMA CloseStep == IInv /\ Close => IInv'
  <1> SUFFICES ASSUME IInv, Close PROVE IInv'
    OBVIOUS
  <1>1. /\ UNCHANGED result /\ native' = "closed" /\ next' = next /\ at' = at
        /\ status' = status /\ events' = events
    BY DEF Close
  <1>2. Functions'
    BY <1>1 DEF IInv, Functions, result
  <1>3. \A c \in Consumers : CInv(c)'
    BY <1>1, LeftAlone DEF IInv
  <1> QED
    BY <1>2, <1>3 DEF IInv

LEMMA StutterStep == IInv /\ UNCHANGED vars => IInv'
  <1> SUFFICES ASSUME IInv, UNCHANGED vars PROVE IInv'
    OBVIOUS
  <1>1. /\ UNCHANGED result /\ native' = native /\ next' = next /\ at' = at
        /\ status' = status /\ events' = events
    BY DEF vars
  <1>2. Functions'
    BY <1>1 DEF IInv, Functions, result
  <1>3. \A c \in Consumers : CInv(c)'
    BY <1>1, LeftAlone DEF IInv
  <1> QED
    BY <1>2, <1>3 DEF IInv

(* Every step of a consumer, a callback or close keeps what each consumer   *)
(* did, why, and where it may stand.                                        *)
THEOREM Inductive == IInv /\ [Next]_vars => IInv'
  <1> SUFFICES ASSUME IInv, [Next]_vars PROVE IInv'
    OBVIOUS
  <1>1. ASSUME NEW c \in Consumers, Read(c) PROVE IInv'
    BY <1>1, ReadOnStep, GiveStep, RaiseStep, ReportStep DEF Read
  <1>2. ASSUME NEW c \in Consumers, Answer(c) PROVE IInv'
    BY <1>1, <1>2, OutOfRangeStep, FinishStep, ContinueStep, CallbackRaisesStep DEF Answer
  <1>3. ASSUME NEW c \in Consumers, Resume(c) \/ Drop(c) PROVE IInv'
    BY <1>3, ResumeStep, DropStep
  <1>4. CASE Close
    BY <1>4, CloseStep
  <1>5. CASE AllOver \/ UNCHANGED vars
    BY <1>5, StutterStep DEF AllOver
  <1> QED
    BY <1>2, <1>3, <1>4, <1>5 DEF Next

LEMMA Invariant == Spec => []IInv
  BY InitIInv, Inductive, PTL DEF Spec

-----------------------------------------------------------------------------
(* Theorems                                                                 *)

(* The variables of consumers keep their types; a read is never continued   *)
(* behind the last segment of an entry.                                     *)
THEOREM TypeCorrect == Spec => []TypeOK
  <1>1. IInv => TypeOK
    BY DEF IInv, Functions, CInv, Typed, TypeOK
  <1> QED
    BY Invariant, <1>1, PTL

(* Entries have their turn in order and once, for consumers of all kinds.   *)
THEOREM EntriesInTurn == Spec => []EachInTurn
  <1>1. IInv => EachInTurn
    BY DEF IInv, CInv, InTurn, EachInTurn
  <1> QED
    BY Invariant, <1>1, PTL

(* What iter_valid reports is damaged or was read from a closed Realm, and  *)
(* at its end every entry was given or reported.                            *)
THEOREM ValidSalvagesAll == Spec => []AllSalvaged
  <1>1. ASSUME IInv PROVE AllSalvaged
    <2> SUFFICES ASSUME NEW c \in Consumers, kind[c] = "valid", status[c] = "returned"
                 PROVE  /\ Len(events[c]) = m_count
                        /\ \A j \in DOMAIN events[c] :
                             events[c][j][1] = "reported" =>
                               ~Intact(events[c][j][2]) \/ native = "closed"
      BY DEF AllSalvaged
    <2>1. Functions /\ Typed(c) /\ InTurn(c) /\ Told(c) /\ Stands(c)
      BY <1>1 DEF IInv, CInv
    <2>2. Len(plan[c]) = m_count /\ m_count \in Nat
      BY <2>1, PlanIsSequence
    <2>3. Len(events[c]) = m_count
      BY <2>1, <2>2 DEF InTurn, Stands
    <2> QED
      BY <2>1, <2>3 DEF Told
  <1> QED
    BY Invariant, <1>1, PTL

(* No record is made of a damaged entry, and lists and iterations that end  *)
(* normally are complete.                                                   *)
THEOREM NothingIsHidden == Spec => []NothingHidden
  <1>1. ASSUME IInv PROVE NothingHidden
    <2> SUFFICES ASSUME NEW c \in Consumers
                 PROVE  /\ \A j \in DOMAIN events[c] :
                             events[c][j][1] = "given" => Intact(events[c][j][2])
                        /\ status[c] = "returned" /\ kind[c] # "valid" =>
                             /\ Len(events[c]) = Len(plan[c])
                             /\ \A j \in DOMAIN events[c] : events[c][j][1] = "given"
      BY DEF NothingHidden
    <2>1. Functions /\ Typed(c) /\ InTurn(c) /\ Told(c) /\ Stands(c)
      BY <1>1 DEF IInv, CInv
    <2>2. \A j \in DOMAIN events[c] : events[c][j][1] \in {"given", "reported"}
      BY <2>1 DEF Functions
    <2>3. Len(plan[c]) \in Nat
      BY <2>1, PlanIsSequence
    <2>4. status[c] = "returned" => Len(events[c]) = Len(plan[c])
      BY <2>1, <2>3 DEF InTurn, Stands
    <2> QED
      BY <2>1, <2>2, <2>4 DEF Told
  <1> QED
    BY Invariant, <1>1, PTL

(* Exceptions come from damage, from a closed Realm, or from the callback   *)
(* for an entry that was reported.                                          *)
THEOREM RaisesForCause == Spec => []RaisedForCause
  <1>1. IInv => RaisedForCause
    BY DEF IInv, CInv, Stands, RaisedForCause
  <1> QED
    BY Invariant, <1>1, PTL

(* Indexes mean what they mean for a list.                                  *)
THEOREM IndexIsExact == Spec => []IndexExact
  <1>1. ASSUME IInv PROVE IndexExact
    <2> SUFFICES ASSUME NEW c \in Consumers, kind[c] = "index"
                 PROVE  LET k == plan[c][1]
                            inside == -m_count <= k /\ k < m_count
                        IN  /\ status[c] = "IndexError" => ~inside
                            /\ status[c] \in {"returned", "raised"} => inside
                            /\ \A j \in DOMAIN events[c] :
                                 (events[c][j][2] - k) % m_count = 0
      BY DEF IndexExact
    <2> DEFINE k == plan[c][1]
               inside == -m_count <= k /\ k < m_count
    <2>1. Functions /\ Typed(c) /\ InTurn(c) /\ Told(c) /\ Stands(c)
      BY <1>1 DEF IInv, CInv
    <2>2. plan[c] \in Seq(Int) /\ Len(plan[c]) = 1 /\ m_count \in Nat /\ next[c] \in 1..2
      <3> HIDE DEF k, inside
      <3>1. plan[c] \in Seq(Int) /\ Len(plan[c]) = 1 /\ m_count \in Nat
        BY <2>1, PlanIsSequence
      <3>2. next[c] \in 1..(Len(plan[c]) + 1)
        BY <2>1 DEF Typed
      <3> QED
        BY <3>1, <3>2
    <2>3. k \in Int /\ events[c] \in Seq({"given", "reported"} \X Int)
      <3>1. 1 \in DOMAIN plan[c]
        BY <2>2
      <3>2. plan[c][1] \in Int
        BY <2>2, <3>1
      <3>3. events[c] \in Seq({"given", "reported"} \X Int)
        BY <2>1 DEF Functions
      <3> QED
        BY <3>2, <3>3
    <2>4. InRange(k) <=> inside
      BY <2>2, <2>3 DEF InRange, Position
    <2>5. status[c] # "callback" /\ Len(events[c]) = next[c] - 1
      BY <2>1 DEF Stands, InTurn
    <2>6. status[c] \in {"IndexError", "raised"} => next[c] = 1
      BY <2>1, <2>2 DEF Stands
    <2>7. ASSUME NEW j \in DOMAIN events[c] PROVE j = 1 /\ inside
      <3>1. j = 1
        BY <2>2, <2>3, <2>5
      <3> QED
        BY <2>1, <2>4, <3>1 DEF Told
    <2>8. status[c] = "IndexError" => ~inside
      BY <2>1, <2>4, <2>6 DEF Stands
    <2>9. status[c] = "raised" => inside
      BY <2>1, <2>4, <2>6 DEF Stands
    <2>10. status[c] = "returned" => inside
      <3>1. status[c] = "returned" => next[c] = 2
        BY <2>1, <2>2 DEF Stands
      <3>2. status[c] = "returned" => 1 \in DOMAIN events[c]
        BY <2>3, <2>5, <3>1
      <3> QED
        BY <2>7, <3>2
    <2>11. ASSUME NEW j \in DOMAIN events[c]
           PROVE  (events[c][j][2] - k) % m_count = 0
      <3>1. j = 1 /\ inside /\ m_count > 0
        BY <2>2, <2>3, <2>7
      <3>2. events[c][j][2] = Position(k)
        BY <2>1, <3>1 DEF InTurn
      <3>3. events[c][j][2] - k = 0 \/ events[c][j][2] - k = m_count
        BY <2>2, <2>3, <3>2 DEF Position
      <3>4. 0 % m_count = 0 /\ m_count % m_count = 0
        BY <2>2, <3>1
      <3> QED
        BY <3>3, <3>4
    <2> QED
      BY <2>8, <2>9, <2>10, <2>11
  <1> QED
    BY Invariant, <1>1, PTL
=============================================================================
