-------------------------- MODULE ResultIteration --------------------------
(***************************************************************************)
(* reader.Results over a native result set with damaged entries: indexing,  *)
(* slices, iteration and iter_valid, by several consumers at a time, while  *)
(* the Realm is closed by one of them, by a callback or by another thread.  *)
(*                                                                          *)
(* A native read holds the interpreter lock, but for a UUID it calls back   *)
(* into Python, where other threads may run.  An entry is therefore the     *)
(* sequence of the segments of its properties between such points; each is  *)
(* read at once, and the first one includes the look-up of the object.      *)
(***************************************************************************)
EXTENDS Integers, Sequences

CONSTANTS
  Consumers,  \* an iterator, a slice or an index that is evaluated
  Layouts,    \* the result sets there may be
  Indexes,    \* the integers that are used as an index
  Slices      \* the slices that are taken: range(*indices(n)), for every n

Segment == {"readable", "damaged"}
Entry == Seq(Segment) \ {<<>>}
Kinds == {"iter", "valid", "slice", "index"}

ASSUME LayoutsAssumption == Layouts \subseteq Seq(Entry)
ASSUME IndexesAssumption == Indexes \subseteq Int
ASSUME SlicesAssumption ==
  \A layout \in Layouts : Slices[Len(layout)] \subseteq Seq(0..(Len(layout) - 1))

VARIABLES
  entries,  \* the entries of the result set, never assigned
  native,   \* the native view: "open" or "closed"
  kind,     \* what a consumer is
  plan,     \* the indexes it reads one after the other
  next,     \* which of them it is at
  at,       \* how many segments of that entry are read
  status,   \* what it is doing
  events    \* history: what became of each entry: given or reported, and which

result == <<entries, kind, plan>>
vars == <<result, native, next, at, status, events>>

(* The snapshot NativeResults makes of the number of results.               *)
m_count == Len(entries)

Plans(k) ==
  CASE k = "index" -> { <<j>> : j \in Indexes }
    [] k = "slice" -> Slices[m_count]
    [] OTHER -> { [j \in 1..m_count |-> j - 1] }

Init ==
  /\ entries \in Layouts
  /\ native = "open"
  /\ kind \in [Consumers -> Kinds]
  /\ plan \in [Consumers -> UNION { Plans(k) : k \in Kinds }]
  /\ \A c \in Consumers : plan[c] \in Plans(kind[c])
  /\ next = [c \in Consumers |-> 1]
  /\ at = [c \in Consumers |-> 0]
  /\ status = [c \in Consumers |-> "suspended"]
  /\ events = [c \in Consumers |-> <<>>]

Generator(c) == kind[c] \in {"iter", "valid"}
Now(c, what) == status' = [status EXCEPT ![c] = what]

-----------------------------------------------------------------------------
(* NativeResults::get                                                       *)

\* Mutated form: the index -n is out of range.
Position_Exclusive(index) ==
  IF index < 0 /\ index + m_count # 0 THEN index + m_count
  ELSE IF index < 0 THEN -1 ELSE index

(* A negative index counts from the end.                                    *)
Position(index) == IF index < 0 THEN index + m_count ELSE index

InRange(index) == Position(index) >= 0 /\ Position(index) < m_count

(* The consumer is about to read, or in the middle of, this entry.          *)
Reading(c) ==
  /\ status[c] = "running" /\ next[c] <= Len(plan[c])
  /\ InRange(plan[c][next[c]])
Place(c) == Position(plan[c][next[c]])
Current(c) == entries[Place(c) + 1]

\* Mutated form: damage that comes after a UUID goes unnoticed.
Readable_Lenient(c) ==
  native = "open" /\ (at[c] > 0 \/ Current(c)[1] = "readable")

\* Mutated form: UUID is missing among the types of values.
Readable_NoUuid(c) ==
  native = "open" /\ Len(Current(c)) = 1 /\ Current(c)[1] = "readable"

(* The next segment; in a closed view nothing is.                           *)
Readable(c) == native = "open" /\ Current(c)[at[c] + 1] = "readable"

OutOfRange(c) ==
  /\ status[c] = "running" /\ next[c] <= Len(plan[c])
  /\ ~InRange(plan[c][next[c]])
  /\ Now(c, "IndexError")
  /\ UNCHANGED <<result, native, next, at, events>>

(* A UUID is being made; other threads may run.                             *)
ReadOn(c) ==
  /\ Reading(c) /\ Readable(c) /\ at[c] + 1 < Len(Current(c))
  /\ at' = [at EXCEPT ![c] = @ + 1]
  /\ UNCHANGED <<result, native, next, status, events>>

-----------------------------------------------------------------------------
(* Results                                                                  *)

(* next() of an iterator, or the evaluation of a slice or an index begins.  *)
Resume(c) ==
  /\ status[c] = "suspended"
  /\ Now(c, "running")
  /\ UNCHANGED <<result, native, next, at, events>>

(* The entry is complete: a record is yielded, or added to the list.        *)
Give(c) ==
  /\ Reading(c) /\ Readable(c) /\ at[c] + 1 = Len(Current(c))
  /\ events' = [events EXCEPT ![c] = Append(@, <<"given", Place(c)>>)]
  /\ next' = [next EXCEPT ![c] = @ + 1]
  /\ at' = [at EXCEPT ![c] = 0]
  /\ Now(c, IF Generator(c) THEN "suspended" ELSE "running")
  /\ UNCHANGED <<result, native>>

(* StopIteration, or the list is returned.                                  *)
Finish(c) ==
  /\ status[c] = "running" /\ next[c] > Len(plan[c])
  /\ Now(c, "returned")
  /\ UNCHANGED <<result, native, next, at, events>>

\* Mutated form: a slice leaves out what it cannot read.
Raise_SliceSkips(c) ==
  /\ Reading(c) /\ ~Readable(c) /\ kind[c] # "valid"
  /\ IF kind[c] = "slice"
     THEN next' = [next EXCEPT ![c] = @ + 1] /\ UNCHANGED status
     ELSE Now(c, "raised") /\ UNCHANGED next
  /\ at' = [at EXCEPT ![c] = 0]
  /\ UNCHANGED <<result, native, events>>

(* RealmError: a generator is finished by it, a slice is lost as a whole.   *)
Raise(c) ==
  /\ Reading(c) /\ ~Readable(c) /\ kind[c] # "valid"
  /\ Now(c, "raised")
  /\ at' = [at EXCEPT ![c] = 0]
  /\ UNCHANGED <<result, native, next, events>>

(* iter_valid calls on_error, or warnings.warn without one.                 *)
Report(c) ==
  /\ Reading(c) /\ ~Readable(c) /\ kind[c] = "valid"
  /\ Now(c, "callback")
  /\ events' = [events EXCEPT ![c] = Append(@, <<"reported", Place(c)>>)]
  /\ at' = [at EXCEPT ![c] = 0]
  /\ UNCHANGED <<result, native, next>>

\* Mutated form: the damaged entry is read again.
Continue_Retries(c) ==
  /\ status[c] = "callback"
  /\ Now(c, "running")
  /\ events' = [events EXCEPT ![c] = SubSeq(@, 1, Len(@) - 1)]
  /\ UNCHANGED <<result, native, next, at>>

\* Mutated form: iteration ends with the first damaged entry.
Continue_Stops(c) ==
  /\ status[c] = "callback"
  /\ Now(c, "returned")
  /\ UNCHANGED <<result, native, next, at, events>>

Continue(c) ==
  /\ status[c] = "callback"
  /\ Now(c, "running")
  /\ next' = [next EXCEPT ![c] = @ + 1]
  /\ UNCHANGED <<result, native, at, events>>

(* The callback raises, or a filter turns the warning into an exception.    *)
CallbackRaises(c) ==
  /\ status[c] = "callback"
  /\ Now(c, "raised")
  /\ UNCHANGED <<result, native, next, at, events>>

(* An iterator is given up between two entries.                             *)
Drop(c) ==
  /\ status[c] = "suspended" /\ Generator(c)
  /\ Now(c, "dropped")
  /\ UNCHANGED <<result, native, next, at, events>>

(* Realm.close, in a callback or by another thread.  Results and its        *)
(* iterators own the Realm, so it is not released under them.               *)
Close ==
  /\ native = "open"
  /\ native' = "closed"
  /\ UNCHANGED <<result, next, at, status, events>>

-----------------------------------------------------------------------------

Read(c) == ReadOn(c) \/ Give(c) \/ Raise(c) \/ Report(c)
Answer(c) == Read(c) \/ OutOfRange(c) \/ Finish(c) \/ Continue(c) \/ CallbackRaises(c)

Busy(c) == status[c] \in {"running", "callback"}
AllOver == (\A c \in Consumers : ~Busy(c)) /\ UNCHANGED vars

Next ==
  \/ \E c \in Consumers : Resume(c) \/ Answer(c) \/ Drop(c)
  \/ Close
  \/ AllOver

Spec == Init /\ [][Next]_vars

(* A thread that runs goes on; a callback returns or raises.  Nobody has to *)
(* ask for another record.                                                  *)
FairSpec == Spec /\ \A c \in Consumers : WF_vars(Answer(c))

-----------------------------------------------------------------------------
(* Properties                                                               *)

Intact(place) == \A j \in DOMAIN entries[place + 1] : entries[place + 1][j] = "readable"
Over == {"returned", "raised", "IndexError", "dropped"}

(* Types of the variables of the consumers; within an entry there is always *)
(* a segment left to read.                                                  *)
TypeOK ==
  /\ entries \in Layouts /\ native \in {"open", "closed"}
  /\ kind \in [Consumers -> Kinds]
  /\ \A c \in Consumers : plan[c] \in Plans(kind[c])
  /\ status \in [Consumers -> {"suspended", "running", "callback"} \cup Over]
  /\ \A c \in Consumers :
       /\ next[c] \in 1..(Len(plan[c]) + 1)
       /\ at[c] \in Nat
       /\ at[c] > 0 => Reading(c) /\ at[c] < Len(Current(c))

(* Whatever consumers, callbacks and Close do in between, the entries of a  *)
(* consumer have their turn in its order, each once: given or reported, but *)
(* none left out, repeated or taken for another one.                        *)
EachInTurn ==
  \A c \in Consumers :
    /\ \A j \in DOMAIN events[c] : events[c][j][2] = Position(plan[c][j])
    /\ Len(events[c]) = IF status[c] = "callback" \/ (status[c] = "raised" /\ kind[c] = "valid")
                        THEN next[c] ELSE next[c] - 1

(* iter_valid that came to its end has given every intact entry, unless the *)
(* Realm was closed, and reported the others (README.md: "To salvage later  *)
(* records from a damaged result set").                                     *)
AllSalvaged ==
  \A c \in Consumers : kind[c] = "valid" /\ status[c] = "returned" =>
    /\ Len(events[c]) = m_count
    /\ \A j \in DOMAIN events[c] :
         events[c][j][1] = "reported" => ~Intact(events[c][j][2]) \/ native = "closed"

(* No record is made of an entry of which anything is damaged, also where   *)
(* the damage shows up late, and a list or an iteration that ends normally  *)
(* is complete.                                                             *)
NothingHidden ==
  \A c \in Consumers :
    /\ \A j \in DOMAIN events[c] : events[c][j][1] = "given" => Intact(events[c][j][2])
    /\ status[c] = "returned" /\ kind[c] # "valid" =>
         /\ Len(events[c]) = Len(plan[c])
         /\ \A j \in DOMAIN events[c] : events[c][j][1] = "given"

(* What is raised has its cause: an entry that is damaged, or the Realm was *)
(* closed, also in the middle of the entry; the callback's own exceptions   *)
(* come where an entry was reported.                                        *)
RaisedForCause ==
  \A c \in Consumers : status[c] = "raised" =>
    /\ next[c] <= Len(plan[c]) /\ InRange(plan[c][next[c]])
    /\ ~Intact(Place(c)) \/ native = "closed"

(* An index means what it means for a list of as many records: the entry    *)
(* congruent to it, IndexError exactly outside -n..n-1.                     *)
IndexExact ==
  \A c \in Consumers : kind[c] = "index" =>
    LET k == plan[c][1]
        inside == -m_count <= k /\ k < m_count
    IN  /\ status[c] = "IndexError" => ~inside
        /\ status[c] \in {"returned", "raised"} => inside
        /\ \A j \in DOMAIN events[c] : (events[c][j][2] - k) % m_count = 0

(* Every next(), slice and index is answered, however much is damaged.      *)
Answered == \A c \in Consumers : Busy(c) ~> ~Busy(c)
=============================================================================
