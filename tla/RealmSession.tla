---------------------------- MODULE RealmSession ----------------------------
(***************************************************************************)
(* One open Realm (reader.Realm) and the threads of an application that     *)
(* read records through it: by key (Table.get_by_key, RealmLink.resolve) or *)
(* by position in a result set (Results.__getitem__).  The Realm keeps a    *)
(* weak identity map, _record_cache, so that a record somebody still holds  *)
(* is handed out again instead of being read again.                         *)
(*                                                                          *)
(* A call is split where another thread can run: between the two lookups,   *)
(* the native read, the construction of the Record and its insertion into   *)
(* the map.  A native call is one step, the last call of Realm Core in it,  *)
(* which decides whether it succeeds.  Objects die as CPython lets them:    *)
(* with their last strong reference.                                        *)
(***************************************************************************)
EXTENDS Naturals, FiniteSets

CONSTANTS
  Callers,       \* the threads that call into the Realm
  Tables, Keys,  \* table keys and object keys
  Damaged,       \* the identities Realm Core cannot decode
  Records,       \* Record objects; the place of one that died is used again
  None,
  MaxHeld,       \* bound: how many records the application keeps at a time
  ReadsCounted   \* bound: where the count of native reads saturates

Identity == Tables \X Keys

ASSUME NoneAssumption == None \notin Records /\ None \notin Identity
ASSUME CallersAssumption == IsFiniteSet(Callers)
ASSUME BoundsAssumption == MaxHeld \in Nat /\ ReadsCounted \in Nat

VARIABLES
  handles,  \* the owners of the Realm the application holds
  native,   \* the native view: open, closed, or freed with the Realm
  cache,    \* _record_cache, None where it has no live entry
  ident,    \* (table_key, object_key) of each live Record
  held,     \* the Records the application keeps
  pc,       \* where each caller is
  path,     \* how its call reads: by key or by index of a result set
  want,     \* the identity its call reads
  got,      \* the Record in its frame, or just returned to it
  reads,    \* history: native reads by key of each identity
  raced     \* history: identities two callers constructed at a time

vars == <<handles, native, cache, ident, held, pc, path, want, got, reads,
          raced>>

Owners == {"realm", "table", "results"}
InCall == {"lookup", "native", "recheck", "insert"}
Points == InCall \cup {"idle", "returned"}

(* The Records some strong reference reaches.                               *)
Live == held \cup ({got[c] : c \in Callers} \ {None})

(* Table and Results own the Realm, and so does the frame of every method   *)
(* that runs; Record and RealmLink only refer to it weakly.                 *)
Alive == handles # {} \/ \E c \in Callers : pc[c] \in InCall

Init ==
  /\ handles = {"realm"}
  /\ native = "open"
  /\ cache = [id \in Identity |-> None]
  /\ ident = [r \in Records |-> None]
  /\ held = {}
  /\ pc = [c \in Callers |-> "idle"]
  /\ path = [c \in Callers |-> None]
  /\ want = [c \in Callers |-> None]
  /\ got = [c \in Callers |-> None]
  /\ reads = [id \in Identity |-> 0]
  /\ raced = {}

\* Mutated form: the map keeps the entry of a record that died.
Collect_KeepsDead(entries, idents, view) ==
  /\ ident' = [r \in Records |-> IF r \in Live' THEN idents[r] ELSE None]
  /\ cache' = [id \in Identity |-> IF Alive' THEN entries[id] ELSE None]
  /\ native' = IF Alive' THEN view ELSE "freed"

\* Mutated form: the map loses entries whose record is still held.
Collect_DropsLive(entries, idents, view) ==
  /\ ident' = [r \in Records |-> IF r \in Live' THEN idents[r] ELSE None]
  /\ cache' = [id \in Identity |->
                 IF Alive' /\ entries[id] \in held' THEN entries[id] ELSE None]
  /\ native' = IF Alive' THEN view ELSE "freed"

(* What a step leaves to the reference counts, once it has made the map     *)
(* `entries` and the identities `idents`: records without a reference die   *)
(* and leave the map, and a Realm nobody owns takes the map and the native  *)
(* view with it.                                                            *)
Collect(entries, idents, view) ==
  /\ ident' = [r \in Records |-> IF r \in Live' THEN idents[r] ELSE None]
  /\ cache' = [id \in Identity |->
                 IF Alive' /\ entries[id] \in Live' THEN entries[id] ELSE None]
  /\ native' = IF Alive' THEN view ELSE "freed"

-----------------------------------------------------------------------------
(* Calls                                                                    *)

Begin(c, id, how, at) ==
  /\ pc[c] = "idle"
  /\ pc' = [pc EXCEPT ![c] = at]
  /\ path' = [path EXCEPT ![c] = how]
  /\ want' = [want EXCEPT ![c] = id]
  /\ UNCHANGED <<handles, native, cache, ident, held, got, reads, raced>>

(* Table.get_by_key through an owner, or RealmLink.resolve through its weak *)
(* reference, which raises RealmError once the Realm is gone.               *)
ReadByKey(c, id) == Alive /\ Begin(c, id, "key", "lookup")

(* Results.__getitem__ reads natively before it looks at the map.           *)
ReadByIndex(c, id) == "results" \in handles /\ Begin(c, id, "index", "native")

(* The caller goes on to the next point of its call.                        *)
Advance(c, at) ==
  /\ pc' = [pc EXCEPT ![c] = at]
  /\ UNCHANGED <<handles, native, cache, ident, held, path, want, got, raced>>

(* The call returns the record r.                                           *)
Serve(c, r) ==
  /\ pc' = [pc EXCEPT ![c] = "returned"]
  /\ got' = [got EXCEPT ![c] = r]
  /\ UNCHANGED <<handles, held, path, want, reads, raced>>
  /\ Collect(cache, ident, native)

(* The call raises: the caller has no record and its frame is gone.         *)
Raise(c) ==
  /\ pc' = [pc EXCEPT ![c] = "idle"]
  /\ path' = [path EXCEPT ![c] = None]
  /\ want' = [want EXCEPT ![c] = None]
  /\ UNCHANGED <<handles, held, got, reads, raced>>
  /\ Collect(cache, ident, native)

\* Mutated form: the map is keyed by the object key alone.
CacheKey_ObjectOnly(id) == <<CHOOSE t \in Tables : TRUE, id[2]>>

(* _record_identity: the key of a record in the map.                        *)
CacheKey(id) == <<id[1], id[2]>>

(* Realm._record: the first lookup.                                         *)
Lookup(c) ==
  LET cached == cache[CacheKey(want[c])]
  IN  /\ pc[c] = "lookup"
      /\ \/ cached # None /\ Serve(c, cached)
         \/ cached = None /\ Advance(c, "native") /\ UNCHANGED reads

\* Mutated form: a closed view still answers.
Readable_WhenClosed(id) == id \notin Damaged

(* What Realm Core answers: a closed view and a damaged object raise.       *)
Readable(id) == native = "open" /\ id \notin Damaged

Counted(c) ==
  reads' = IF path[c] = "key" /\ reads[want[c]] < ReadsCounted
           THEN [reads EXCEPT ![want[c]] = @ + 1]
           ELSE reads

(* The native call, with NativeError translated to RealmError.              *)
ReadNative(c) ==
  /\ pc[c] = "native"
  /\ \/ Readable(want[c]) /\ Advance(c, "recheck") /\ Counted(c)
     \/ ~Readable(want[c]) /\ Raise(c)

(* Another caller constructs a record of this identity at this moment.      *)
Contended(c) ==
  \E d \in Callers \ {c} : pc[d] = "insert" /\ want[d] = want[c]

(* Record.__init__: a new object in the caller's frame, not in the map yet. *)
Construct(c, r) ==
  /\ r \in Records \ Live
  /\ pc' = [pc EXCEPT ![c] = "insert"]
  /\ got' = [got EXCEPT ![c] = r]
  /\ ident' = [ident EXCEPT ![r] = want[c]]
  /\ raced' = IF Contended(c) THEN raced \cup {want[c]} ELSE raced
  /\ UNCHANGED <<handles, native, cache, held, path, want, reads>>

\* Mutated form: what was read is wrapped without a second lookup.
Recheck_Missing(c) ==
  /\ pc[c] = "recheck"
  /\ \E r \in Records : Construct(c, r)

(* Realm._record_from_raw: the second lookup.                               *)
Recheck(c) ==
  LET cached == cache[CacheKey(want[c])]
  IN  /\ pc[c] = "recheck"
      /\ \/ cached # None /\ Serve(c, cached)
         \/ cached = None /\ \E r \in Records : Construct(c, r)

(* ... and the insertion, over whatever the map holds by now.               *)
Insert(c) ==
  /\ pc[c] = "insert"
  /\ pc' = [pc EXCEPT ![c] = "returned"]
  /\ UNCHANGED <<handles, held, path, want, got, reads, raced>>
  /\ Collect([cache EXCEPT ![CacheKey(want[c])] = got[c]], ident, native)

-----------------------------------------------------------------------------
(* The application                                                          *)

(* A caller is done with the record it was given, keeping it or not.        *)
Finish(c, kept) ==
  /\ pc[c] = "returned"
  /\ pc' = [pc EXCEPT ![c] = "idle"]
  /\ path' = [path EXCEPT ![c] = None]
  /\ want' = [want EXCEPT ![c] = None]
  /\ got' = [got EXCEPT ![c] = None]
  /\ held' = held \cup kept
  /\ UNCHANGED <<handles, reads, raced>>
  /\ Collect(cache, ident, native)

Keep(c) ==
  /\ Cardinality(held \cup {got[c]}) <= MaxHeld
  /\ Finish(c, {got[c]})

Discard(c) == Finish(c, {})

Forget(c, r) ==
  /\ pc[c] = "idle" /\ r \in held
  /\ held' = held \ {r}
  /\ UNCHANGED <<handles, pc, path, want, got, reads, raced>>
  /\ Collect(cache, ident, native)

(* A Table, made by an owner and owning the Realm itself from then on.      *)
OpenTable(c) ==
  /\ pc[c] = "idle"
  /\ "realm" \in handles
  /\ handles' = handles \cup {"table"}
  /\ UNCHANGED <<native, cache, ident, held, pc, path, want, got, reads, raced>>

(* Table.all, Table.where: a Results, unless the view is closed.            *)
Query(c) ==
  /\ pc[c] = "idle"
  /\ "table" \in handles /\ native = "open"
  /\ handles' = handles \cup {"results"}
  /\ UNCHANGED <<native, cache, ident, held, pc, path, want, got, reads, raced>>

(* Realm.close, also at the end of a with block.  Closing twice is allowed. *)
Close(c) ==
  /\ pc[c] = "idle"
  /\ "realm" \in handles
  /\ native' = "closed"
  /\ UNCHANGED <<handles, cache, ident, held, pc, path, want, got, reads, raced>>

(* The application lets go of the Realm, a Table or a Results.              *)
Release(c, owner) ==
  /\ pc[c] = "idle"
  /\ owner \in handles
  /\ handles' = handles \ {owner}
  /\ UNCHANGED <<held, pc, path, want, got, reads, raced>>
  /\ Collect(cache, ident, native)

Step(c) ==
  \/ \E id \in Identity : ReadByKey(c, id) \/ ReadByIndex(c, id)
  \/ Lookup(c) \/ ReadNative(c) \/ Recheck(c) \/ Insert(c)
  \/ Keep(c) \/ Discard(c)
  \/ \E r \in Records : Forget(c, r)
  \/ OpenTable(c) \/ Query(c) \/ Close(c)
  \/ \E owner \in Owners : Release(c, owner)

(* The application has let go of everything.                                *)
Over == ~Alive /\ Live = {} /\ UNCHANGED vars

Next == (\E c \in Callers : Step(c)) \/ Over

Spec == Init /\ [][Next]_vars

-----------------------------------------------------------------------------
(* Properties                                                               *)

(* Types; a caller has a record exactly while it constructs or was given    *)
(* one, and what it asked for exactly while it is busy.                     *)
TypeOK ==
  /\ handles \subseteq Owners
  /\ native \in {"open", "closed", "freed"}
  /\ cache \in [Identity -> Records \cup {None}]
  /\ ident \in [Records -> Identity \cup {None}]
  /\ held \subseteq Records
  /\ pc \in [Callers -> Points]
  /\ path \in [Callers -> {"key", "index", None}]
  /\ want \in [Callers -> Identity \cup {None}]
  /\ got \in [Callers -> Records \cup {None}]
  /\ reads \in [Identity -> 0..ReadsCounted]
  /\ raced \subseteq Identity
  /\ \A c \in Callers :
       /\ want[c] = None <=> pc[c] = "idle"
       /\ got[c] # None <=> pc[c] \in {"insert", "returned"}

(* The map never serves a dead record or a record of another identity, in   *)
(* whatever order callers look up, insert, drop their records and release   *)
(* the Realm (Realm._record_cache).                                         *)
CacheSound ==
  \A id \in Identity :
    cache[id] # None => cache[id] \in Live /\ ident[cache[id]] = id

(* A caller is given the record it asked for and no other.                  *)
ServedIsAsked ==
  \A c \in Callers : pc[c] = "returned" => ident[got[c]] = want[c]

(* Records that were handed out: reachable, and not still being inserted.   *)
Published ==
  held \cup {got[c] : c \in {d \in Callers : pc[d] = "returned"}}

(* Two records of one identity can only come from two threads that          *)
(* constructed it at the same moment: `friend.resolve() is friend.resolve()`*)
(* (test_reader.py) holds for every record somebody still holds otherwise.  *)
DuplicateNeedsRace ==
  \A r, s \in Published : r # s /\ ident[r] = ident[s] => ident[r] \in raced

(* With no such race, a record stays in the map for as long as somebody     *)
(* holds it and the Realm lives, closed or not.                             *)
LiveIsCached ==
  Alive => \A r \in Published : ident[r] \notin raced => cache[ident[r]] = r

(* One thread: a record that is held is never read again by key, so it is   *)
(* still served when the Realm has been closed.                             *)
NoRereadWhileHeld ==
  Cardinality(Callers) = 1 =>
    \A c \in Callers : pc[c] = "native" /\ path[c] = "key" =>
      \A r \in held : ident[r] # want[c]

(* The view is shut and no call is past its native read.                    *)
Quiet ==
  /\ native # "open"
  /\ \A c \in Callers : pc[c] \notin {"recheck", "insert"}

(* Once the Realm is closed and the calls under way have their answer,      *)
(* nothing new is ever read from it: the application's records only become  *)
(* fewer, whatever calls are still made, and the view does not open again.  *)
ClosedOnlyShrinks == [][ Quiet => Quiet' /\ Live' \subseteq Live ]_vars

(* "Accessing a linked field resolves it once and caches the record"        *)
(* (README): no identity is read by key a second time.                      *)
ResolvesOnce == \A id \in Identity : reads[id] <= 1
=============================================================================
