-------------------------- MODULE RealmSessionProofs -------------------------
(***************************************************************************)
(* Proofs about RealmSession for any number of callers, objects and         *)
(* records.  What makes the weak map sound is that a Record under           *)
(* construction is known to one caller only, and what makes it complete is  *)
(* that, races aside, the map has no entry where one is being constructed.  *)
(* open_realm, OpenRealm, is proved about at the end.                       *)
(***************************************************************************)
EXTENDS RealmSession, OpenRealm, FiniteSetTheorems, TLAPS

(* Exactly the live Records have an identity.                               *)
LiveHasIdentity == \A r \in Records : ident[r] # None <=> r \in Live

(* The Record c constructs is its own: nobody was given it, no entry of the *)
(* map and no other construction is of it.                                  *)
Private(c) ==
  pc[c] = "insert" =>
    /\ ident[got[c]] = want[c]
    /\ got[c] \notin Published
    /\ \A id \in Identity : cache[id] # got[c]
    /\ \A d \in Callers \ {c} : pc[d] = "insert" => got[d] # got[c]

(* Races aside, it is the only Record of its identity to be.                *)
Alone(c) ==
  pc[c] = "insert" /\ want[c] \notin raced =>
    /\ cache[want[c]] = None
    /\ \A d \in Callers \ {c} : pc[d] = "insert" => want[d] # want[c]

IInv ==
  /\ TypeOK
  /\ LiveHasIdentity
  /\ CacheSound
  /\ ServedIsAsked
  /\ \A c \in Callers : Private(c) /\ Alone(c)
  /\ DuplicateNeedsRace
  /\ LiveIsCached

-----------------------------------------------------------------------------

(* The map is keyed by the identity itself.                                 *)
LEMMA KeyIsIdentity == \A id \in Identity : CacheKey(id) = id
  BY DEF CacheKey, Identity

(* Whatever was handed out is live.                                         *)
LEMMA PublishedLives ==
  ASSUME TypeOK
  PROVE  Published \subseteq Live /\ Live \subseteq Records
  BY DEF TypeOK, Published, Live

(* The invariant holds at the start.                                        *)
LEMMA InitIInv == Init => IInv
  <1> SUFFICES ASSUME Init PROVE IInv
    OBVIOUS
  <1>1. TypeOK
    BY BoundsAssumption DEF Init, TypeOK, Points, InCall, Owners
  <1>2. Live = {} /\ Published = {}
    BY DEF Init, Live, Published
  <1> QED
    BY <1>1, <1>2
       DEF IInv, Init, LiveHasIdentity, CacheSound, ServedIsAsked, Private, Alone,
           DuplicateNeedsRace, LiveIsCached

(* A step after which there is nothing new: no record, no entry, no call at *)
(* its insertion and no race.                                               *)
LEMMA NothingNew ==
  ASSUME IInv, TypeOK',
         Live' \subseteq Live, Published' \subseteq Published,
         Alive' => Alive, raced' = raced,
         \A r \in Records : ident'[r] = IF r \in Live' THEN ident[r] ELSE None,
         \A id \in Identity :
           /\ cache'[id] # None => cache'[id] = cache[id] /\ cache[id] \in Live'
           /\ Alive' /\ cache[id] \in Live' => cache'[id] = cache[id],
         \A c \in Callers :
           /\ pc'[c] = "insert" =>
                pc[c] = "insert" /\ got'[c] = got[c] /\ want'[c] = want[c]
           /\ pc'[c] = "returned" => ident[got'[c]] = want'[c]
  PROVE  IInv'
  <1>1. Published' \subseteq Live' /\ Live' \subseteq Records
    BY DEF TypeOK, Published, Live
  <1>2. LiveHasIdentity'
    BY DEF IInv, LiveHasIdentity
  <1>3. CacheSound'
    BY <1>1 DEF IInv, CacheSound
  <1>4. ASSUME NEW c \in Callers, pc'[c] = "returned" \/ pc'[c] = "insert"
        PROVE  got'[c] \in Live' /\ got'[c] \in Records
    BY <1>1, <1>4 DEF TypeOK, Live
  <1>5. ServedIsAsked'
    BY <1>4 DEF ServedIsAsked
  <1>6. ASSUME NEW c \in Callers
        PROVE  Private(c)' /\ Alone(c)'
    <2>1. Private(c) /\ Alone(c)
      BY DEF IInv
    <2>2. Private(c)'
      BY <1>4, <2>1, NoneAssumption DEF Private
    <2>3. pc'[c] = "insert" => want[c] \in Identity
      BY DEF TypeOK
    <2>4. Alone(c)'
      BY <2>1, <2>3 DEF Alone
    <2> QED
      BY <2>2, <2>4
  <1>7. DuplicateNeedsRace'
    BY <1>1 DEF IInv, DuplicateNeedsRace
  <1>8. LiveIsCached'
    <2> SUFFICES ASSUME Alive', NEW r \in Published', ident'[r] \notin raced'
                 PROVE  cache'[ident'[r]] = r
      BY DEF LiveIsCached
    <2>1. r \in Live' /\ r \in Records /\ ident'[r] = ident[r]
      BY <1>1
    <2>2. cache[ident[r]] = r
      BY <2>1 DEF IInv, LiveIsCached
    <2>3. ident[r] \in Identity
      BY <2>1 DEF IInv, LiveHasIdentity, TypeOK
    <2> QED
      BY <2>1, <2>2, <2>3
  <1> QED
    BY <1>2, <1>3, <1>5, <1>6, <1>7, <1>8 DEF IInv

(* The same where the reference counts do what Collect says.                *)
LEMMA Collects ==
  ASSUME IInv, Collect(cache, ident, native)
  PROVE  /\ \A r \in Records : ident'[r] = IF r \in Live' THEN ident[r] ELSE None
         /\ \A id \in Identity :
              /\ cache'[id] # None => cache'[id] = cache[id] /\ cache[id] \in Live'
              /\ Alive' /\ cache[id] \in Live' => cache'[id] = cache[id]
         /\ ident' \in [Records -> Identity \cup {None}]
         /\ cache' \in [Identity -> Records \cup {None}]
         /\ native' \in {"open", "closed", "freed"}
  <1> DEFINE L == Live'
             A == Alive'
  <1>1. /\ ident' = [r \in Records |-> IF r \in L THEN ident[r] ELSE None]
        /\ cache' = [id \in Identity |->
                       IF A /\ cache[id] \in L THEN cache[id] ELSE None]
        /\ native' = IF A THEN native ELSE "freed"
    BY DEF Collect
  <1> HIDE DEF L, A
  <1>2. /\ \A r \in Records : ident'[r] = IF r \in L THEN ident[r] ELSE None
        /\ \A id \in Identity :
             cache'[id] = IF A /\ cache[id] \in L THEN cache[id] ELSE None
        /\ ident' \in [Records -> Identity \cup {None}]
        /\ cache' \in [Identity -> Records \cup {None}]
        /\ native' \in {"open", "closed", "freed"}
    BY <1>1 DEF IInv, TypeOK
  <1> QED
    BY <1>2 DEF L, A

(* ... and where nothing dies.                                              *)
LEMMA NothingDies ==
  ASSUME IInv, UNCHANGED <<cache, ident>>, Live' = Live
  PROVE  /\ \A r \in Records : ident'[r] = IF r \in Live' THEN ident[r] ELSE None
         /\ \A id \in Identity :
              /\ cache'[id] # None => cache'[id] = cache[id] /\ cache[id] \in Live'
              /\ Alive' /\ cache[id] \in Live' => cache'[id] = cache[id]
  BY DEF IInv, LiveHasIdentity, CacheSound

-----------------------------------------------------------------------------
(* The actions of a call                                                    *)

(* The call begins.                                                         *)
LEMMA Begins ==
  ASSUME IInv, NEW c \in Callers, NEW id \in Identity,
         ReadByKey(c, id) \/ ReadByIndex(c, id)
  PROVE  IInv'
  <1> DEFINE at == IF ReadByKey(c, id) THEN "lookup" ELSE "native"
             how == IF ReadByKey(c, id) THEN "key" ELSE "index"
  <1>1. /\ pc[c] = "idle"
        /\ pc' = [pc EXCEPT ![c] = at]
        /\ path' = [path EXCEPT ![c] = how]
        /\ want' = [want EXCEPT ![c] = id]
        /\ UNCHANGED <<handles, native, cache, ident, held, got, reads, raced>>
    BY DEF ReadByKey, ReadByIndex, Begin
  <1>2. at \in {"lookup", "native"} /\ how \in {"key", "index"} /\ Alive
    BY DEF ReadByKey, ReadByIndex, Alive
  <1> HIDE DEF at, how
  <1>3. TypeOK'
    BY <1>1, <1>2, NoneAssumption DEF IInv, TypeOK, Points, InCall
  <1>4. Live' = Live /\ Published' = Published
    BY <1>1, <1>2 DEF IInv, TypeOK, Live, Published
  <1>5. ASSUME NEW d \in Callers
        PROVE  /\ pc'[d] = "insert" =>
                    pc[d] = "insert" /\ got'[d] = got[d] /\ want'[d] = want[d]
               /\ pc'[d] = "returned" => ident[got'[d]] = want'[d]
    BY <1>1, <1>2 DEF IInv, TypeOK, ServedIsAsked
  <1> QED
    BY <1>1, <1>2, <1>3, <1>4, <1>5, NothingDies, NothingNew

(* The call goes on.                                                        *)
LEMMA Advances ==
  ASSUME IInv, NEW c \in Callers, NEW at \in {"native", "recheck"},
         pc[c] \in {"lookup", "native"}, Advance(c, at),
         reads' \in [Identity -> 0..ReadsCounted]
  PROVE  IInv'
  <1>1. /\ pc' = [pc EXCEPT ![c] = at]
        /\ UNCHANGED <<handles, native, cache, ident, held, path, want, got, raced>>
    BY DEF Advance
  <1>2. Alive
    BY DEF Alive, InCall
  <1>3. TypeOK'
    BY <1>1 DEF IInv, TypeOK, Points, InCall
  <1>4. Live' = Live /\ Published' = Published
    BY <1>1 DEF IInv, TypeOK, Live, Published
  <1>5. ASSUME NEW d \in Callers
        PROVE  /\ pc'[d] = "insert" =>
                    pc[d] = "insert" /\ got'[d] = got[d] /\ want'[d] = want[d]
               /\ pc'[d] = "returned" => ident[got'[d]] = want'[d]
    BY <1>1 DEF IInv, TypeOK, ServedIsAsked
  <1> QED
    BY <1>1, <1>2, <1>3, <1>4, <1>5, NothingDies, NothingNew

(* The call is served from the map.                                         *)
LEMMA Serves ==
  ASSUME IInv, NEW c \in Callers, pc[c] \in {"lookup", "recheck"},
         cache[CacheKey(want[c])] # None, Serve(c, cache[CacheKey(want[c])])
  PROVE  IInv'
  <1> DEFINE r == cache[want[c]]
  <1>1. want[c] \in Identity /\ CacheKey(want[c]) = want[c] /\ got[c] = None
    BY KeyIsIdentity DEF IInv, TypeOK
  <1>2. /\ pc' = [pc EXCEPT ![c] = "returned"]
        /\ got' = [got EXCEPT ![c] = r]
        /\ UNCHANGED <<handles, held, path, want, reads, raced>>
        /\ Collect(cache, ident, native)
    BY <1>1 DEF Serve
  <1>3. r # None /\ r \in Records /\ r \in Live /\ ident[r] = want[c]
    BY <1>1 DEF IInv, TypeOK, CacheSound
  <1>4. r \in Published
    <2>1. \A d \in Callers : pc[d] = "insert" => got[d] # r
      BY <1>1 DEF IInv, Private
    <2> QED
      BY <1>3, <2>1 DEF Live, Published, IInv, TypeOK
  <1>5. Alive
    BY DEF Alive, InCall
  <1> HIDE DEF r
  <1>6. TypeOK'
    BY <1>1, <1>2, <1>3, Collects DEF IInv, TypeOK, Points
  <1>7. Live' \subseteq Live /\ Published' \subseteq Published
    BY <1>1, <1>2, <1>3, <1>4 DEF IInv, TypeOK, Live, Published
  <1>8. ASSUME NEW d \in Callers
        PROVE  /\ pc'[d] = "insert" =>
                    pc[d] = "insert" /\ got'[d] = got[d] /\ want'[d] = want[d]
               /\ pc'[d] = "returned" => ident[got'[d]] = want'[d]
    BY <1>2, <1>3 DEF IInv, TypeOK, ServedIsAsked
  <1> QED
    BY <1>2, <1>5, <1>6, <1>7, <1>8, Collects, NothingNew

(* The call raises.                                                         *)
LEMMA Raises ==
  ASSUME IInv, NEW c \in Callers, pc[c] = "native", Raise(c)
  PROVE  IInv'
  <1>1. /\ pc' = [pc EXCEPT ![c] = "idle"]
        /\ path' = [path EXCEPT ![c] = None]
        /\ want' = [want EXCEPT ![c] = None]
        /\ UNCHANGED <<handles, held, got, reads, raced>>
        /\ Collect(cache, ident, native)
    BY DEF Raise
  <1>2. Alive
    BY DEF Alive, InCall
  <1>3. TypeOK'
    BY <1>1, Collects DEF IInv, TypeOK, Points
  <1>4. Live' \subseteq Live /\ Published' \subseteq Published
    BY <1>1 DEF IInv, TypeOK, Live, Published
  <1>5. ASSUME NEW d \in Callers
        PROVE  /\ pc'[d] = "insert" =>
                    pc[d] = "insert" /\ got'[d] = got[d] /\ want'[d] = want[d]
               /\ pc'[d] = "returned" => ident[got'[d]] = want'[d]
    BY <1>1 DEF IInv, TypeOK, ServedIsAsked
  <1> QED
    BY <1>1, <1>2, <1>3, <1>4, <1>5, Collects, NothingNew

(* A Record is constructed where the map has none.                          *)
LEMMA Constructs ==
  ASSUME IInv, NEW c \in Callers, NEW r \in Records,
         pc[c] = "recheck", cache[CacheKey(want[c])] = None, Construct(c, r)
  PROVE  IInv'
  <1>1. want[c] \in Identity /\ cache[want[c]] = None /\ got[c] = None
    BY KeyIsIdentity DEF IInv, TypeOK
  <1>2. /\ r \notin Live
        /\ pc' = [pc EXCEPT ![c] = "insert"]
        /\ got' = [got EXCEPT ![c] = r]
        /\ ident' = [ident EXCEPT ![r] = want[c]]
        /\ raced' = IF Contended(c) THEN raced \cup {want[c]} ELSE raced
        /\ UNCHANGED <<handles, native, cache, held, path, want, reads>>
    BY DEF Construct
  <1>3. r # None
    BY NoneAssumption
  <1>4. raced \subseteq raced' /\ raced' \subseteq Identity
    BY <1>1, <1>2 DEF IInv, TypeOK
  <1>5. TypeOK'
    BY <1>1, <1>2, <1>3, <1>4, NoneAssumption DEF IInv, TypeOK, Points, InCall
  <1>6. Live' = Live \cup {r} /\ Published' = Published
    BY <1>1, <1>2, <1>3 DEF IInv, TypeOK, Live, Published
  <1>7. Published \subseteq Live /\ Live \subseteq Records
    BY PublishedLives DEF IInv
  <1>8. Alive
    BY DEF Alive, InCall
  <1>9. \A s \in Records : ident'[s] = IF s = r THEN want[c] ELSE ident[s]
    BY <1>2 DEF IInv, TypeOK
  <1>10. LiveHasIdentity'
    BY <1>1, <1>6, <1>9, NoneAssumption DEF IInv, LiveHasIdentity
  <1>11. \A id \in Identity : cache[id] # r /\ (cache[id] # None => cache[id] \in Live)
    BY <1>2, <1>3 DEF IInv, CacheSound
  <1>12. CacheSound'
    BY <1>2, <1>6, <1>7, <1>9, <1>11 DEF IInv, CacheSound
  <1>13. \A d \in Callers : d # c => /\ pc'[d] = pc[d] /\ got'[d] = got[d]
                                      /\ got[d] # r
    BY <1>2, <1>3 DEF IInv, TypeOK, Live
  <1>14. pc'[c] = "insert" /\ got'[c] = r
    BY <1>2 DEF IInv, TypeOK
  <1>15. ServedIsAsked'
    BY <1>2, <1>5, <1>9, <1>13, <1>14 DEF IInv, ServedIsAsked, TypeOK
  <1>16. ASSUME NEW d \in Callers
         PROVE  Private(d)'
    <2>1. CASE d = c
      BY <1>2, <1>6, <1>7, <1>9, <1>11, <1>13, <1>14, <2>1 DEF Private
    <2>2. CASE d # c
      <3>1. Private(d)
        BY DEF IInv
      <3>2. pc[d] = "insert" => got[d] \in Records
        BY DEF IInv, TypeOK
      <3> QED
        BY <1>2, <1>6, <1>9, <1>13, <1>14, <2>2, <3>1, <3>2 DEF Private
    <2> QED
      BY <2>1, <2>2
  <1>17. ASSUME NEW d \in Callers
         PROVE  Alone(d)'
    <2>1. CASE d = c
      <3>1. want[c] \notin raced' => ~Contended(c)
        BY <1>2
      <3> QED
        BY <1>1, <1>2, <1>13, <2>1, <3>1 DEF Alone, Contended
    <2>2. CASE d # c
      <3>1. Alone(d)
        BY DEF IInv
      <3>2. pc[d] = "insert" /\ want[d] = want[c] => want[c] \in raced'
        BY <1>2, <2>2 DEF Contended
      <3> QED
        BY <1>2, <1>4, <1>13, <2>2, <3>1, <3>2 DEF Alone
    <2> QED
      BY <2>1, <2>2
  <1>18. DuplicateNeedsRace'
    BY <1>2, <1>4, <1>6, <1>7, <1>9 DEF IInv, DuplicateNeedsRace
  <1>19. LiveIsCached'
    BY <1>2, <1>4, <1>6, <1>7, <1>8, <1>9 DEF IInv, LiveIsCached
  <1> QED
    BY <1>5, <1>10, <1>12, <1>15, <1>16, <1>17, <1>18, <1>19 DEF IInv

(* The Record enters the map and is handed out.                             *)
LEMMA Inserts ==
  ASSUME IInv, NEW c \in Callers, Insert(c)
  PROVE  IInv'
  <1> DEFINE r == got[c]
             i == want[c]
             entries == [cache EXCEPT ![i] = r]
  <1>1. /\ pc[c] = "insert"
        /\ pc' = [pc EXCEPT ![c] = "returned"]
        /\ UNCHANGED <<handles, held, path, want, got, reads, raced>>
    BY DEF Insert
  <1>2. i \in Identity /\ CacheKey(i) = i /\ r \in Records /\ r # None
    BY <1>1, KeyIsIdentity DEF IInv, TypeOK
  <1>3. Collect(entries, ident, native)
    BY <1>2 DEF Insert
  <1>4. Alive
    BY <1>1 DEF Alive, InCall
  <1>5. /\ Live' = Live /\ r \in Live
        /\ Published' = Published \cup {r}
    BY <1>1, <1>2 DEF Live, Published, IInv, TypeOK
  <1>6. /\ Published \subseteq Live /\ Live \subseteq Records
    BY PublishedLives DEF IInv
  <1>7. Private(c) /\ Alone(c)
    BY DEF IInv
  <1>8. ident' = ident
    <2>1. ident' = [s \in Records |-> IF s \in Live THEN ident[s] ELSE None]
      BY <1>3, <1>5 DEF Collect
    <2> QED
      BY <2>1 DEF IInv, LiveHasIdentity, TypeOK
  <1>9. /\ \A id \in Identity :
             cache'[id] = IF Alive' THEN entries[id] ELSE None
        /\ cache' \in [Identity -> Records \cup {None}]
        /\ native' \in {"open", "closed", "freed"}
    <2> DEFINE A == Alive'
    <2>1. /\ cache' = [id \in Identity |->
                         IF A /\ entries[id] \in Live THEN entries[id] ELSE None]
          /\ native' = IF A THEN native ELSE "freed"
      BY <1>3, <1>5 DEF Collect
    <2>2. \A id \in Identity : entries[id] \in Live \cup {None}
      BY <1>5 DEF IInv, TypeOK, CacheSound
    <2> HIDE DEF A, entries
    <2>3. /\ \A id \in Identity :
               cache'[id] = IF A THEN entries[id] ELSE None
          /\ cache' \in [Identity -> Records \cup {None}]
      BY <1>6, <2>1, <2>2
    <2>4. native' \in {"open", "closed", "freed"}
      BY <2>1 DEF IInv, TypeOK
    <2> QED
      BY <2>3, <2>4 DEF A
  <1>10. \A id \in Identity : entries[id] = IF id = i THEN r ELSE cache[id]
    BY <1>2 DEF IInv, TypeOK
  <1> HIDE DEF entries
  <1>11. TypeOK'
    BY <1>1, <1>8, <1>9 DEF IInv, TypeOK, Points
  <1>12. ident[r] = i
    BY <1>1, <1>7 DEF Private
  <1>13. LiveHasIdentity'
    BY <1>5, <1>8 DEF IInv, LiveHasIdentity
  <1>14. CacheSound'
    BY <1>5, <1>8, <1>9, <1>10, <1>12 DEF IInv, CacheSound
  <1>15. ServedIsAsked'
    BY <1>1, <1>8, <1>12 DEF IInv, TypeOK, ServedIsAsked
  <1>16. ASSUME NEW d \in Callers
         PROVE  Private(d)' /\ Alone(d)'
    <2> SUFFICES ASSUME pc'[d] = "insert"
                 PROVE  Private(d)' /\ Alone(d)'
      BY DEF Private, Alone
    <2>1. d # c /\ pc[d] = "insert"
      BY <1>1 DEF IInv, TypeOK
    <2>2. Private(d) /\ Alone(d)
      BY DEF IInv
    <2>3. got[d] # r /\ got[d] # None
      BY <1>1, <2>1, <2>2 DEF Private, IInv, TypeOK
    <2>4. \A e \in Callers : pc'[e] = "insert" => pc[e] = "insert"
      BY <1>1 DEF IInv, TypeOK
    <2>5. Private(d)'
      BY <1>1, <1>5, <1>8, <1>9, <1>10, <2>1, <2>2, <2>3, <2>4 DEF Private
    <2>6. want[d] \notin raced => want[d] # i
      BY <1>1, <2>1, <2>2 DEF Alone
    <2>7. want[d] \in Identity
      BY <2>1 DEF IInv, TypeOK
    <2>8. Alone(d)'
      BY <1>1, <1>9, <1>10, <2>1, <2>2, <2>4, <2>6, <2>7 DEF Alone
    <2> QED
      BY <2>5, <2>8
  <1>17. ASSUME NEW s \in Published, ident[s] \notin raced
         PROVE  ident[s] # i
    BY <1>1, <1>2, <1>4, <1>6, <1>7, <1>17, NoneAssumption
       DEF IInv, LiveIsCached, Alone, TypeOK
  <1>18. DuplicateNeedsRace'
    BY <1>1, <1>5, <1>8, <1>12, <1>17 DEF IInv, DuplicateNeedsRace
  <1>19. LiveIsCached'
    <2> SUFFICES ASSUME Alive', NEW s \in Published', ident'[s] \notin raced'
                 PROVE  cache'[ident'[s]] = s
      BY DEF LiveIsCached
    <2>1. CASE s = r
      BY <1>2, <1>8, <1>9, <1>10, <1>12, <2>1
    <2>2. CASE s # r
      <3>1. s \in Published /\ ident[s] \notin raced
        BY <1>1, <1>5, <1>8, <2>2
      <3>2. ident[s] \in Identity
        BY <1>6, <3>1 DEF IInv, LiveHasIdentity, TypeOK
      <3>3. cache[ident[s]] = s
        BY <1>4, <3>1 DEF IInv, LiveIsCached
      <3> QED
        BY <1>8, <1>9, <1>10, <1>17, <3>1, <3>2, <3>3
    <2> QED
      BY <2>1, <2>2
  <1> QED
    BY <1>11, <1>13, <1>14, <1>15, <1>16, <1>18, <1>19 DEF IInv

-----------------------------------------------------------------------------
(* The actions of the application                                           *)

(* A Record is kept or dropped.                                             *)
LEMMA Finishes ==
  ASSUME IInv, NEW c \in Callers, NEW kept, kept \subseteq {got[c]}, Finish(c, kept)
  PROVE  IInv'
  <1>1. /\ pc[c] = "returned"
        /\ pc' = [pc EXCEPT ![c] = "idle"]
        /\ path' = [path EXCEPT ![c] = None]
        /\ want' = [want EXCEPT ![c] = None]
        /\ got' = [got EXCEPT ![c] = None]
        /\ held' = held \cup kept
        /\ UNCHANGED <<handles, reads, raced>>
        /\ Collect(cache, ident, native)
    BY DEF Finish
  <1>2. got[c] \in Records /\ got[c] # None
    BY <1>1 DEF IInv, TypeOK
  <1>3. Alive' => Alive
    BY <1>1 DEF Alive, InCall, IInv, TypeOK
  <1>4. TypeOK'
    <2>1. held' \subseteq Records
      BY <1>1, <1>2 DEF IInv, TypeOK
    <2> QED
      BY <1>1, <2>1, Collects DEF IInv, TypeOK, Points
  <1>5. Live' \subseteq Live /\ Published' \subseteq Published
    BY <1>1, <1>2 DEF IInv, TypeOK, Live, Published
  <1>6. ASSUME NEW d \in Callers
        PROVE  /\ pc'[d] = "insert" =>
                    pc[d] = "insert" /\ got'[d] = got[d] /\ want'[d] = want[d]
               /\ pc'[d] = "returned" => ident[got'[d]] = want'[d]
    BY <1>1 DEF IInv, TypeOK, ServedIsAsked
  <1> QED
    BY <1>1, <1>3, <1>4, <1>5, <1>6, Collects, NothingNew

(* Records and owners are let go.                                           *)
LEMMA LetsGo ==
  ASSUME IInv, held' \subseteq held, handles' \subseteq handles,
         UNCHANGED <<pc, path, want, got, reads, raced>>,
         Collect(cache, ident, native)
  PROVE  IInv'
  <1>1. Alive' => Alive
    BY DEF Alive
  <1>2. TypeOK'
    BY Collects DEF IInv, TypeOK
  <1>3. Live' \subseteq Live /\ Published' \subseteq Published
    BY DEF Live, Published
  <1>4. ASSUME NEW d \in Callers
        PROVE  pc'[d] = "returned" => ident[got'[d]] = want'[d]
    BY DEF IInv, ServedIsAsked
  <1> QED
    BY <1>1, <1>2, <1>3, <1>4, Collects, NothingNew

(* Owners are made, or the view is closed, by an owner.                     *)
LEMMA ByOwner ==
  ASSUME IInv, handles # {}, handles' \subseteq Owners,
         native' \in {"open", "closed", "freed"},
         UNCHANGED <<cache, ident, held, pc, path, want, got, reads, raced>>
  PROVE  IInv'
  <1>1. Alive
    BY DEF Alive
  <1>2. TypeOK'
    BY DEF IInv, TypeOK
  <1>3. Live' = Live /\ Published' = Published
    BY DEF Live, Published
  <1>4. ASSUME NEW d \in Callers
        PROVE  pc'[d] = "returned" => ident[got'[d]] = want'[d]
    BY DEF IInv, ServedIsAsked
  <1> QED
    BY <1>1, <1>2, <1>3, <1>4, NothingDies, NothingNew

LEMMA StepIInv ==
  ASSUME IInv, NEW c \in Callers, Step(c)
  PROVE  IInv'
  <1>1. CASE \E id \in Identity : ReadByKey(c, id) \/ ReadByIndex(c, id)
    BY <1>1, Begins
  <1>2. CASE Lookup(c)
    <2>1. CASE cache[CacheKey(want[c])] # None /\ Serve(c, cache[CacheKey(want[c])])
      BY <1>2, <2>1, Serves DEF Lookup
    <2>2. CASE Advance(c, "native") /\ UNCHANGED reads
      <3>1. reads' \in [Identity -> 0..ReadsCounted]
        BY <2>2 DEF IInv, TypeOK
      <3> QED
        BY <1>2, <2>2, <3>1, Advances DEF Lookup
    <2> QED
      BY <1>2, <2>1, <2>2 DEF Lookup
  <1>3. CASE ReadNative(c)
    <2>1. CASE Advance(c, "recheck") /\ Counted(c)
      <3>1. reads' \in [Identity -> 0..ReadsCounted]
        BY <1>3, <2>1, BoundsAssumption DEF ReadNative, Counted, IInv, TypeOK
      <3> QED
        BY <1>3, <2>1, <3>1, Advances DEF ReadNative
    <2>2. CASE Raise(c)
      BY <1>3, <2>2, Raises DEF ReadNative
    <2> QED
      BY <1>3, <2>1, <2>2 DEF ReadNative
  <1>4. CASE Recheck(c)
    <2>1. CASE cache[CacheKey(want[c])] # None /\ Serve(c, cache[CacheKey(want[c])])
      BY <1>4, <2>1, Serves DEF Recheck
    <2>2. CASE /\ cache[CacheKey(want[c])] = None
               /\ \E r \in Records : Construct(c, r)
      BY <1>4, <2>2, Constructs DEF Recheck
    <2> QED
      BY <1>4, <2>1, <2>2 DEF Recheck
  <1>5. CASE Insert(c)
    BY <1>5, Inserts
  <1>6. CASE Keep(c) \/ Discard(c)
    BY <1>6, Finishes DEF Keep, Discard
  <1>7. CASE \E r \in Records : Forget(c, r)
    BY <1>7, LetsGo DEF Forget
  <1>8. CASE OpenTable(c) \/ Query(c) \/ Close(c)
    <2>1. /\ handles # {} /\ handles' \subseteq Owners
          /\ native' \in {"open", "closed", "freed"}
          /\ UNCHANGED <<cache, ident, held, pc, path, want, got, reads, raced>>
      BY <1>8 DEF OpenTable, Query, Close, Owners, IInv, TypeOK
    <2> QED
      BY <2>1, ByOwner
  <1>9. CASE \E owner \in Owners : Release(c, owner)
    BY <1>9, LetsGo DEF Release
  <1> QED
    BY <1>1, <1>2, <1>3, <1>4, <1>5, <1>6, <1>7, <1>8, <1>9 DEF Step

LEMMA StutterIInv == ASSUME IInv, UNCHANGED vars PROVE IInv'
  <1>1. TypeOK' /\ Live' = Live /\ Published' = Published /\ (Alive' <=> Alive)
    BY DEF vars, IInv, TypeOK, Live, Published, Alive
  <1> QED
    BY <1>1 DEF vars, IInv, LiveHasIdentity, CacheSound, ServedIsAsked, Private,
                Alone, DuplicateNeedsRace, LiveIsCached

(* The invariant holds in every state a session can be in.                  *)
THEOREM Inductive == Spec => []IInv
  <1>1. IInv /\ [Next]_vars => IInv'
    BY StepIInv, StutterIInv DEF Next, Over
  <1> QED
    BY <1>1, InitIInv, PTL DEF Spec

(* The variables keep their types, and a caller has a record exactly while  *)
(* it constructs or was given one.                                          *)
THEOREM TypeCorrect == Spec => []TypeOK
  BY Inductive, PTL DEF IInv

(* The weak map never serves a dead Record or one of another identity,      *)
(* whatever the interleaving of calls, drops, close and release.            *)
THEOREM MapSound == Spec => []CacheSound
  BY Inductive, PTL DEF IInv

(* A call that returns, returns the record it was made for.                 *)
THEOREM AnswersAreRight == Spec => []ServedIsAsked
  BY Inductive, PTL DEF IInv

(* Two Records of one object exist only where two threads constructed them  *)
(* at the same moment.                                                      *)
THEOREM IdentityUpToRaces == Spec => []DuplicateNeedsRace
  BY Inductive, PTL DEF IInv

(* Races aside, a Record that is held stays in the map of a living Realm.   *)
THEOREM MapComplete == Spec => []LiveIsCached
  BY Inductive, PTL DEF IInv

-----------------------------------------------------------------------------
(* A closed Realm                                                           *)

(* Once no call is past its read, a closed view can only be served from the *)
(* map, and what the map serves is alive already.                           *)
THEOREM ClosedGivesNothingNew == Spec => ClosedOnlyShrinks
  <1>1. ASSUME IInv, [Next]_vars, Quiet
        PROVE  Quiet' /\ Live' \subseteq Live
    <2>1. CASE UNCHANGED vars
      BY <1>1, <2>1 DEF vars, Quiet, Live
    <2>2. ASSUME NEW c \in Callers, Step(c)
          PROVE  Quiet' /\ Live' \subseteq Live
      <3> DEFINE Settled == /\ native' # "open"
                            /\ pc'[c] \notin {"recheck", "insert"}
                            /\ \A d \in Callers \ {c} : pc'[d] = pc[d]
      <3>1. Settled => Quiet'
        BY <1>1 DEF Quiet
      <3>2. native # "open" /\ pc[c] \notin {"recheck", "insert"}
        BY <1>1 DEF Quiet
      <3>3. \A entries, idents : Collect(entries, idents, native) => native' # "open"
        BY <3>2 DEF Collect
      <3>4. CASE \E id \in Identity : ReadByKey(c, id) \/ ReadByIndex(c, id)
        <4>1. Settled
          BY <1>1, <3>2, <3>4 DEF ReadByKey, ReadByIndex, Begin, IInv, TypeOK
        <4>2. Live' = Live
          BY <3>4 DEF ReadByKey, ReadByIndex, Begin, Live
        <4> QED
          BY <3>1, <4>1, <4>2
      <3>5. CASE Lookup(c) /\ cache[CacheKey(want[c])] # None
        <4> DEFINE r == cache[CacheKey(want[c])]
        <4>1. r \in Live
          BY <1>1, <3>5, KeyIsIdentity DEF Lookup, IInv, TypeOK, CacheSound
        <4>2. Serve(c, r)
          BY <3>5 DEF Lookup
        <4>3. Live' \subseteq Live
          BY <1>1, <4>1, <4>2 DEF Serve, Live, IInv, TypeOK
        <4>4. Settled
          BY <1>1, <3>3, <4>2 DEF Serve, IInv, TypeOK
        <4> QED
          BY <3>1, <4>3, <4>4
      <3>6. CASE Lookup(c) /\ cache[CacheKey(want[c])] = None
        <4>1. Advance(c, "native")
          BY <3>6 DEF Lookup
        <4>2. Settled /\ Live' = Live
          BY <1>1, <3>2, <4>1 DEF Advance, Live, IInv, TypeOK
        <4> QED
          BY <3>1, <4>2
      <3>7. CASE ReadNative(c)
        <4>1. Raise(c)
          BY <3>2, <3>7 DEF ReadNative, Readable
        <4>2. Settled /\ Live' \subseteq Live
          BY <1>1, <3>3, <4>1 DEF Raise, Live, IInv, TypeOK
        <4> QED
          BY <3>1, <4>2
      <3>8. CASE Keep(c) \/ Discard(c)
        <4>1. \E kept : kept \subseteq {got[c]} /\ Finish(c, kept)
          BY <3>8 DEF Keep, Discard
        <4>2. got[c] # None
          BY <1>1, <4>1 DEF Finish, IInv, TypeOK
        <4>3. Settled /\ Live' \subseteq Live
          BY <1>1, <3>3, <4>1, <4>2 DEF Finish, Live, IInv, TypeOK
        <4> QED
          BY <3>1, <4>3
      <3>9. CASE \/ \E r \in Records : Forget(c, r)
                 \/ \E owner \in Owners : Release(c, owner)
        <4>1. Settled /\ Live' \subseteq Live
          BY <3>2, <3>3, <3>9 DEF Forget, Release, Live
        <4> QED
          BY <3>1, <4>1
      <3>10. CASE OpenTable(c) \/ Query(c) \/ Close(c)
        <4>1. Settled /\ Live' = Live
          BY <3>2, <3>10 DEF OpenTable, Query, Close, Live
        <4> QED
          BY <3>1, <4>1
      <3> QED
        BY <2>2, <3>2, <3>4, <3>5, <3>6, <3>7, <3>8, <3>9, <3>10
           DEF Step, Recheck, Insert
    <2> QED
      BY <1>1, <2>1, <2>2 DEF Next, Over
  <1>2. IInv /\ [Next]_vars => [Quiet => Quiet' /\ Live' \subseteq Live]_vars
    BY <1>1
  <1> QED
    BY <1>2, Inductive, PTL DEF Spec, ClosedOnlyShrinks

-----------------------------------------------------------------------------
(* One thread                                                               *)

(* Nobody to race with, and nothing held of what is being read by key.      *)
Single ==
  /\ raced = {}
  /\ \A c \in Callers : pc[c] = "native" /\ path[c] = "key" =>
       \A r \in held : ident[r] # want[c]

LEMMA SingleStep ==
  ASSUME NEW c, Callers = {c}, IInv, Single, Step(c)
  PROVE  Single'
  <1>1. ~Contended(c)
    BY DEF Contended
  <1>2. raced' = raced
    BY <1>1 DEF Step, ReadByKey, ReadByIndex, Begin, Lookup, Serve, Advance,
         ReadNative, Raise, Recheck, Construct, Insert, Keep, Discard, Finish,
         Forget, OpenTable, Query, Close, Release
  <1>3. ASSUME pc'[c] = "native", path'[c] = "key"
        PROVE  \A r \in held' : ident'[r] # want'[c]
    <2>1. CASE Lookup(c)
      <3>1. /\ pc[c] = "lookup" /\ cache[CacheKey(want[c])] = None
            /\ UNCHANGED <<held, ident, want>>
        BY <1>3, <2>1 DEF Lookup, Serve, Advance, IInv, TypeOK
      <3>2. Alive /\ want[c] \in Identity /\ cache[want[c]] = None
        BY <3>1, KeyIsIdentity DEF Alive, InCall, IInv, TypeOK
      <3>3. ASSUME NEW r \in held
            PROVE  cache[ident[r]] = r /\ r # None
        BY <3>2, NoneAssumption DEF Single, IInv, LiveIsCached, Published, TypeOK
      <3> QED
        BY <3>1, <3>2, <3>3
    <2>2. CASE \/ \E r \in Records : Forget(c, r)
               \/ OpenTable(c) \/ Query(c) \/ Close(c)
               \/ \E owner \in Owners : Release(c, owner)
      BY <1>3, <2>2 DEF Forget, OpenTable, Query, Close, Release
    <2>3. ~(ReadNative(c) \/ Recheck(c) \/ Insert(c) \/ Keep(c) \/ Discard(c))
      BY <1>3 DEF ReadNative, Advance, Raise, Recheck, Serve, Construct, Insert,
                  Keep, Discard, Finish, IInv, TypeOK
    <2>4. ~\E id \in Identity : ReadByKey(c, id) \/ ReadByIndex(c, id)
      BY <1>3 DEF ReadByKey, ReadByIndex, Begin, IInv, TypeOK
    <2> QED
      BY <2>1, <2>2, <2>3, <2>4 DEF Step
  <1> QED
    BY <1>2, <1>3 DEF Single

(* With one thread a record that is held is never read by key again.        *)
THEOREM HeldIsNotReread == Spec => []NoRereadWhileHeld
  <1>1. CASE Cardinality(Callers) = 1
    <2>1. PICK c : Callers = {c}
      BY <1>1, CallersAssumption, FS_Singleton
    <2>2. Init => Single
      BY DEF Init, Single
    <2>3. IInv /\ Single /\ [Next]_vars => Single'
      BY <2>1, SingleStep DEF Next, Over, vars, Single
    <2>4. Single => NoRereadWhileHeld
      BY DEF Single, NoRereadWhileHeld
    <2> QED
      BY <2>2, <2>3, <2>4, Inductive, PTL DEF Spec
  <1>2. CASE Cardinality(Callers) # 1
    <2>1. NoRereadWhileHeld
      BY <1>2 DEF NoRereadWhileHeld
    <2> QED
      BY <2>1, PTL
  <1> QED
    BY <1>1, <1>2

-----------------------------------------------------------------------------
(***************************************************************************)
(* open_realm, which comes before any session: OpenRealm.                   *)
(***************************************************************************)

(* Before there is a view, while the schema is read, and with a Realm.      *)
Checking == {"sources", "path", "key", "length"}
Entering == {"configure", "encrypt", "open"}
WithRealm == {"init", "returned"}

(* Nothing is reported before something failed; the handler has one failure *)
(* at hand; the caller is told of the first, and a second one can only be   *)
(* that of the handler's close.                                             *)
Told ==
  /\ step \in Checking \cup Entering \cup {"load"} \cup WithRealm =>
       failed = <<>> /\ raised = NoError /\ cause = NoError
  /\ step = "handler" =>
       raised \in Caught /\ failed = <<raised>> /\ cause = NoError
  /\ step \in {"raised", "dropped"} =>
       \/ /\ cause \in Caught /\ raised = "RealmOpenError"
          /\ failed = <<cause>> \/ failed = <<cause, "NativeError">>
       \/ raised \notin Caught /\ failed = <<raised>> /\ cause = NoError

(* The local `native` is what keeps an open view, but in the constructor.   *)
Kept ==
  /\ step \in Checking \cup Entering => view = "none" /\ ~nativeSet
  /\ step = "load" => view = "open" /\ ~nativeSet
  /\ step \in WithRealm => view = "open" /\ nativeSet
  /\ step \in {"handler", "raised"} /\ view = "open" => nativeSet
  /\ step = "raised" /\ view = "open" =>
       raised = "MemoryError" \/ Len(failed) = 2
  /\ step = "dropped" => view # "open"

(* The inductive invariant of open_realm: who was told what, and what still *)
(* refers to a view, at every step of it.                                   *)
OpenInv ==
  /\ step \in Checking \cup Entering \cup WithRealm
                   \cup {"load", "handler", "raised", "dropped"}
  /\ nativeSet \in BOOLEAN
  /\ Told /\ Kept

(* Nothing has failed before the arguments are looked at.                   *)
LEMMA OpeningInit ==
  ASSUME OpenInit
  PROVE  OpenInv
  BY DEF OpenInit, OpenInv, Told, Kept, Checking, Entering, WithRealm

(* An exception leaves open_realm, or is one of the handler's.              *)
LEMMA FailKeeps ==
  ASSUME OpenInv, step \in Checking \cup Entering \cup {"load", "init"},
         NEW error, NEW inTry \in BOOLEAN, Fail(error, inTry),
         error # "RealmOpenError", ~inTry => error \notin Caught,
         UNCHANGED nativeSet,
         IF step = "load" THEN view' = "closed" ELSE UNCHANGED view,
         step = "init" => inTry /\ error \in SchemaErrors
  PROVE  OpenInv'
  <1>1. /\ failed' = <<error>> /\ raised' = error /\ cause' = NoError
        /\ step' = IF error \in Caught THEN "handler" ELSE "raised"
    <2>1. failed = <<>> /\ cause = NoError
      BY DEF OpenInv, Told
    <2>2. Append(<<>>, error) = <<error>>
      OBVIOUS
    <2> QED
      BY <2>1, <2>2 DEF Fail, Checking, Entering, WithRealm
  <1>2. Told'
    BY <1>1 DEF Told, Checking, Entering, WithRealm, Caught
  <1>3. Kept'
    BY <1>1 DEF OpenInv, Kept, Checking, Entering, WithRealm, Caught,
       SchemaErrors
  <1> QED
    BY <1>1, <1>2, <1>3 DEF OpenInv

(* Each step of open_realm; where it may fail, the failure is the first.    *)
LEMMA OpeningStep ==
  ASSUME OpenInv, [OpenNext]_openVars
  PROVE  OpenInv'
  <1> USE DEF Checking, Entering, WithRealm
  <1>1. CASE CheckSources
    <2>1. CASE Fail("ValueError", FALSE)
      BY <1>1, <2>1, FailKeeps DEF CheckSources, Caught
    <2> QED
      BY <1>1, <2>1 DEF CheckSources, Goto, OpenInv, Told, Kept
  <1>2. CASE ResolvePath
    <2>1. CASE Fail("OSError", FALSE)
      BY <1>2, <2>1, FailKeeps DEF ResolvePath, Caught
    <2> QED
      BY <1>2, <2>1 DEF ResolvePath, Goto, OpenInv, Told, Kept
  <1>3. CASE ReadKey
    <2>1. CASE Fail("OSError", FALSE)
      BY <1>3, <2>1, FailKeeps DEF ReadKey, Caught
    <2> QED
      BY <1>3, <2>1 DEF ReadKey, Goto, OpenInv, Told, Kept
  <1>4. CASE CheckLength
    <2>1. CASE Fail("ValueError", FALSE)
      BY <1>4, <2>1, FailKeeps DEF CheckLength, Caught
    <2> QED
      BY <1>4, <2>1 DEF CheckLength, Goto, OpenInv, Told, Kept
  <1>5. CASE Configure
    <2>1. ASSUME NEW error \in NativeErrors \cup {"TypeError"},
                 Fail(error, TRUE)
          PROVE  OpenInv'
      BY <1>5, <2>1, FailKeeps DEF Configure, NativeErrors
    <2> QED
      BY <1>5, <2>1 DEF Configure, Goto, OpenInv, Told, Kept
  <1>6. CASE Encrypt
    <2>1. ASSUME NEW error \in NativeErrors, Fail(error, TRUE)
          PROVE  OpenInv'
      BY <1>6, <2>1, FailKeeps DEF Encrypt, NativeErrors
    <2> QED
      BY <1>6, <2>1 DEF Encrypt, Goto, OpenInv, Told, Kept
  <1>7. CASE OpenView
    <2>1. ASSUME NEW error \in NativeErrors, Fail(error, TRUE),
                 UNCHANGED view
          PROVE  OpenInv'
      BY <1>7, <2>1, FailKeeps DEF OpenView, NativeErrors
    <2> QED
      BY <1>7, <2>1 DEF OpenView, Goto, OpenInv, Told, Kept
  <1>8. CASE LoadSchema
    <2>1. ASSUME NEW error \in NativeErrors, Fail(error, TRUE),
                 view' = "closed", UNCHANGED nativeSet
          PROVE  OpenInv'
      BY <1>8, <2>1, FailKeeps DEF LoadSchema, NativeErrors
    <2> QED
      BY <1>8, <2>1 DEF LoadSchema, Goto, OpenInv, Told, Kept
  <1>9. CASE TakeSchema
    <2>1. ASSUME NEW error \in SchemaErrors, Fail(error, TRUE)
          PROVE  OpenInv'
      BY <1>9, <2>1, FailKeeps
      DEF TakeSchema, SchemaErrors, Caught
    <2> QED
      BY <1>9, <2>1 DEF TakeSchema, Goto, OpenInv, Told, Kept
  <1>10. CASE Handle
    <2>1. raised \in Caught /\ failed = <<raised>>
      BY <1>10 DEF Handle, OpenInv, Told
    <2>2. failed' = failed \/ failed' = <<raised, "NativeError">>
      BY <1>10, <2>1 DEF Handle
    <2>3. Told'
      BY <1>10, <2>1, <2>2 DEF Handle, Translate, Told
    <2>4. Kept'
      BY <1>10, <2>1, <2>2
      DEF Handle, Translate, OpenInv, Kept
    <2> QED
      BY <1>10, <2>3, <2>4 DEF Handle, Translate, OpenInv
  <1>11. CASE Drop
    BY <1>11 DEF Drop, OpenInv, Told, Kept, arguments
  <1>12. CASE UNCHANGED openVars
    BY <1>12 DEF openVars, OpenInv, Told, Kept
  <1> QED
    BY <1>1, <1>2, <1>3, <1>4, <1>5, <1>6, <1>7, <1>8, <1>9, <1>10, <1>11, <1>12
    DEF OpenNext, Ended

(* The inductive invariant of open_realm.                                   *)
THEOREM OpeningInductive == OpenSpec => []OpenInv
  BY OpeningInit, OpeningStep, PTL DEF OpenSpec

(* However open_realm fails, no view stays open once the exception is let   *)
(* go of, and while it is kept only one that the handler did not see or     *)
(* could not close; a Realm that is returned has its view.                  *)
THEOREM OpeningLeaksNoView == OpenSpec => []ViewNotLeaked
  <1>1. OpenInv => ViewNotLeaked
    BY DEF OpenInv, Kept, WithRealm, ViewNotLeaked
  <1> QED
    BY <1>1, OpeningInductive, PTL

(* The caller of open_realm is told of what failed first, translated if the *)
(* handler lists it, and never of what failed in closing the view after it. *)
THEOREM OpeningReportsFirst == OpenSpec => []FirstErrorReported
  <1>1. OpenInv => FirstErrorReported
    BY DEF OpenInv, Told, FirstErrorReported
  <1> QED
    BY <1>1, OpeningInductive, PTL
=============================================================================
