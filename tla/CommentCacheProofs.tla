------------------------- MODULE CommentCacheProofs -------------------------
(***************************************************************************)
(* Proofs about CommentCache, for every number of tokens, requests and     *)
(* dispatchers and every bound on generations.                             *)
(***************************************************************************)
EXTENDS CommentCache, TLAPS

USE DEF HasReplies, HasRows, HasCount, HasGeneration

\* The idle slots of Init, ListEnd and the dispatcher are well typed.
LEMMA IdleSlots == NoRead \in ReadState /\ NoBatch \in BatchState
<1>1. AnyDomain \in Domains
  BY ConstantsAssumption DEF ConstantsAssumption, AnyDomain
<1>2. 0 \in 0..MaxGen /\ 1 \in Gens
  BY ConstantsAssumption DEF ConstantsAssumption, Gens
<1>3. NoRead \in ReadState
  BY <1>1, <1>2 DEF NoRead, ReadState, ReadPc
<1>4. NoBatch \in BatchState
  BY <1>1, <1>2 DEF NoBatch, BatchState, BatchPc, Events
<1> QED BY <1>3, <1>4

\* What the APPLY_GENERATION script leaves in Redis: at least what was there,
\* at least what was applied, and never anything else.
LEMMA ApplyFacts ==
  ASSUME NEW d \in Domains, NEW g \in 0..MaxGen, redisGen \in [Domains -> 0..MaxGen]
  PROVE  /\ ApplyGeneration(d, g) \in [Domains -> 0..MaxGen]
         /\ \A x \in Domains : /\ redisGen[x] <= ApplyGeneration(d, g)[x]
                               /\ \/ ApplyGeneration(d, g)[x] = redisGen[x]
                                  \/ x = d /\ ApplyGeneration(d, g)[x] = g
         /\ g <= ApplyGeneration(d, g)[d]
BY ConstantsAssumption DEF ConstantsAssumption, ApplyGeneration

\* The components of an outbox event.
LEMMA EventParts ==
  ASSUME NEW e \in Events
  PROVE  e[1] \in Domains /\ e[2] \in 0..MaxGen /\ e[2] \in Gens /\ e = <<e[1], e[2]>>
BY ConstantsAssumption DEF ConstantsAssumption, Events, Gens

-----------------------------------------------------------------------------

\* The quiet system is well typed.
LEMMA TypeInit == Init => TypeOK
<1> SUFFICES ASSUME Init PROVE TypeOK
  OBVIOUS
<1>1. StartGen \in 0..MaxGen
  BY ConstantsAssumption DEF ConstantsAssumption
<1> QED
  BY <1>1, IdleSlots DEF Init, TypeOK

\* The mutations' steps (commit, call to Redis, crash) keep the types.
LEMMA TypeWriter ==
  ASSUME TypeOK,
         \/ \E d \in Domains : CommitMutation(d)
         \/ \E e \in Events : WriterApply(e) \/ WriterCrash(e)
  PROVE  TypeOK'
<1>1. ASSUME NEW d \in Domains, CommitMutation(d) PROVE TypeOK'
  <2>1. dbGen[d] + 1 \in 0..MaxGen /\ dbGen[d] + 1 \in Gens /\ <<d, dbGen[d] + 1>> \in Events
    BY <1>1, ConstantsAssumption DEF ConstantsAssumption, CommitMutation, TypeOK, Gens, Events
  <2> QED
    BY <1>1, <2>1 DEF CommitMutation, TypeOK, redisVars
<1>2. ASSUME NEW e \in Events, WriterApply(e) PROVE TypeOK'
  <2>1. redisGen' \in [Domains -> 0..MaxGen]
    BY <1>2, EventParts, ApplyFacts DEF WriterApply, ApplyOk, ApplyFails, TypeOK
  <2> QED
    BY <1>2, <2>1 DEF WriterApply, TypeOK, dbVars
<1>3. ASSUME NEW e \in Events, WriterCrash(e) PROVE TypeOK'
  BY <1>3 DEF WriterCrash, TypeOK, dbVars, redisVars
<1> QED BY <1>1, <1>2, <1>3

\* Each step of a list request keeps the types.
LEMMA TypeReader ==
  ASSUME TypeOK, NEW r \in Readers, ReaderNext(r)
  PROVE  TypeOK'
<1> USE DEF TypeOK, dbVars, redisVars
<1>0. reads[r] \in ReadState
  OBVIOUS
<1>1. ASSUME NEW d \in Domains, ListBegin(r, d) PROVE TypeOK'
  <2>1. [NoRead EXCEPT !.pc = "generation", !.dom = d, !.floor = redisGen[d]] \in ReadState
    BY IdleSlots DEF ReadState, ReadPc
  <2> QED BY <1>1, <2>1 DEF ListBegin
<1>2. CASE GetGeneration(r)
  <2>1. PICK g \in {redisGen[reads[r].dom], 0} :
          reads' = [reads EXCEPT ![r].pc = IF g > 0 THEN "get" ELSE "persisted", ![r].gen = g]
    BY <1>2 DEF GetGeneration
  <2>2. g \in 0..MaxGen
    BY <1>0, <2>1, ConstantsAssumption DEF ConstantsAssumption, ReadState
  <2> QED BY <1>0, <1>2, <2>1, <2>2 DEF GetGeneration, ReadState, ReadPc
<1>3. CASE ReadPersisted(r)
  BY <1>0, <1>3 DEF ReadPersisted, ReadState, ReadPc
<1>4. CASE HealGeneration(r)
  <2>1. redisGen' \in [Domains -> 0..MaxGen]
    BY <1>0, <1>4, ApplyFacts DEF HealGeneration, ApplyOk, ApplyFails, ReadState
  <2> QED BY <1>0, <1>4, <2>1 DEF HealGeneration, ReadState, ReadPc
<1>5. CASE CacheHit(r)
  <2>1. PICK p \in PageKey(reads[r].dom, reads[r].gen) :
          reads' = [reads EXCEPT ![r].pc = "done", ![r].total = p.total, ![r].rows = p.rows,
                                 ![r].replies = p.replies]
    BY <1>5 DEF CacheHit
  <2>2. p.total \in 0..MaxGen /\ p.rows \in 0..MaxGen /\ p.replies \in 0..MaxGen
    BY <2>1 DEF PageKey, Page
  <2> QED BY <1>0, <1>5, <2>1, <2>2 DEF CacheHit, ReadState, ReadPc
<1>6. CASE CacheMiss(r)
  BY <1>0, <1>6 DEF CacheMiss, ReadState, ReadPc
<1>7. CASE CountQuery(r)
  BY <1>0, <1>7 DEF CountQuery, ReadState, ReadPc
<1>8. CASE RowsQuery(r)
  BY <1>0, <1>8 DEF RowsQuery, ReadState, ReadPc
<1>9a. CASE IncludeQuery(r)
  BY <1>0, <1>9a DEF IncludeQuery, ReadState, ReadPc
<1>9. CASE CacheSet(r)
  <2>1. [dom |-> reads[r].dom, gen |-> reads[r].gen, total |-> reads[r].total,
         rows |-> reads[r].rows, replies |-> reads[r].replies] \in Page
    BY <1>0 DEF ReadState, Page
  <2>2. pages' \subseteq Page
    BY <1>9, <2>1 DEF CacheSet
  <2>3. reads' \in [Readers -> ReadState]
    BY <1>0, <1>9 DEF CacheSet, ReadState, ReadPc
  <2> QED BY <1>9, <2>2, <2>3 DEF CacheSet
<1>10. CASE ListEnd(r)
  BY <1>10, IdleSlots DEF ListEnd
<1> QED
  BY <1>1, <1>2, <1>3, <1>4, <1>5, <1>6, <1>7, <1>8, <1>9, <1>9a, <1>10 DEF ReaderNext

\* The loop's next event, whichever of the three updates ends the current one.
LEMMA TypeNextEvent ==
  ASSUME TypeOK, NEW b \in Batches, NextEvent(b)
  PROVE  batch' \in [Batches -> BatchState]
<1>1. batch[b] \in BatchState
  BY DEF TypeOK
<1> DEFINE rest == batch[b].todo \ {batch[b].event}
<1>2. [batch[b] EXCEPT !.pc = "work", !.todo = rest] \in BatchState
  BY <1>1 DEF BatchState, BatchPc
<1> QED
  BY <1>2, IdleSlots DEF NextEvent, TypeOK

\* Each step of dispatchBatch keeps the types.
LEMMA TypeBatch ==
  ASSUME TypeOK, NEW b \in Batches, BatchNext(b)
  PROVE  TypeOK'
<1> USE DEF TypeOK, dbVars, redisVars
<1>0. batch[b] \in BatchState /\ OwnerOf[b] \in Owners
  BY ConstantsAssumption DEF ConstantsAssumption
<1>1. CASE BatchFind(b)
  <2>1. PICK C \in Oldest({e \in Events : Claimable(e)}) :
          batch' = [batch EXCEPT ![b].pc = "lease", ![b].todo = C]
    BY <1>1 DEF BatchFind
  <2>2. C \subseteq Events
    BY <2>1 DEF Oldest
  <2> QED BY <1>0, <1>1, <2>1, <2>2 DEF BatchFind, BatchState, BatchPc
<1>2. CASE BatchLease(b)
  <2> DEFINE won == {e \in batch[b].todo : Claimable(e)}
             owner == [e \in Events |-> IF e \in won THEN OwnerOf[b] ELSE leaseOwner[e]]
             mine == {e \in batch[b].todo : owner[e] = OwnerOf[b] /\ e \notin published}
  <2>1. leaseOwner' \in [Events -> Owners \cup {NoOwner}]
    <3>1. owner \in [Events -> Owners \cup {NoOwner}]
      BY <1>0
    <3> QED BY <1>2, <3>1 DEF BatchLease
  <2>2. batch' \in [Batches -> BatchState]
    <3>1. [batch[b] EXCEPT !.pc = "work", !.todo = mine] \in BatchState
      BY <1>0 DEF BatchState, BatchPc
    <3>2. batch' = [batch EXCEPT ![b] =
                IF mine = {} THEN NoBatch ELSE [batch[b] EXCEPT !.pc = "work", !.todo = mine]]
      BY <1>2 DEF BatchLease
    <3> HIDE DEF mine
    <3> QED BY <3>1, <3>2, IdleSlots
  <2>3. expired' \subseteq Events
    BY <1>2 DEF BatchLease
  <2> QED BY <1>2, <2>1, <2>2, <2>3 DEF BatchLease
<1>3. ASSUME NEW e \in Events, DispatchApply(b, e) \/ DispatchApplyFails(b, e) PROVE TypeOK'
  <2>1. redisGen' \in [Domains -> 0..MaxGen]
    BY <1>3, EventParts, ApplyFacts DEF DispatchApply, DispatchApplyFails, ApplyOk, ApplyFails
  <2>2. batch' \in [Batches -> BatchState]
    BY <1>0, <1>3 DEF DispatchApply, DispatchApplyFails, BatchState, BatchPc
  <2> QED BY <1>3, <2>1, <2>2 DEF DispatchApply, DispatchApplyFails
<1>4. CASE Finalize(b)
  <2>1. batch' \in [Batches -> BatchState]
    BY <1>4, TypeNextEvent DEF Finalize
  <2>2. batch[b].event \in Events
    BY <1>0 DEF BatchState
  <2> QED BY <1>4, <2>1, <2>2 DEF Finalize
<1>5. CASE FinalizeFails(b)
  BY <1>0, <1>5 DEF FinalizeFails, BatchState, BatchPc
<1>6. CASE Release(b)
  <2>1. batch' \in [Batches -> BatchState]
    BY <1>6, TypeNextEvent DEF Release
  <2>2. batch[b].event \in Events
    BY <1>0 DEF BatchState
  <2> QED BY <1>6, <2>1, <2>2 DEF Release
<1>7. CASE BatchCrash(b)
  BY <1>7, IdleSlots DEF BatchCrash
<1> QED
  BY <1>1, <1>2, <1>3, <1>4, <1>5, <1>6, <1>7 DEF BatchNext

\* Expiring leases and pages and a Redis that loses data keep the types.
LEMMA TypeEnvironment ==
  ASSUME TypeOK,
         \/ \E e \in Events : LeaseExpires(e)
         \/ \E p \in pages : PageExpires(p)
         \/ \E d \in Domains : RedisLoses(d)
  PROVE  TypeOK'
<1> USE DEF TypeOK, dbVars, redisVars
<1>1. ASSUME NEW e \in Events, LeaseExpires(e) PROVE TypeOK'
  BY <1>1 DEF LeaseExpires
<1>2. ASSUME NEW p \in pages, PageExpires(p) PROVE TypeOK'
  BY <1>2 DEF PageExpires
<1>3. ASSUME NEW d \in Domains, RedisLoses(d) PROVE TypeOK'
  BY <1>3, ConstantsAssumption DEF RedisLoses, ConstantsAssumption
<1> QED BY <1>1, <1>2, <1>3

\* A step of something else keeps the types.
LEMMA TypeStutter == TypeOK /\ UNCHANGED vars => TypeOK'
BY DEF vars, dbVars, redisVars, TypeOK

\* Type correctness: whatever the interleaving of requests, dispatchers,
\* failures and crashes, every variable keeps its type.
THEOREM TypeCorrect == Spec => []TypeOK
<1>1. TypeOK /\ [Next]_vars => TypeOK'
  BY TypeWriter, TypeReader, TypeBatch, TypeEnvironment, TypeStutter DEF Next
<1> QED BY TypeInit, <1>1, PTL DEF Spec

-----------------------------------------------------------------------------
(***************************************************************************)
(* The inductive invariant.                                                *)
(***************************************************************************)

\* The quiet system satisfies the invariant: nothing is in flight.
LEMMA InvInit == Init => IInv
<1> SUFFICES ASSUME Init PROVE IInv
  OBVIOUS
<1>1. StartGen \in 0..MaxGen /\ MaxGen \in Nat
  BY ConstantsAssumption DEF ConstantsAssumption
<1>2. RedisNeverAhead
  BY <1>1 DEF Init, RedisNeverAhead
<1>3. AnnouncersCommitted
  BY DEF Init, AnnouncersCommitted, NoBatch
<1>4. PagesCoverTheirKey
  BY DEF Init, PagesCoverTheirKey
<1>5. ReadsOrdered /\ FloorsKept
  BY DEF Init, ReadsOrdered, FloorsKept, NoRead
<1>6. FinalizersApplied
  BY DEF Init, FinalizersApplied, NoBatch
<1>7. PublishedReachedRedis
  BY EventParts DEF Init, PublishedReachedRedis
<1> QED BY TypeInit, <1>2, <1>3, <1>4, <1>5, <1>6, <1>7 DEF IInv

\* Applying a committed generation keeps everything that relates Redis to the
\* database: the three callers of applyGeneration share this step.
LEMMA ApplyPreserves ==
  ASSUME IInv, NEW d \in Domains, NEW g \in 0..MaxGen, g <= dbGen[d],
         ApplyOk(d, g) \/ ApplyFails(d, g), UNCHANGED <<dbVars, pages>>
  PROVE  /\ RedisNeverAhead'
         /\ PagesCoverTheirKey'
         /\ PublishedReachedRedis'
         /\ \A x \in Domains : redisGen[x] <= redisGen'[x]
         /\ redisGen' \in [Domains -> 0..MaxGen]
<1> USE DEF IInv, TypeOK, dbVars
<1>1. /\ redisGen' \in [Domains -> 0..MaxGen]
      /\ \A x \in Domains : /\ redisGen[x] <= redisGen'[x]
                            /\ redisGen'[x] = redisGen[x] \/ (x = d /\ redisGen'[x] = g)
  BY ApplyFacts DEF ApplyOk, ApplyFails
<1>2. RedisNeverAhead'
  BY <1>1 DEF RedisNeverAhead
<1>3. PagesCoverTheirKey'
  BY DEF PagesCoverTheirKey
<1>4. PublishedReachedRedis'
  BY <1>1, EventParts DEF PublishedReachedRedis
<1> QED BY <1>1, <1>2, <1>3, <1>4

\* A step that leaves the requests alone, and moves neither the database nor
\* Redis back, keeps what the requests have established.
LEMMA ReadsKept ==
  ASSUME IInv, TypeOK', UNCHANGED reads,
         \A d \in Domains : dbGen[d] <= dbGen'[d] /\ (RedisLoss \/ redisGen[d] <= redisGen'[d])
  PROVE  ReadsOrdered' /\ FloorsKept'
<1> USE DEF IInv, TypeOK
<1>1. \A r \in Readers : reads[r] \in ReadState /\ reads'[r] = reads[r]
  OBVIOUS
<1>2. ReadsOrdered'
  BY <1>1 DEF ReadsOrdered, ReadState
<1>3. FloorsKept'
  BY <1>1 DEF FloorsKept, ReadState
<1> QED BY <1>2, <1>3

\* The same for the dispatchers.
LEMMA BatchesKept ==
  ASSUME IInv, TypeOK', UNCHANGED batch, pending' \subseteq pending \cup {e \in Events : Created(e)'},
         \A d \in Domains : dbGen[d] <= dbGen'[d] /\ (RedisLoss \/ redisGen[d] <= redisGen'[d])
  PROVE  AnnouncersCommitted' /\ FinalizersApplied'
<1> USE DEF IInv, TypeOK
<1>1. \A b \in Batches : batch[b] \in BatchState /\ batch'[b] = batch[b]
  OBVIOUS
<1>2. \A e \in Events : Created(e) => Created(e)'
  BY EventParts DEF Created
<1>3. AnnouncersCommitted'
  BY <1>1, <1>2 DEF AnnouncersCommitted, BatchState
<1>4. FinalizersApplied'
  BY <1>1, EventParts DEF FinalizersApplied, BatchState
<1> QED BY <1>3, <1>4

\* The mutations' steps keep the invariant: what they announce is committed.
LEMMA InvWriter ==
  ASSUME IInv, TypeOK',
         \/ \E d \in Domains : CommitMutation(d)
         \/ \E e \in Events : WriterApply(e) \/ WriterCrash(e)
  PROVE  IInv'
<1> USE DEF IInv, TypeOK
<1>1. ASSUME NEW d \in Domains, CommitMutation(d) PROVE IInv'
  <2>1. /\ dbGen' = [dbGen EXCEPT ![d] = dbGen[d] + 1]
        /\ UNCHANGED <<published, redisGen, pages, reads, batch>>
        /\ pending' = pending \cup {<<d, dbGen[d] + 1>>}
        /\ dbGen[d] < MaxGen
    BY <1>1 DEF CommitMutation, redisVars
  <2>2. \A x \in Domains : dbGen[x] <= dbGen'[x]
    BY <2>1
  <2>3. RedisNeverAhead'
    BY <2>1, <2>2 DEF RedisNeverAhead
  <2>4. PagesCoverTheirKey'
    BY <2>1, <2>2 DEF PagesCoverTheirKey, Page
  <2>5. PublishedReachedRedis'
    BY <2>1 DEF PublishedReachedRedis
  <2>6. <<d, dbGen[d] + 1>> \in {e \in Events : Created(e)'}
    BY <2>1 DEF Created, Events, Gens
  <2>7. AnnouncersCommitted' /\ FinalizersApplied'
    BY <2>1, <2>2, <2>6, BatchesKept
  <2>8. ReadsOrdered' /\ FloorsKept'
    BY <2>1, <2>2, ReadsKept
  <2> QED BY <2>3, <2>4, <2>5, <2>7, <2>8
<1>2. ASSUME NEW e \in Events, WriterApply(e) PROVE IInv'
  <2>1. e[1] \in Domains /\ e[2] \in 0..MaxGen /\ e[2] <= dbGen[e[1]]
    BY <1>2, EventParts DEF WriterApply, AnnouncersCommitted, Created
  <2>2. /\ ApplyOk(e[1], e[2]) \/ ApplyFails(e[1], e[2])
        /\ UNCHANGED <<dbVars, pages, reads, batch>> /\ pending' \subseteq pending
    BY <1>2 DEF WriterApply
  <2>3. /\ RedisNeverAhead' /\ PagesCoverTheirKey' /\ PublishedReachedRedis'
        /\ \A x \in Domains : redisGen[x] <= redisGen'[x]
    BY <2>1, <2>2, ApplyPreserves
  <2>4. \A x \in Domains : dbGen[x] <= dbGen'[x]
    BY <2>2 DEF dbVars
  <2> QED BY <2>2, <2>3, <2>4, ReadsKept, BatchesKept
<1>3. ASSUME NEW e \in Events, WriterCrash(e) PROVE IInv'
  <2>1. UNCHANGED <<dbGen, published, redisGen, pages, reads, batch>> /\ pending' \subseteq pending
    BY <1>3 DEF WriterCrash, dbVars, redisVars
  <2>2. \A x \in Domains : dbGen[x] <= dbGen'[x] /\ redisGen[x] <= redisGen'[x]
    BY <2>1
  <2>3. RedisNeverAhead' /\ PagesCoverTheirKey' /\ PublishedReachedRedis'
    BY <2>1 DEF RedisNeverAhead, PagesCoverTheirKey, PublishedReachedRedis
  <2> QED BY <2>1, <2>2, <2>3, ReadsKept, BatchesKept
<1> QED BY <1>1, <1>2, <1>3

\* A step that changes one request only has that request to account for.
LEMMA OneRead ==
  ASSUME IInv, TypeOK', NEW r \in Readers, UNCHANGED dbGen,
         \A d \in Domains : redisGen[d] <= redisGen'[d],
         \A x \in Readers \ {r} : reads'[x] = reads[x],
         LET q == reads'[r] IN
           /\ q.pc \in HasGeneration =>
                q.gen <= dbGen[q.dom] /\ (RedisLoss \/ q.floor <= q.gen)
           /\ q.pc \in HasCount => q.gen <= q.total /\ q.total <= dbGen[q.dom]
           /\ q.pc \in HasRows => q.total <= q.rows /\ q.rows <= dbGen[q.dom]
           /\ q.pc \in HasReplies => q.rows <= q.replies /\ q.replies <= dbGen[q.dom]
           /\ q.pc \in {"generation", "persisted"} => RedisLoss \/ q.floor <= redisGen'[q.dom]
  PROVE  ReadsOrdered' /\ FloorsKept'
<1> USE DEF IInv, TypeOK
<1>1. \A x \in Readers : reads[x] \in ReadState /\ reads'[x] \in ReadState
  OBVIOUS
<1>2. ReadsOrdered'
  BY DEF ReadsOrdered
<1>3. FloorsKept'
  BY <1>1 DEF FloorsKept, ReadState
<1> QED BY <1>2, <1>3

\* Each step of a list request keeps the invariant: its versions only grow.
LEMMA InvReader ==
  ASSUME IInv, TypeOK', NEW r \in Readers, ReaderNext(r)
  PROVE  IInv'
<1> DEFINE q == reads[r]
<1>0. q \in ReadState /\ dbGen \in [Domains -> 0..MaxGen] /\ redisGen \in [Domains -> 0..MaxGen]
  BY DEF IInv, TypeOK
<1>q. /\ q.pc \in HasGeneration =>
            q.gen <= dbGen[q.dom] /\ (RedisLoss \/ q.floor <= q.gen)
      /\ q.pc \in HasCount => q.gen <= q.total /\ q.total <= dbGen[q.dom]
      /\ q.pc \in HasRows => q.total <= q.rows /\ q.rows <= dbGen[q.dom]
      /\ q.pc \in HasReplies => q.rows <= q.replies /\ q.replies <= dbGen[q.dom]
      /\ q.pc \in {"generation", "persisted"} => RedisLoss \/ q.floor <= redisGen[q.dom]
  BY DEF IInv, ReadsOrdered, FloorsKept
<1>m. ASSUME UNCHANGED <<dbVars, redisVars, pending, batch>>, ReadsOrdered', FloorsKept'
      PROVE  IInv'
  BY <1>m DEF IInv, dbVars, redisVars, RedisNeverAhead, AnnouncersCommitted, Created,
              PagesCoverTheirKey, FinalizersApplied, PublishedReachedRedis
<1>t. redisGen' = redisGen => \A d \in Domains : redisGen[d] <= redisGen'[d]
  BY <1>0
<1>1. ASSUME NEW d \in Domains, ListBegin(r, d) PROVE IInv'
  <2>1. reads'[r].pc = "generation" /\ reads'[r].dom = d /\ reads'[r].floor = redisGen[d]
    BY <1>1 DEF ListBegin, IInv, TypeOK, NoRead
  <2>2. UNCHANGED <<dbVars, redisVars, pending, batch>> /\ \A x \in Readers \ {r} : reads'[x] = reads[x]
    BY <1>1 DEF ListBegin, IInv, TypeOK
  <2>3. ReadsOrdered' /\ FloorsKept'
    BY <1>0, <1>t, <2>1, <2>2, OneRead DEF dbVars, redisVars
  <2> QED BY <1>m, <2>2, <2>3
<1>2. CASE GetGeneration(r)
  <2>1. PICK g \in {redisGen[q.dom], 0} :
          reads' = [reads EXCEPT ![r].pc = IF g > 0 THEN "get" ELSE "persisted", ![r].gen = g]
    BY <1>2 DEF GetGeneration
  <2>2. /\ q.pc = "generation"
        /\ reads'[r].dom = q.dom /\ reads'[r].floor = q.floor /\ reads'[r].gen = g
        /\ reads'[r].pc = IF g > 0 THEN "get" ELSE "persisted"
    BY <1>0, <1>2, <2>1 DEF GetGeneration, ReadStep, ReadState, IInv, TypeOK
  <2>3. UNCHANGED <<dbVars, redisVars, pending, batch>> /\ \A x \in Readers \ {r} : reads'[x] = reads[x]
    BY <1>2, <2>1 DEF GetGeneration, IInv, TypeOK
  <2>4. q.dom \in Domains /\ g \in 0..MaxGen /\ g <= dbGen[q.dom]
    BY <1>0, ConstantsAssumption DEF ReadState, IInv, RedisNeverAhead, ConstantsAssumption
  <2>5. UNCHANGED dbGen /\ UNCHANGED redisGen
    BY <2>3 DEF dbVars, redisVars
  <2>6. CASE g > 0
    <3>1. reads'[r].pc = "get" /\ g = redisGen[q.dom]
      BY <2>2, <2>6
    <3> QED BY <1>m, <1>q, <1>t, <2>2, <2>3, <2>4, <2>5, <3>1, OneRead
  <2>7. CASE ~(g > 0)
    <3>1. reads'[r].pc = "persisted"
      BY <2>2, <2>7
    <3> QED BY <1>m, <1>q, <1>t, <2>2, <2>3, <2>5, <3>1, OneRead
  <2> QED BY <2>6, <2>7
<1>3. CASE ReadPersisted(r)
  <2>1. /\ q.pc = "persisted" /\ q.dom \in Domains
        /\ reads'[r].dom = q.dom /\ reads'[r].floor = q.floor /\ reads'[r].gen = dbGen[q.dom]
        /\ reads'[r].pc \in {"heal", "get"}
    BY <1>0, <1>3 DEF ReadPersisted, ReadStep, ReadState, IInv, TypeOK
  <2>2. UNCHANGED <<dbVars, redisVars, pending, batch>> /\ \A x \in Readers \ {r} : reads'[x] = reads[x]
    BY <1>3 DEF ReadPersisted, IInv, TypeOK
  <2>3. redisGen[q.dom] <= dbGen[q.dom]
    BY <2>1 DEF IInv, RedisNeverAhead
  <2>4. ReadsOrdered' /\ FloorsKept'
    BY <1>0, <1>q, <1>t, <2>1, <2>2, <2>3, OneRead DEF dbVars, redisVars, ReadState
  <2> QED BY <1>m, <2>2, <2>4
<1>4. CASE HealGeneration(r)
  <2>1. /\ q.pc = "heal" /\ q.dom \in Domains /\ q.gen \in 0..MaxGen /\ q.gen <= dbGen[q.dom]
        /\ reads'[r].dom = q.dom /\ reads'[r].floor = q.floor /\ reads'[r].gen = q.gen
        /\ reads'[r].pc = "get"
    BY <1>0, <1>q, <1>4 DEF HealGeneration, ReadStep, ReadState, IInv, TypeOK
  <2>2. /\ UNCHANGED <<dbVars, pages, pending, batch>>
        /\ ApplyOk(q.dom, q.gen) \/ ApplyFails(q.dom, q.gen)
        /\ \A x \in Readers \ {r} : reads'[x] = reads[x]
    BY <1>4 DEF HealGeneration, IInv, TypeOK
  <2>3. /\ RedisNeverAhead' /\ PagesCoverTheirKey' /\ PublishedReachedRedis'
        /\ \A x \in Domains : redisGen[x] <= redisGen'[x]
    BY <2>1, <2>2, ApplyPreserves
  <2>4. UNCHANGED dbGen /\ \A x \in Domains : dbGen[x] <= dbGen'[x]
    BY <1>0, <2>2 DEF dbVars
  <2>5. ReadsOrdered' /\ FloorsKept'
    BY <1>q, <2>1, <2>2, <2>3, <2>4, OneRead
  <2>6. AnnouncersCommitted' /\ FinalizersApplied'
    BY <2>2, <2>3, <2>4, BatchesKept
  <2> QED BY <2>3, <2>5, <2>6 DEF IInv
<1>5. CASE CacheHit(r)
  <2>1. PICK p \in PageKey(q.dom, q.gen) :
          reads' = [reads EXCEPT ![r].pc = "done", ![r].total = p.total, ![r].rows = p.rows,
                                 ![r].replies = p.replies]
    BY <1>5 DEF CacheHit
  <2>2. /\ q.pc = "get"
        /\ reads'[r].dom = q.dom /\ reads'[r].floor = q.floor /\ reads'[r].gen = q.gen
        /\ reads'[r].pc = "done" /\ reads'[r].total = p.total /\ reads'[r].rows = p.rows
        /\ reads'[r].replies = p.replies
    BY <1>0, <1>5, <2>1 DEF CacheHit, ReadStep, ReadState, IInv, TypeOK
  <2>3. UNCHANGED <<dbVars, redisVars, pending, batch>> /\ \A x \in Readers \ {r} : reads'[x] = reads[x]
    BY <1>5, <2>1 DEF CacheHit, IInv, TypeOK
  <2>4. /\ q.gen <= p.total /\ p.total <= p.rows /\ p.rows <= p.replies
        /\ p.replies <= dbGen[q.dom]
        /\ p.total \in 0..MaxGen /\ p.rows \in 0..MaxGen /\ p.replies \in 0..MaxGen
    BY DEF PageKey, Page, IInv, TypeOK, PagesCoverTheirKey
  <2>5. ReadsOrdered' /\ FloorsKept'
    BY <1>0, <1>q, <1>t, <2>2, <2>3, <2>4, OneRead DEF dbVars, redisVars, ReadState
  <2> QED BY <1>m, <2>3, <2>5
<1>6. CASE CacheMiss(r)
  <2>1. /\ q.pc = "get" /\ reads'[r].pc = "count"
        /\ reads'[r].dom = q.dom /\ reads'[r].floor = q.floor /\ reads'[r].gen = q.gen
    BY <1>0, <1>6 DEF CacheMiss, ReadStep, ReadState, IInv, TypeOK
  <2>2. UNCHANGED <<dbVars, redisVars, pending, batch>> /\ \A x \in Readers \ {r} : reads'[x] = reads[x]
    BY <1>6 DEF CacheMiss, IInv, TypeOK
  <2>3. ReadsOrdered' /\ FloorsKept'
    BY <1>0, <1>q, <1>t, <2>1, <2>2, OneRead DEF dbVars, redisVars
  <2> QED BY <1>m, <2>2, <2>3
<1>7. CASE CountQuery(r)
  <2>1. /\ q.pc = "count" /\ reads'[r].pc = "rows" /\ q.dom \in Domains
        /\ reads'[r].dom = q.dom /\ reads'[r].floor = q.floor /\ reads'[r].gen = q.gen
        /\ reads'[r].total = dbGen[q.dom]
    BY <1>0, <1>7 DEF CountQuery, ReadStep, ReadState, IInv, TypeOK
  <2>2. UNCHANGED <<dbVars, redisVars, pending, batch>> /\ \A x \in Readers \ {r} : reads'[x] = reads[x]
    BY <1>7 DEF CountQuery, IInv, TypeOK
  <2>3. ReadsOrdered' /\ FloorsKept'
    BY <1>0, <1>q, <1>t, <2>1, <2>2, OneRead DEF dbVars, redisVars
  <2> QED BY <1>m, <2>2, <2>3
<1>8. CASE RowsQuery(r)
  <2>1. /\ q.pc = "rows" /\ reads'[r].pc = "include" /\ q.dom \in Domains
        /\ reads'[r].dom = q.dom /\ reads'[r].floor = q.floor /\ reads'[r].gen = q.gen
        /\ reads'[r].total = q.total /\ reads'[r].rows = dbGen[q.dom]
    BY <1>0, <1>8 DEF RowsQuery, ReadStep, ReadState, IInv, TypeOK
  <2>2. UNCHANGED <<dbVars, redisVars, pending, batch>> /\ \A x \in Readers \ {r} : reads'[x] = reads[x]
    BY <1>8 DEF RowsQuery, IInv, TypeOK
  <2>3. ReadsOrdered' /\ FloorsKept'
    BY <1>0, <1>q, <1>t, <2>1, <2>2, OneRead DEF dbVars, redisVars
  <2> QED BY <1>m, <2>2, <2>3
<1>9a. CASE IncludeQuery(r)
  <2>1. /\ q.pc = "include" /\ reads'[r].pc = "set" /\ q.dom \in Domains
        /\ reads'[r].dom = q.dom /\ reads'[r].floor = q.floor /\ reads'[r].gen = q.gen
        /\ reads'[r].total = q.total /\ reads'[r].rows = q.rows
        /\ reads'[r].replies = dbGen[q.dom]
    BY <1>0, <1>9a DEF IncludeQuery, ReadStep, ReadState, IInv, TypeOK
  <2>2. UNCHANGED <<dbVars, redisVars, pending, batch>> /\ \A x \in Readers \ {r} : reads'[x] = reads[x]
    BY <1>9a DEF IncludeQuery, IInv, TypeOK
  <2>3. ReadsOrdered' /\ FloorsKept'
    BY <1>0, <1>q, <1>t, <2>1, <2>2, OneRead DEF dbVars, redisVars
  <2> QED BY <1>m, <2>2, <2>3
<1>9. CASE CacheSet(r)
  <2> DEFINE p == [dom |-> q.dom, gen |-> q.gen, total |-> q.total, rows |-> q.rows,
                    replies |-> q.replies]
  <2>1. /\ q.pc = "set" /\ reads'[r].pc = "done"
        /\ reads'[r].dom = q.dom /\ reads'[r].floor = q.floor /\ reads'[r].gen = q.gen
        /\ reads'[r].total = q.total /\ reads'[r].rows = q.rows
        /\ reads'[r].replies = q.replies
    BY <1>0, <1>9 DEF CacheSet, ReadStep, ReadState, IInv, TypeOK
  <2>2. UNCHANGED <<dbVars, redisGen, pending, batch>> /\ \A x \in Readers \ {r} : reads'[x] = reads[x]
    BY <1>9 DEF CacheSet, IInv, TypeOK
  <2>3. ReadsOrdered' /\ FloorsKept'
    BY <1>0, <1>q, <1>t, <2>1, <2>2, OneRead DEF dbVars
  <2>4. pages' \subseteq pages \cup {p}
    BY <1>9 DEF CacheSet
  <2>5. /\ p.gen <= p.total /\ p.total <= p.rows /\ p.rows <= p.replies
        /\ p.replies <= dbGen[p.dom]
    BY <1>q, <2>1
  <2>6. PagesCoverTheirKey'
    <3>1. dbGen' = dbGen
      BY <2>2 DEF dbVars
    <3> HIDE DEF p
    <3> QED BY <2>4, <2>5, <3>1 DEF IInv, PagesCoverTheirKey
  <2> QED
    BY <2>2, <2>3, <2>6 DEF IInv, dbVars, RedisNeverAhead, AnnouncersCommitted, Created,
                            FinalizersApplied, PublishedReachedRedis
<1>10. CASE ListEnd(r)
  <2>1. reads'[r].pc = "idle"
    BY <1>10 DEF ListEnd, NoRead, IInv, TypeOK
  <2>2. UNCHANGED <<dbVars, redisVars, pending, batch>> /\ \A x \in Readers \ {r} : reads'[x] = reads[x]
    BY <1>10 DEF ListEnd, IInv, TypeOK
  <2>3. ReadsOrdered' /\ FloorsKept'
    BY <1>t, <2>1, <2>2, OneRead DEF dbVars, redisVars
  <2> QED BY <1>m, <2>2, <2>3
<1> QED
  BY <1>1, <1>2, <1>3, <1>4, <1>5, <1>6, <1>7, <1>8, <1>9, <1>9a, <1>10 DEF ReaderNext

\* A step of one dispatcher that moves neither generation back.
LEMMA OneBatch ==
  ASSUME IInv, TypeOK', NEW b \in Batches, UNCHANGED <<dbGen, pending>>,
         \A d \in Domains : redisGen[d] <= redisGen'[d],
         \A x \in Batches \ {b} : batch'[x] = batch[x],
         \A e \in batch'[b].todo : Created(e),
         batch'[b].pc \in {"finalize", "release"} => Created(batch'[b].event),
         batch'[b].pc = "finalize" =>
            RedisLoss \/ batch'[b].event[2] <= redisGen'[batch'[b].event[1]]
  PROVE  AnnouncersCommitted' /\ FinalizersApplied'
<1> USE DEF IInv, TypeOK
<1>1. \A x \in Batches : batch[x] \in BatchState /\ batch'[x] \in BatchState
  OBVIOUS
<1>2. \A e \in Events : Created(e)' <=> Created(e)
  BY DEF Created
<1>3. AnnouncersCommitted'
  BY <1>1, <1>2 DEF AnnouncersCommitted, BatchState
<1>4. ASSUME NEW x \in Batches, batch'[x].pc = "finalize", ~RedisLoss
      PROVE  batch'[x].event[2] <= redisGen'[batch'[x].event[1]]
  <2>1. CASE x = b
    BY <1>4, <2>1
  <2>2. CASE x # b
    <3>1. batch'[x] = batch[x] /\ batch[x].event \in Events
      BY <1>1, <2>2 DEF BatchState
    <3>2. batch[x].event[2] <= redisGen[batch[x].event[1]]
      BY <1>4, <3>1 DEF FinalizersApplied
    <3> QED BY <3>1, <3>2, EventParts
  <2> QED BY <2>1, <2>2
<1>5. FinalizersApplied'
  BY <1>4 DEF FinalizersApplied
<1> QED BY <1>3, <1>5

\* Each step of dispatchBatch keeps the invariant: it finalizes only what it applied.
LEMMA InvBatch ==
  ASSUME IInv, TypeOK', NEW b \in Batches, BatchNext(b)
  PROVE  IInv'
<1>0. /\ batch[b] \in BatchState /\ batch \in [Batches -> BatchState]
      /\ \A e \in batch[b].todo : e \in Events /\ Created(e)
      /\ batch[b].pc \in {"finalize", "release"} => Created(batch[b].event)
  BY DEF IInv, TypeOK, AnnouncersCommitted, BatchState
<1>t. redisGen' = redisGen => \A d \in Domains : redisGen[d] <= redisGen'[d]
  BY DEF IInv, TypeOK
<1>r. dbGen' = dbGen => \A d \in Domains : dbGen[d] <= dbGen'[d]
  BY DEF IInv, TypeOK
\* With both generations and the pages unchanged, only the batch matters.
<1>m. ASSUME UNCHANGED <<dbGen, redisVars, pending, reads>>, AnnouncersCommitted',
             FinalizersApplied', PublishedReachedRedis'
      PROVE  IInv'
  <2>1. ReadsOrdered' /\ FloorsKept'
    BY <1>m, <1>t, <1>r, ReadsKept DEF redisVars
  <2> QED
    BY <1>m, <2>1 DEF IInv, redisVars, RedisNeverAhead, PagesCoverTheirKey
<1>n. ASSUME NextEvent(b)
      PROVE  /\ \A x \in Batches \ {b} : batch'[x] = batch[x]
             /\ batch'[b].pc \in {"idle", "work"}
             /\ batch'[b].todo \subseteq batch[b].todo
  <2> DEFINE rest == batch[b].todo \ {batch[b].event}
  <2>1. batch' = [batch EXCEPT ![b] =
            IF rest = {} THEN NoBatch ELSE [batch[b] EXCEPT !.pc = "work", !.todo = rest]]
    BY <1>n DEF NextEvent
  <2>2. rest \subseteq batch[b].todo
    OBVIOUS
  <2> HIDE DEF rest
  <2> QED BY <1>0, <2>1, <2>2 DEF NoBatch, BatchState
<1>1. CASE BatchFind(b)
  <2>1. PICK C \in Oldest({e \in Events : Claimable(e)}) :
          batch' = [batch EXCEPT ![b].pc = "lease", ![b].todo = C]
    BY <1>1 DEF BatchFind
  <2>2. \A e \in C : Created(e)
    BY <2>1 DEF Oldest, Claimable
  <2>3. batch'[b].pc = "lease" /\ batch'[b].todo = C /\ \A x \in Batches \ {b} : batch'[x] = batch[x]
    BY <1>0, <2>1 DEF BatchState
  <2>4. UNCHANGED <<dbGen, redisVars, pending, reads>> /\ UNCHANGED <<redisGen, published>>
    BY <1>1 DEF BatchFind, dbVars, redisVars
  <2>5. AnnouncersCommitted' /\ FinalizersApplied'
    BY <1>t, <2>2, <2>3, <2>4, OneBatch
  <2> QED BY <1>m, <2>4, <2>5 DEF IInv, PublishedReachedRedis
<1>2. CASE BatchLease(b)
  <2>1. PICK mine \in SUBSET batch[b].todo :
          batch' = [batch EXCEPT ![b] =
             IF mine = {} THEN NoBatch ELSE [batch[b] EXCEPT !.pc = "work", !.todo = mine]]
    BY <1>2 DEF BatchLease
  <2>3. /\ batch'[b].pc \in {"idle", "work"} /\ batch'[b].todo \subseteq batch[b].todo
        /\ \A x \in Batches \ {b} : batch'[x] = batch[x]
    BY <1>0, <2>1 DEF BatchState, NoBatch
  <2>4. UNCHANGED <<dbGen, redisVars, pending, reads>> /\ UNCHANGED <<redisGen, published>>
    BY <1>2 DEF BatchLease, redisVars
  <2>5. AnnouncersCommitted' /\ FinalizersApplied'
    BY <1>0, <1>t, <2>3, <2>4, OneBatch
  <2> QED BY <1>m, <2>4, <2>5 DEF IInv, PublishedReachedRedis
<1>3. ASSUME NEW e \in Events, DispatchApply(b, e) \/ DispatchApplyFails(b, e) PROVE IInv'
  <2>1. e[1] \in Domains /\ e[2] \in 0..MaxGen /\ Created(e) /\ e[2] <= dbGen[e[1]]
    BY <1>0, <1>3, EventParts DEF DispatchApply, DispatchApplyFails, NextInBatch, Created
  <2>2. /\ ApplyOk(e[1], e[2]) \/ ApplyFails(e[1], e[2])
        /\ UNCHANGED <<dbVars, pages, pending, reads>>
    BY <1>3 DEF DispatchApply, DispatchApplyFails
  <2>3. /\ RedisNeverAhead' /\ PagesCoverTheirKey' /\ PublishedReachedRedis'
        /\ \A x \in Domains : redisGen[x] <= redisGen'[x]
    BY <2>1, <2>2, ApplyPreserves
  <2>4. /\ batch'[b].todo = batch[b].todo /\ batch'[b].event = e
        /\ batch'[b].pc \in {"finalize", "release"}
        /\ batch'[b].pc = "finalize" => DispatchApply(b, e)
        /\ \A x \in Batches \ {b} : batch'[x] = batch[x]
    BY <1>0, <1>3 DEF DispatchApply, DispatchApplyFails, BatchState
  <2>5. DispatchApply(b, e) => e[2] <= redisGen'[e[1]]
    BY <2>1, ApplyFacts DEF DispatchApply, ApplyOk, IInv, TypeOK
  <2>6. UNCHANGED <<dbGen, pending>>
    BY <2>2 DEF dbVars
  <2>7. AnnouncersCommitted' /\ FinalizersApplied'
    BY <1>0, <2>1, <2>3, <2>4, <2>5, <2>6, OneBatch
  <2>8. ReadsOrdered' /\ FloorsKept'
    BY <1>r, <2>2, <2>3, <2>6, ReadsKept
  <2> QED BY <2>3, <2>7, <2>8 DEF IInv
<1>4. CASE Finalize(b)
  <2>1. UNCHANGED <<dbGen, redisVars, pending, reads>> /\ UNCHANGED redisGen
    BY <1>4 DEF Finalize, redisVars
  <2>2. AnnouncersCommitted' /\ FinalizersApplied'
    BY <1>0, <1>n, <1>t, <1>4, <2>1, OneBatch DEF Finalize
  <2>3. published' \subseteq published \cup {batch[b].event} /\ batch[b].pc = "finalize"
    BY <1>4 DEF Finalize, BatchStep
  <2>4. PublishedReachedRedis'
    BY <2>1, <2>3 DEF IInv, PublishedReachedRedis, FinalizersApplied
  <2> QED BY <1>m, <2>1, <2>2, <2>4
<1>5. CASE FinalizeFails(b)
  <2>1. UNCHANGED <<dbGen, redisVars, pending, reads>> /\ UNCHANGED <<redisGen, published>>
    BY <1>5 DEF FinalizeFails, redisVars, dbVars
  <2>2. /\ batch[b].pc = "finalize" /\ batch'[b].pc = "release"
        /\ batch'[b].todo = batch[b].todo /\ batch'[b].event = batch[b].event
        /\ \A x \in Batches \ {b} : batch'[x] = batch[x]
    BY <1>0, <1>5 DEF FinalizeFails, BatchStep, BatchState
  <2>3. AnnouncersCommitted' /\ FinalizersApplied'
    BY <1>0, <1>t, <2>1, <2>2, OneBatch
  <2> QED BY <1>m, <2>1, <2>3 DEF IInv, PublishedReachedRedis
<1>6. CASE Release(b)
  <2>1. UNCHANGED <<dbGen, redisVars, pending, reads>> /\ UNCHANGED <<redisGen, published>>
    BY <1>6 DEF Release, redisVars
  <2>2. AnnouncersCommitted' /\ FinalizersApplied'
    BY <1>0, <1>n, <1>t, <1>6, <2>1, OneBatch DEF Release
  <2> QED BY <1>m, <2>1, <2>2 DEF IInv, PublishedReachedRedis
<1>7. CASE BatchCrash(b)
  <2>1. UNCHANGED <<dbGen, redisVars, pending, reads>> /\ UNCHANGED <<redisGen, published>>
    BY <1>7 DEF BatchCrash, redisVars, dbVars
  <2>2. batch'[b] = NoBatch /\ \A x \in Batches \ {b} : batch'[x] = batch[x]
    BY <1>0, <1>7 DEF BatchCrash
  <2>3. batch'[b].pc = "idle" /\ batch'[b].todo = {}
    BY <2>2 DEF NoBatch
  <2>4. AnnouncersCommitted' /\ FinalizersApplied'
    BY <1>t, <2>1, <2>2, <2>3, OneBatch
  <2> QED BY <1>m, <2>1, <2>4 DEF IInv, PublishedReachedRedis
<1> QED
  BY <1>1, <1>2, <1>3, <1>4, <1>5, <1>6, <1>7 DEF BatchNext

\* Expiring leases and pages and a Redis that loses data keep the invariant.
LEMMA InvEnvironment ==
  ASSUME IInv, TypeOK',
         \/ \E e \in Events : LeaseExpires(e)
         \/ \E p \in pages : PageExpires(p)
         \/ \E d \in Domains : RedisLoses(d)
  PROVE  IInv'
<1>0. \A d \in Domains : dbGen[d] <= dbGen[d] /\ redisGen[d] <= redisGen[d]
  BY DEF IInv, TypeOK
<1>1. ASSUME NEW e \in Events, LeaseExpires(e) PROVE IInv'
  <2>1. UNCHANGED <<dbGen, redisGen, published, pages, pending, reads, batch>>
    BY <1>1 DEF LeaseExpires, redisVars
  <2> QED
    BY <1>0, <2>1, ReadsKept, BatchesKept
       DEF IInv, RedisNeverAhead, PagesCoverTheirKey, PublishedReachedRedis
<1>2. ASSUME NEW p \in pages, PageExpires(p) PROVE IInv'
  <2>1. /\ UNCHANGED <<dbGen, redisGen, published, pending, reads, batch>>
        /\ pages' \subseteq pages
    BY <1>2 DEF PageExpires, dbVars
  <2> QED
    BY <1>0, <2>1, ReadsKept, BatchesKept
       DEF IInv, RedisNeverAhead, PagesCoverTheirKey, PublishedReachedRedis
<1>3. ASSUME NEW d \in Domains, RedisLoses(d) PROVE IInv'
  <2>1. /\ UNCHANGED <<dbGen, published, pending, reads, batch>>
        /\ pages' \subseteq pages /\ RedisLoss
        /\ redisGen' = [redisGen EXCEPT ![d] = 0]
    BY <1>3 DEF RedisLoses, dbVars
  <2>2. ReadsOrdered' /\ FloorsKept'
    BY <1>0, <2>1, ReadsKept
  <2>3. AnnouncersCommitted' /\ FinalizersApplied'
    BY <1>0, <2>1, BatchesKept
  <2>4. RedisNeverAhead'
    BY <2>1 DEF IInv, TypeOK, RedisNeverAhead
  <2> QED
    BY <2>1, <2>2, <2>3, <2>4 DEF IInv, PagesCoverTheirKey, PublishedReachedRedis
<1> QED BY <1>1, <1>2, <1>3

\* A step of something else keeps the invariant.
LEMMA InvStutter == IInv /\ UNCHANGED vars => IInv'
BY TypeStutter
   DEF vars, dbVars, redisVars, IInv, RedisNeverAhead, AnnouncersCommitted, Created,
       PagesCoverTheirKey, ReadsOrdered, FloorsKept, FinalizersApplied, PublishedReachedRedis

\* The inductive invariant holds of the whole specification.
THEOREM Invariance == Spec => []IInv
<1>1. IInv /\ [Next]_vars => IInv'
  <2> SUFFICES ASSUME IInv, [Next]_vars PROVE IInv'
    OBVIOUS
  <2>1. TypeOK'
    BY TypeWriter, TypeReader, TypeBatch, TypeEnvironment, TypeStutter DEF Next, IInv
  <2> QED
    BY <2>1, InvWriter, InvReader, InvBatch, InvEnvironment, InvStutter DEF Next
<1> QED BY InvInit, <1>1, PTL DEF Spec

-----------------------------------------------------------------------------
(***************************************************************************)
(* What the invariant gives.                                               *)
(***************************************************************************)

\* The key of a page promises what is on it, for every interleaving of
\* mutations with the reader's await points and every Redis failure or loss.
THEOREM PageCoverage == Spec => []PagesCoverTheirKey
BY Invariance, PTL DEF IInv

\* No caller of applyGeneration announces a generation before its commit.
THEOREM NeverAhead == Spec => []RedisNeverAhead
BY Invariance, PTL DEF IInv

\* Read your writes, while Redis keeps its data.
THEOREM ReadYourWrites == Spec => []AnswersCoverFloor
<1>1. IInv => AnswersCoverFloor
  BY ConstantsAssumption
     DEF ConstantsAssumption, IInv, TypeOK, FloorsKept, ReadsOrdered, AnswersCoverFloor,
         ReadState, ReadStep
<1> QED BY Invariance, <1>1, PTL

\* The dispatcher marks an event published only once its generation is in
\* Redis, with any number of overlapping batches, expired leases and crashes.
THEOREM PublishedMeansApplied == Spec => []PublishedReachedRedis
BY Invariance, PTL DEF IInv

\* Redis' generation of a domain never moves back while it keeps its data.
THEOREM Monotone == Spec => RedisGenerationMonotone
<1>1. IInv /\ [Next]_vars =>
        [RedisLoss \/ \A d \in Domains : redisGen[d] <= redisGen'[d]]_vars
  <2> SUFFICES ASSUME IInv, Next, ~RedisLoss, NEW d \in Domains
               PROVE  redisGen[d] <= redisGen'[d]
    OBVIOUS
  <2>0. redisGen \in [Domains -> 0..MaxGen]
    BY DEF IInv, TypeOK
  <2>1. redisGen' = redisGen => redisGen[d] <= redisGen'[d]
    BY <2>0
  <2>2. ASSUME NEW x \in Domains, NEW g \in 0..MaxGen, ApplyOk(x, g) \/ ApplyFails(x, g)
        PROVE  redisGen[d] <= redisGen'[d]
    BY <2>0, <2>1, <2>2, ApplyFacts DEF ApplyOk, ApplyFails
  <2>3. ASSUME NEW x \in Domains, CommitMutation(x) PROVE redisGen[d] <= redisGen'[d]
    BY <2>1, <2>3 DEF CommitMutation, redisVars
  <2>4. ASSUME NEW e \in Events, WriterApply(e) \/ WriterCrash(e)
        PROVE  redisGen[d] <= redisGen'[d]
    BY <2>1, <2>2, <2>4, EventParts DEF WriterApply, WriterCrash, redisVars
  <2>5. ASSUME NEW r \in Readers, ReaderNext(r) PROVE redisGen[d] <= redisGen'[d]
    <3>1. CASE HealGeneration(r)
      <4>1. reads[r].dom \in Domains /\ reads[r].gen \in 0..MaxGen
        BY DEF IInv, TypeOK, ReadState
      <4> QED BY <2>2, <3>1, <4>1 DEF HealGeneration
    <3>2. CASE ~HealGeneration(r)
      BY <2>1, <2>5, <3>2
         DEF ReaderNext, ListBegin, GetGeneration, ReadPersisted, CacheHit, CacheMiss,
             CountQuery, RowsQuery, IncludeQuery, CacheSet, ListEnd, redisVars
    <3> QED BY <3>1, <3>2
  <2>6. ASSUME NEW b \in Batches, BatchNext(b) PROVE redisGen[d] <= redisGen'[d]
    <3>1. ASSUME NEW e \in Events, DispatchApply(b, e) \/ DispatchApplyFails(b, e)
          PROVE  redisGen[d] <= redisGen'[d]
      BY <2>2, <3>1, EventParts DEF DispatchApply, DispatchApplyFails
    <3> QED
      BY <2>1, <2>6, <3>1
         DEF BatchNext, BatchFind, BatchLease, Finalize, FinalizeFails, Release, BatchCrash, redisVars
  <2>7. ASSUME NEW e \in Events, LeaseExpires(e) PROVE redisGen[d] <= redisGen'[d]
    BY <2>1, <2>7 DEF LeaseExpires, redisVars
  <2>8. ASSUME NEW p \in pages, PageExpires(p) PROVE redisGen[d] <= redisGen'[d]
    BY <2>1, <2>8 DEF PageExpires
  <2>9. ASSUME NEW x \in Domains, RedisLoses(x) PROVE FALSE
    BY <2>9 DEF RedisLoses
  <2> QED BY <2>3, <2>4, <2>5, <2>6, <2>7, <2>8, <2>9 DEF Next
<1> QED BY Invariance, <1>1, PTL DEF Spec, RedisGenerationMonotone

\* A live lease is only changed by an invocation that carries its leaseOwner
\* and is finishing that event.
THEOREM LeaseExclusion == Spec => LiveLeaseRespected
<1> DEFINE Respected(e) ==
      leaseOwner[e] # NoOwner /\ e \notin expired /\ leaseOwner'[e] # leaseOwner[e]
        => \E b \in Batches : /\ OwnerOf[b] = leaseOwner[e]
                              /\ batch[b].pc \in {"finalize", "release"}
                              /\ batch[b].event = e
<1>1. TypeOK /\ [Next]_vars => [\A e \in Events : Respected(e)]_vars
  <2> SUFFICES ASSUME TypeOK, Next, NEW e \in Events PROVE Respected(e)
    OBVIOUS
  <2>1. CASE UNCHANGED leaseOwner
    BY <2>1
  <2>2. ASSUME NEW b \in Batches, BatchLease(b) PROVE Respected(e)
    <3>1. Claimable(e) \/ leaseOwner'[e] = leaseOwner[e]
      BY <2>2 DEF BatchLease
    <3> QED BY <3>1 DEF Claimable
  <2>3. ASSUME NEW b \in Batches, Finalize(b) \/ Release(b) PROVE Respected(e)
    <3>1. \/ leaseOwner'[e] = leaseOwner[e]
          \/ e = batch[b].event /\ HoldsLease(b, e)
      BY <2>3 DEF Finalize, Release, TypeOK
    <3>2. batch[b].pc \in {"finalize", "release"}
      BY <2>3 DEF Finalize, Release, BatchStep
    <3> QED BY <3>1, <3>2 DEF HoldsLease
  <2> QED
    BY <2>1, <2>2, <2>3
       DEF Next, CommitMutation, WriterApply, WriterCrash, ReaderNext, ListBegin, GetGeneration,
           ReadPersisted, HealGeneration, CacheHit, CacheMiss, CountQuery, RowsQuery, IncludeQuery,
           CacheSet, ListEnd, BatchNext, BatchFind, DispatchApply, DispatchApplyFails, FinalizeFails,
           BatchCrash, LeaseExpires, PageExpires, RedisLoses, dbVars
<1> QED BY TypeCorrect, <1>1, PTL DEF Spec, LiveLeaseRespected

-----------------------------------------------------------------------------
(***************************************************************************)
(* The cache implements the feed.                                          *)
(***************************************************************************)

Requests == [r \in Readers |-> FeedRequest(r)]

\* A step of one request changes that request of the feed only.
LEMMA RequestsExcept ==
  ASSUME NEW r \in Readers, \A x \in Readers \ {r} : reads'[x] = reads[x]
  PROVE  Requests' = [Requests EXCEPT ![r] = FeedRequest(r)']
<1>1. \A x \in Readers \ {r} : FeedRequest(x)' = FeedRequest(x)
  BY DEF FeedRequest
<1> QED BY <1>1 DEF Requests

\* Steps that leave the requests alone leave the feed's requests alone.
LEMMA RequestsKept == UNCHANGED reads => Requests' = Requests
BY DEF Requests, FeedRequest

\* Applying a committed generation announces it, or leaves the feed alone.
LEMMA ApplyAnnounces ==
  ASSUME IInv, NEW d \in Domains, NEW g \in 0..MaxGen, g <= dbGen[d],
         ApplyOk(d, g) \/ ApplyFails(d, g), UNCHANGED dbGen, Requests' = Requests
  PROVE  Feed!Next
<1>1. redisGen \in [Domains -> 0..MaxGen] /\ dbGen \in [Domains -> 0..MaxGen]
      /\ redisGen[d] <= dbGen[d]
  BY DEF IInv, TypeOK, RedisNeverAhead
<1>2. \E h \in redisGen[d]..dbGen[d] : redisGen' = [redisGen EXCEPT ![d] = h]
  <2>1. CASE redisGen' = redisGen
    <3>1. redisGen' = [redisGen EXCEPT ![d] = redisGen[d]] /\ redisGen[d] \in redisGen[d]..dbGen[d]
      BY <1>1, <2>1
    <3> QED BY <3>1
  <2>2. CASE redisGen' # redisGen
    <3>1. g > redisGen[d] /\ redisGen' = [redisGen EXCEPT ![d] = g]
      BY <2>2 DEF ApplyOk, ApplyFails, ApplyGeneration
    <3>2. g \in redisGen[d]..dbGen[d]
      BY <1>1, <3>1
    <3> QED BY <3>1, <3>2
  <2> QED BY <2>1, <2>2
<1>3. Feed!Announce(d)
  BY <1>2 DEF Feed!Announce, Requests
<1> QED BY <1>3 DEF Feed!Next

\* Each step of a list request is an Open, Answer or Close of the feed, or a stutter.
LEMMA ReaderSimulates ==
  ASSUME ~RedisLoss, IInv, IInv', NEW r \in Readers, ReaderNext(r)
  PROVE  [Feed!Next]_(Feed!vars)
<1> DEFINE q == reads[r]
<1>0. /\ q \in ReadState /\ reads' \in [Readers -> ReadState] /\ reads \in [Readers -> ReadState]
      /\ dbGen \in [Domains -> 0..MaxGen] /\ redisGen \in [Domains -> 0..MaxGen]
  BY DEF IInv, TypeOK
<1>s. ASSUME UNCHANGED <<dbGen, redisGen>>, Requests' = Requests
      PROVE  [Feed!Next]_(Feed!vars)
  BY <1>s DEF Feed!vars, Requests
\* A request that gets its page answers the feed's request.
<1>a. ASSUME UNCHANGED <<dbGen, redisGen>>, \A x \in Readers \ {r} : reads'[x] = reads[x],
             q.pc \notin {"idle", "done"}, reads'[r].pc = "done", reads'[r].dom = q.dom,
             reads'[r].floor = q.floor
      PROVE  Feed!Next
  <2>1. FeedRequest(r) = [pc |-> "open", dom |-> q.dom, floor |-> q.floor]
    BY <1>a DEF FeedRequest
  <2>2. FeedRequest(r)' = [pc |-> "answered", dom |-> q.dom, total |-> reads'[r].total,
                           rows |-> reads'[r].rows, replies |-> reads'[r].replies]
    BY <1>a DEF FeedRequest
  <2>3. /\ reads'[r].total \in q.floor..dbGen[q.dom]
        /\ reads'[r].rows \in q.floor..dbGen[q.dom]
        /\ reads'[r].replies \in q.floor..dbGen[q.dom]
        /\ reads'[r].total <= reads'[r].rows /\ reads'[r].rows <= reads'[r].replies
    <3>1. /\ q.floor <= reads'[r].gen /\ reads'[r].gen <= reads'[r].total
          /\ reads'[r].total <= reads'[r].rows /\ reads'[r].rows <= reads'[r].replies
          /\ reads'[r].replies <= dbGen[q.dom]
      BY <1>a DEF IInv, FloorsKept, ReadsOrdered
    <3>2. /\ reads'[r].gen \in 0..MaxGen /\ reads'[r].total \in 0..MaxGen
          /\ reads'[r].rows \in 0..MaxGen /\ reads'[r].replies \in 0..MaxGen
          /\ q.floor \in 0..MaxGen /\ q.dom \in Domains
      BY <1>0 DEF ReadState
    <3> QED BY <1>0, <3>1, <3>2, ConstantsAssumption DEF ConstantsAssumption
  <2>4. Requests[r] = FeedRequest(r) /\ Requests' = [Requests EXCEPT ![r] = FeedRequest(r)']
    BY <1>a, RequestsExcept DEF Requests
  <2>5. Requests[r].pc = "open" /\ Requests[r].dom = q.dom /\ Requests[r].floor = q.floor
    BY <2>1, <2>4
  <2>6. \E total, rows, replies \in Requests[r].floor..dbGen[Requests[r].dom] :
          /\ total <= rows /\ rows <= replies
          /\ Requests' = [Requests EXCEPT ![r] = [pc |-> "answered", dom |-> Requests[r].dom,
                total |-> total, rows |-> rows, replies |-> replies]]
    <3> DEFINE t == reads'[r].total  w == reads'[r].rows  p == reads'[r].replies
    <3>1. Requests' = [Requests EXCEPT ![r] = [pc |-> "answered", dom |-> Requests[r].dom,
                total |-> t, rows |-> w, replies |-> p]]
      BY <2>2, <2>4, <2>5
    <3>2. /\ t \in Requests[r].floor..dbGen[Requests[r].dom]
          /\ w \in Requests[r].floor..dbGen[Requests[r].dom]
          /\ p \in Requests[r].floor..dbGen[Requests[r].dom] /\ t <= w /\ w <= p
      BY <2>3, <2>5
    <3> HIDE DEF t, w, p
    <3> QED BY <3>1, <3>2
  <2>7. Feed!Answer(r)
    BY <1>a, <2>5, <2>6 DEF Feed!Answer, Requests
  <2> QED BY <2>7 DEF Feed!Next
\* A step inside a request is invisible to the feed.
<1>i. ASSUME UNCHANGED <<dbGen, redisGen>>, \A x \in Readers \ {r} : reads'[x] = reads[x],
             q.pc \notin {"idle", "done"}, reads'[r].pc \notin {"idle", "done"},
             reads'[r].dom = q.dom, reads'[r].floor = q.floor
      PROVE  Requests' = Requests
  <2>1. FeedRequest(r)' = FeedRequest(r)
    BY <1>i DEF FeedRequest
  <2> QED BY <1>i, <2>1, RequestsExcept DEF Requests
<1>1. ASSUME NEW d \in Domains, ListBegin(r, d) PROVE Feed!Next
  <2>1. /\ q.pc = "idle" /\ reads'[r].pc = "generation" /\ reads'[r].dom = d
        /\ reads'[r].floor = redisGen[d] /\ \A x \in Readers \ {r} : reads'[x] = reads[x]
        /\ UNCHANGED <<dbGen, redisGen>>
    BY <1>0, <1>1 DEF ListBegin, ReadStep, NoRead, dbVars, redisVars
  <2>2. FeedRequest(r) = [pc |-> "closed"]
    BY <2>1 DEF FeedRequest
  <2>3. FeedRequest(r)' = [pc |-> "open", dom |-> d, floor |-> redisGen[d]]
    BY <2>1 DEF FeedRequest
  <2>4. Requests[r] = [pc |-> "closed"] /\ Requests' = [Requests EXCEPT ![r] = FeedRequest(r)']
    BY <2>1, <2>2, RequestsExcept DEF Requests
  <2>5. Feed!Open(r, d)
    BY <2>1, <2>3, <2>4 DEF Feed!Open, Feed!Closed, Requests
  <2> QED BY <2>5 DEF Feed!Next
<1>2. CASE \/ GetGeneration(r) \/ ReadPersisted(r) \/ CacheMiss(r) \/ CountQuery(r)
         \/ RowsQuery(r) \/ IncludeQuery(r)
  <2>1. /\ q.pc \notin {"idle", "done"} /\ reads'[r].pc \notin {"idle", "done"}
        /\ reads'[r].dom = q.dom /\ reads'[r].floor = q.floor
        /\ \A x \in Readers \ {r} : reads'[x] = reads[x]
    BY <1>0, <1>2
       DEF GetGeneration, ReadPersisted, CacheMiss, CountQuery, RowsQuery, IncludeQuery, ReadStep,
           ReadState
  <2>2. UNCHANGED <<dbGen, redisGen>>
    BY <1>2 DEF GetGeneration, ReadPersisted, CacheMiss, CountQuery, RowsQuery, IncludeQuery, dbVars,
              redisVars
  <2> QED BY <1>s, <1>i, <2>1, <2>2
<1>3. CASE HealGeneration(r)
  <2>1. /\ q.pc = "heal" /\ reads'[r].pc = "get"
        /\ reads'[r].dom = q.dom /\ reads'[r].floor = q.floor
        /\ \A x \in Readers \ {r} : reads'[x] = reads[x]
        /\ UNCHANGED dbGen /\ (ApplyOk(q.dom, q.gen) \/ ApplyFails(q.dom, q.gen))
    BY <1>0, <1>3 DEF HealGeneration, ReadStep, ReadState, dbVars
  <2>2. FeedRequest(r)' = FeedRequest(r)
    BY <2>1 DEF FeedRequest
  <2>3. Requests' = Requests
    BY <2>1, <2>2, RequestsExcept DEF Requests
  <2>4. q.dom \in Domains /\ q.gen \in 0..MaxGen /\ q.gen <= dbGen[q.dom]
    BY <1>0, <2>1 DEF ReadState, IInv, ReadsOrdered
  <2> QED BY <2>1, <2>3, <2>4, ApplyAnnounces
<1>4. CASE CacheHit(r) \/ CacheSet(r)
  <2>1. /\ q.pc \notin {"idle", "done"} /\ reads'[r].pc = "done"
        /\ reads'[r].dom = q.dom /\ reads'[r].floor = q.floor
        /\ \A x \in Readers \ {r} : reads'[x] = reads[x]
        /\ UNCHANGED <<dbGen, redisGen>>
    <3>1. CASE CacheHit(r)
      <4>1. PICK p \in PageKey(q.dom, q.gen) :
              reads' = [reads EXCEPT ![r].pc = "done", ![r].total = p.total, ![r].rows = p.rows,
                                     ![r].replies = p.replies]
        BY <3>1 DEF CacheHit
      <4> QED BY <1>0, <3>1, <4>1 DEF CacheHit, ReadStep, ReadState, dbVars, redisVars
    <3>2. CASE CacheSet(r)
      BY <1>0, <3>2 DEF CacheSet, ReadStep, ReadState, dbVars
    <3> QED BY <1>4, <3>1, <3>2
  <2> QED BY <1>a, <2>1
<1>5. CASE ListEnd(r)
  <2>1. /\ q.pc # "idle" /\ reads'[r].pc = "idle" /\ \A x \in Readers \ {r} : reads'[x] = reads[x]
        /\ UNCHANGED <<dbGen, redisGen>>
    BY <1>0, <1>5 DEF ListEnd, ReadStep, NoRead, dbVars, redisVars
  <2>2. FeedRequest(r)' = [pc |-> "closed"]
    BY <2>1 DEF FeedRequest
  <2>3. FeedRequest(r).pc # "closed"
    BY <2>1 DEF FeedRequest
  <2>4. FeedRequest(r) # [pc |-> "closed"]
    BY <2>3
  <2>5. Requests[r] = FeedRequest(r) /\ Requests' = [Requests EXCEPT ![r] = FeedRequest(r)']
    BY <2>1, RequestsExcept DEF Requests
  <2>6. Feed!Close(r)
    BY <2>1, <2>2, <2>4, <2>5 DEF Feed!Close, Feed!Closed, Requests
  <2> QED BY <2>6 DEF Feed!Next
<1> QED
  BY <1>1, <1>2, <1>3, <1>4, <1>5 DEF ReaderNext

\* Every step of requests, mutations, dispatchers and environment is a step of
\* the feed or leaves it alone.
LEMMA StepSimulation ==
  ASSUME ~RedisLoss, IInv, IInv', [Next]_vars
  PROVE  [Feed!Next]_(Feed!vars)
<1>s. ASSUME UNCHANGED <<dbGen, redisGen, reads>> PROVE [Feed!Next]_(Feed!vars)
  BY <1>s, RequestsKept DEF Feed!vars, Requests
<1>1. ASSUME NEW d \in Domains, CommitMutation(d) PROVE Feed!Next
  <2>1. Feed!Mutate(d)
    BY <1>1, RequestsKept DEF CommitMutation, Feed!Mutate, Requests, redisVars
  <2> QED BY <2>1 DEF Feed!Next
<1>2. ASSUME NEW e \in Events, WriterApply(e) PROVE Feed!Next
  <2>1. e[1] \in Domains /\ e[2] \in 0..MaxGen /\ e[2] <= dbGen[e[1]]
    BY <1>2, EventParts DEF WriterApply, IInv, AnnouncersCommitted, Created
  <2>2. Requests' = Requests /\ UNCHANGED dbGen /\ (ApplyOk(e[1], e[2]) \/ ApplyFails(e[1], e[2]))
    BY <1>2, RequestsKept DEF WriterApply, dbVars
  <2> QED BY <2>1, <2>2, ApplyAnnounces
<1>3. ASSUME NEW e \in Events, WriterCrash(e) PROVE [Feed!Next]_(Feed!vars)
  BY <1>s, <1>3 DEF WriterCrash, dbVars, redisVars
<1>4. ASSUME NEW r \in Readers, ReaderNext(r) PROVE [Feed!Next]_(Feed!vars)
  BY <1>4, ReaderSimulates
<1>5. ASSUME NEW b \in Batches, BatchNext(b) PROVE [Feed!Next]_(Feed!vars)
  <2>1. ASSUME NEW e \in Events, DispatchApply(b, e) \/ DispatchApplyFails(b, e) PROVE Feed!Next
    <3>1. e[1] \in Domains /\ e[2] \in 0..MaxGen /\ e[2] <= dbGen[e[1]]
      BY <2>1, EventParts
         DEF DispatchApply, DispatchApplyFails, NextInBatch, IInv, AnnouncersCommitted, Created
    <3>2. Requests' = Requests /\ UNCHANGED dbGen /\ (ApplyOk(e[1], e[2]) \/ ApplyFails(e[1], e[2]))
      BY <2>1, RequestsKept DEF DispatchApply, DispatchApplyFails, dbVars
    <3> QED BY <3>1, <3>2, ApplyAnnounces
  <2> QED
    BY <1>s, <1>5, <2>1
       DEF BatchNext, BatchFind, BatchLease, Finalize, FinalizeFails, Release, BatchCrash,
           dbVars, redisVars
<1>6. ASSUME NEW e \in Events, LeaseExpires(e) PROVE [Feed!Next]_(Feed!vars)
  BY <1>s, <1>6 DEF LeaseExpires, redisVars
<1>7. ASSUME NEW p \in pages, PageExpires(p) PROVE [Feed!Next]_(Feed!vars)
  BY <1>s, <1>7 DEF PageExpires, dbVars
<1>8. ASSUME NEW d \in Domains, RedisLoses(d) PROVE FALSE
  BY <1>8 DEF RedisLoses
<1>9. UNCHANGED vars => [Feed!Next]_(Feed!vars)
  BY <1>s DEF vars, dbVars, redisVars
<1> QED
  BY <1>1, <1>2, <1>3, <1>4, <1>5, <1>6, <1>7, <1>8, <1>9 DEF Next

\* The quiet system is an initial state of the feed.
LEMMA InitSimulation == Init => Feed!Init
<1> SUFFICES ASSUME Init PROVE Feed!Init
  OBVIOUS
<1>1. \A r \in Readers : FeedRequest(r) = [pc |-> "closed"]
  BY DEF Init, NoRead, FeedRequest
<1> QED BY <1>1 DEF Init, Feed!Init, Feed!Closed

\* Refinement: while Redis keeps its data, cache, outbox and worker together
\* behave as a feed without them; what clients see is CommentFeed.
THEOREM Refinement ==
  ASSUME ~RedisLoss
  PROVE  Spec => ImplementsFeed
<1>1. IInv /\ IInv' /\ [Next]_vars => [Feed!Next]_(Feed!vars)
  BY StepSimulation
<1> QED BY Invariance, InitSimulation, <1>1, PTL DEF Spec, ImplementsFeed, Feed!Spec
=============================================================================
