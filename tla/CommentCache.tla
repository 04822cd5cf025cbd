---------------------------- MODULE CommentCache ----------------------------
(***************************************************************************)
(* The comment feed and its cache: the generation counter every comment    *)
(* mutation advances, the transactional outbox that carries it to Redis,   *)
(* the worker's leased dispatch of that outbox, and the read-through page  *)
(* cache whose keys hold the generation.                                   *)
(*                                                                         *)
(* A comment thread is abstracted to its version: the number of mutations  *)
(* committed to the token's thread, which is the generation row itself     *)
(* because create, delete, like and unlike advance it in the transaction   *)
(* that changes the thread.  A page is abstracted to the versions that its *)
(* queries saw: the count, the comments, and the replies nested in them.   *)
(* One query string per token is enough: pages of different queries never  *)
(* share a key.                                                            *)
(***************************************************************************)
EXTENDS Integers, FiniteSets

CONSTANTS
    Domains,        \* comment cache domains, one per token
    Readers,        \* concurrent list / replies requests
    Batches,        \* concurrent dispatchBatch invocations (setInterval never waits)
    Owners,         \* leaseOwner strings `outbox:pid:millis`
    OwnerOf,        \* the leaseOwner of each invocation; two may coincide
    NoOwner,        \* leaseOwner null
    StartGen,       \* generation of a domain when the model's window opens
    MaxGen,         \* bound on the generations of a domain
    Stamps,         \* createdAt values, compared by the dispatcher's orderBy
    BatchSize,      \* the dispatcher's `take: 50`
    RedisLoss       \* may Redis lose its data (restart, eviction)?

ASSUME ConstantsAssumption ==
    /\ Domains # {}
    /\ MaxGen \in Nat \ {0}
    /\ StartGen \in 0..MaxGen
    /\ BatchSize \in Nat \ {0}
    /\ Stamps \subseteq Nat
    /\ OwnerOf \in [Batches -> Owners]
    /\ NoOwner \notin Owners
    /\ RedisLoss \in BOOLEAN

VARIABLES
    dbGen,          \* domainGeneration.generation, 0 when there is no row
    createdAt,      \* outboxEvent.createdAt, meaningful for created events
    published,      \* events with publishedAt set
    leaseOwner,     \* outboxEvent.leaseOwner
    expired,        \* leased events whose leaseExpiresAt has passed
    redisGen,       \* the Redis key generation:<domain>, 0 when absent
    pages,          \* the Redis keys comments:<token>:<generation>:...
    pending,        \* mutations committed, applyGeneration still to run
    reads,          \* state of each list request
    batch           \* state of each dispatchBatch invocation

dbVars == <<dbGen, createdAt, published, leaseOwner, expired>>
redisVars == <<redisGen, pages>>
vars == <<dbVars, redisVars, pending, reads, batch>>

Gens == 1..MaxGen
Events == Domains \X Gens
Page == [dom : Domains, gen : 0..MaxGen, total : 0..MaxGen, rows : 0..MaxGen,
         replies : 0..MaxGen]

\* A request slot, or a dispatcher slot, with nothing running in it.
AnyDomain == CHOOSE d \in Domains : TRUE
NoRead == [pc |-> "idle", dom |-> AnyDomain, floor |-> 0, gen |-> 0,
           total |-> 0, rows |-> 0, replies |-> 0]
NoBatch == [pc |-> "idle", todo |-> {}, event |-> <<AnyDomain, 1>>]

\* An event exists once the mutation that created it has committed.
Created(e) == e[2] <= dbGen[e[1]]

(***************************************************************************)
(* Redis.                                                                  *)
(***************************************************************************)

\* Mutant: SET without the comparison.
SetGeneration(d, g) == [redisGen EXCEPT ![d] = g]
\* Mutant: INCR instead of storing the event's generation.
IncrGeneration(d, g) == [redisGen EXCEPT ![d] = @ + 1]

\* The Lua script APPLY_GENERATION: the stored generation only moves up.
ApplyGeneration(d, g) ==
    IF g > redisGen[d] THEN [redisGen EXCEPT ![d] = g] ELSE redisGen

\* applyGeneration and applyGenerationStrict.  A call that reports an error
\* may or may not have run the script: the reply can be the part that is lost.
ApplyOk(d, g) == redisGen' = ApplyGeneration(d, g)
ApplyFails(d, g) == redisGen' \in {redisGen, ApplyGeneration(d, g)}

\* Mutant: cache keys without the generation.
KeyWithoutGeneration(d, g) == {p \in pages : p.dom = d}
PageKey(d, g) == {p \in pages : p.dom = d /\ p.gen = g}

\* A quiet system: everything up to StartGen is published and in Redis.
Init ==
    /\ dbGen = [d \in Domains |-> StartGen]
    /\ createdAt = [e \in Events |-> 0]
    /\ published = {e \in Events : e[2] <= StartGen}
    /\ leaseOwner = [e \in Events |-> NoOwner]
    /\ expired = {}
    /\ redisGen = [d \in Domains |-> StartGen]
    /\ pages = {}
    /\ pending = {}
    /\ reads = [r \in Readers |-> NoRead]
    /\ batch = [b \in Batches |-> NoBatch]

-----------------------------------------------------------------------------
(***************************************************************************)
(* Mutations: create, delete, like, unlike.  The serializable transaction  *)
(* commits the change, the generation and the outbox row together; the     *)
(* call to Redis follows and its failure is swallowed.                     *)
(***************************************************************************)

\* Mutant: the generation is announced although the transaction rolls back.
CommitOrRollBack(d) ==
    /\ dbGen[d] < MaxGen
    /\ dbGen' \in {dbGen, [dbGen EXCEPT ![d] = @ + 1]}
    /\ pending' = pending \cup {<<d, dbGen[d] + 1>>}
    /\ UNCHANGED <<createdAt, published, leaseOwner, expired, redisVars, reads, batch>>

\* The transaction of a mutation, ending in advanceCommentCacheGeneration.
\* createdAt is the start of the transaction, not its commit: any stamp.
CommitMutation(d) ==
    /\ dbGen[d] < MaxGen
    /\ LET g == dbGen[d] + 1 IN
        /\ dbGen' = [dbGen EXCEPT ![d] = g]
        /\ \E t \in Stamps : createdAt' = [createdAt EXCEPT ![<<d, g>>] = t]
        /\ pending' = pending \cup {<<d, g>>}
    /\ UNCHANGED <<published, leaseOwner, expired, redisVars, reads, batch>>

\* The mutation's own cache.applyGeneration, which may fail silently.
WriterApply(e) ==
    /\ e \in pending
    /\ pending' = pending \ {e}
    /\ \/ ApplyOk(e[1], e[2])
       \/ ApplyFails(e[1], e[2])
    /\ UNCHANGED <<dbVars, pages, reads, batch>>

\* The API process dies, or is drained, between the commit and the call.
WriterCrash(e) ==
    /\ e \in pending
    /\ pending' = pending \ {e}
    /\ UNCHANGED <<dbVars, redisVars, reads, batch>>

-----------------------------------------------------------------------------
(***************************************************************************)
(* list / replies.  Each await is a step: other requests run in between.   *)
(* `floor` is a history field, the Redis generation when the request began.*)
(***************************************************************************)

ReadStep(r, from) == reads[r].pc = from

ListBegin(r, d) ==
    /\ ReadStep(r, "idle")
    /\ reads' = [reads EXCEPT ![r] =
            [NoRead EXCEPT !.pc = "generation", !.dom = d, !.floor = redisGen[d]]]
    /\ UNCHANGED <<dbVars, redisVars, pending, batch>>

\* cache.getGeneration: an error reads as 0n; 0n falls through to the database.
GetGeneration(r) ==
    /\ ReadStep(r, "generation")
    /\ \E g \in {redisGen[reads[r].dom], 0} :
        reads' = [reads EXCEPT ![r].pc = IF g > 0 THEN "get" ELSE "persisted",
                               ![r].gen = g]
    /\ UNCHANGED <<dbVars, redisVars, pending, batch>>

\* domainGeneration.findUnique: no row means generation '0', nothing to apply.
ReadPersisted(r) ==
    /\ ReadStep(r, "persisted")
    /\ LET g == dbGen[reads[r].dom] IN
        reads' = [reads EXCEPT ![r].pc = IF g > 0 THEN "heal" ELSE "get",
                               ![r].gen = g]
    /\ UNCHANGED <<dbVars, redisVars, pending, batch>>

\* Mutant: heals the key with the generation the next mutation will have.
HealAhead(r) ==
    /\ ReadStep(r, "heal")
    /\ \/ ApplyOk(reads[r].dom, reads[r].gen + 1)
       \/ ApplyFails(reads[r].dom, reads[r].gen + 1)
    /\ reads' = [reads EXCEPT ![r].pc = "get"]
    /\ UNCHANGED <<dbVars, pages, pending, batch>>

\* The reader writes the persisted generation back to Redis.
HealGeneration(r) ==
    /\ ReadStep(r, "heal")
    /\ \/ ApplyOk(reads[r].dom, reads[r].gen)
       \/ ApplyFails(reads[r].dom, reads[r].gen)
    /\ reads' = [reads EXCEPT ![r].pc = "get"]
    /\ UNCHANGED <<dbVars, pages, pending, batch>>

CacheHit(r) ==
    /\ ReadStep(r, "get")
    /\ \E p \in PageKey(reads[r].dom, reads[r].gen) :
        reads' = [reads EXCEPT ![r].pc = "done",
                               ![r].total = p.total, ![r].rows = p.rows,
                               ![r].replies = p.replies]
    /\ UNCHANGED <<dbVars, redisVars, pending, batch>>

\* cache.get answers null: the key is absent, or Redis failed.
CacheMiss(r) ==
    /\ ReadStep(r, "get")
    /\ reads' = [reads EXCEPT ![r].pc = "count"]
    /\ UNCHANGED <<dbVars, redisVars, pending, batch>>

\* Each statement of the read-committed $transaction sees the latest commit: a
\* mutation may fall between any two of them.
CountQuery(r) ==
    /\ ReadStep(r, "count")
    /\ reads' = [reads EXCEPT ![r].pc = "rows", ![r].total = dbGen[reads[r].dom]]
    /\ UNCHANGED <<dbVars, redisVars, pending, batch>>

RowsQuery(r) ==
    /\ ReadStep(r, "rows")
    /\ reads' = [reads EXCEPT ![r].pc = "include", ![r].rows = dbGen[reads[r].dom]]
    /\ UNCHANGED <<dbVars, redisVars, pending, batch>>

\* findMany loads the relations it includes with SELECTs of their own: list
\* reads the first replies of the comments it found, replies only their authors.
IncludeQuery(r) ==
    /\ ReadStep(r, "include")
    /\ reads' = [reads EXCEPT ![r].pc = "set", ![r].replies = dbGen[reads[r].dom]]
    /\ UNCHANGED <<dbVars, redisVars, pending, batch>>

\* Mutant: the page is stored under the generation of the moment it is stored.
SetUnderLatest(r) ==
    /\ ReadStep(r, "set")
    /\ LET q == reads[r] IN
        pages' = pages \cup {[dom |-> q.dom, gen |-> dbGen[q.dom], total |-> q.total,
                              rows |-> q.rows, replies |-> q.replies]}
    /\ reads' = [reads EXCEPT ![r].pc = "done"]
    /\ UNCHANGED <<dbVars, redisGen, pending, batch>>

\* cache.set, whose failure is swallowed and may have stored the page anyway.
CacheSet(r) ==
    /\ ReadStep(r, "set")
    /\ LET q == reads[r]
           p == [dom |-> q.dom, gen |-> q.gen, total |-> q.total, rows |-> q.rows,
                 replies |-> q.replies]
       IN  pages' \in {pages, (pages \ PageKey(q.dom, q.gen)) \cup {p}}
    /\ reads' = [reads EXCEPT ![r].pc = "done"]
    /\ UNCHANGED <<dbVars, redisGen, pending, batch>>

\* The response is sent, a database error ends the request, or the API dies.
ListEnd(r) ==
    /\ ~ReadStep(r, "idle")
    /\ reads' = [reads EXCEPT ![r] = NoRead]
    /\ UNCHANGED <<dbVars, redisVars, pending, batch>>

-----------------------------------------------------------------------------
(***************************************************************************)
(* OutboxDispatcher.dispatchBatch.                                         *)
(***************************************************************************)

BatchStep(b, from) == batch[b].pc = from

\* Mutant: leases are never taken over.
ClaimableUnleased(e) == Created(e) /\ e \notin published /\ leaseOwner[e] = NoOwner

\* publishedAt null, and leaseExpiresAt null or past.
Claimable(e) ==
    /\ Created(e)
    /\ e \notin published
    /\ leaseOwner[e] = NoOwner \/ e \in expired

\* orderBy createdAt asc, take BatchSize.
Oldest(S) ==
    {C \in SUBSET S :
        /\ Cardinality(C) = IF Cardinality(S) < BatchSize THEN Cardinality(S) ELSE BatchSize
        /\ \A e \in C, f \in S \ C : createdAt[e] <= createdAt[f]}

\* The candidates' findMany; with none the invocation returns at once.
BatchFind(b) ==
    /\ BatchStep(b, "idle")
    /\ LET S == {e \in Events : Claimable(e)} IN
        /\ S # {}
        /\ \E C \in Oldest(S) : batch' = [batch EXCEPT ![b].pc = "lease", ![b].todo = C]
    /\ UNCHANGED <<dbVars, redisVars, pending, reads>>

\* updateMany takes the rows still claimable under their locks; the re-read
\* keeps the candidates that carry this leaseOwner, unpublished.
BatchLease(b) ==
    /\ BatchStep(b, "lease")
    /\ LET won == {e \in batch[b].todo : Claimable(e)}
           owner == [e \in Events |-> IF e \in won THEN OwnerOf[b] ELSE leaseOwner[e]]
           mine == {e \in batch[b].todo : owner[e] = OwnerOf[b] /\ e \notin published}
       IN  /\ leaseOwner' = owner
           /\ expired' = expired \ won
           /\ batch' = [batch EXCEPT ![b] =
                    IF mine = {} THEN NoBatch ELSE [@ EXCEPT !.pc = "work", !.todo = mine]]
    /\ UNCHANGED <<dbGen, createdAt, published, redisVars, pending, reads>>

\* The event at the head of the batch, in createdAt order.
NextInBatch(b, e) ==
    /\ e \in batch[b].todo
    /\ \A f \in batch[b].todo : createdAt[e] <= createdAt[f]

\* applyGenerationStrict, which throws on a Redis error: an exception goes to
\* the catch block, success to the finalizing update.
DispatchApply(b, e) ==
    /\ BatchStep(b, "work")
    /\ NextInBatch(b, e)
    /\ ApplyOk(e[1], e[2])
    /\ batch' = [batch EXCEPT ![b].pc = "finalize", ![b].event = e]
    /\ UNCHANGED <<dbVars, pages, pending, reads>>

\* Mutant: applyGeneration, which swallows errors, instead of the strict form.
DispatchSwallowsError(b, e) ==
    /\ BatchStep(b, "work")
    /\ NextInBatch(b, e)
    /\ ApplyFails(e[1], e[2])
    /\ batch' = [batch EXCEPT ![b].pc = "finalize", ![b].event = e]
    /\ UNCHANGED <<dbVars, pages, pending, reads>>

DispatchApplyFails(b, e) ==
    /\ BatchStep(b, "work")
    /\ NextInBatch(b, e)
    /\ ApplyFails(e[1], e[2])
    /\ batch' = [batch EXCEPT ![b].pc = "release", ![b].event = e]
    /\ UNCHANGED <<dbVars, pages, pending, reads>>

\* Mutant: the updates match on id and publishedAt only.
HoldsAnyLease(b, e) == e \notin published

\* Both updates match on id, leaseOwner and publishedAt null.
HoldsLease(b, e) == leaseOwner[e] = OwnerOf[b] /\ e \notin published

\* The for loop moves on, and the invocation ends after its last event.
NextEvent(b) ==
    LET rest == batch[b].todo \ {batch[b].event} IN
    batch' = [batch EXCEPT ![b] =
                IF rest = {} THEN NoBatch ELSE [@ EXCEPT !.pc = "work", !.todo = rest]]

\* The finalizing updateMany.
Finalize(b) ==
    /\ BatchStep(b, "finalize")
    /\ LET e == batch[b].event IN
        IF HoldsLease(b, e)
        THEN /\ published' = published \cup {e}
             /\ leaseOwner' = [leaseOwner EXCEPT ![e] = NoOwner]
             /\ expired' = expired \ {e}
        ELSE UNCHANGED <<published, leaseOwner, expired>>
    /\ NextEvent(b)
    /\ UNCHANGED <<dbGen, createdAt, redisVars, pending, reads>>

\* The finalizing update throws inside the try: the catch block runs.
FinalizeFails(b) ==
    /\ BatchStep(b, "finalize")
    /\ batch' = [batch EXCEPT ![b].pc = "release"]
    /\ UNCHANGED <<dbVars, redisVars, pending, reads>>

\* The catch block gives the lease back; the event is claimable at once.
Release(b) ==
    /\ BatchStep(b, "release")
    /\ LET e == batch[b].event IN
        IF HoldsLease(b, e)
        THEN /\ leaseOwner' = [leaseOwner EXCEPT ![e] = NoOwner]
             /\ expired' = expired \ {e}
        ELSE UNCHANGED <<leaseOwner, expired>>
    /\ NextEvent(b)
    /\ UNCHANGED <<dbGen, createdAt, published, redisVars, pending, reads>>

\* The worker dies, or the invocation rejects (a database error outside the
\* try, or in the catch block): its leases stay behind.
BatchCrash(b) ==
    /\ ~BatchStep(b, "idle")
    /\ batch' = [batch EXCEPT ![b] = NoBatch]
    /\ UNCHANGED <<dbVars, redisVars, pending, reads>>

-----------------------------------------------------------------------------
(***************************************************************************)
(* Time and Redis' own steps.                                              *)
(***************************************************************************)

\* 30 seconds have passed since the lease was taken.
LeaseExpires(e) ==
    /\ leaseOwner[e] # NoOwner
    /\ e \notin expired
    /\ expired' = expired \cup {e}
    /\ UNCHANGED <<dbGen, createdAt, published, leaseOwner, redisVars, pending, reads, batch>>

\* Mutant: pages are stored without a TTL.
PageStays(p) == FALSE /\ UNCHANGED vars

\* A page reaches its TTL.  Generation keys are stored without one.
PageExpires(p) ==
    /\ p \in pages
    /\ pages' = pages \ {p}
    /\ UNCHANGED <<dbVars, redisGen, pending, reads, batch>>

\* Redis restarts empty, or evicts the generation key of a domain.
RedisLoses(d) ==
    /\ RedisLoss
    /\ redisGen' = [redisGen EXCEPT ![d] = 0]
    /\ pages' \in {pages, {p \in pages : p.dom # d}}
    /\ UNCHANGED <<dbVars, pending, reads, batch>>

-----------------------------------------------------------------------------

ReaderNext(r) ==
    \/ \E d \in Domains : ListBegin(r, d)
    \/ GetGeneration(r)
    \/ ReadPersisted(r)
    \/ HealGeneration(r)
    \/ CacheHit(r)
    \/ CacheMiss(r)
    \/ CountQuery(r)
    \/ RowsQuery(r)
    \/ IncludeQuery(r)
    \/ CacheSet(r)
    \/ ListEnd(r)

BatchNext(b) ==
    \/ BatchFind(b)
    \/ BatchLease(b)
    \/ \E e \in Events : DispatchApply(b, e)
    \/ \E e \in Events : DispatchApplyFails(b, e)
    \/ Finalize(b)
    \/ FinalizeFails(b)
    \/ Release(b)
    \/ BatchCrash(b)

Next ==
    \/ \E d \in Domains : CommitMutation(d)
    \/ \E e \in Events : WriterApply(e)
    \/ \E e \in Events : WriterCrash(e)
    \/ \E r \in Readers : ReaderNext(r)
    \/ \E b \in Batches : BatchNext(b)
    \/ \E e \in Events : LeaseExpires(e)
    \/ \E p \in pages : PageExpires(p)
    \/ \E d \in Domains : RedisLoses(d)

Spec == Init /\ [][Next]_vars

\* The worker's interval and the event loop keep running; a lease or a TTL
\* runs out; an outage of Redis or of the database that keeps being tried ends,
\* and a restarted worker does not die at the same call for ever (strong
\* fairness of the dispatcher's three calls that can fail).
Fairness ==
    /\ \A r \in Readers : WF_vars(ReaderNext(r) /\ ~ReadStep(r, "idle"))
    /\ \A b \in Batches :
        /\ WF_vars(BatchFind(b))
        /\ WF_vars(Release(b))
        /\ SF_vars(BatchLease(b))
        /\ SF_vars(\E e \in Events : DispatchApply(b, e))
        /\ SF_vars(Finalize(b))
    /\ \A e \in Events : WF_vars(LeaseExpires(e))

FairSpec == Spec /\ Fairness

\* As above, and pages reach their TTL.
FairSpecTtl == FairSpec /\ \A p \in Page : WF_vars(PageExpires(p))

-----------------------------------------------------------------------------
(***************************************************************************)
(* Properties.                                                             *)
(***************************************************************************)

ReadPc == {"idle", "generation", "persisted", "heal", "get", "count", "rows", "include", "set",
           "done"}
BatchPc == {"idle", "lease", "work", "finalize", "release"}

ReadState == [pc : ReadPc, dom : Domains, floor : 0..MaxGen, gen : 0..MaxGen,
              total : 0..MaxGen, rows : 0..MaxGen, replies : 0..MaxGen]
BatchState == [pc : BatchPc, todo : SUBSET Events, event : Events]

\* Every variable keeps the type of the row, key or local it stands for.
TypeOK ==
    /\ dbGen \in [Domains -> 0..MaxGen]
    /\ createdAt \in [Events -> Stamps \cup {0}]
    /\ published \subseteq Events
    /\ leaseOwner \in [Events -> Owners \cup {NoOwner}]
    /\ expired \subseteq Events
    /\ redisGen \in [Domains -> 0..MaxGen]
    /\ pages \subseteq Page
    /\ pending \subseteq Events
    /\ reads \in [Readers -> ReadState]
    /\ batch \in [Batches -> BatchState]

\* A generation is announced to Redis only after the transaction that created
\* it committed, whoever announces it: the mutation, a reader or the worker.
RedisNeverAhead == \A d \in Domains : redisGen[d] <= dbGen[d]

\* The key of a page promises what is on it: a page stored under generation g
\* shows every mutation up to g in its count, its comments and their replies,
\* whatever ran between the reader's await points, and no mutation that has not
\* committed.  A page torn between its queries is thus older than the thread,
\* and stops being served once Redis learns the current generation.
PagesCoverTheirKey ==
    \A p \in pages :
        /\ p.gen <= p.total /\ p.total <= p.rows /\ p.rows <= p.replies
        /\ p.replies <= dbGen[p.dom]

\* Read your writes: a request that began after generation g reached Redis
\* answers with a page that shows g, even if the generation read, the cache or
\* the heal failed on the way.
AnswersCoverFloor ==
    RedisLoss \/ \A r \in Readers :
        ReadStep(r, "done") =>
            \A v \in {reads[r].total, reads[r].rows, reads[r].replies} : reads[r].floor <= v

\* The outbox is a guarantee: an event is marked published only if its
\* generation, or a later one, is in Redis, whatever leases expired, batches
\* overlapped, and calls failed.
PublishedReachedRedis ==
    RedisLoss \/ \A e \in published : e[2] <= redisGen[e[1]]

\* A lease that is still live is changed only by an invocation that carries
\* that leaseOwner and is working on that event; a batch that outlived its own
\* lease cannot publish or release what another batch holds.
LiveLeaseRespected ==
    [][\A e \in Events :
        leaseOwner[e] # NoOwner /\ e \notin expired /\ leaseOwner'[e] # leaseOwner[e]
            => \E b \in Batches : /\ OwnerOf[b] = leaseOwner[e]
                                  /\ batch[b].pc \in {"finalize", "release"}
                                  /\ batch[b].event = e]_vars

\* The stored generation never moves back, in whatever order late mutations,
\* healing readers and re-dispatched events reach Redis.
RedisGenerationMonotone ==
    [][RedisLoss \/ \A d \in Domains : redisGen[d] <= redisGen'[d]]_vars

\* Every committed mutation is published, although the batch that holds it may
\* crash, lose its lease or see Redis and the database fail.
EveryEventPublished == \A e \in Events : Created(e) ~> e \in published

\* Once mutations stop, every answer is eventually the current thread, and
\* stays so.
FeedConverges ==
    <>[](\A r \in Readers : ReadStep(r, "done") =>
            /\ reads[r].total = dbGen[reads[r].dom]
            /\ reads[r].rows = dbGen[reads[r].dom]
            /\ reads[r].replies = dbGen[reads[r].dom])

-----------------------------------------------------------------------------
(***************************************************************************)
(* The inductive invariant behind the safety properties: what each request *)
(* and each dispatcher has established by the point it has reached.        *)
(***************************************************************************)

\* Whoever is about to announce a generation read it from a committed row.
AnnouncersCommitted ==
    /\ \A e \in pending : Created(e)
    /\ \A b \in Batches : \A e \in batch[b].todo : Created(e)
    /\ \A b \in Batches : batch[b].pc \in {"finalize", "release"} => Created(batch[b].event)

\* The points at which a request holds its generation, its count, its comments
\* and their replies.
HasReplies == {"set", "done"}
HasRows == {"include"} \cup HasReplies
HasCount == {"rows"} \cup HasRows
HasGeneration == {"heal", "get", "count"} \cup HasCount

\* A request's versions only grow from its generation to the database.
ReadsOrdered ==
    \A r \in Readers : LET q == reads[r] IN
        /\ q.pc \in HasGeneration => q.gen <= dbGen[q.dom]
        /\ q.pc \in HasCount => q.gen <= q.total /\ q.total <= dbGen[q.dom]
        /\ q.pc \in HasRows => q.total <= q.rows /\ q.rows <= dbGen[q.dom]
        /\ q.pc \in HasReplies => q.rows <= q.replies /\ q.replies <= dbGen[q.dom]

\* While Redis keeps its data, a request's generation is at least its floor.
FloorsKept ==
    RedisLoss \/ \A r \in Readers : LET q == reads[r] IN
        /\ q.pc \in {"generation", "persisted"} => q.floor <= redisGen[q.dom]
        /\ q.pc \in HasGeneration => q.floor <= q.gen

\* A dispatcher about to finalize has put its event's generation in Redis.
FinalizersApplied ==
    RedisLoss \/ \A b \in Batches :
        batch[b].pc = "finalize" => batch[b].event[2] <= redisGen[batch[b].event[1]]

IInv ==
    /\ TypeOK
    /\ RedisNeverAhead
    /\ AnnouncersCommitted
    /\ PagesCoverTheirKey
    /\ ReadsOrdered
    /\ FloorsKept
    /\ FinalizersApplied
    /\ PublishedReachedRedis

-----------------------------------------------------------------------------
(***************************************************************************)
(* The cache implements the feed: the announced version is the generation  *)
(* in Redis, and a request is open until it has its page.                  *)
(***************************************************************************)

FeedRequest(r) ==
    LET q == reads[r] IN
    IF q.pc = "idle" THEN [pc |-> "closed"]
    ELSE IF q.pc = "done" THEN [pc |-> "answered", dom |-> q.dom, total |-> q.total,
                                rows |-> q.rows, replies |-> q.replies]
    ELSE [pc |-> "open", dom |-> q.dom, floor |-> q.floor]

Feed == INSTANCE CommentFeed WITH
    current <- dbGen,
    announced <- redisGen,
    requests <- [r \in Readers |-> FeedRequest(r)]

\* Every behaviour of cache, outbox and worker is a behaviour of the feed
\* without them, as long as Redis keeps its data.
ImplementsFeed == Feed!Spec
=============================================================================
