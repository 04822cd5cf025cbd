# Verification of spawn_backend

TLA+ models, TLC runs and TLAPS proofs for the backend of the Spawn launchpad: a
NestJS API, an outbox worker and a websocket broadcaster around one PostgreSQL
database, one Redis and the RPC node of a chain. An indexer outside the
repository writes the chain's events to the same database.

Paths below are relative to the repository.

## The system's parts

| Part | State it keeps | Operations | Hard parts | What makes it correct |
| --- | --- | --- | --- | --- |
| Comments and likes (`src/modules/comments`) | `comments`, `comment_likes`, idempotency rows, counters | create, replay, delete, like, unlike | retries and races on one key; counters kept by increments; tombstones | one comment per key, exact counters, final tombstones |
| Comment cache (`comment-cache-generation.ts`, `redis-domain-cache.ts`) | generation row, generation key and pages in Redis | advance, apply, get, set, heal | every await of a reader; Redis errors are swallowed; Redis may lose data | a page shows what its key promises; read your writes; convergence |
| Outbox and worker (`outbox-dispatcher.ts`, `worker.ts`) | outbox rows with leases | dispatchBatch every second | overlapping batches, expired leases, crashes, half-failed calls | published implies delivered; every event is published |
| Launch prepare (`launch-prepare.service.ts`) | `launch_records` | prepare | writes back a state it read earlier | does not lose a submission |
| Launch relay (`launch-relay.service.ts`) | launch record, reservation, chain transaction | relay, watchReceipt | side effect between two database writes; retries; lost answers | one broadcast per key; the record tells the truth |
| Token creation (`token-creation.service.ts`) | reservation, uploads, token rows | create, replay | upload between reservation and commit | one token per key, no stranded reservation |
| Token resolver (`comment-token-resolver.ts`) | token rows copied from the indexer | resolve | two requests provision one token | one row per token |
| Profiles, like status, featured tokens | rows, and entries in Redis beside them | find, update, status | a reader stores what it read before a writer's delete; a delete fails | an outdated entry has a known cause and does not last |
| Token queries and candles (`token-query.service.ts`) | none (SQL over the indexer's tables) | list, boards, detail, trades, candles | gap filling and ordering at range edges; boards over unordered queries | series that join, lists without duplicates |
| Trading reads (`trading.service.ts`) | quotes in memory and in flight | price, quote, maxBuy, holders, PnL, depth | integer rounding, binary search, requests that share a computation | PnL identities, quote bounds, fresh quotes |
| Broadcaster (`broadcaster.ts`) | sockets, open bars, LISTEN connection | subscribe, heartbeat, onTrade, reconnect | late trades, lost notifications, half-dead sockets | a bar is closed once, in order |
| Wallet authentication (`wallet-auth.service.ts`) | nonces in Redis | issueNonce, verify | get and delete are two calls | a spent nonce opens no further session |
| Protocol math (`protocol-math.ts`, `tick-math.ts`) | none | curve geometry, dev-buy quote, hashes | rounding, fixed widths | agreement with a reference |
| Chain reads (`protocol-read.service.ts`) | entries in memory with an expiry | template, economicConfig, poolState, slot0 | overlapping calls return out of order | the age of an answer is bounded |
| Address book (`address-book.ts`, `blockchain-registry.service.ts`, `scripts/manifest-sync.ts`) | manifest rows, books in memory | manifest:sync, load, reload, lookup | three sources with a precedence; invalid rows are skipped | what was synced is what is served |
| Protocol (`protocol.service.ts`) | none | addresses, economics, plugins, governance, revenue, stats | which version is in force; fallback to the chain | the indexed version wins |
| Keepers, rate limiter, health, RPC proxy, controllers | little or none | reads and pass-through | - | - |

How they interact: a comment mutation writes rows, generation and outbox event in
one serializable transaction and then calls Redis; the worker repeats that call
until it is known to have worked; readers use the generation in their cache keys.
prepare and relay share the launch record; relay, the chain and the indexer all
write its state. Broadcaster and API share only the database's notifications.
comments.service.ts calls the token resolver in its own transaction. Sign-in, the
entries of profiles and likes and the chain reads each have keys of their own and do
not meet.

## Modules

| Module | What it is |
| --- | --- |
| `CommentFeed` | abstract specification of the comment feed: current and announced versions, requests that answer from versions in between |
| `CommentCache` | generation, outbox, leased dispatch, page cache and list requests; one action per await |
| `CommentThread` | what create, delete, like and unlike write |
| `LaunchRelay` | prepare, relay, watchReceipt and the chain |
| `IdempotentCreate` | abstract specification of an idempotency key: at most one resource, shown to those who asked for it |
| `TokenCreation` | lookup, reservation, upload, commit and replay of POST /tokens |
| `Broadcaster` | LISTEN connection and reconnects, bars and their timers, ticks, subscriptions, heartbeat |
| `WalletAuth` | nonces, and verify with one action per call of Redis |
| `TokenResolver` | resolve and provisionFromSink as interactive transactions |
| `ReadCaches` | profiles, like status and featured tokens beside their entries in Redis |
| `LiveReads` | quotes in flight and cached, and the cached chain reads, against a clock |
| `ApiServices` | the four modules above as one system |
| `GenerationOrder`, `Candles`, `WalletPnl`, `Quotes`, `CurveMath`, `Boards`, `Listings`, `AddressBook`, `ProtocolViews` | algorithms as operators |
| `Totals` | sums over a sequence, as a recursive function |
| `ReadFunctions` | calls each of these algorithms with bounded inputs and states what the answers must satisfy; `fn` is the function called, `call` its arguments and its answer |
| `CommentCacheProofs`, `CommentThreadProofs`, `TokenCreationProofs`, `LaunchRelayProofs`, `BroadcasterProofs` | TLAPS proofs about the module of that name |
| `ApiServicesProofs` | TLAPS proofs about the four services and their composition |
| `ReadFunctionsProofs` | TLAPS proofs about the algorithms |
| `InductionProofs` | induction over the natural numbers, recursive functions and sums: what the two modules about bars and algorithms rest on |
| `MC*` | constants and symmetry for TLC; each `MC*.cfg` is one run |

An operator whose comment begins with `Mutant:` is a plausible bug of the
definition that follows it; replacing the definition by it must violate a
property, which shows that the property depends on that code. Nothing else uses
these operators.

### CommentCache

State: `dbGen` is the `DomainGeneration` row, 0 when there is none; `createdAt`,
`published`, `leaseOwner`, `expired` are the columns of the outbox row of event
`<<domain, generation>>`; `redisGen` and `pages` are Redis; `pending` are
mutations between their commit and their own call to Redis; `reads` and `batch`
hold the locals of running requests and `dispatchBatch` invocations.

A thread is abstracted to its version, the number of mutations committed to it.
`CommentThread` justifies this: its theorem `ChangesInvalidate` says that the
generation advances by one with each visible change and with nothing else. A page
is abstracted to the versions that its count, its comments and their replies saw.

| Code | Actions |
| --- | --- |
| a mutation's transaction, its `applyGeneration`, a crash in between | `CommitMutation`, `WriterApply`, `WriterCrash` |
| `list` / `replies` and `commentGeneration` | `ListBegin`, `GetGeneration`, `ReadPersisted`, `HealGeneration`, `CacheHit`, `CacheMiss`, `CountQuery`, `RowsQuery`, `IncludeQuery`, `CacheSet`, `ListEnd` |
| `dispatchBatch` | `BatchFind`, `BatchLease`, `DispatchApply`, `DispatchApplyFails`, `Finalize`, `FinalizeFails`, `Release`, `BatchCrash` |
| clock, Redis | `LeaseExpires`, `PageExpires`, `RedisLoses` |

A Redis call that fails may still have taken effect. The count and the findMany of a
page run in a read-committed transaction, and findMany issues statements of its own
for the relations it includes; each sees the latest commit, so a mutation may fall
between any two of them. `IncludeQuery` stands for the included replies; the authors are
not part of the version (see `CommentThread`). The event's
`createdAt` is any stamp, because it is the start of the transaction and not its
commit. Not modelled: outbox rows with another topic (none is written),
`attempts` and `lastError`.

### CommentThread

Each mutation is one serializable transaction and one action. What interleaves are
the awaits of `create`: `CreateBegin`, `CreateFind`, then `CreateCommit`,
`CreateRejected`, `CreateRaced` or `CreateAborts`, then `Replay` and `CreateEnd`.
A visible idempotency row is always COMPLETED, since the row is created and
completed in one transaction. A call that changes nothing (a repeated delete, like
or unlike, a 404) is a stuttering step. The profile upsert is left out: it writes
nothing the properties talk about. An author's profile is embedded in cached
pages and does not advance the generation, so a page may show an old name until
its TTL; the model makes no claim about authors' names.

### LaunchRelay

A launch stands for the unique key (chain, config hash, creator) of the record. A
relay request makes at most one transaction and also names it. `PrepareRejected`
stands for the gates of prepare. `PrepareSave` writes back the state that
`PrepareFind` read, as the code does. `RelayDies` is a database error outside the
try block or a dead process. Each of the two updates may fail before it took effect or
after, when only its reply is lost. `GetReceipt` and `StoreReceipt` are the two awaits
of `watchReceipt`. The chain launches a configuration once;
`DirectLaunch` is the creator's own transaction, which the guide allows. A
reorganisation (`Reorg`) makes mined transactions pending again, at most once per
launch. `IndexerConfirms` and `IndexerReorgs` are the indexer, modelled from how the
code reads CONFIRMED and from the state REORGED of the schema, which nothing in the
repository writes. `prep.stale` is a history: the prepare overwrote a newer state. The
fields prepare fills in, the signature and the operator's address are not part of
the state.

`relay` returns early on SUBMITTED and CONFIRMED only (line 59), so a FAILED or REORGED
record is sent again under a new key. `SubmittedOnce` lists what takes a launch that was
answered 202 to such a state, or back to PENDING_RELAY: a reverted transaction, a
reorganisation, an error of another relay, a prepare that writes back a stale state.

### TokenCreation

`in`, `pc`, `found` and `answer` are the locals of a request, `idem` the
reservation rows of one wallet, `tokens` the token rows. One action per await:
`Begin`, `Replay` (also the second one, after a lost transaction), `Reserve`,
`Upload`, `ReleaseReservation`, `Commit`, `CommitRaced`, `Find`; `Dies` is a crash
or a database error at any of them. `faulted` remembers that one of the last two
happened, because nothing frees the key then. The loser of the race for the
reservation gets the unique violation, which the code does not catch, as a 500; the
guide (line 71) announces a 409.

### Broadcaster

Each handler runs without an await and is one action; the awaits of `reconnectPg`
and `connectPg` are separate actions, so errors, ends and reconnects interleave
with trades and sockets. Prices, amounts and the ring are small numbers; a tick is
named by its position in the history `handled`. Histories (`handled`, `members`,
`closes`, `got`, `since`, `missed`) only serve the properties. Assumed: a trade is
not stamped ahead of the broadcaster's clock. Left out: `stop`, which precedes
process.exit, and the throttled pushes of open bars.

`connectPg` registers the handler of 'error' after connect and both LISTENs (lines
131-141). A connection lost in that gap emits an 'error' that nobody handles, which ends the
process: `ConnectionLost` makes `up` false, and nothing happens afterwards. The comment
at line 127, "Reconnects with backoff on any failure", does not hold there. The liveness
properties promise what they say while the process is up.

Late trades reopen a minute, so a minute can get more than one `bar_close`
(`PromptMinutesCloseOnce`, a part of `BarsExact`, says when it does not), where the guide (line 629)
suggests one. The comment at line 107 speaks of two missed pongs; a socket is
culled after one. A socket without subscriptions gets nothing (line 289), while the
guide (lines 614-615) says it sees everything. `TicksSpliced` is about the pools a socket is
subscribed to and leaves open what an unsubscribed one is sent.

### WalletAuth

`issuedTo` remembers the wallet that a nonce's key names, `stored` is what Redis
holds, `verify` the locals of the calls. Each call of Redis is an action and may fail
without a trace: a failed get is a miss, a failed set leaves a nonce that was handed
out unusable, a failed delete leaves a used nonce in place. A message is named by
its nonce; a signature is the wallet it recovers to. `NoncesSpent` says exactly how
far "single-use" (line 66) goes: two calls that both look the nonce up before either
deletes it can both open a session, for the same wallet, and so can a call after one
whose delete failed.

### TokenResolver

Each call runs inside the caller's transaction, with one action per query. What
PostgreSQL does is modelled from what the code relies on: an insert waits for an open
transaction that holds the same unique key, and fails once that one has committed.
The comment at line 76, "Lost a provision race: re-read the winner's row", describes
what cannot happen: after the unique violation the transaction is aborted and the
second query fails too, so the loser's request ends in an error (`raced`).
`ResolversAgree` shows that this is harmless for a client that retries: the winner's
row is committed by then.

### ReadCaches

A reader gets, queries and sets, a writer commits and deletes, with an await
between each two. `status` queries like and comment side by side. Answers that are
not cached are modelled as such: a missing profile, and the empty list of featured
tokens when the indexer is behind. `excused` and `raced` are histories that
`StaleEntriesExplained` needs to tell the two causes of an outdated entry, a set
after the delete and a failed delete, from any other. A like count changes with
other wallets' likes, which delete only their own keys, so it is current only
through the TTL (`CachesCatchUp`). A cached list of featured tokens is served for up
to its TTL after the indexer has fallen behind.

### LiveReads

Time is a clock; an answer carries the tick at which the node evaluated the call.
`AskJoins` is a quote that awaits the promise of another request; chain reads have no
promises, and each miss makes its own call. `LiveTick` does not pass the timeout of
a call under way. Quotes of one key never go back in time (`QuotesShared`). Plain
chain reads can: a slow call overwrites the entry of a later one; the age of what is
answered stays bounded nevertheless (`ReadsFresh`).

### ApiServices

The four modules share no variable, and no code path touches the state of two of
them, so an interleaving of two of them shows nothing that each alone does not.
`service` names the one that runs; the state space is the sum of the four and not
their product.

### Algorithms

| Module | Code | Abstraction |
| --- | --- | --- |
| `GenerationOrder` | the Lua condition on decimal strings | strings are digit sequences without leading zeros |
| `Candles` | `candles`, `fillJoinedCandles` | minutes and prices are small numbers, the row cap is a parameter |
| `WalletPnl` | the ledger of `walletPnl` | exact integers; what is formatted is left out |
| `Quotes` | `maxBuy`, `price`, `curveProgress`, `holders` | a probe of `maxBuy` fills up to a cap, and may fail for another reason; the search's constants are scaled |
| `CurveMath` | `protocol-math.ts`, `tick-math.ts`, `milestones` | the tick table is a parameter of 21 ticks, 2^96 is 64; BigInt has no width, so nothing overflows |
| `Boards` | `list` by next payout, `milestoneBoard`, keeper jobs, `depth`, `validatePayoutPlan` | proximities are exact fractions |
| `Listings` | `list`, `detail`, `trades`, `revenue`, `walletTrades`, `records`, the view `pool_metrics` | the database sorts by keys and breaks ties anew in each query |
| `AddressBook` | `buildAddressBook`, manifest:sync, `loadAll`, `book`, `addresses` | fields treated alike are one field; an address is a name, which may be absent, null or malformed |
| `ProtocolViews` | `protocol.service.ts`, lists of a wallet, the query of the featured tokens | rows carry the columns that select and order them |

What the algorithms do that a reader would not expect, and how the properties allow
for it:

- The order of `candles` and its rows for empty buckets are in dispute: the guide (lines
  412-416) says ascending and without such rows, the comment at
  `token-query.service.ts:792-797` ascending and filled, and the code reverses what it
  filled, so the answer is descending and filled. The properties take no side: a
  candle opens at the close of the one before it in time, and each bucket that traded,
  from the first one shown on, has one candle, which shows all its trades. Rows of
  minutes without a price count against the rows fetched, so `CandlesMatchTable` speaks
  of tables whose rows all traded; the cap on rows can cut the oldest bucket.
- `walletPnl` keeps a cost when more was sold than bought, and when a buy's amount is
  no token at all; `PnlExhausted` speaks of histories without either, `PnlConserves`
  of all.
- `holders` divides by the listed balances when it reads the indexer's table and by
  all of them when it reads logs; the shares agree while every holder is listed.
- `devBuyQuote` skips a position that starts at the price it stands at; that needs
  fewer levels than positions, which the template does not have.
- A graduation job is due at level far - 1 (`keepers.service.ts:14` and `67`, guide line
  597). The code compares prices. `levelAtSqrtPrice` reports far - 1 already while the price
  is strictly between far - 2 and far - 1, and there the code offers no job yet;
  `GraduateSignal`, a part of `ListsComplete`, promises the job at far - 1 everywhere
  else. `jobs` looks at the 500 newest pools only (lines 33-38): an older pool that is due is
  never offered. The model takes this number as a parameter, and the property is about
  the pools among them.
- `detail` shows no price for an untraded pool and `depth` fails on a stats row with
  price 0, where cards and `price` show the opening price.
- `next_payout` ignores the filters and takes the number of payouts for the index of
  the next band, which is wrong once a band was skipped. Its query has no ORDER BY
  (`token-query.service.ts:173-178`) and each page runs it anew, so pools of equal
  proximity, such as 0 or 0.99, may be repeated on one page and missing on another;
  `PagesPartition` therefore counts the rows of each proximity, and promises each row
  once where proximities differ.
- `nextUp` considers the 50 leaders by payouts, the last payout and the launch; the pool
  nearest to its next payout may not be one of them. `BoardMatchesList` compares the board
  with the list while there are no more pools than leaders, and with the leaders
  otherwise.
- Market-cap order is that of the database, before untraded pools get their opening
  market cap.
- An address book needs a stored manifest with the protocol contracts in it, also
  where environment variables override them. The message of `book` suggests the
  variables alone; they are enough only for manifest:sync, which stores the result.
  One malformed variable keeps every book from being rebuilt.
- `stats` shows the leaderboard of all chains beside the days of one; `plugins`
  returns all rows with a meta of 256 to a page; `revenueHistory` ignores `holder`.
- Orders by market cap, volume or amount have ties: `ListingComplete` promises each
  row once only where keys differ.

## Runs

| Run | Checks | Bounds and why they are enough |
| --- | --- | --- |
| `cache_dispatch` | `RedisNeverAhead`, `PublishedReachedRedis`, `LiveLeaseRespected`, `RedisGenerationMonotone` | 2 overlapping batches of up to 2 events, 2 generations, 2 stamps: takeover of an expired lease, dispatch out of order and every failure happen |
| `cache_readers` | `RedisNeverAhead`, `PagesCoverTheirKey`, `FeedConverges` | 2 requests, mutations at each await and between the statements of a page, Redis loses data and no dispatcher runs: one request fills the page the other hits, and only healing and the TTL are left. A generation row exists at the start; the other start is covered by `cache_dispatch` and the proofs |
| `cache_converges` | `EveryEventPublished`, `FeedConverges`, `ImplementsFeed` | 1 request, 1 batch slot (reused), no Redis loss, no TTL assumed |
| `thread` | `CountsMatchRows`, `CreatesOnce`, `ChangeAdvancesGeneration`, `TombstonesFrozen` | 2 concurrent creates, 2 wallets, 2 tokens, 4 mutations per token |
| `thread_depth` | `DepthBounded` (violated) | `MaxDepth` scaled from 3 to 2: a chain of four comments |
| `relay` | `OneBroadcastPerKey`, `TransactionsRecorded`, `FailedIsTruthful`, `SubmittedOnce` | 1 launch, 2 relays under 2 keys, 2 prepares, 1 reorganisation: a race on a key, a race between keys, two re-prepares at once and a second relay of a launch that was sent |
| `relay_key_reuse` | `AnswersTheLaunchAsked` (violated) | 2 launches of one creator, 1 key |
| `relay_in_flight` | `InProgressMeansInFlight` (violated) | 1 launch, 1 key, 2 requests |
| `creation` | `OneHolder`, `KeysSettle`, `ImplementsCreate` | 3 requests, 2 keys, 2 bodies: a race, a retry after either outcome and a reused key |
| `broadcaster` | `TypeOK`, `OneListener`, `BarsExact`, `TicksSpliced`, `BarsClose`, `ListensAgain`, `DeadPeersCulled` | 1 pool, 1 socket, 2 trades over 2 minutes, a ring of 1, 2 pg clients and 2 overlapping reconnect calls: a late trade, a rollover against a timer, a subscription between two ticks, a second error during a reconnect and the end of the process happen |
| `functions` | `ReplacesIffGreater`, `TradingSound` (candles, PnL, maxBuy), `LaunchPlanSound` (square root, opening level, positions, payout plan), `AddressBookSound`, `ListsComplete` (pages, cuts, economics, ladders, boards, keeper jobs), `PoolViewsAgree` (with the dev-buy quote) | every input of the domains in `MCReadFunctions`: digit changes, windows longer and shorter than the data, oversold ledgers, prices at and between ticks, tied and missing keys, more pools than leaders and more than the keepers take, set, absent and malformed variables at the sync and at the load, manifests that are valid, incomplete or of another chain |
| `api_services` | `NoncesSpent`, `ResolversAgree`, `StaleEntriesExplained`, `ReadsFresh`, `QuotesShared`, `CachesCatchUp` | auth: 2 wallets, 2 nonces, 2 calls; resolver: 1 token, 3 calls, so a race and a later retry; caches: 2 wallets, 1 reader and 1 writer (reused), 2 changes; live: 3 requests, a quote and a chain read, TTL and timeout of one tick, a clock of 4: an entry is stored, expires and is replaced |

Deadlock checking is off where the system may stop: all requests are made, all
mutations within the bound are published.

What the runs that end in a violation show:

- `thread_depth`: every comment is stored with `depth: 0`, so the check for
  `COMMENT_MAX_DEPTH` never fires and replies nest without limit; the guide
  promises depth <= 3.
- `relay_key_reuse`: a completed reservation is answered before the request hash is
  compared, so a key reused for another launch returns the first launch instead of
  `IDEMPOTENCY_KEY_REUSED`.
- `relay_in_flight`: only a fully successful relay changes its reservation, so after a
  503, a failed broadcast or a crash each retry with the key is answered
  `REQUEST_IN_PROGRESS`, although nothing is in flight and the guide calls those
  errors safe to retry.

More things the relay model shows, which `FailedIsTruthful` and `SubmittedOnce` list as
exceptions: an error of the database after the broadcast is answered
`LAUNCH_BROADCAST_FAILED` although the transaction is on its way (the try block
covers the updates), a re-prepare racing a relay writes an old state back, and a
launch whose record a reorganisation made REORGED is sent again.

## Fairness

`CommentCache`: `FairSpec` assumes weak fairness of a request that has begun (the
event loop runs it), of `BatchFind` and `Release` (the worker's interval fires every
second) and of `LeaseExpires` (the clock). It assumes strong fairness of
`BatchLease`, `DispatchApply` and `Finalize`: these may fail or the worker may die at
them any number of times, but an outage that is retried for ever ends. Without it no
retrying design could promise anything. Mutations and the writer's own call to
Redis have no fairness. `FairSpecTtl` adds weak fairness of `PageExpires`: every
page is stored with EX.

`ReadCaches`: weak fairness of a reader that has begun and of the expiry of each
entry, all of which are stored with EX. Writers have none, so an entry that a writer
never deletes is covered. The other modules of `ApiServices` promise no progress.

`TokenCreation`: weak fairness of the steps of a request; crashes and lost
transactions have none.

`Broadcaster`: weak fairness of the clock, the heartbeat's interval, the bars'
timers, the end of a client that is closing and the steps of a reconnect; strong
fairness of `Connected`, since a reconnect that is tried for ever meets a database
that is up in the end. Trades, sockets and failures have no fairness.

## Proofs

`CommentCacheProofs`, for any number of tokens, requests and dispatchers, any
assignment of `leaseOwner` strings (equal ones too), any bound on generations, and
with or without Redis data loss where the property does not exclude it:
`TypeCorrect`, `NeverAhead`, `PageCoverage`, `ReadYourWrites`,
`PublishedMeansApplied`, `Monotone`, `LeaseExclusion`, and `Refinement`: while Redis
keeps its data, `Spec` implements `CommentFeed`. The only assumption is
`ConstantsAssumption`.

The safety properties are not inductive alone. `IInv` adds what each process has
established by the point it reached: whoever is about to announce a generation
read it from a committed row (`AnnouncersCommitted`, for `RedisNeverAhead`); a
request's versions grow from its generation to the database (`ReadsOrdered`, for
`PagesCoverTheirKey`); its generation is at least the one in Redis when it began
(`FloorsKept`, for read your writes); a dispatcher about to finalize has applied
its event (`FinalizersApplied`, for `PublishedReachedRedis`). The refinement maps
the announced version to the generation in Redis and a request to open until it
has its page; each action is a step of the feed or a stutter.

`CommentThreadProofs`, for any finite sets of ids and wallets (`ThreadAssumption`):
`TypeCorrect`, `CountersExact`, `ExactlyOnce`, `ThreadsClosed`,
`ChangesInvalidate`, `TombstonesFinal`. Here `IInv` adds that rows which refer to
each other exist (`LikesNamed`, `ReservationsNamed`, `RequestsPlaced`), so a fresh
id starts with no likes, replies or reservation and the counters start exact; the
rest is arithmetic on the cardinality of a set with one element more or less.

`TokenCreationProofs`, for any sets of requests, keys and bodies
(`CreationAssumption`: the markers for nothing are not values): `TypeCorrect`,
`ExactlyOnce`, `OwnAnswers`, `CompletionFinal`, and `Refinement`: `Spec` implements
`IdempotentCreate`. `IInv` adds that a key's holder has its row in progress
(`OneHolder`), that a row is completed exactly when it names a token made under that
key and body (`RowsResolve`), and that a request about to answer found its own token
(`FoundOwn`). The refinement maps a key to the resource of its row and every error to
one; `Commit` makes the resource, `Find` and the errors answer, and the other steps
stutter.

`LaunchRelayProofs`, for any launches, creators, keys, requests and prepares
(`LaunchAssumption`: every launch has a creator, `None` is no launch, request or
answer): `TypeCorrect`, `KeyBroadcastsOnce`, `RowsTellTheChain`, `FailedTruthful`,
`SubmissionFinal`.
What the runs check speaks of rows and transactions and is not inductive: between
two awaits a request relies on what it did before. `IInv` adds that a request past
its reservation is the only one that holds it and that the row names its launch
(`OneHolder`), that a transaction exists from `submitted` on and not before
(`Begun`), that a request about to complete its key has written its hash
(`HashWritten`), that FAILED has a cause among reverted transactions, failed
relays and prepares that write it back (`FailedHasCause`), and that a launch whose hash
was stored is seen as sent until something reopens it (`SentUnlessReopened`).

`ApiServicesProofs`, for any wallets, nonces, tokens, calls,
readers, writers, TTL and call timeout. The assumptions: the marks for nothing are
not values, there is a signer, a nonce and a quote, the TTL is positive. The
invariant `ApiInv` is the conjunction of one per service, and a step of one service
leaves the others' variables alone:

- `NonceSpent`: a nonce whose delete succeeded is out of Redis for good, and a call
  that found it earlier began before that call ended (`DeletedGone`, `AfterEnded`);
  who reaches a session has checked signer and message (`SessionsSigned`).
- `OneRowPerToken`: at most one transaction has an uncommitted insert of a token, and
  only where no row is committed (`OneInserter`, the unique index); what a call
  knows of the tables is a lower bound of them (`CallSound`).
- `OutdatedEntriesExplained`: a reader that holds an outdated row was overtaken and is
  marked so (`ReaderSound`), hence what it stores is explained.
- `AnswersFresh`: a call is younger than its timeout and an entry younger than TTL plus
  timeout (`CallsTimely`, `EntriesTimely`).
- `QuoteShared`: the key of a computation under way has exactly one computing request,
  the waiting ones refer to a key in flight (`PromisesKept`), and what was read for a
  quote is not older than the entry it replaces (`NeverBack`).

`BroadcasterProofs`, for any pools, sockets, pg clients, calls, ring length, kinds of
trades and bounds (`BroadcasterAssumption`): `BroadcasterTypeCorrect`, `ListensOnce`,
`SplicesGapless`, `OpenBarsQuoteTheirTrades`, `TradesAccounted`, `BarsAlwaysExact`.
`PgInv` says where the one call of `reconnectPg` stands: the flag is up exactly while
one call runs, every client but the current one has ended, and only that call has it
in another state than listening. For the sockets, `RingRecent` says that a ring is a
run of ticks up to the latest, so a snapshot ends where the next broadcast begins; a
run grows by `RunAppend` and the ring shifts by `RunTail`.

For the bars, `OpenBarQuotes` says that the members of an open bar are the last trades
handled and gives all of the bar but its volumes. `BarsInv` adds three parts: `VolumesExact` (the two volumes are the sums over
these trades), `EveryTradeInOneBar` (the trades of all announced bars and of the open
one add up to the trades handled) and `PromptInv`. The last is the strengthening that
`PromptMinutesCloseOnce` needs: while no trade of a pool came late, announced bars are
of different past minutes and whole, and no trade of the current minute is outside
the open bar (`Settled`). `TradesAccounted` is the same account as an action property:
what a single step adds to the bars is what it handles.

`ReadFunctionsProofs`, for every input allowed by `InputAssumption` and
`CurveAssumption`:

- `ReplacesAlwaysIffGreater`: comparing lengths and then digits from the left is
  comparing numbers, by induction on the last digit: the text of a number is that of
  its tenth and one digit more, which decides only where the tenths are equal.
- `TradingAlwaysSound`, for `candles`, `walletPnl` and `maxBuy`. Each candle of
  the filled series opens at the close before it, no bucket that traded is missing from
  the first candle on, and as many rows are fetched as the
  window of buckets can have; each swap keeps the balance of the ledger, and without
  overselling the tokens held are those bought less those sold and end together with
  their cost; the search keeps a fillable amount as its lower end, and each probe
  halves what is left.
- `LaunchPlanAlwaysSound`, for `prepare`. `IsqrtIsFloor`: Newton's iteration starts
  above the root, stays at or above it, falls while it is above and stops at it.
  `OpeningIsLowest`: the level found is the lowest whose tick reaches the price, as the
  table increases. The shares of the positions add up to the curve's supply, since the
  last one gets the remainder. `PlanAcceptedIffSound`: a plan is accepted exactly when
  it has few enough plugins, all of the right role and in force, whose takes are
  within the whole; the loop over the bits stops early only when there are too many.
- `ClosedFormIsSchedule`: `bandOffset`'s closed form is the sum of the decaying steps
  of the ladder, for ladders of any length.
- `SyncedBookServed`, `FailuresKeepBooks` and with them `AddressBookAlwaysSound`: the
  row of a successful sync is a valid manifest (`StoredRow`), so it loads under every
  later environment and each field has the address of the highest authority.

`InputAssumption` says what the columns and the protocol's types guarantee:
generations are bigints from 0 on, a candle's close lies within its wick, the amounts
of swaps are unsigned, the registry is finite. `CurveAssumption` says that the table of
ticks is positive and strictly increasing, as powers of 1.0001 are, and that the two
scales are positive. TLC evaluates both on the instance of the run.

`InductionProofs`: the library's induction theorems take an operator, which the provers
cannot instantiate. Here a property is given as the set of numbers that have it, and
induction (`Induct`) follows from the least element of the others (`LeastNat`). That
a recursive function satisfies its equation follows from the existence of its finite
parts (`Iterates`, `Forever`).

Each inductive invariant also holds under TLC on the instance of its run.

Only model-checked:

- the liveness properties (`FeedConverges`, `EveryEventPublished`, `KeysSettle`,
  `BarsClose`, `ListensAgain`, `DeadPeersCulled`, `CachesCatchUp`): fairness and
  ENABLED are out of the prover's reach;
- `ListsComplete` and `PoolViewsAgree`: their algorithms sort with an order given as an
  operator, merge functions and fold over sets, for which the provers have no usable
  facts; `DevBuyDelivers` follows a quote through several positions with a rounding
  in each.

The type invariants of the modules with proofs are theorems; the run `broadcaster`
checks its own too.

## Plan

Every part with state of its own is modelled, and every safety invariant of a module
with state is proved. Of the algorithms all but `ListsComplete` and `PoolViewsAgree`
are. Left, in this order:

1. `DevBuyDelivers`, by an invariant of the walk over the positions: what was spent and
   what was bought at the price it stands at.
2. A theory of sorted sequences in `InductionProofs`, for the paged and cut lists.
3. `LaunchRelay`: that a relay which ends in an error before its broadcast leaves
   the launch free for a later key, as an action property.
4. `ApiServices`: the freshness of `QuotesShared` for waiting requests as a bound on
   what they are answered.

## Not modelled

- HTTP wiring, DTO validation, configuration and serialization: no state.
- The rate limiter: its guard is not registered, so no request reaches it.
- Response caches of the token queries: a plain TTL and no other invalidation (the
  key of the detail lacks the chain).
- Signing and checking of session tokens, launch hashes and signatures: cryptography.
- `controllerState`, the invalidations and `contractsFor` of the chain reads: nothing
  in the repository calls them. Uncached reads, the RPC proxy and the health checks
  pass a call on.
- Token images and metadata: uploads to another service, without state here.
- ABIs and event topics: generated descriptions.
- The indexer, PostgreSQL, Redis and the chain, except for the behaviour the code
  above depends on.
