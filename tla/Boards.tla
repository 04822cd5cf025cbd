------------------------------- MODULE Boards -------------------------------
(***************************************************************************)
(* Read endpoints over all pools: the next_payout list and the milestone   *)
(* board (token-query.service.ts), the keeper jobs (keepers.service.ts),   *)
(* the depth of a pool (trading.service.ts), and the check of a payout     *)
(* plan (launch-prepare.service.ts).  A row of pool_metrics is             *)
(* [id, status, grad, paid, lastPayout, launch, sqrt, opening]; grad is    *)
(* NoLevel and lastPayout is -1 for NULL, and sqrt is 0 for a pool without *)
(* a trade.  t is the ladder's template.  The database returns the rows    *)
(* that match in the order of ORDER BY; rows with equal keys come in any   *)
(* order, which may differ from one query to the next: tie gives the order *)
(* of the query at hand.                                                   *)
(***************************************************************************)
EXTENDS CurveMath, TLC

None == [num |-> -1, den |-> 1]      \* proximity = null

\* How far the price has come from the end of the last paid band to the next one, a
\* fraction between 0 and 99/100.
Proximity(row, t) ==
  LET Band(i) == BandLevels(row.grad, t.first, t.decay, t.spacing, t.width, i, MaxTick)
      level == LevelAtSqrtPrice(row.sqrt)
      from == IF row.paid = 0 THEN row.grad ELSE Band(row.paid - 1).upper
      span == Band(row.paid).lower - from
      covered == Max({level - from, 0})
  IN IF row.status # "graduated" \/ row.grad = NoLevel \/ row.sqrt = 0 THEN None
     ELSE IF ~Band(row.paid).exists \/ span <= 0 THEN None
     ELSE IF 100 * covered > 99 * span THEN [num |-> 99, den |-> 100]
     ELSE [num |-> covered, den |-> span]

Closer(p, q) == p.num * q.den > q.num * p.den

\* Math.round(nextIn * 100).
Percent(p) == (200 * p.num + p.den) \div (2 * p.den)

\* Array.sort is stable: rows that compare equal stay in the order they came in.
StableSort(list, Before(_, _)) ==
  LET order == SortSeq([i \in DOMAIN list |-> i],
                       LAMBDA i, j : Before(list[i], list[j])
                                     \/ (~Before(list[j], list[i]) /\ i < j))
  IN [i \in DOMAIN list |-> list[order[i]]]

Scored(rows, t) ==
  SelectSeq([i \in DOMAIN rows |-> [id |-> rows[i].id, proximity |-> Proximity(rows[i], t)]],
            LAMBDA x : x.proximity # None)

\* Mutant: the end of the slice counts as part of it.
PageInclusive(list, skip, limit) == SubSeq(list, skip + 1, Min({skip + limit + 1, Len(list)}))

\* slice(skip, skip + limit).
Page(list, skip, limit) == SubSeq(list, skip + 1, Min({skip + limit, Len(list)}))

PageMeta(page, limit, total) ==
  LET totalPages == IF total = 0 THEN 0 ELSE DivRoundingUp(total, limit)
  IN [total |-> total, totalPages |-> totalPages, hasNext |-> page < totalPages]

Greater(k, l) == \E i \in DOMAIN k : k[i] > l[i] /\ \A j \in 1..i - 1 : k[j] = l[j]

Keyed(rows, Key(_)) == [i \in DOMAIN rows |-> [key |-> Key(rows[i])] @@ rows[i]]

\* One query: the rows by their keys, greater ones first, ties by tie, from skip on.
Query(rows, tie, skip, limit) ==
  Page(SortSeq(rows, LAMBDA a, b : \/ Greater(a.key, b.key)
                                   \/ ~Greater(b.key, a.key) /\ tie[a.id] < tie[b.id]),
       skip, limit)

\* list with sort = next_payout: the query has no ORDER BY, and every page reads all rows.
NextPayoutList(rows, t, tie, page, limit) ==
  LET all == Query(Keyed(rows, LAMBDA r : << >>), tie, 0, Len(rows))
      scored == StableSort(Scored(all, t), LAMBDA x, y : Closer(x.proximity, y.proximity))
  IN [data |-> Page(scored, (page - 1) * limit, limit), meta |-> PageMeta(page, limit, Len(scored))]

\* ORDER BY of milestoneBoard: payouts, the latest of them, NULLS LAST, and launch.
BoardKey(row) == <<row.paid, row.lastPayout, row.launch>>

\* Mutant: the leaders are not ordered by their proximity.
NextUpUnsorted(rows, t, tie, leaders, top) ==
  LET scored == Scored(Query(Keyed(rows, BoardKey), tie, 0, leaders), t)
  IN [i \in 1..Min({top, Len(scored)}) |->
        [id |-> scored[i].id, percent |-> Percent(scored[i].proximity)]]

\* Mutant: the rows are cut before they are ordered.
NextUpUncut(rows, t, tie, leaders, top) ==
  LET scored == Scored(Query(Keyed(rows, BoardKey), tie, 0, Len(rows)), t)
      best == StableSort(scored, LAMBDA x, y : Closer(x.proximity, y.proximity))
  IN [i \in 1..Min({top, Len(best)}) |-> [id |-> best[i].id, percent |-> Percent(best[i].proximity)]]

\* nextUp of milestoneBoard: of the first leaders rows (LIMIT 50), the top (10) ones.
NextUp(rows, t, tie, leaders, top) ==
  LET scored == Scored(Query(Keyed(rows, BoardKey), tie, 0, leaders), t)
      percents == [i \in DOMAIN scored |->
                     [id |-> scored[i].id, percent |-> Percent(scored[i].proximity)]]
      best == StableSort(percents, LAMBDA x, y : x.percent > y.percent)
  IN SubSeq(best, 1, Min({top, Len(best)}))

\* list's pre-launch fill: a card without a price is shown at the opening price.
CardSqrt(row) == IF row.sqrt > 0 THEN row.sqrt ELSE SqrtPriceAtLevel(row.opening)

-----------------------------------------------------------------------------

\* Mutant: the last level counts instead of the one before it.
AtFarLevelLate(sqrt, far) == sqrt < SqrtPriceAtLevel(far)

AtFarLevel(sqrt, far) == sqrt <= SqrtPriceAtLevel(far - 1)

\* Mutant: the oldest pools are taken.
OldestPools(rows, tie, take) == Query(Keyed(rows, LAMBDA p : <<-p.launch>>), tie, 0, take)

\* findMany of jobs: the newest pools, take (500) of them.
NewestPools(rows, tie, take) == Query(Keyed(rows, LAMBDA p : <<p.launch>>), tie, 0, take)

\* jobs: pots to flush, bonding pools to graduate, graduated pools with swaps since the
\* last collection; pots is a sequence of [id, balance], rows of [id, launch, status,
\* sqrt (-1 without stats), far, swaps], kind "" for all kinds.
KeeperJobs(kind, pots, rows, tie, take, limit, maxLimit) ==
  LET pools == NewestPools(rows, tie, take)
      Wanted(k) == kind \in {"", k}
      Job(k, list) == [i \in DOMAIN list |-> [kind |-> k, id |-> list[i].id]]
      flush == SelectSeq(pots, LAMBDA p : Wanted("flush") /\ p.balance > 0)
      graduate == SelectSeq(pools, LAMBDA p : /\ Wanted("graduate") /\ p.status = "bonding"
                                              /\ p.sqrt > 0 /\ AtFarLevel(p.sqrt, p.far))
      collect == SelectSeq(pools, LAMBDA p : /\ Wanted("collectFees") /\ p.status = "graduated"
                                             /\ p.sqrt # -1 /\ p.swaps > 0)
      all == Job("flush", flush) \o Job("graduate", graduate) \o Job("collectFees", collect)
  IN SubSeq(all, 1, Min({Min({Max({limit, 1}), maxLimit}), Len(all)}))

\* Mutant: the loop ends at the first position that is already active.
AheadStops(starts, level, buckets) ==
  LET n == Len(SelectSeq(starts, LAMBDA s : s <= level))
  IN IF n > 0 THEN << >> ELSE SubSeq(starts, 1, Min({buckets, Len(starts)}))

\* The starts above the level, at most buckets of them.
Ahead(starts, level, buckets) ==
  LET above == SelectSeq(starts, LAMBDA s : s > level)
  IN SubSeq(above, 1, Min({buckets, Len(above)}))

\* depth: curve positions while bonding, live bands afterwards.  stats is -1 without a
\* row; a row with price 0 makes the tick search throw.
Depth(pool, stats, positions, bands, buckets, maxBuckets) ==
  LET level == LevelAtSqrtPrice(IF stats = -1 THEN SqrtPriceAtLevel(pool.opening) ELSE stats)
      n == Min({Max({buckets, 1}), maxBuckets})
      starts == [i \in 1..positions |->
                   CurvePositionStart(pool.opening, pool.far, positions, i - 1)]
  IN IF stats = 0 THEN [out |-> Error]
     ELSE [out |-> pool.status, level |-> level,
           ahead |-> Ahead(IF pool.status = "bonding" THEN starts ELSE SetToSortSeq(bands, <), level, n)]

-----------------------------------------------------------------------------

\* Mutant: the loop stops at the limit, so that it is never exceeded.
SelectedBitsCut(plan, maxPlugins) ==
  {i \in plan : Cardinality({j \in plan : j < i}) < maxPlugins}

\* The bits the loop collects: it stops when it has one more than the limit.
SelectedBits(plan, maxPlugins) ==
  {i \in plan : Cardinality({j \in plan : j < i}) <= maxPlugins}

\* takesSum, from 0n on.
Takes(entries, bits) == IF bits = {} THEN 0 ELSE MapThenSumSet(LAMBDA i : entries[i].take, bits)

\* validatePayoutPlan: plan is the set of bits, entries the registry.
ValidatePayoutPlan(plan, entries, maxPlugins, wad) ==
  LET bits == SelectedBits(plan, maxPlugins)
      bad == {i \in bits : entries[i].suspended \/ entries[i].role # 1}
  IN IF plan = {} THEN "ok"
     ELSE IF Cardinality(bits) > maxPlugins THEN "PAYOUT_PLAN_TOO_MANY_PLUGINS"
     ELSE IF bad # {}
     THEN IF entries[Min(bad)].suspended THEN "PAYOUT_PLAN_ENTRY_SUSPENDED"
          ELSE "PAYOUT_PLAN_ENTRY_NOT_SELECTABLE"
     ELSE IF Takes(entries, bits) > wad THEN "PAYOUT_TAKES_ABOVE_WAD"
     ELSE "ok"
=============================================================================
