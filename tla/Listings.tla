------------------------------ MODULE Listings ------------------------------
(***************************************************************************)
(* The paged lists and the detail of a pool: list, detail, trades and      *)
(* revenue (token-query.service.ts), walletTrades (trading.service.ts),    *)
(* records (launch-query.service.ts).  tie is the order of equal rows, as  *)
(* in Boards.  Columns that are NULL are -1.                               *)
(***************************************************************************)
EXTENDS Boards

\* pool_metrics: the view over a pool and its stats, [sqrt, burned, volume]; sqrt is -1
\* where there is no row of stats.
PoolMetrics(pool) ==
  LET st == pool.stats
      circulating == pool.supply - st.burned
  IN [id |-> pool.id, status |-> pool.status, creator |-> pool.creator, name |-> pool.name,
      launch |-> pool.launch, paid |-> pool.paid, lastPayout |-> pool.lastPayout,
      opening |-> pool.opening, circulating |-> circulating, volume |-> st.volume,
      sqrt |-> Max({st.sqrt, 0}),
      mcap |-> IF st.sqrt > 0 THEN FdvEthWei(circulating, st.sqrt) ELSE -1]

\* The conditions that list collects; near is within 20 % of the graduation cap.
Matches(row, query, graduationCap) ==
  /\ query.near => row.status = "bonding" /\ row.mcap >= (graduationCap * 8) \div 10
  /\ query.paid => row.paid > 0
  /\ query.phase # "" => row.status = query.phase
  /\ query.creator # "" => row.creator = query.creator
  /\ query.q # "" => row.name = query.q

\* ORDER BY of list: greater keys first, -1 last.
ListKey(sort, row) ==
  CASE sort = "oldest" -> <<-row.launch>>
    [] sort = "graduated" -> <<IF row.status = "graduated" THEN 1 ELSE 0, row.launch>>
    [] sort = "market_cap" -> <<row.mcap>>
    [] sort = "volume" -> <<row.volume>>
    [] sort = "milestones" -> <<row.paid, row.lastPayout, row.launch>>
    [] OTHER -> <<row.launch>>

\* Math.min(Math.max(limit, 1), most).
Clamp(limit, most) == Min({Max({limit, 1}), most})

\* Mutant: pages are counted from zero.
PageOfFromZero(rows, tie, page, limit) ==
  [data |-> Query(rows, tie, page * limit, limit), meta |-> PageMeta(page, limit, Len(rows))]

\* A page and its meta, as every list answers it.
PageOf(rows, tie, page, limit) ==
  [data |-> Query(rows, tie, (page - 1) * limit, limit), meta |-> PageMeta(page, limit, Len(rows))]

\* A card; a pool without a price is shown at its opening price.
Card(row) ==
  LET opening == SqrtPriceAtLevel(row.opening)
  IN [id |-> row.id, sqrt |-> CardSqrt(row), circulating |-> row.circulating, preLaunch |-> row.sqrt = 0,
      mcap |-> IF row.sqrt > 0 THEN row.mcap ELSE FdvEthWei(row.circulating, opening)]

PoolsList(pools, query, sort, graduationCap, tie, page, limit) ==
  LET rows == SelectSeq([i \in DOMAIN pools |-> PoolMetrics(pools[i])],
                        LAMBDA r : Matches(r, query, graduationCap))
      res == PageOf(Keyed(rows, LAMBDA r : ListKey(sort, r)), tie, page, limit)
  IN [res EXCEPT !.data = [i \in DOMAIN @ |-> Card(@[i])]]

-----------------------------------------------------------------------------
(* Events, [id, pool, block, log, eth, isBuy, trader]; block and log name  *)
(* an event.                                                               *)

Newest(e) == <<e.block, e.log>>

TradesList(events, pool, side, sort, tie, page, limit) ==
  LET rows == SelectSeq(events, LAMBDA e : /\ e.pool = pool
                                           /\ side # "" => e.isBuy = (side = "BUY"))
      Key(e) == CASE sort = "amount" -> <<e.eth>>
                  [] sort = "oldest" -> <<-e.block, -e.log>>
                  [] OTHER -> Newest(e)
  IN PageOf(Keyed(rows, Key), tie, page, limit)

RevenueList(events, pool, tie, page, limit) ==
  PageOf(Keyed(SelectSeq(events, LAMBDA e : e.pool = pool), Newest), tie, page, limit)

\* The offset uses the clamped page; meta has no hasNext, and one page where there is
\* nothing.
WalletTrades(events, wallet, tie, page, limit, most) ==
  LET rows == SelectSeq(events, LAMBDA e : e.trader = wallet)
      n == Clamp(limit, most)
      res == PageOf(Keyed(rows, Newest), tie, Max({page, 1}), n)
      totalPages == Max({1, DivRoundingUp(Len(rows), n)})
  IN [data |-> res.data, meta |-> [total |-> Len(rows), totalPages |-> totalPages,
                                   hasNext |-> page < totalPages]]

\* Launch records, [id, creator, state, created].
RecordsList(records, creator, state, tie, page, limit, most) ==
  LET rows == SelectSeq(records, LAMBDA r : /\ creator # "" => r.creator = creator
                                            /\ state # "" => r.state = state)
  IN PageOf(Keyed(rows, LAMBDA r : <<r.created>>), tie, Max({page, 1}), Clamp(limit, most))

-----------------------------------------------------------------------------
(* The detail of a pool.  A pool's record is [token, image] in tokenRows;  *)
(* image is "" for NULL.  Launch records are [token, created, image].      *)

\* A pool by its id, by its token or by the id of its token row.
FindPool(pools, ref) ==
  SelectSeq(pools, LAMBDA p : CASE ref.by = "poolId" -> p.id = ref.value
                                [] ref.by = "token" -> p.token = ref.value
                                [] OTHER -> p.token = ref.value \/ p.db = ref.value)

\* imageMap: token rows win, else the newest launch record that has an image.
ImageOf(token, tokenRows, records) ==
  LET own == {t.image : t \in {u \in tokenRows : u.token = token /\ u.image # ""}}
      launched == {r \in records : r.token = token /\ r.image # ""}
  IN IF own # {} THEN CHOOSE i \in own : TRUE
     ELSE IF launched # {} THEN (CHOOSE r \in launched : \A q \in launched : q.created <= r.created).image
     ELSE ""

\* Mutant: the row is filled from the oldest launch record.
BackfillFirst(token, tokenRows, records) ==
  {IF t.token # token \/ t.image # "" \/ records = {} THEN t
   ELSE [t EXCEPT !.image = (CHOOSE r \in records : \A q \in records : r.created <= q.created).image] :
     t \in tokenRows}

\* detail stores the image it found in a token row that has none.
Backfill(token, tokenRows, records) ==
  {IF t.token # token \/ t.image # "" THEN t
   ELSE [t EXCEPT !.image = ImageOf(token, tokenRows, records)] : t \in tokenRows}

\* detail: the price of a pool without stats is null, here -1.  The update of the token
\* row may fail, which detail ignores.
Detail(pools, ref, tokenRows, records, stored, events, tie, page, limit) ==
  LET found == FindPool(pools, ref)
      p == found[1]
      own == {t.image : t \in {u \in tokenRows : u.token = p.token}} \ {""}
  IN IF found = << >> THEN [out |-> "TOKEN_NOT_FOUND"]
     ELSE [out |-> "ok", id |-> p.id, sqrt |-> p.stats.sqrt,
           circulating |-> p.supply - p.stats.burned,
           image |-> IF own # {} THEN CHOOSE i \in own : TRUE
                     ELSE ImageOf(p.token, tokenRows, records),
           trades |-> TradesList(events, p.id, "", "newest", tie, page, limit),
           tokenRows |-> IF stored THEN Backfill(p.token, tokenRows, records) ELSE tokenRows]
=============================================================================
