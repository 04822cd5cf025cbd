---------------------------- MODULE ReadFunctions ----------------------------
(***************************************************************************)
(* The functions that the read endpoints and the launch quote compute,     *)
(* called one at a time with every input of a bounded domain and compared  *)
(* with reference definitions.  A state is a call and its answer.          *)
(***************************************************************************)
EXTENDS GenerationOrder, Candles, WalletPnl, Quotes, CurveMath, ProtocolViews, AddressBook, Functions, Totals

CONSTANTS
  Generations,      \* generations given to the Lua comparison
  Minutes, Rows,    \* minutes of the candle table and the rows it may hold
  SwapRows, MaxSwaps,        \* swaps of a wallet
  Transfers, MaxTransfers,   \* transfers of a token, and accounts they touch
  Accounts, TopN,
  MaxCap, MaxRoot,  \* bounds of maxBuy's cap and of isqrt's argument
  Templates,        \* parameters of the milestone ladder
  PoolRows, MaxPools,        \* rows of pool_metrics
  ListedPools, Filters, GraduationCap,   \* pools of the lists, and conditions on them
  EventRows, MaxEvents,      \* events of the lists
  LaunchRows,       \* launch records
  Registry, MaxPlugins,      \* payout registries, and the limit of a plan
  Versions,         \* versions of the economic config
  Variables, Manifests       \* environments, and deployment manifests

\* Generations are bigints that are never negative; the indexer's rows have the close
\* inside the wick; amounts of a swap are unsigned; a registry has finitely many entries.
ASSUME InputAssumption ==
  /\ Generations \subseteq Nat
  /\ Minutes \subseteq Nat /\ IsFiniteSet(Minutes) /\ Minutes # {}
  /\ Rows \subseteq [open : Nat, close : Nat, high : Nat, low : Nat, volume : Nat]
  /\ \A r \in Rows : r.low <= r.close /\ r.close <= r.high
  /\ SwapRows \subseteq [isBuy : BOOLEAN, eth : Nat, tokens : Nat]
  /\ \A entries \in Registry : DOMAIN entries \subseteq Nat /\ IsFiniteSet(DOMAIN entries)
  /\ MaxSwaps \in Nat /\ MaxCap \in Nat /\ MaxRoot \in Nat /\ MaxPlugins \in Nat

VARIABLES
  fn,               \* the function called, "none" before and after a call
  call              \* the arguments of the call and its answer

vars == <<fn, call>>

Init == fn = "none" /\ call = << >>

Return == fn # "none" /\ fn' = "none" /\ call' = << >>

Tables == UNION {[S -> Rows] : S \in SUBSET Minutes}

CallReplaces ==
  /\ fn' = "replaces"
  /\ \E g \in Generations, h \in Generations \union {-1} :
       call' = [g |-> g, h |-> h,
                answer |-> Replaces(Decimal(g), IF h = -1 THEN << >> ELSE Decimal(h))]

CallCandles ==
  /\ fn' = "candles"
  /\ \E table \in Tables, from \in {0, 1}, size \in 1..2, limit \in 1..3, cap \in {2, 6} :
       call' = [table |-> [m \in {n \in DOMAIN table : n >= from} |-> table[m]],
                size |-> size, limit |-> limit, cap |-> cap,
                answer |-> GetCandles(table, from, Max(Minutes) + 1, size, limit, cap)]

CallWalletPnl ==
  /\ fn' = "pnl"
  /\ \E n \in 0..MaxSwaps : \E rows \in [1..n -> SwapRows], burned \in {0, 1, 5} :
       call' = [rows |-> rows, burned |-> burned, answer |-> Position(rows, burned)]

\* start, grow, steps and eps are 4, 2, 4 and 1 for 10^18, 6, 12 and 10^14.
CallMaxBuy ==
  /\ fn' = "maxBuy"
  /\ \E cap \in 0..MaxCap, flaky \in {{}} \union {{i, j} : i, j \in 1..6} :
       call' = [cap |-> cap, flaky |-> flaky,
                hi |-> Growth(4, 2, cap, flaky).hi, answer |-> MaxBuy(4, 2, 4, 1, cap, flaky)]

\* Transfers that the token accepts: nobody sends more than he has.
Valid(logs) ==
  \A n \in 1..Len(logs) :
    LET bal == Balances(SubSeq(logs, 1, n), Accounts) IN \A a \in Accounts : bal[a] >= 0

Holding(logs, a) ==
  LET Sum(S) == MapThenSumSet(LAMBDA i : logs[i].value, S)
  IN Sum({i \in DOMAIN logs : logs[i].to = a}) - Sum({i \in DOMAIN logs : logs[i].from = a})

CallHolders ==
  /\ fn' = "holders"
  /\ \E n \in 1..MaxTransfers : \E logs \in [1..n -> Transfers] :
       /\ Valid(logs)
       /\ call' = [logs |-> logs, answer |-> HoldersFromLogs(logs, Accounts, TopN),
                   table |-> HoldersFromTable([a \in Accounts |-> Holding(logs, a)], TopN)]

CallPrice ==
  /\ fn' = "price"
  /\ \E stats \in {-1, 0} \union Range(SqrtTable), slot0 \in {-1, 0, SqrtTable[0]},
        status \in {"bonding", "graduated"}, opening \in -2..2 :
       LET price == PriceOf(stats, slot0, SqrtPriceAtLevel(opening))
           level == LevelAtSqrtPrice(price.sqrt)
       IN call' = [stats |-> stats, slot0 |-> slot0, opening |-> opening,
                   status |-> status, level |-> level, source |-> price.source,
                   card |-> CardSqrt([sqrt |-> Max({stats, 0}), opening |-> opening]), sqrt |-> price.sqrt,
                   progress |-> CurveProgress(status, opening, opening + 4, level)]

CallIsqrt ==
  /\ fn' = "isqrt"
  /\ \E x \in 0..MaxRoot : call' = [x |-> x, answer |-> Isqrt(x)]

CallOpening ==
  /\ fn' = "opening"
  /\ \E supply \in {50, 100, 217}, fdv \in {30, 77, 150, 400} :
       call' = [supply |-> supply, fdv |-> fdv, answer |-> OpeningLevel(supply, fdv)]

\* prepare: a curve between two levels of the table, and a dev buy of at most the
\* 10 % of the supply that the cap allows, where the curve has 25 %.
CallDevBuy ==
  /\ fn' = "devBuy"
  /\ \E opening \in {-6, 0, 4}, span \in {5, 8}, positions \in {1, 3, 4}, supply \in {100, 157},
        bought \in {0, 1, 7, 20, 33, 40} :
       LET far == FarLevel(opening, span)
           out == (supply * bought) \div 100
       IN /\ far # NoLevel
          /\ call' = [opening |-> opening, far |-> far, positions |-> positions,
                   supply |-> supply, tokensOut |-> out,
                   answer |-> DevBuyQuote(out, opening, far, positions, supply, Pips \div 100),
                   less |-> DevBuyQuote(Max({out - 1, 0}), opening, far, positions, supply, Pips \div 100)]

\* Band rows hold the levels of the ladder; a band may be skipped and deployed later.
CallMilestones ==
  /\ fn' = "milestones"
  /\ \E t \in Templates, grad \in {0, 3}, maxLevel \in {12, 25}, skipped \in SUBSET {0, 1},
        live \in SUBSET {0, 2}, status \in {"live", "completed"} :
       LET Row(i) == BandLevels(grad, t.first, t.decay, t.spacing, t.width, i, maxLevel)
           deployed == [i \in {j \in live : Row(j).exists} |->
                          [status |-> status, lower |-> Row(i).lower, upper |-> Row(i).upper]]
       IN call' = [t |-> t, grad |-> grad, maxLevel |-> maxLevel,
                   deployed |-> deployed, answer |-> Milestones(grad, t, deployed, skipped, maxLevel)]

\* The pages from the first on, as far as hasNext leads.
Walk(P(_), most) ==
  LET from[p \in 1..most] ==
        LET here == P(p)
        IN IF p < most /\ here.meta.hasNext THEN here.data \o from[p + 1] ELSE here.data
  IN from[1]

\* The order of equal rows: by id, or turned around on every other page.
Tie(n, flip, page) == [i \in 1..n |-> IF flip /\ page % 2 = 0 THEN -i ELSE i]

\* The pages of the next_payout list, and the board of the first leaders pools.
CallBoard ==
  /\ fn' = "board"
  /\ \E n \in 0..MaxPools, t \in Templates, limit \in 1..2, flip \in BOOLEAN :
       \E picked \in [1..n -> PoolRows] :
         LET rows == [i \in 1..n |-> [id |-> i] @@ picked[i]]
             leaders == MaxPools - 1
             top == 3 - limit
             P(p) == NextPayoutList(rows, t, Tie(n, flip, p), p, limit)
         IN call' = [rows |-> rows, t |-> t, leaders |-> leaders, top |-> top, pages |-> Walk(P, n + 1),
                     nextUp |-> NextUp(rows, t, Tie(n, flip, 2), leaders, top)]

Numbered(n, Rows1) == {[i \in 1..n |-> [id |-> i] @@ f[i]] : f \in [1..n -> Rows1]}

\* A list followed page by page; key gives the ORDER BY key of each row that matches.
Listing(pages, rows, Wanted(_), Key(_)) ==
  [shown |-> [i \in DOMAIN pages |-> pages[i].id],
   key |-> [id \in {rows[i].id : i \in {j \in DOMAIN rows : Wanted(rows[j])}} |-> Key(rows[id])]]

CallPools ==
  /\ fn' = "listing"
  /\ \E n \in 0..MaxPools, limit \in 1..2, flip \in BOOLEAN, query \in Filters,
        sort \in {"newest", "oldest", "graduated", "market_cap", "volume", "milestones"} :
       \E pools \in Numbered(n, ListedPools) :
         LET P(p) == PoolsList(pools, query, sort, GraduationCap, Tie(n, flip, p), p, limit)
         IN call' = Listing(Walk(P, n + 1), [i \in 1..n |-> PoolMetrics(pools[i])],
                            LAMBDA r : Matches(r, query, GraduationCap), LAMBDA r : ListKey(sort, r))

\* Events in the order of the chain, two to a block.
Events(n) == {[i \in 1..n |-> [block |-> (i + 1) \div 2, log |-> i] @@ f[i]] : f \in Numbered(n, EventRows)}

CallTrades ==
  /\ fn' = "listing"
  /\ \E n \in 0..MaxEvents, limit \in 1..2, flip \in BOOLEAN, side \in {"", "BUY", "SELL"},
        sort \in {"newest", "oldest", "amount"} :
       \E events \in Events(n) :
         LET P(p) == TradesList(events, 1, side, sort, Tie(n, flip, p), p, limit)
         IN call' = Listing(Walk(P, n + 1), events,
                            LAMBDA e : e.pool = 1 /\ (side # "" => e.isBuy = (side = "BUY")),
                            LAMBDA e : IF sort = "amount" THEN <<e.eth>> ELSE
                                       IF sort = "oldest" THEN <<-e.log>> ELSE <<e.log>>)

CallRevenue ==
  /\ fn' = "listing"
  /\ \E n \in 0..MaxEvents, limit \in 1..2, flip \in BOOLEAN : \E events \in Events(n) :
       LET P(p) == RevenueList(events, 1, Tie(n, flip, p), p, limit)
       IN call' = Listing(Walk(P, n + 1), events, LAMBDA e : e.pool = 1, LAMBDA e : <<e.log>>)

CallWalletTrades ==
  /\ fn' = "listing"
  /\ \E n \in 0..MaxEvents, limit \in 0..3, flip \in BOOLEAN : \E events \in Events(n) :
       LET P(p) == WalletTrades(events, "a", Tie(n, flip, p), p, limit, 2)
       IN call' = Listing(Walk(P, n + 1), events, LAMBDA e : e.trader = "a", LAMBDA e : <<e.log>>)

CallRecords ==
  /\ fn' = "listing"
  /\ \E n \in 0..MaxEvents, limit \in 0..3, flip \in BOOLEAN, creator \in {"", "a"}, state \in {"", "FAILED"} :
       \E records \in Numbered(n, LaunchRows) :
         LET P(p) == RecordsList(records, creator, state, Tie(n, flip, p), p, limit, 2)
         IN call' = Listing(Walk(P, n + 1), records,
                            LAMBDA r : (creator # "" => r.creator = creator) /\ (state # "" => r.state = state),
                            LAMBDA r : <<r.created>>)

\* A wallet's pools: created, claimed, or launched for it.
CallCreated ==
  /\ fn' = "listing"
  /\ \E n \in 0..MaxPools, limit \in 0..3, flip \in BOOLEAN, sort \in {"newest", "oldest"} :
       \E pools \in Numbered(n, [creator : {"a", "b"}, claimed : {"", "a"}, launchedBy : {"b", "a"}, launch : {1, 2}]) :
         LET P(p) == CreatedTokens(pools, "a", sort, Tie(n, flip, p), p, limit, 2)
         IN call' = Listing(Walk(P, n + 1), pools, LAMBDA p : "a" \in {p.creator, p.claimed, p.launchedBy},
                            LAMBDA p : IF sort = "oldest" THEN <<-p.launch>> ELSE <<p.launch>>)

\* A list that shows its first rows only.
Cut(rows, shown, most, Wanted(_), Key(_)) ==
  LET list == Listing(shown, rows, Wanted, Key)
  IN [shown |-> list.shown, key |-> list.key, most |-> most]

\* Rows of a tag, in the columns of the table at hand.
Facts(n) ==
  {[i \in 1..n |-> [log |-> i, status |-> f[i].tag, kind |-> f[i].tag, type |-> f[i].tag, chain |-> f[i].tag,
                    owner |-> f[i].tag, token |-> f[i].tag, pool |-> f[i].at, time |-> f[i].at, block |-> f[i].at,
                    day |-> f[i].at, volume |-> f[i].at, launch |-> f[i].at, revenue |-> f[i].at - 2] @@ f[i]] :
     f \in Numbered(n, [tag : {"protocol", "claims"}, at : {1, 2}])}

CallFacts ==
  /\ fn' = "cut"
  /\ \E n \in 0..MaxEvents, most \in 1..2, flip \in BOOLEAN :
       \E rows \in Facts(n) :
         LET tie == Tie(n, flip, 2)
             Every(r) == TRUE
             Tagged(r) == r.tag = "protocol"
             At(r) == <<r.at>>
             Of(shown, limit, Wanted(_)) == call' = Cut(rows, shown, limit, Wanted, At)
             revenue == Revenue(rows, rows, TRUE, 1, 1, tie, most, most)
             stats == Stats(rows, rows, tie, most, most)
         IN \/ Of(Governance(rows, "", tie, most), most, Every)
            \/ Of(Governance(rows, "protocol", tie, most), most, Tagged)
            \/ Of(revenue.accruals, most, Every) \/ Of(revenue.claims, most, Tagged)
            \/ Of(stats.daily, most, Every) \/ Of(stats.leaderboard, most, Every)
            \/ Of(FeaturedTokens(rows, "protocol", TRUE, tie, most), most, Tagged)
            \/ Of(RevenueStreams(rows, "protocol", {"protocol"}, tie), n, Tagged)

CallHistory ==
  /\ fn' = "cut"
  /\ \E n \in 0..MaxEvents, limit \in 0..3, flip \in BOOLEAN, pool \in {0, 1} :
       \E rows \in Facts(n) :
         call' = Cut(rows, RevenueHistory(rows, "claims", pool, Tie(n, flip, 2), limit, 2).data, Clamp(limit, 2),
                     LAMBDA r : r.tag = "claims" /\ pool \in {0, r.at}, LAMBDA r : <<r.block, r.log>>)

CallPlugins ==
  /\ fn' = "cut"
  /\ \E n \in 0..MaxPools : \E entries \in {[i \in 1..n |-> [id |-> i, index |-> f[i]]] : f \in Permutations(1..n)} :
       call' = Cut(entries, Plugins(entries, Tie(n, FALSE, 1), 256).data, n, LAMBDA e : TRUE, LAMBDA e : <<-e.index>>)

CallEconomics ==
  /\ fn' = "economics"
  /\ \E n \in 0..MaxPools, state \in Versions \union {-1}, hasChain \in BOOLEAN, chain \in Versions \union {-1} :
       \E versions \in {f \in [1..n -> Versions] : IsInjective(f)} :
         call' = [state |-> state, hasChain |-> hasChain, chain |-> chain, recorded |-> Range(versions),
                  answer |-> Economics([i \in 1..n |-> [id |-> i, version |-> versions[i]]], state, hasChain, chain,
                                       Tie(n, FALSE, 1), 2)]

\* manifest:sync under one environment, then a start or a reload under another; the
\* registry may have a book already.
CallAddressBook ==
  /\ fn' = "book"
  /\ \E env, later \in Variables, file \in Manifests \union {NoManifest(1)}, known \in {Absent, "known"},
        books \in {<< >>, [c \in {1} |-> [hook |-> "old"]]},
        row \in {<< >>, [c \in {1} |-> [NoManifest(1) EXCEPT !.hook = Malformed]]} :
       LET e1 == [f \in DOMAIN env |-> IF env[f] = "env" THEN "env1" ELSE env[f]]
           e2 == [f \in DOMAIN later |-> IF later[f] = "env" THEN "env2" ELSE later[f]]
           table == ManifestSync(1, e1, file, known, row)
       IN call' = [env |-> e1, later |-> e2, file |-> file, known |-> known, before |-> row,
                   table |-> table, old |-> Addresses(1, books),
                   answer |-> Addresses(1, LoadAll(e2, table, known, books))]

\* Two pools, token rows that may lack an image or be missing, launch records of both.
CallDetail ==
  /\ fn' = "detail"
  /\ \E pools \in Numbered(2, {p \in ListedPools : p.launch = 1}), rows \in SUBSET {"t1", "t2"},
        images \in [{"t1", "t2"} -> {"", "own"}], stored \in BOOLEAN,
        records \in SUBSET [token : {"t1", "t2"}, created : {1, 2}],
        ref \in [by : {"poolId"}, value : 1..3] \union [by : {"token", "db"}, value : {"t1", "t2", "d1", "d9"}] :
       LET named == [i \in 1..2 |-> [token |-> <<"t1", "t2">>[i], db |-> <<"d1", "d2">>[i]] @@ pools[i]]
           launches == {[image |-> IF r.created = 1 THEN "old" ELSE "new"] @@ r : r \in records}
           tokenRows == {[token |-> t, image |-> images[t]] : t \in rows}
           events == <<[id |-> 1, pool |-> 1, block |-> 1, log |-> 1, eth |-> 1, isBuy |-> TRUE, trader |-> "a"]>>
       IN call' = [pools |-> named, ref |-> ref, before |-> tokenRows, launches |-> launches,
                   answer |-> Detail(named, ref, tokenRows, launches, stored, events, Tie(1, FALSE, 1), 1, 2)]

\* A pool at every price beside one that has graduated and one that is due; the two
\* newest of them are looked at.
CallKeepers ==
  /\ fn' = "keepers"
  /\ \E kind \in {"", "graduate", "flush"}, limit \in {0, 1, 3}, far \in {2, 3}, balance \in {0, 7},
        status \in {"bonding", "graduated"}, launch \in 1..3, flip \in BOOLEAN,
        sqrt \in {-1, 0} \union SqrtTable[-4]..SqrtTable[0] :
       LET pools == <<[id |-> 1, launch |-> launch, status |-> status, sqrt |-> sqrt, far |-> far, swaps |-> 1],
                      [id |-> 2, launch |-> 1, status |-> "graduated", sqrt |-> SqrtTable[-4], far |-> far, swaps |-> 1],
                      [id |-> 3, launch |-> 2, status |-> "bonding", sqrt |-> SqrtTable[-4], far |-> far, swaps |-> 0]>>
       IN call' = [kind |-> kind, pools |-> pools, take |-> 2, limit |-> Min({Max({limit, 1}), 3}),
                   answer |-> KeeperJobs(kind, <<[id |-> 1, balance |-> balance]>>, pools,
                                         Tie(3, flip, 2), 2, limit, 3)]

CallDepth ==
  /\ fn' = "depth"
  /\ \E status \in {"bonding", "graduated"}, stats \in {-1, 0} \union SqrtTable[-6]..SqrtTable[2],
        positions \in {2, 4}, buckets \in {0, 2, 9}, bands \in SUBSET {1, 4, 6} :
       call' = [status |-> status, stats |-> stats, positions |-> positions,
                bands |-> bands, buckets |-> Min({Max({buckets, 1}), 3}),
                answer |-> Depth([status |-> status, opening |-> -1, far |-> 5], stats, positions, bands, buckets, 3)]

CallPlan ==
  /\ fn' = "plan"
  /\ \E entries \in Registry : \E plan \in SUBSET DOMAIN entries :
       call' = [entries |-> entries, plan |-> plan,
                answer |-> ValidatePayoutPlan(plan, entries, MaxPlugins, 10)]

Next ==
  \/ fn = "none" /\ ( \/ CallReplaces \/ CallCandles \/ CallWalletPnl \/ CallMaxBuy
                      \/ CallHolders \/ CallPrice \/ CallIsqrt \/ CallOpening
                      \/ CallDevBuy \/ CallMilestones \/ CallEconomics
                      \/ CallKeepers \/ CallDepth \/ CallPlan
                      \/ CallTrades \/ CallRevenue \/ CallWalletTrades
                      \/ CallRecords \/ CallDetail \/ CallCreated
                      \/ CallFacts \/ CallHistory \/ CallPlugins
                      \/ CallAddressBook \/ CallPools \/ CallBoard )
  \/ Return

Spec == Init /\ [][Next]_vars

-----------------------------------------------------------------------------
(* Reference definitions.                                                  *)

\* The script replaces the stored generation exactly when the incoming one is
\* numerically greater, also where the number of digits changes.
ReplacesIffGreater == fn = "replaces" => (call.answer <=> call.g > call.h)

\* The candle i of c comes right before the candle j in time.
Successive(c, i, j) ==
  c[i].t < c[j].t /\ \A k \in 1..Len(c) : ~(c[i].t < c[k].t /\ c[k].t < c[j].t)

\* Candles join: no bucket is answered twice, a candle opens at the close of the one
\* before it in time, inside its wick, and there are never more than asked for.  The
\* order of the answer, and whether buckets without trades are in it, are left open:
\* the integration guide and the code differ on both (README).
CandlesJoin ==
  fn = "candles" =>
    LET c == call.answer
    IN /\ Len(c) <= call.limit
       /\ \A i, j \in 1..Len(c) : /\ c[i].t = c[j].t => i = j
                                  /\ Successive(c, i, j) => c[j].open = c[i].close
       /\ \A i \in 1..Len(c) : c[i].low <= Min({c[i].open, c[i].close})
                               /\ Max({c[i].open, c[i].close}) <= c[i].high

\* An answer of candles shows its table: its latest candle is that of the newest row,
\* from its first candle on no bucket with a row is missing, and each candle has the
\* volume and the last price of all the rows of its bucket, or stays flat without any.
Shows(c, table, size) ==
  /\ c = << >> <=> DOMAIN table = {}
  /\ c # << >> => \E i \in 1..Len(c) : c[i].t = BucketOf(Max(DOMAIN table), size)
  /\ \A i \in 1..Len(c) : \A m \in DOMAIN table :
       c[i].t <= BucketOf(m, size) => \E j \in 1..Len(c) : c[j].t = BucketOf(m, size)
  /\ \A i \in 1..Len(c) :
       LET ms == {m \in DOMAIN table : BucketOf(m, size) = c[i].t /\ table[m].close # 0}
       IN /\ c[i].volume = IF ms = {} THEN 0 ELSE SumVolumes([m \in ms |-> table[m].volume])
          /\ c[i].close = IF ms = {} THEN c[i].open ELSE table[Max(ms)].close
          /\ c[i].t <= BucketOf(Max(DOMAIN table), size)

\* When the row cap does not bite and every minute row traded, the answer shows the
\* table: fetching the newest rows never cuts a bucket that is shown.
CandlesMatchTable ==
  (fn = "candles" /\ call.limit * call.size <= call.cap
     /\ \A m \in DOMAIN call.table : call.table[m].close # 0) =>
    Shows(call.answer, call.table, call.size)

\* A column of the swaps, by side.
Column(rows, buys, of) == [i \in 1..Len(rows) |-> IF rows[i].isBuy = buys THEN rows[i][of] ELSE 0]

\* Nothing is lost between the two halves of a wallet's ledger: what was realized
\* less what the position still costs is what came in less what was paid, whatever
\* the order of the swaps, also after overselling and after burns.
PnlConserves ==
  fn = "pnl" =>
    LET Flow(buys) == Total(Column(call.rows, buys, "eth"), Len(call.rows))
    IN call.answer.realizedEth - call.answer.costEth = Flow(FALSE) - Flow(TRUE)

\* Tokens bought less tokens sold by the first n swaps.
NetTokens(rows, n) == Total(Column(rows, TRUE, "tokens"), n) - Total(Column(rows, FALSE, "tokens"), n)

\* A wallet that never sold more than it had bought holds the difference less its
\* burns, at a cost that is not negative and is zero once nothing is held.  A swap
\* whose amount rounds to no token at all leaves its cost without a token to carry it.
PnlExhausted ==
  fn = "pnl" =>
    LET rows == call.rows
        pos == call.answer
    IN (\A n \in 1..Len(rows) : NetTokens(rows, n) >= 0 /\ rows[n].tokens > 0) =>
         /\ pos.tokensHeld = Max({NetTokens(rows, Len(rows)) - call.burned, 0})
         /\ pos.costEth >= 0
         /\ pos.tokensHeld = 0 => pos.costEth = 0

\* maxBuy never answers an amount that the curve cannot fill, even when probes fail
\* for other reasons.
MaxBuyFillable == fn = "maxBuy" => call.answer <= call.cap

\* Without such failures the answer is within the resolution of the search of the
\* largest amount below its upper end that can be filled.
MaxBuyTight ==
  (fn = "maxBuy" /\ call.flaky = {}) =>
    Min({call.cap, call.hi}) - call.answer <= Max({1, DivRoundingUp(call.hi, 16)})

\* The two sources of the holder list agree on the number of holders and on the
\* balances listed, and on the shares as long as every holder is listed.
HolderSourcesAgree ==
  fn = "holders" =>
    /\ call.answer.count = call.table.count
    /\ Len(call.answer.top) = Len(call.table.top)
    /\ \A i \in DOMAIN call.answer.top : call.answer.top[i].balance = call.table.top[i].balance
    /\ call.answer.count <= TopN => call.answer.top = call.table.top

\* A pool without a price anywhere is quoted at its opening level with no progress;
\* progress otherwise follows the level that the price stands for.  When the chain
\* cannot be read, the price agrees with the pool's card in the list.
UntradedPoolOpens ==
  fn = "price" =>
    /\ (call.slot0 = 0 \/ (call.slot0 = -1 /\ call.stats <= 0)) =>
          call.level = call.opening /\ call.source = "opening"
    /\ call.status = "bonding" => (call.progress = 0 <=> call.level <= call.opening)
    /\ call.slot0 = -1 => call.card = call.sqrt

\* isqrt is the floor of the square root.
IsqrtFloor ==
  fn = "isqrt" =>
    call.answer * call.answer <= call.x /\ call.x < (call.answer + 1) * (call.answer + 1)

\* The opening level is the lowest one whose fully diluted value reaches the
\* template's: rounding in the root and in the tick search cannot open a pool below it.
OpeningReachesFdv ==
  (fn = "opening" /\ call.answer # NoLevel) =>
    /\ FdvEthWei(call.supply, SqrtPriceAtLevel(call.answer)) >= call.fdv
    /\ FdvEthWei(call.supply, SqrtPriceAtLevel(call.answer - 1)) < call.fdv

\* The positions of a curve share its whole supply, and their starts never fall.
CurveIsCovered ==
  fn = "devBuy" =>
    LET Start(i) == CurvePositionStart(call.opening, call.far, call.positions, i)
        amounts == [i \in 1..call.positions |-> CurvePositionAmount(call.supply, call.positions, i - 1)]
    IN /\ Total(amounts, call.positions) = call.supply
       /\ \A i \in 1..call.positions : amounts[i] >= 0
       /\ \A i \in 0..call.positions - 1 : call.opening <= Start(i) /\ Start(i) < call.far
       /\ \A i, j \in 0..call.positions - 1 : i <= j => Start(i) <= Start(j)

\* Tokens, times Q, that the positions release from the opening price down to p.
Released(p) ==
  MapThenSumSet(
    LAMBDA i :
      LET start == SqrtPriceAtLevel(CurvePositionStart(call.opening, call.far, call.positions, i))
      IN CurvePositionLiquidity(call.opening, call.far, call.positions, call.supply, i)
           * (Max({start, p}) - p),
    0..call.positions - 1)

\* A dev buy within the cap is always quoted; at the price where it ends the positions
\* have released at least the tokens bought, and no more than rounding explains; the
\* end is between the opening and the far price, and buying more never costs less.
DevBuyDelivers ==
  fn = "devBuy" =>
    LET q == call.answer
        liquidity == MapThenSumSet(
          LAMBDA i : CurvePositionLiquidity(call.opening, call.far, call.positions, call.supply, i),
          0..call.positions - 1)
    IN /\ q.out = "quote"
       /\ Released(q.endSqrt) >= call.tokensOut * Q
       /\ Released(q.endSqrt) < (call.tokensOut + call.positions) * Q + liquidity
       /\ SqrtPriceAtLevel(call.far) <= q.endSqrt /\ q.endSqrt <= SqrtPriceAtLevel(call.opening)
       /\ q.endLevel \in call.opening..call.far
       /\ q.cost >= call.less.cost

\* Levels from the start of a band to the start of the next one, for m bands.
Schedule(first, decay, spacing, m) == [j \in 1..m |-> Max({spacing, first - decay * (j - 1)})]

\* The closed form is the schedule: band i starts max(spacing, first - decay * i)
\* levels above the band before it.  The rows are exactly the bands of the ladder
\* that fit, without overlap, and every deployed band is shown as deployed.
LadderListed ==
  fn = "milestones" =>
    LET t == call.t
        Lower(i) == call.grad + Total(Schedule(t.first, t.decay, t.spacing, i + 1), i + 1)
        fits == {i \in 0..t.core + t.extension - 1 : Lower(i) + t.width <= call.maxLevel}
        rows == call.answer
    IN /\ {rows[j].index : j \in DOMAIN rows} = fits /\ Len(rows) = Cardinality(fits)
       /\ \A j \in DOMAIN rows : rows[j].lower = Lower(rows[j].index)
       /\ \A j \in 1..Len(rows) - 1 : rows[j].upper <= rows[j + 1].lower
       /\ \A i \in DOMAIN call.deployed : rows[i + 1].state \in {"DEPLOYED", "HARVESTED"}

\* Proximities of the rows that can be listed, by pool.
Eligible == {i \in DOMAIN call.rows : Proximity(call.rows[i], call.t) # None}

\* Following hasNext from page 1 shows the closest pools first, and for every proximity
\* as many rows as pools that have it: a pool without an equal is shown exactly once.
\* Pools that tie may change places between the pages, so that one is shown twice.
PagesPartition ==
  fn = "board" =>
    LET list == call.pages
        Of(i) == Proximity(call.rows[i], call.t)
        Same(p, q) == ~Closer(p, q) /\ ~Closer(q, p)
    IN /\ Len(list) = Cardinality(Eligible) /\ {list[i].id : i \in DOMAIN list} \subseteq Eligible
       /\ \A e \in Eligible : Cardinality({i \in DOMAIN list : Same(Of(list[i].id), Of(e))})
                                = Cardinality({i \in Eligible : Same(Of(i), Of(e))})
       /\ \A i, j \in DOMAIN list : i < j => ~Closer(Of(list[j].id), Of(list[i].id))

\* list, trades, revenue, walletTrades, records: following hasNext from page 1 shows as
\* many rows as match; when no two rows tie, each of them once and in the order of the
\* keys.  With ties the database may show one row twice and another never.
ListingComplete ==
  fn = "listing" =>
    LET ids == DOMAIN call.key
    IN /\ Len(call.shown) = Cardinality(ids) /\ ToSet(call.shown) \subseteq ids
       /\ (\A i, j \in ids : i # j => call.key[i] # call.key[j]) =>
            /\ ToSet(call.shown) = ids
            /\ \A i, j \in DOMAIN call.shown :
                 i < j => ~Greater(call.key[call.shown[j]], call.key[call.shown[i]])

\* A list that is cut shows the rows with the greatest keys among those that match, as
\* many as its limit allows, and the greatest first.
CutsKeepNewest ==
  fn = "cut" =>
    LET ids == DOMAIN call.key
        shown == ToSet(call.shown)
    IN /\ shown \subseteq ids /\ Len(call.shown) = Cardinality(shown)
       /\ Cardinality(shown) = Min({call.most, Cardinality(ids)})
       /\ \A i \in shown, j \in ids \ shown : ~Greater(call.key[j], call.key[i])
       /\ \A i, j \in DOMAIN call.shown :
            i < j => ~Greater(call.key[call.shown[j]], call.key[call.shown[i]])

\* economics shows the version in force when it is among those listed, although newer
\* ones are recorded, and else the newest; the version shown is part of the history.
\* The chain speaks only where nothing is recorded, and its failure hides no row.
EconomicsInForce ==
  fn = "economics" =>
    LET a == call.answer
        listed == {v \in call.recorded : Cardinality({u \in call.recorded : u > v}) < 2}
    IN /\ call.recorded # {} =>
            /\ a.out = "indexer" /\ {a.history[i].version : i \in DOMAIN a.history} = listed
            /\ a.version = IF call.state \in listed THEN call.state ELSE Max(listed)
       /\ call.recorded = {} =>
            IF call.hasChain /\ call.chain # -1 THEN a.out = "live" /\ a.version = call.chain
                                               ELSE a.out = "ECONOMICS_NOT_AVAILABLE"

\* What manifest:sync has stored always loads, under every later environment without
\* malformed variables, and gives the addresses of that environment over the first one
\* over the file over the well-known ones; of two buyback keys the long one counts.  A
\* sync that fails leaves the row, and a row that does not load leaves the old book.
AddressBookSound ==
  fn = "book" =>
    LET synced == call.table # call.before
    IN /\ (synced /\ ~EnvError(call.later)) =>
            HoldsAddresses(call.answer, call.later, call.env, call.file, call.known)
       /\ (~synced \/ EnvError(call.later)) => call.answer = call.old
       /\ synced <=> Syncs(1, call.env, call.file, call.known)

\* The detail of a pool agrees with its card: the image, also after the detail has
\* stored it and for every other token; the supply; and the price once it has traded.
DetailMatchesCard ==
  (fn = "detail" /\ call.answer.out = "ok") =>
    LET d == call.answer
        card == Card(PoolMetrics(call.pools[d.id]))
    IN /\ d.image = ImageOf(call.pools[d.id].token, call.before, call.launches)
       /\ \A t \in {"t1", "t2"} :
            ImageOf(t, d.tokenRows, call.launches) = ImageOf(t, call.before, call.launches)
       /\ d.circulating = card.circulating
       /\ IF card.preLaunch THEN d.sqrt <= 0 ELSE d.sqrt = card.sqrt
       /\ d.trades.meta.total = IF d.id = 1 THEN 1 ELSE 0

\* The board shows as many of the leaders as it may, no leader left out is nearer than
\* one shown, and the nearest comes first.  Once there are more pools than leaders, the
\* nearest pool of the list may be missing; until then both are led by the same
\* proximity.  Pools that tie for the last place of the leaders may have it or not.
BoardMatchesList ==
  fn = "board" =>
    LET up == call.nextUp
        shown == {up[i].id : i \in DOMAIN up}
        Pct(i) == Percent(Proximity(call.rows[i], call.t))
        Key(i) == BoardKey(call.rows[i])
        Others(i) == DOMAIN call.rows \ {i}
        leading == {i \in Eligible : Cardinality({j \in Others(i) : ~Greater(Key(i), Key(j))}) < call.leaders}
        maybe == {i \in Eligible : Cardinality({j \in Others(i) : Greater(Key(j), Key(i))}) < call.leaders}
    IN /\ shown \subseteq maybe /\ Len(up) = Cardinality(shown)
       /\ Min({call.top, Cardinality(leading)}) <= Len(up) /\ Len(up) <= call.top
       /\ \A i \in shown, j \in leading \ shown : Pct(i) >= Pct(j)
       /\ \A i, j \in DOMAIN up : i < j => up[i].percent >= up[j].percent
       /\ \A i \in DOMAIN up : up[i].percent = Pct(up[i].id) /\ up[i].percent <= 99
       /\ (Len(call.rows) <= call.leaders /\ Eligible # {}) =>
            up # << >> /\ up[1].percent = Pct(call.pages[1].id)

\* A graduation is offered at level far - 1, as the comments and the guide have it, for
\* every pool that is among the newest and that the limit does not cut off.  While the
\* price is strictly between two levels, the level that the other endpoints report is
\* already the later one; the offer comes only when the price has reached it.
GraduateSignal ==
  fn = "keepers" =>
    \A i \in DOMAIN call.pools :
      LET p == call.pools[i]
          Others(Ahead1(_)) == Cardinality({j \in DOMAIN call.pools \ {i} : Ahead1(call.pools[j].launch)})
          bonding == p.status = "bonding" /\ p.sqrt > 0
          level == LevelAtSqrtPrice(p.sqrt)
          between == level = p.far - 1 /\ p.sqrt # SqrtPriceAtLevel(level)
          offered == \E k \in DOMAIN call.answer : call.answer[k] = [kind |-> "graduate", id |-> p.id]
      IN /\ offered => /\ bonding /\ level >= p.far - 1
                       /\ Others(LAMBDA l : l > p.launch) < call.take
         /\ (bonding /\ level >= p.far - 1 /\ ~between
              /\ Others(LAMBDA l : l >= p.launch) < call.take
              /\ call.kind # "flush" /\ Len(call.answer) < call.limit) => offered

\* Depth lists the nearest liquidity still ahead of the price: what is not listed is
\* at or below the level or behind everything listed.
DepthAhead ==
  (fn = "depth" /\ call.answer.out # Error) =>
    LET d == call.answer
        starts == IF call.status = "bonding"
                  THEN {CurvePositionStart(-1, 5, call.positions, i) : i \in 0..call.positions - 1}
                  ELSE call.bands
        listed == ToSet(d.ahead)
    IN /\ Len(d.ahead) = Cardinality(listed) /\ Len(d.ahead) <= call.buckets
       /\ \A s \in listed : s \in starts /\ s > d.level
       /\ \A s \in starts \ listed :
            s <= d.level \/ (Len(d.ahead) = call.buckets /\ \A l \in listed : l < s)

\* A plan is accepted exactly when it selects at most the allowed number of entries,
\* all of them live payout plugins, whose takes fit into one whole.
PlanSound ==
  fn = "plan" =>
    (call.answer = "ok" <=>
       /\ Cardinality(call.plan) <= MaxPlugins
       /\ \A i \in call.plan : ~call.entries[i].suspended /\ call.entries[i].role = 1
       /\ ~(Takes(call.entries, call.plan) > 10))

-----------------------------------------------------------------------------
(* What the run checks, by endpoint.                                       *)

\* candles, walletPnl and maxBuy: the series joins and shows every trade of the buckets
\* it covers; the ledger balances and ends at zero with the position; what maxBuy
\* answers can be bought, and little more could be.
TradingSound ==
  /\ CandlesJoin /\ CandlesMatchTable
  /\ PnlConserves /\ PnlExhausted
  /\ MaxBuyFillable /\ MaxBuyTight

\* prepare: the opening level reaches the template's value and no level below does, the
\* positions share the whole supply of the curve, and a plan is accepted exactly when
\* the protocol would take it.
LaunchPlanSound == IsqrtFloor /\ OpeningReachesFdv /\ CurveIsCovered /\ PlanSound

\* Paged lists show each row once, cut lists their newest rows and the economics the
\* version in force; the ladder of milestones is complete, the board the nearest of
\* them, and a due graduation is on the job list.
ListsComplete ==
  /\ PagesPartition /\ ListingComplete /\ CutsKeepNewest /\ EconomicsInForce
  /\ LadderListed /\ BoardMatchesList /\ GraduateSignal

\* price, holders, depth, detail, and the dev-buy quote: endpoints that show one pool
\* agree with each other, and the quote with the liquidity of the curve it buys from.
PoolViewsAgree ==
  /\ HolderSourcesAgree /\ UntradedPoolOpens /\ DepthAhead /\ DetailMatchesCard
  /\ DevBuyDelivers
=============================================================================
