---------------------------- MODULE ProtocolViews ----------------------------
(***************************************************************************)
(* The protocol-wide reads (protocol.service.ts) and the lists of a wallet *)
(* (profiles.service.ts) as functions of the rows they read.  Lists are    *)
(* queried like those of Listings; a list without pages shows its first    *)
(* rows.  What is NULL, and a call to the chain that fails, is -1.          *)
(***************************************************************************)
EXTENDS Listings

\* ORDER BY key DESC LIMIT most.
Newer(rows, Key(_), tie, most) == Query(Keyed(rows, Key), tie, 0, most)

\* Mutant: the newest row is current.
CurrentNewest(rows, state) == rows[1]

\* The version that protocol_state names, else the newest; rows are newest first.
Current(rows, state) ==
  LET active == SelectSeq(rows, LAMBDA r : state = -1 \/ r.version = state)
  IN IF active # << >> THEN active[1] ELSE rows[1]

\* economics: the chain is asked only where nothing is recorded.
Economics(configs, state, hasChain, chain, tie, most) ==
  LET rows == Newer(configs, LAMBDA r : <<r.version>>, tie, most)
  IN IF rows # << >> THEN [out |-> "indexer", version |-> Current(rows, state).version, history |-> rows]
     ELSE IF hasChain /\ chain # -1 THEN [out |-> "live", version |-> chain, history |-> << >>]
     ELSE [out |-> "ECONOMICS_NOT_AVAILABLE"]

\* plugins: all rows by index, with a meta of one page of size.
Plugins(entries, tie, size) ==
  [data |-> Newer(entries, LAMBDA e : <<-e.index>>, tie, Len(entries)),
   meta |-> PageMeta(1, size, Len(entries))]

\* governance: the latest operations, all or of one status.
Governance(ops, status, tie, most) ==
  Newer(SelectSeq(ops, LAMBDA o : status # "" => o.status = status), LAMBDA o : <<o.time>>, tie, most)

\* revenue: newest facts first, live is null unless the chain answers both calls.
Revenue(accruals, claims, hasChain, claimable, backed, tie, most, mostClaims) ==
  [accruals |-> Newer(accruals, LAMBDA e : <<e.block>>, tie, most),
   claims |-> Newer(SelectSeq(claims, LAMBDA e : e.type = "protocol"), LAMBDA e : <<e.block>>, tie, mostClaims),
   live |-> IF hasChain /\ claimable # -1 /\ backed # -1 THEN <<claimable, backed>> ELSE << >>]

\* stats: the latest days; the leaderboard holds the pools of every chain.
Stats(days, pools, tie, mostDays, top) ==
  [daily |-> Newer(days, LAMBDA d : <<d.day>>, tie, mostDays),
   leaderboard |-> Newer(pools, LAMBDA p : <<p.volume>>, tie, top)]

\* The featured tokens: the same view for one chain, where the indexer is not behind.
FeaturedTokens(pools, chain, fresh, tie, top) ==
  IF fresh THEN Newer(SelectSeq(pools, LAMBDA p : p.chain = chain), LAMBDA p : <<p.volume>>, tie, top)
  ELSE << >>

RevenueKinds == {"creator", "protocol", "claims", "tips", "pluginPayouts", "pots"}

\* revenueHistory: facts of one kind, of one pool where it is named; the holder that the
\* query may name is not used.
RevenueHistory(facts, kind, pool, tie, limit, most) ==
  IF kind \notin RevenueKinds THEN [out |-> "INVALID_KIND"]
  ELSE [out |-> "ok",
        data |-> Newer(SelectSeq(facts, LAMBDA e : e.kind = kind /\ (pool # 0 => e.pool = pool)),
                       Newest, tie, Clamp(limit, most))]

-----------------------------------------------------------------------------
(* Lists of a wallet.  A pool has a creator, and its token row a claimed   *)
(* creator and a launch record with the creator's wallet, "" for none.     *)

CreatedBy(pool, wallet) == wallet \in {pool.creator, pool.claimed, pool.launchedBy}

CreatedTokens(pools, wallet, sort, tie, page, limit, most) ==
  PageOf(Keyed(SelectSeq(pools, LAMBDA p : CreatedBy(p, wallet)),
               LAMBDA p : IF sort = "oldest" THEN <<-p.launch>> ELSE <<p.launch>>),
         tie, Max({page, 1}), Clamp(limit, most))

\* revenueStreams: the pools whose revenue NFT the wallet holds and whose token is
\* indexed; 0 where there are no stats.
RevenueStreams(pools, wallet, tokens, tie) ==
  LET rows == SelectSeq(pools, LAMBDA p : p.owner = wallet /\ p.token \in tokens)
      sorted == Newer(rows, LAMBDA p : <<p.launch>>, tie, Len(rows))
  IN [i \in DOMAIN sorted |-> [id |-> sorted[i].id, revenue |-> Max({sorted[i].revenue, 0})]]
=============================================================================
