------------------------------- MODULE Quotes -------------------------------
(***************************************************************************)
(* Reads of trading.service.ts that compute: the search for the largest    *)
(* buy, the price with its source, the curve's progress and the holder     *)
(* snapshot with its two sources.                                          *)
(***************************************************************************)
EXTENDS Integers, Sequences, FiniteSets, SequencesExt, FiniteSetsExt

(* maxBuy.  The quoter fills amounts up to cap; probe n fails for another  *)
(* reason when n \in flaky.  start, grow, steps and eps are 10^18, 6, 12   *)
(* and 10^14 in the code.                                                  *)

Quotable(amount, cap, n, flaky) == amount <= cap /\ n \notin flaky

\* The first probe, then up to grow probes that multiply by four: the upper end of
\* the search and the number of probes made.
Growth(start, grow, cap, flaky) ==
  LET hi[i \in 0..grow] == IF i = 0 THEN start ELSE 4 * hi[i - 1]
      Stops(i) == i = grow \/ ~Quotable(hi[i], cap, i + 2, flaky)
      stop == Min({i \in 0..grow : Stops(i)})
  IN IF ~Quotable(start, cap, 1, flaky) THEN [hi |-> start, probes |-> 1]
     ELSE [hi |-> hi[stop], probes |-> Min({stop + 2, grow + 1})]

\* Mutant: an amount that cannot be filled moves the lower end.
HalvingSwapped(lo, hi, mid, fills) ==
  IF fills THEN [lo |-> lo, hi |-> mid] ELSE [lo |-> mid, hi |-> hi]

\* Mutant: the middle becomes the lower end without being probed.
HalvingUpOnly(lo, hi, mid, fills) == [lo |-> mid, hi |-> hi]

Halving(lo, hi, mid, fills) ==
  IF fills THEN [lo |-> mid, hi |-> hi] ELSE [lo |-> lo, hi |-> mid]

MaxBuy(start, grow, steps, eps, cap, flaky) ==
  LET g == Growth(start, grow, cap, flaky)
      range[i \in 0..steps] ==
        IF i = 0 THEN [lo |-> 0, hi |-> g.hi]
        ELSE LET r == range[i - 1]
                 mid == (r.lo + r.hi) \div 2
             IN IF r.hi - r.lo <= eps THEN r
                ELSE Halving(r.lo, r.hi, mid, Quotable(mid, cap, g.probes + i, flaky))
  IN range[steps].lo

(* price.  stats and slot0 are sqrt prices, -1 for no row and for a failed *)
(* chain read; a pool that never traded has sqrt price 0 in both.          *)

PriceOf(stats, slot0, opening) ==
  LET sqrt == IF slot0 # -1 THEN slot0 ELSE IF stats = -1 THEN 0 ELSE stats
      source == IF slot0 # -1 THEN "live" ELSE IF stats # -1 THEN "indexer" ELSE "opening"
  IN IF sqrt = 0 THEN [sqrt |-> opening, source |-> "opening"] ELSE [sqrt |-> sqrt, source |-> source]

\* curveProgress in thousandths.
CurveProgress(status, opening, far, level) ==
  LET span == far - opening
      covered == Min({Max({level - opening, 0}), span})
  IN IF status = "graduated" THEN 1000 ELSE IF span <= 0 THEN 0 ELSE (covered * 1000) \div span

(* holders.  A transfer is [from, to, value]; Zero is the zero address.    *)

Zero == "zero"

\* The fold over the Transfer logs.
Balances(logs, accounts) ==
  FoldLeft(LAMBDA bal, log :
             [a \in accounts |->
                bal[a] - (IF a = log.from THEN log.value ELSE 0)
                       + (IF a = log.to THEN log.value ELSE 0)],
           [a \in accounts |-> 0], logs)

\* The largest n of a set of accounts, in the order of their balances.
Top(bal, holders, n) ==
  LET sorted == SortSeq(SetToSeq(holders), LAMBDA a, b : bal[a] > bal[b])
  IN SubSeq(sorted, 1, Min({n, Len(sorted)}))

Answer(bal, holders, top, total) ==
  [count |-> Cardinality(holders),
   top |-> [i \in DOMAIN top |->
              [balance |-> bal[top[i]], shareBps |-> IF total > 0 THEN (bal[top[i]] * 10000) \div total ELSE 0]]]

SumOf(bal, S) == MapThenSumSet(LAMBDA a : bal[a], S)

\* Mutant: accounts that sold everything are counted.
HoldersFromLogsAll(logs, accounts, n) ==
  LET bal == Balances(logs, accounts)
  IN Answer(bal, accounts, Top(bal, accounts, n), SumOf(bal, accounts))

\* source 'rpc': the share is of all balances.
HoldersFromLogs(logs, accounts, n) ==
  LET bal == Balances(logs, accounts)
      holders == {a \in accounts : bal[a] > 0}
  IN Answer(bal, holders, Top(bal, holders, n), SumOf(bal, holders))

\* source 'indexer': the share is of the balances listed.
HoldersFromTable(table, n) ==
  LET holders == {a \in DOMAIN table : table[a] > 0}
      top == Top(table, holders, n)
  IN Answer(table, holders, top, SumOf(table, ToSet(top)))
=============================================================================
