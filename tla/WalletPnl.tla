----------------------------- MODULE WalletPnl -----------------------------
(***************************************************************************)
(* walletPnl (trading.service.ts): the swaps of a wallet in one pool,      *)
(* oldest first, folded into an average-cost position, then the tokens the *)
(* wallet burned, then the valuation at the pool's last price.  Pools are  *)
(* folded independently of each other; the totals are sums over them.      *)
(***************************************************************************)
EXTENDS Integers, Sequences

\* BigInt division truncates towards zero; the divisor is positive here.
Trunc(a, b) == IF a >= 0 THEN a \div b ELSE -((-a) \div b)

Fresh == [tokensHeld |-> 0, costEth |-> 0, realizedEth |-> 0, trades |-> 0]

Buy(pos, eth, tokens) ==
  [pos EXCEPT !.tokensHeld = @ + tokens, !.costEth = @ + eth, !.trades = @ + 1]

\* Mutant: the cost of the tokens sold stays in the position.
SellKeepsCost(pos, eth, tokens) ==
  IF pos.tokensHeld > 0
  THEN [pos EXCEPT !.realizedEth = @ + eth - Trunc(pos.costEth * tokens, pos.tokensHeld),
                   !.tokensHeld = @ - tokens, !.trades = @ + 1]
  ELSE [pos EXCEPT !.realizedEth = @ + eth, !.trades = @ + 1]

\* A sale realizes its share of the cost; one without tracked tokens is all gain.
Sell(pos, eth, tokens) ==
  IF pos.tokensHeld > 0
  THEN LET costSold == Trunc(pos.costEth * tokens, pos.tokensHeld)
       IN [pos EXCEPT !.realizedEth = @ + eth - costSold, !.costEth = @ - costSold,
                      !.tokensHeld = @ - tokens, !.trades = @ + 1]
  ELSE [pos EXCEPT !.realizedEth = @ + eth, !.trades = @ + 1]

Swap(pos, row) ==
  IF row.isBuy THEN Buy(pos, row.eth, row.tokens) ELSE Sell(pos, row.eth, row.tokens)

\* Mutant: a burn removes the tokens and leaves their cost.
BurnKeepsCost(pos, burned) ==
  [pos EXCEPT !.tokensHeld = @ - IF burned > @ THEN @ ELSE burned]

\* Burned tokens are debited at the average cost, at most what is held.
Burn(pos, burned) ==
  LET debited == IF burned > pos.tokensHeld THEN pos.tokensHeld ELSE burned
      costBurned == IF pos.tokensHeld > 0 THEN Trunc(pos.costEth * debited, pos.tokensHeld) ELSE 0
  IN [pos EXCEPT !.costEth = @ - costBurned, !.realizedEth = @ - costBurned,
                 !.tokensHeld = @ - debited]

\* The position after the swaps and the burns.
Position(rows, burned) ==
  LET after[n \in 0..Len(rows)] == IF n = 0 THEN Fresh ELSE Swap(after[n - 1], rows[n])
  IN Burn(after[Len(rows)], burned)

\* The value of the tokens held: tokens * 2^192 / sqrt^2, with q for 2^192.
Value(pos, sqrt, q) ==
  IF sqrt > 0 /\ pos.tokensHeld > 0 THEN (pos.tokensHeld * q) \div (sqrt * sqrt) ELSE 0
=============================================================================
