----------------------------- MODULE CurveMath -----------------------------
(***************************************************************************)
(* protocol-math.ts and tick-math.ts: the geometry of the bonding curve    *)
(* and of the milestone ladder, and the quote of a dev buy.  The tick      *)
(* table, 1.0001^(tick/2) in Q64.96, is a parameter: the functions use     *)
(* only that it increases.  Q stands for 2^96, Pips for 10^6.  Levels are  *)
(* negated ticks and rise with the token's price, so sqrt prices fall.     *)
(***************************************************************************)
EXTENDS Integers, Sequences, FiniteSets, SequencesExt, FiniteSetsExt

CONSTANTS
  SqrtTable,     \* sqrt price at each tick
  Q, Pips,
  Uint128Max     \* the clamp of a position's liquidity

MaxTick == Max(DOMAIN SqrtTable)
MinTick == Min(DOMAIN SqrtTable)

ASSUME CurveAssumption ==
  /\ MaxTick \in Nat /\ SqrtTable \in [-MaxTick..MaxTick -> Nat \ {0}]
  /\ \A t \in -MaxTick..MaxTick - 1 : SqrtTable[t] < SqrtTable[t + 1]
  /\ Q \in Nat \ {0} /\ Pips \in Nat \ {0}

Error == "error"          \* the function throws
NoLevel == MaxTick + 1    \* it throws instead of answering a level

-----------------------------------------------------------------------------
(* Orientation and rounding.                                               *)

ToTick(level) == -level
ToLevel(tick) == -tick
GetSqrtPriceAtTick(tick) == SqrtTable[tick]

\* Mutant: the price of a tick does not count as reached.
GetTickAtSqrtPriceStrict(p) == Max({MinTick} \union {t \in DOMAIN SqrtTable : SqrtTable[t] < p})

\* The greatest tick whose sqrt price is at most p: what the logarithm of the code,
\* corrected with tickLow and tickHi, returns.
GetTickAtSqrtPrice(p) == Max({t \in DOMAIN SqrtTable : SqrtTable[t] <= p})

SqrtPriceAtLevel(level) == GetSqrtPriceAtTick(ToTick(level))
LevelAtSqrtPrice(p) == ToLevel(GetTickAtSqrtPrice(p))

LevelRangeToTicks(lower, upper) == [lower |-> ToTick(upper), upper |-> ToTick(lower)]

MulDiv(a, b, d) == (a * b) \div d
DivRoundingUp(a, d) == (a \div d) + IF a % d # 0 THEN 1 ELSE 0
MulDivRoundingUp(a, b, d) == DivRoundingUp(a * b, d)

\* 1n << n.
Shl[n \in Nat] == IF n = 0 THEN 1 ELSE 2 * Shl[n - 1]

\* The number of binary digits of x > 0.
Bits(x) == CHOOSE n \in 1..x : Shl[n - 1] <= x /\ x < Shl[n]

\* Mutant: Newton's iteration starts below the root.
FirstGuessLow(x) == Shl[Bits(x) \div 4]

FirstGuess(x) == Shl[(Bits(x) + 1) \div 2]

\* isqrt: Newton's iteration from above, stopped when it no longer falls.
Isqrt(x) ==
  LET guess[i \in Nat] ==
        IF i = 0 THEN FirstGuess(x)
        ELSE LET g == guess[i - 1] IN (g + x \div g) \div 2
      stop == CHOOSE i \in 0..FirstGuess(x) : /\ guess[i + 1] >= guess[i]
                                              /\ \A j \in 0..i - 1 : guess[j + 1] < guess[j]
  IN IF x < 2 THEN x ELSE guess[stop]

\* FDV in wei: supply * 2^192 / sqrt^2, rounded down.
FdvEthWei(supply, sqrt) == (supply * Q * Q) \div (sqrt * sqrt)

\* Mutant: the price of a token is inverted.
OpeningPriceInverted(supply, fdv) == Isqrt(MulDiv(fdv, Q * Q, supply))

OpeningPrice(supply, fdv) == Isqrt(MulDiv(supply, Q * Q, fdv))

\* openingLevel, farLevel: NoLevel where the code throws.
OpeningLevel(supply, fdv) ==
  LET p == OpeningPrice(supply, fdv)
  IN IF p < SqrtTable[MinTick] \/ p >= SqrtTable[MaxTick] THEN NoLevel ELSE LevelAtSqrtPrice(p)
FarLevel(opening, span) == IF opening + span > MaxTick THEN NoLevel ELSE opening + span

-----------------------------------------------------------------------------
(* The bonding curve: position i spans [PositionStart(i), far].            *)

CurvePositionStart(opening, far, positions, i) == opening + ((far - opening) * i) \div positions

\* Mutant: every position gets the same share and the remainder is lost.
CurvePositionAmountEqual(supply, positions, i) == supply \div positions

CurvePositionAmount(supply, positions, i) ==
  LET each == supply \div positions
  IN IF i + 1 = positions THEN supply - each * (positions - 1) ELSE each

CurvePositionLiquidity(opening, far, positions, supply, i) ==
  LET start == CurvePositionStart(opening, far, positions, i)
      ticks == LevelRangeToTicks(start, far)
      width == GetSqrtPriceAtTick(ticks.upper) - GetSqrtPriceAtTick(ticks.lower)
  IN IF start >= far \/ width = 0 THEN 0
     ELSE Min({MulDiv(CurvePositionAmount(supply, positions, i), Q, width), Uint128Max})

\* getAmount0Delta and getAmount1Delta for a > b: ETH and tokens between two prices.
Amount0DeltaUp(a, b, liquidity) == DivRoundingUp(MulDivRoundingUp(liquidity * Q, a - b, a), b)
Amount1Delta(a, b, liquidity) == MulDiv(liquidity, a - b, Q)

\* Mutant: the price moves by the quotient rounded down.
NextSqrtFromAmount1OutDown(sqrt, liquidity, out) == sqrt - (out * Q) \div liquidity

NextSqrtFromAmount1Out(sqrt, liquidity, out) == sqrt - DivRoundingUp(out * Q, liquidity)

WithFee(amountIn, feePips) == amountIn + MulDivRoundingUp(amountIn, feePips, Pips - feePips)

\* devBuyQuote: the walk over the position starts.  seg is the state of the loop:
\* the price, the tokens still to buy, the cost, the active liquidity and the next
\* boundary; it ends in a quote or an error.
DevBuyQuote(tokensOut, opening, far, positions, supply, feePips) ==
  LET Liquidity(i) == CurvePositionLiquidity(opening, far, positions, supply, i)
      StartLevel(i) == CurvePositionStart(opening, far, positions, i)
      bounds == {i \in 1..positions - 1 : StartLevel(i) < far}
      Skip(from, sqrt) ==
        {i \in bounds : i >= from /\ SqrtPriceAtLevel(StartLevel(i)) < sqrt}
      begin == [sqrt |-> SqrtPriceAtLevel(opening), left |-> tokensOut, cost |-> 0,
                active |-> Liquidity(0), next |-> 1, out |-> "none"]
      Step(seg) ==
        LET ahead == Skip(seg.next, seg.sqrt)
            target == SqrtPriceAtLevel(IF ahead = {} THEN far ELSE StartLevel(Min(ahead)))
            toTarget == Amount1Delta(seg.sqrt, target, seg.active)
            Pay(end) == seg.cost + WithFee(Amount0DeltaUp(seg.sqrt, end, seg.active), feePips)
            Done(end) == [seg EXCEPT !.sqrt = end, !.cost = Pay(end), !.left = 0, !.out = "quote"]
        IN IF seg.left < toTarget
           THEN Done(NextSqrtFromAmount1Out(seg.sqrt, seg.active, seg.left))
           ELSE IF seg.left = toTarget THEN Done(target)
           ELSE IF ahead = {} THEN [seg EXCEPT !.out = Error]
           ELSE [seg EXCEPT !.sqrt = target, !.left = @ - toTarget, !.cost = Pay(target),
                            !.active = @ + Liquidity(Min(ahead)), !.next = Min(ahead) + 1]
      seg[n \in 0..positions + 1] ==
        IF n = 0 THEN begin ELSE IF seg[n - 1].out # "none" THEN seg[n - 1] ELSE Step(seg[n - 1])
      end == seg[positions + 1]
  IN IF tokensOut = 0 THEN [cost |-> 0, endSqrt |-> begin.sqrt, endLevel |-> opening, out |-> "quote"]
     ELSE IF begin.active = 0 THEN [cost |-> 0, endSqrt |-> begin.sqrt, endLevel |-> opening, out |-> Error]
     ELSE [cost |-> end.cost, endSqrt |-> end.sqrt, endLevel |-> LevelAtSqrtPrice(end.sqrt), out |-> end.out]

-----------------------------------------------------------------------------
(* The milestone ladder.                                                   *)

\* Mutant: the decay of one step too many is subtracted.
BandOffsetShifted(m, first, decay, spacing) ==
  LET k == (first - spacing) \div decay
  IN IF m <= k + 1 THEN first * m - (decay * m * (m + 1)) \div 2
     ELSE first * (k + 1) - (decay * k * (k + 1)) \div 2 + (m - k - 1) * spacing

\* The closed form of the decaying schedule.
BandOffset(m, first, decay, spacing) ==
  LET k == (first - spacing) \div decay
  IN IF m <= k + 1 THEN first * m - (decay * m * (m - 1)) \div 2
     ELSE first * (k + 1) - (decay * k * (k + 1)) \div 2 + (m - k - 1) * spacing

\* bandLevels; a band beyond the last level does not exist.
BandLevels(grad, first, decay, spacing, width, i, maxLevel) ==
  LET lower == grad + BandOffset(i + 1, first, decay, spacing)
  IN [lower |-> lower, upper |-> lower + width, exists |-> lower + width <= maxLevel]

BandState(i, deployed, skipped) ==
  IF i \in DOMAIN deployed
  THEN IF deployed[i].status = "completed" THEN "HARVESTED" ELSE "DEPLOYED"
  ELSE IF i \in skipped THEN "SKIPPED" ELSE "PENDING"

\* milestones: the rows up to the first band that does not exist; deployed maps band
\* indices to rows of the table, whose levels take precedence, and skipped is a set.
Milestones(grad, t, deployed, skipped, maxLevel) ==
  LET Band(i) == BandLevels(grad, t.first, t.decay, t.spacing, t.width, i, maxLevel)
      Levels(i) == IF i \in DOMAIN deployed THEN deployed[i] ELSE Band(i)
      upper == t.core + t.extension
      n == Min({i \in 0..upper : i = upper \/ ~Band(i).exists})
  IN [j \in 1..n |->
        [index |-> j - 1, lower |-> Levels(j - 1).lower, upper |-> Levels(j - 1).upper,
         kind |-> IF j - 1 < t.core THEN "CORE" ELSE "EXTENSION",
         state |-> BandState(j - 1, deployed, skipped)]]
=============================================================================
