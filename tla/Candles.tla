------------------------------ MODULE Candles ------------------------------
(***************************************************************************)
(* GET /tokens/{ref}/candles (token-query.service.ts): minute rows of the  *)
(* indexer are fetched newest first up to a limit, put into buckets, and   *)
(* empty buckets are filled with the previous close.  A table is a         *)
(* function from the minutes that have a row to the row; prices are sqrt   *)
(* prices, so high is the largest sqrt price of the minute.  The buy and   *)
(* sell volumes and the swap count are summed alike; volume stands for     *)
(* each of them.                                                           *)
(***************************************************************************)
EXTENDS Integers, Sequences, FiniteSets, SequencesExt, FiniteSetsExt

NoClose == -1      \* prevClose = null

\* Mutant: as many rows are fetched as candles are asked for.
RawLimitRows(limit, bucketSize, rawCap) == Min({limit, rawCap})

\* rawLimit: enough rows for limit buckets, but never more than rawCap (20000).
RawLimit(limit, bucketSize, rawCap) ==
  Min({Max({limit * bucketSize, limit}), rawCap})

\* The SELECT: the newest rows in [from, to), at most n of them.
Fetch(table, from, to, n) ==
  LET inRange == {m \in DOMAIN table : m >= from /\ m < to}
      kept == {m \in inRange : Cardinality({o \in inRange : o > m}) < n}
  IN [m \in kept |-> table[m]]

BucketOf(m, bucketSize) == (m \div bucketSize) * bucketSize

\* The sum of the volumes of some minutes.
SumVolumes(volumes) == MapThenSumSet(LAMBDA m : volumes[m], DOMAIN volumes)

\* Mutant: a candle opens at its own first trade.
TradedUnchained(table, key, ms, prevClose) ==
  [t |-> key, open |-> table[Min(ms)].open, close |-> table[Max(ms)].close,
   high |-> Max({table[m].high : m \in ms}), low |-> Min({table[m].low : m \in ms}),
   volume |-> SumVolumes([m \in ms |-> table[m].volume])]

\* A bucket with rows, at prevClose: it opens where the market left off, and its
\* wick covers that opening.
TradedCandle(table, key, ms, prevClose) ==
  LET open == IF prevClose = NoClose THEN table[Min(ms)].open ELSE prevClose
  IN [t |-> key, open |-> open, close |-> table[Max(ms)].close,
      high |-> Max({table[m].high : m \in ms} \union {open}),
      low |-> Min({table[m].low : m \in ms} \union {open}),
      volume |-> SumVolumes([m \in ms |-> table[m].volume])]

FlatCandle(key, close) ==
  [t |-> key, open |-> close, close |-> close, high |-> close, low |-> close, volume |-> 0]

\* fillJoinedCandles: ascending, from the first bucket of the window to the last one
\* that traded.
FillJoinedCandles(table, bucketSize, limit) ==
  LET parsed == {m \in DOMAIN table : ~(table[m].open = 0 /\ table[m].close = 0)}
      In(key) == {m \in parsed : BucketOf(m, bucketSize) = key}
      keys == {BucketOf(m, bucketSize) : m \in parsed}
      first == Min(keys)
      last == Max(keys)
      startKey == Max({first, last - (Max({limit, 1}) - 1) * bucketSize})
      before == {k \in keys : k < startKey}
      seed == IF before = {} THEN NoClose ELSE table[Max(In(Max(before)))].close
      Key(i) == startKey + (i - 1) * bucketSize
      n == (last - startKey) \div bucketSize + 1
      candle[i \in 1..n] ==
        LET prev == IF i = 1 THEN seed ELSE candle[i - 1].close
        IN IF In(Key(i)) # {} THEN TradedCandle(table, Key(i), In(Key(i)), prev)
           ELSE FlatCandle(Key(i), prev)
  IN IF parsed = {} THEN <<>> ELSE [i \in 1..n |-> candle[i]]

\* candles: the answer is the series reversed.
GetCandles(table, from, to, bucketSize, limit, rawCap) ==
  Reverse(FillJoinedCandles(Fetch(table, from, to, RawLimit(limit, bucketSize, rawCap)),
                            bucketSize, limit))
=============================================================================
