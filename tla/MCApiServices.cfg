CONSTANTS
    Signers = {w1, w2}
    Nonces = {n1, n2}
    Verifies = {v1, v2}
    NoOne = NoOne
    Tokens = {t1}
    Resolves = {r1, r2, r3}
    NoRow = NoRow
    Wallets = {w1, w2}
    Readers = {q1}
    Writers = {u1}
    MaxWrites = 2
    NoEntry = NoEntry
    QuoteKeys = {k1}
    StateKeys = {k2}
    Asks = {a1, a2, a3}
    Ttl = 1
    CallTicks = 1
    MaxNow = 4
    NoValue = NoValue
SPECIFICATION Spec
INVARIANTS NoncesSpent ResolversAgree StaleEntriesExplained ReadsFresh QuotesShared
PROPERTIES CachesCatchUp
CHECK_DEADLOCK FALSE
