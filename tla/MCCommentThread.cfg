CONSTANTS
    Wallets = {w1, w2}
    Tokens = {t1, t2}
    Comments = {c1, c2}
    Keys = {k1}
    Texts = {x1}
    Requests = {r1, r2}
    MaxDepth = 3
    MaxGen = 4
    None = None
SPECIFICATION Spec
SYMMETRY ThreadSymmetry
INVARIANTS CountsMatchRows CreatesOnce
PROPERTIES ChangeAdvancesGeneration TombstonesFrozen
