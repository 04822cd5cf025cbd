CONSTANTS
    Wallets = {w1}
    Tokens = {t1}
    Comments = {c1, c2, c3, c4}
    Keys = {k1, k2, k3, k4}
    Texts = {x1}
    Requests = {r1}
    MaxDepth = 2
    MaxGen = 4
    None = None
SPECIFICATION Spec
SYMMETRY IdSymmetry
INVARIANT DepthBounded
