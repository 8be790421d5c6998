SPECIFICATION Spec
CONSTANTS
    Calls = {c1, c2}
    Requests = {r1, r2}
    Providers = {p1, p2, p3}
    Answers = {a1, a2}
    Thresholds = {2}
    None = None
    Tokens <- MCTokens
    MaxTokens = 3
    NoWeights = empty
SYMMETRY VerifierSymmetry
INVARIANTS
    QuorumWins
    FailedFlagJustified
    SingleAuditExact
    HashSeparates
CHECK_DEADLOCK FALSE
