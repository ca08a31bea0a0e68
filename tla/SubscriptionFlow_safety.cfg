CONSTANTS
    user = user
    mint = mint
    merchant = merchant
    p1 = p1
    p2 = p2
    User = {user}
    Mint = {mint}
    Delegatee = {merchant}
    Nonces = {1, 2}
    Plugin = {p1, p2}
    Jobs <- MCJobs
    MaxBanks = 5
SPECIFICATION Spec
SYMMETRY Symmetry
INVARIANTS TypeOK RefusedForCause MatchingPairWasLive StaleIsFinal
CHECK_DEADLOCK FALSE
