CONSTANTS
    p1 = p1
    p2 = p2
    Payment = {p1, p2}
    MintAccounts <- MCMintAccounts
    Balances = {10, 150}
    Ui = 1
    MaxBanks = 3
SPECIFICATION Spec
SYMMETRY Symmetry
INVARIANTS TypeOK LandedAsApproved RefusedForCause DelegateNeverOmitted
CHECK_DEADLOCK FALSE
