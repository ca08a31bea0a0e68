CONSTANTS
    p1 = p1
    Payment = {p1}
    MintAccounts <- MCNewerMintAccounts
    Balances = {10, 150}
    Ui = 1
    MaxBanks = 2
SPECIFICATION Spec
INVARIANTS DelegateNeverOmitted
CHECK_DEADLOCK FALSE
