CONSTANTS
    L = 5
    H <- MCH
    Drawn <- MCDrawn
    Foreign <- MCForeign
    Typed <- MCTyped
    Authority = Authority
    NoSignature = NoSignature
    MaxPayments = 2
    MaxForeign = 2
SPECIFICATION Spec
INVARIANTS TypeOK NothingMissed Spendable SignedByAddressOnly
CHECK_DEADLOCK FALSE
