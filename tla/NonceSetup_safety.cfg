\* Two runs, funds for one account, a hash that is valid for one more block.
SPECIFICATION Spec
CONSTANTS
    r1 = r1
    r2 = r2
    Payer = Payer
    Run = {r1, r2}
    MaxAge = 1
    Funds = 1
    NoTx = NoTx
    NoSignature = NoSignature
    MaxHeight = 5
INVARIANTS TypeOK RefusedForCause SpentIsReported
PROPERTY OutcomeIsFinal
CHECK_DEADLOCK FALSE
