\* Two plugins, 5-bit words, period lengths on both sides of the signed range.
SPECIFICATION Spec
CONSTANTS
    p1 = p1
    p2 = p2
    Half = 16
    Plugin = {p1, p2}
    Starts = {1, 3}
    Lengths = {1, 4, 20}
    Amounts = {2}
    Expiries = {0, 8}
    Horizon = 15
    NoAsk = NoAsk
INVARIANTS TypeOK AgreesWithProgram StaleNeverLow OutstandingHonoured
CHECK_DEADLOCK FALSE
