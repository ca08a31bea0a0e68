\* Two keys, of which a request names one or two, the same one twice also.
CONSTANTS
    k1 = k1
    k2 = k2
    Key = {k1, k2}
    Version = {1, 2}
    Request <- MCRequest
    MaxBanks = 2
SPECIFICATION Spec
INVARIANTS TypeOK OkIsOneBank ErrorHasCause
CHECK_DEADLOCK FALSE
