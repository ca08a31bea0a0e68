\* Three threads share a client; more calls than queued responses.
SPECIFICATION FairSpec
CONSTANTS
    t1 = t1
    t2 = t2
    t3 = t3
    Thread = {t1, t2, t3}
    Queued <- Responses
    IdSpace = 4
    MaxCalls = 4
INVARIANTS IdsUnique AnswersConserved ErrorNeverOk
PROPERTY CallsReturn
CHECK_DEADLOCK FALSE
