\* Up to twice as many arrivals between two good polls as a page holds.
CONSTANTS
    PageLimit = 2
    Burst = 4
    MaxSignatures = 7
SPECIFICATION PollSpec
INVARIANT NoGapNoRepeat
PROPERTY ImplementsFeed
CHECK_DEADLOCK FALSE
