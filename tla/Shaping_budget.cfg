\* Values around every preset's limits, budgets from none to ample.
SPECIFICATION FitSpec
CONSTANTS
    Values <- MCValues
    Budgets = {0, 2, 11, 40, 200, 1000}
    Shape <- ShapeJson
    StandsFor <- Abridges
    TextBytes <- TextLen
    NoValue = NoValue
INVARIANTS Abridged GentlestThatFits
CHECK_DEADLOCK FALSE
