SPECIFICATION RateSpec
CONSTANTS
    rate = 2
    TokenTime = 2
    MaxTime = 12
CHECK_DEADLOCK FALSE
INVARIANT AverageRate
