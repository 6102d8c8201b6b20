CONSTANTS
    SubBucketBits = 1
    MaxOctave = 3
    Values <- MCValues
    Infinity = 101
    MaxSamples = 4
    MaxCount = 1
    Clients = {c1}
    Token = TRUE
    HeadSize = 3
    MaxConnects = 2
SPECIFICATION MCSpec
INVARIANTS MCTypeOK QuantileError SummaryIsOrdered AnsweredOnce PageNeedsToken
PROPERTIES RequestsEnd
CHECK_DEADLOCK FALSE
