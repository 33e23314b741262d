\* Two emitters race Run on two groups.
CONSTANTS
    Keys = {k1, k2}
    Callers = {c1, c2}
    Runner = runner
    Window = 1
    MaxOffers = 5
    MaxNow = 6
SPECIFICATION FairSpec
PROPERTIES
    RefinesReports
    EveryMemberReported
CHECK_DEADLOCK FALSE
