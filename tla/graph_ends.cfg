SPECIFICATION FairSpec
CONSTANTS
    Sources = {a}
    cpus = 1
    MaxFinds = 2
PROPERTIES RunEnds
CHECK_DEADLOCK FALSE
