SPECIFICATION FairSpec
CONSTANTS
    Callers = {c1, c2, c3}
    NoCaller = none
INVARIANTS TypeOK OneFlight FailuresSpaced
PROPERTIES BestAnswer CallsReturn
CHECK_DEADLOCK FALSE
