SPECIFICATION Spec
CONSTANTS
    MaxIssued = 5
    MaxEdit = 1
INVARIANTS TypeOK LoggedOut SecretsKept
PROPERTIES TornRefused
CHECK_DEADLOCK FALSE
CONSTANTS
    Absent = absent
    Torn = torn
    NoServer = none
