SPECIFICATION Spec
CONSTANTS
    Handlers = {h1, h2}
    Addresses = {home, away}
    maxFails = 2
    globalFailsPerMin = 2
    minute = 2
    failWait = 1
    throttleWait = 2
INVARIANTS TypeOK
PROPERTIES RefusedForItsOwn FailuresLock QuietIsFast GuessesPaced LoginsAnswered
