SPECIFICATION Spec
CONSTANTS
    Handlers = {h1, h2}
    Addresses = {home, away}
    maxFails = 2
    globalFailsPerMin = 2
    minute = 3
    failWait = 1
    throttleWait = 2
PROPERTIES EveryAttemptSlowed
