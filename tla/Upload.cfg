CONSTANTS
    Kinds = {"plain", "altered", "refused", "unfinished"}
    MaxLines = 2
    MaxTries = 2
    MaxRestarts = 1
SPECIFICATION FairSpec
INVARIANTS UTypeOK InStep OneAttempt Intact
PROPERTIES AttemptEnds
CHECK_DEADLOCK FALSE
