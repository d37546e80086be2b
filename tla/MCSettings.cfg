SPECIFICATION MCSettingsSpec
CONSTANTS
    MaxVersion = 4
    MaxCrashes = 2
INVARIANTS
    ReadBeforeReplaced
CHECK_DEADLOCK FALSE
