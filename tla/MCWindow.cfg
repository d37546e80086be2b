SPECIFICATION WindowSpec
CONSTANTS
    MaxMiners = 3
    MaxInvokes = 2
INVARIANTS
    NoneWhenStopped
CHECK_DEADLOCK FALSE
