SPECIFICATION Spec
CONSTANTS
    alice = alice
    bob = bob
    eve = eve
    Initiators <- MCInitiators
    Known <- MCKnown
    ClockLead <- MCClockLead
    INDEX_MOD = 2
    MAX_TIME = 2
    MAX_EPHEMERALS = 4
    MAX_CORRUPTIONS = 1
CHECK_DEADLOCK FALSE
INVARIANTS
    Mac1Checked
