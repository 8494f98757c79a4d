\* One more EXTEND than the RELAY_EARLY budget allows.
CONSTANTS
    MaxRelayEarly = 2
    MaxHops = 4
    MaxCells = 4
SPECIFICATION Spec
INVARIANT TypeOK
INVARIANT RelayEarlyBudget
INVARIANT BackwardInSync
INVARIANT ForwardNotBehind
CHECK_DEADLOCK FALSE
