\* An attacker who knows the onion address answers a plain-HTTP descriptor fetch.
CONSTANTS
    NHSDirs = 2
    NIntro = 3
    LossyIntro = FALSE
    ServiceDrops = FALSE
    Forger = TRUE
    ShortAcks = FALSE
SPECIFICATION Spec
INVARIANT ConnectedToService
\* ConnectOnionService returns: its final states have no successor.
CHECK_DEADLOCK FALSE
