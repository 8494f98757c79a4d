\* A service that answers every introduction; an intro circuit may break after forwarding.
CONSTANTS
    NHSDirs = 2
    NIntro = 3
    LossyIntro = TRUE
    ServiceDrops = FALSE
    Forger = FALSE
    ShortAcks = FALSE
SPECIFICATION Spec
PROPERTY Terminates
\* ConnectOnionService returns: its final states have no successor.
CHECK_DEADLOCK FALSE
