\* Intro circuits that break after forwarding, intro points that ack with
\* under 2 bytes, and a service that may drop introductions.
CONSTANTS
    NHSDirs = 2
    NIntro = 3
    LossyIntro = TRUE
    ServiceDrops = TRUE
    Forger = FALSE
    ShortAcks = TRUE
SPECIFICATION Spec
INVARIANT TypeOK IntroducesWithPublishedKeys
\* ConnectOnionService returns: its final states have no successor.
CHECK_DEADLOCK FALSE
