\* An on-path attacker answers the plain-HTTP directory fetches and may
\* make them fail; nothing rotates.
CONSTANTS
    Auths = {a1, a2, a3}
    Threshold = 2
    Relays = {r1}
    ConsLife = 1
    CertLife = 4
    MaxTime = 2
    MaxEpoch = 0
    NetFails = TRUE
    Mitm = TRUE
SPECIFICATION Spec
INVARIANT OnlyAuthenticConsensus
