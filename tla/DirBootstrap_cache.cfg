\* Restarts of the bootstrap over 4 hours with signing-key and onion-key
\* rotations and fetches that may fail.
CONSTANTS
    Auths = {a1, a2, a3}
    Threshold = 2
    Relays = {r1, r2}
    ConsLife = 1
    CertLife = 4
    MaxTime = 5
    MaxEpoch = 1
    NetFails = TRUE
    Mitm = FALSE
SPECIFICATION Spec
INVARIANT TypeOK KeysMatchConsensus
