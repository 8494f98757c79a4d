\* The authorities are always reachable; two of three rotate their signing
\* keys while cached key certificates are still unexpired.
CONSTANTS
    Auths = {a1, a2, a3}
    Threshold = 2
    Relays = {r1}
    ConsLife = 1
    CertLife = 4
    MaxTime = 5
    MaxEpoch = 1
    NetFails = FALSE
    Mitm = FALSE
SPECIFICATION Spec
INVARIANT NoSpuriousSignatureFailure
