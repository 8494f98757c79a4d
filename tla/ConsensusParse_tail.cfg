\* An on-path attacker replays documents the authorities signed and
\* appends up to two lines after their signatures.
CONSTANTS
    Auths = {a1, a2, a3}
    Threshold = 2
    Nicks = {n1}
    Evil = evil
    ConsLife = 1
    MaxTime = 3
    MaxTail = 2
    Mitm = TRUE
SPECIFICATION Spec
INVARIANT UsesSignedContent
\* main stops here: it exits, or goes on to build circuits.
CHECK_DEADLOCK FALSE
