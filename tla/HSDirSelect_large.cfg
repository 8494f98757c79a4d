\* Rings of 1 to 6 HSDirs, any service index for each of the 2 replicas.
\* Rings of at most 3 reach the replica loop that never returns (README,
\* "Not a run of its own"), so the run checks safety only.
CONSTANTS
    NReplicas = 2
    Spread = 3
    RingSizes = {1, 2, 3, 4, 5, 6}
    VAs = {35, 36, 47, 48}
SPECIFICATION Spec
INVARIANT TypeOK
INVARIANT SelectsResponsible
INVARIANT SameSrvAsService
\* SelectHSDirs returns: its final states have no successor.
CHECK_DEADLOCK FALSE
