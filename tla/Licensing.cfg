SPECIFICATION Spec
CONSTANTS
    Staff = {t1}
    Students = {s1}
    Events = {e1}
    Calls = {c1}
    Deliveries = {d1, d2}
    Parallel = 2
    Layers = {L0, L1}
    Unlicensed = L0
    None = None
SYMMETRY Symmetry
INVARIANTS
    AppliedOnce
    AnsweredIsSynced
    SyncedIsFresh
    ClaimsFollowAccess
CHECK_DEADLOCK FALSE
