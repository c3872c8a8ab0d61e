SPECIFICATION Spec
CONSTANTS
    Students = {s1, s2}
    Uploads = {u1, u2}
    Earlier <- MCEarlier
    None = None
SYMMETRY Symmetry
INVARIANTS
    AccountIsKept
    AccessFollowsRoster
    InvitedIsMailed
CHECK_DEADLOCK FALSE
