SPECIFICATION Spec
CONSTANTS
    r1 = r1
    r2 = r2
    x = x
    y = y
    z = z
    Runs = {r1, r2}
    Sessions = {x, y, z}
    RunOf <- MCRunOf
    Versions = {v1, v2}
    Calls = {c1, c2, c3}
    None = None
SYMMETRY Symmetry
INVARIANT SessionsAgree
CHECK_DEADLOCK FALSE
