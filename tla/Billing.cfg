SPECIFICATION Spec
CONSTANTS
    Students = {s1, s2}
    Months = 2
    MaxEvents = 3
    Tasks = {b1, b2}
    Outcomes = {"paid"}
    None = None
SYMMETRY Symmetry
INVARIANTS
    CountIsExact
    BillIsWithinMeter
PROPERTY
    BillIsFrozen
CHECK_DEADLOCK FALSE
