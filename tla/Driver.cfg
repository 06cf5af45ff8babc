\* Two invocations in one directory, one after the other or at once.
SPECIFICATION Spec
CONSTANTS
    Procs = {p1, p2}
    Earlier = p0
    Size = 2
INVARIANTS DriverTypeOK SuccessMeansOutput AllOrNothing NeverMixed StartsUp
CHECK_DEADLOCK FALSE
