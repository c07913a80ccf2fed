SPECIFICATION Spec
CONSTANTS
    Volume = {v1, v2}
    First = v1
    Session = {s1}
    Tries = 2
    MaxWrong = 1
    MaxMishaps = 1
CHECK_DEADLOCK FALSE
INVARIANTS
    AutomaticUnlock
