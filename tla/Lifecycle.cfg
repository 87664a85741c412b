SPECIFICATION Spec
CONSTANTS
    a = a
    b = b
    r1 = r1
    r2 = r2
    Callers <- TwoCallers
    Sessions <- TwoSessions
    MaxRunners = 3
SYMMETRY Symmetry
INVARIANTS
    TypeOK
    NothingLost
    ServedWhileOpen
