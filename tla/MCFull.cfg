SPECIFICATION Spec
CONSTANTS
    b1 = b1
    b2 = b2
    p1 = p1
    p2 = p2
    w1 = w1
    w2 = w2
    Bookings = {b1}
    Periods = {p1}
    Windows = {{p1}}
    Amounts = {1, 2}
    Workers = {w1, w2}
    Retention = 0
    MaxTime = 1
    CrashUntil = 1
    Operations = {"deliver", "prepare", "submit", "resume", "establish", "cancel"}
SYMMETRY Symmetry
INVARIANTS
    TypeOK
    OneOperationPerObligation
    ParametersStayFrozen
    SettledOnEvidence
    NothingFrozenMoves
PROPERTIES
    ImplementsPromise
