SPECIFICATION Spec
CONSTANTS
    b1 = b1
    b2 = b2
    p1 = p1
    p2 = p2
    w1 = w1
    w2 = w2
    Bookings = {b1}
    Periods = {p1}
    Windows = {{p1}}
    Amounts = {1}
    Workers = {w1}
    Retention = 0
    MaxTime = 0
    CrashUntil = 0
    Operations = {"deliver", "hold", "resolve", "prepare", "submit"}
PROPERTIES
    AnsweredBookingIsBilledByNextRun
