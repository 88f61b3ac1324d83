SPECIFICATION Spec
CONSTANTS
    c1 = c1
    l1 = l1
    none = none
    blank = blank
    e1 = e1
    e2 = e2
    e3 = e3
    e4 = e4
    noEvent = noEvent
    noMessage = noMessage
    p1 = p1
    p2 = p2
    w1 = w1
    w2 = w2
    Spring = 10
    Autumn = 20
    Winter = 0
    Shift = 2
    Bookings = {c1, l1, none}
    NamedNone = none
    Blank = blank
    Events = {e1, e2, e3, e4}
    NoEvent = noEvent
    Amounts = {1, 2}
    Periods = {p1, p2}
    Windows = {{p1}, {p2}}
    Workers = {w1}
    NoMessage = noMessage
    Messages <- MCMessages
    payload <- MCPayload
    stamped <- MCStamped
    made <- MCMade
    Arrivals <- MCPushes
    MaxReceived = 3
    Operations = {"resolve", "replay"}
CHECK_DEADLOCK FALSE
INVARIANTS
    HeldMessageIsReplayed
