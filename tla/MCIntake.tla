------------------------------ MODULE MCIntake ------------------------------
(***************************************************************************)
(* A small instance of Intake for TLC: a booking of Coralbay, one of        *)
(* Lindhoff and one nobody named, and the messages that make each decision *)
(* come out each way.  Time is counted in half hours; summer time lasts    *)
(* from 10 to 20.                                                          *)
(***************************************************************************)
EXTENDS Intake

CONSTANTS c1, l1, none, blank, e1, e2, e3, e4, noEvent, noMessage, p1, p2, w1, w2

Sent(feed, ref, event, word, stamp, amount, at, change) ==
    [raw |-> [feed |-> feed, ref |-> ref, event |-> event, word |-> word, stamp |-> stamp,
              complete |-> TRUE, typed |-> TRUE, dated |-> TRUE,
              amount |-> amount, periods |-> IF amount = 1 THEN {p1} ELSE {p2}],
     stamped |-> at, made |-> change]

Coralbay(ref, event, word, amount, at) ==
    Sent("coralbay", ref, event, word, WithOffset(at), amount, at, at)

Lindhoff(ref, word, amount, at) ==
    Sent("lindhoff", ref, noEvent, word, Naive(Local(at)), amount, at, at)

\* One booking's life, its first event retried in an envelope stamped afresh, and
\* a payload nobody can read that is corrected later; a booking sent by local wall
\* clock across the hour that runs twice; a row without a reference.
AllSent ==
    [first       |-> Coralbay(c1, e1, "confirmed", 1, 1),
     retried     |-> Sent("coralbay", c1, e1, "confirmed", WithOffset(3), 1, 3, 1),
     cancelled   |-> Coralbay(c1, e2, "cancelled", 1, 2),
     clashing    |-> Coralbay(c1, e3, "amended", 2, 2),
     unreadable  |-> Coralbay(c1, e2, "pending", 1, 2),
     amended     |-> Coralbay(c1, e4, "amended", 2, 4),
     summer      |-> Lindhoff(l1, "OK", 1, 15),
     repeated    |-> Lindhoff(l1, "CHG", 2, 20),
     halfPast    |-> Lindhoff(l1, "VOID", 1, 19),
     skipped     |-> Sent("lindhoff", l1, noEvent, "CHG", Naive(10), 2, 0, 0),
     nameless    |-> Lindhoff(blank, "OK", 1, 23)]

MCMessages == DOMAIN AllSent
MCPayload == [m \in MCMessages |-> AllSent[m].raw]
MCStamped == [m \in MCMessages |-> AllSent[m].stamped]
MCMade == [m \in MCMessages |-> AllSent[m].made]

\* A push may hold the event id that a window needs next while it waits for the row
\* the window has locked.
MCArrivals ==
    {<<m>> : m \in {"retried", "cancelled", "repeated"}}
      \cup {<<"clashing", "cancelled">>, <<"unreadable", "cancelled">>,
            <<"skipped", "summer">>, <<"halfPast", "nameless">>}

\* For the retries: the first event of a booking may only arrive as its retry.
MCRetries == {<<m>> : m \in {"first", "cancelled", "retried"}}

\* For the replays: no windows, and the newest change of the booking too.
MCPushes == {<<m>> : m \in {"first", "cancelled", "clashing", "unreadable", "amended"}}

=============================================================================
