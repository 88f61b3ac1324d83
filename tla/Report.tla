------------------------------- MODULE Report -------------------------------
(***************************************************************************)
(* The reconciliation report (billing/reconciliation.py) over the tables   *)
(* of BillingRun, each read in one committed state: how many lines of a    *)
(* month are in each state, and for how much; and, for every open question *)
(* about a booking, what the report says it is holding up.                 *)
(***************************************************************************)
EXTENDS BillingRun, FiniteSetsExt

LinesIn(period, state) ==
    {o \in Obligations : o[2] = period /\ lines[o].state = state}

\* Variant: a cancelled line is reported among the cancellations only.
ByStateUncancelled(period) ==
    [state \in LineStates |->
        LET found == {o \in LinesIn(period, state) : lines[o].cancellation = "none"} IN
        [count |-> Cardinality(found),
         amount |-> MapThenSumSet(LAMBDA o : lines[o].amount, found)]]

ByState(period) ==
    [state \in LineStates |->
        LET found == LinesIn(period, state) IN
        [count |-> Cardinality(found),
         amount |-> MapThenSumSet(LAMBDA o : lines[o].amount, found)]]

\* What the provider carried out for the month.
Moved(period) ==
    MapThenSumSet(LAMBDA c : c.amount, {c \in charges : c.key[2] = period})

\* The report reconciles with the provider at every moment, whatever is under
\* way and whoever has died: at least what it shows as charged has moved, and at
\* most that and what it shows as submitted ("outcome not yet established") or
\* unresolved ("outcome unknown").  So a month with neither is exactly right.
ReportBoundsWhatMoved ==
    \A period \in Periods :
        LET total(state) == ByState(period)[state].amount IN
        /\ total("charged") =< Moved(period)
        /\ Moved(period) =< total("charged") + total("submitted") + total("unresolved")

-----------------------------------------------------------------------------
\* The open questions, and what each is said to hold up: preparation, if the hold
\* is on the booking's row, and otherwise nothing but the message itself.

OpenQuestions == {b \in Bookings : question[b]}

HoldingUp(b) == IF booking[b].undecided THEN "billing preparation" ELSE "this message only"

\* What the repository says of the report and a question older than its booking
\* can make it do otherwise.

\* A booking the report calls unaffected by an open question has no line blocked
\* on one (billing/reconciliation.py, "this message only, the booking is
\* unaffected"; of a blocked line the report says "not prepared, a question about
\* the source data is open").
ReportedUnaffectedIsUnaffected ==
    \A b \in OpenQuestions : HoldingUp(b) = "this message only" =>
        \A period \in Periods : lines[<<b, period>>].state # "blocked"

=============================================================================
