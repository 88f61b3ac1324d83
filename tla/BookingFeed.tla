---------------------------- MODULE BookingFeed ----------------------------
(***************************************************************************)
(* The rows intake and entitlements leave for billing to read.             *)
(*                                                                         *)
(* Every message ends in one of four ways for those rows: it is applied    *)
(* (and the obligation is brought into line with it), it holds the         *)
(* booking, it only opens a question because the booking is not known yet, *)
(* or it changes nothing.  A person may later answer the question.  Each   *)
(* is one database transaction and one step here, which takes effect as it *)
(* commits: a delivery holds the booking's row lock from its read on, and  *)
(* an answer, which holds none, may have read its rows before a hold that  *)
(* has committed since.                                                    *)
(***************************************************************************)
EXTENDS Integers

CONSTANTS
    Bookings,    \* partner bookings, each the source of at most one obligation
    Amounts,     \* what a booking may be worth for one period, in cents
    Periods,     \* billing months
    Windows,     \* the sets of months a booking's dates may overlap
    Operations   \* the operations this deployment performs

ASSUME FeedAssumption ==
    /\ Amounts \subseteq Nat
    /\ Windows \subseteq SUBSET Periods

VARIABLES
    booking,      \* the booking held for each reference
    question,     \* whether an unresolved quarantine item names the booking
    entitlement   \* the obligation created for each booking

feedVars == <<booking, question, entitlement>>

Statuses == {"live", "cancelled"}     \* confirmed and amended are both live

Booking == [status : {"unknown"} \cup Statuses, amount : Amounts \cup {0},
            periods : SUBSET Periods, undecided : BOOLEAN]

NoBooking == [status |-> "unknown", amount |-> 0, periods |-> {}, undecided |-> FALSE]

Entitlement == [state : {"none", "active", "cancelled"}, periods : SUBSET Periods]

NoEntitlement == [state |-> "none", periods |-> {}]

FeedTypeOK ==
    /\ booking \in [Bookings -> Booking]
    /\ question \in [Bookings -> BOOLEAN]
    /\ entitlement \in [Bookings -> Entitlement]

FeedInit ==
    /\ booking = [b \in Bookings |-> NoBooking]
    /\ question = [b \in Bookings |-> FALSE]
    /\ entitlement = [b \in Bookings |-> NoEntitlement]

-----------------------------------------------------------------------------
\* The obligation after a delivery is applied: none is created for a booking
\* that arrives cancelled, and a cancelled one is never reopened or moved.
ReconcileEntitlement(held, status, periods) ==
    CASE status = "cancelled" /\ held.state = "none"   -> held
      [] status = "cancelled" /\ held.state # "none"   -> [held EXCEPT !.state = "cancelled"]
      [] status = "live"      /\ held.state = "cancelled" -> held
      [] OTHER -> [state |-> "active", periods |-> periods]

\* What billing reads of one booking.
FeedRow(b) ==
    [booking |-> booking[b], question |-> question[b], entitlement |-> entitlement[b]]

\* A first or provably newer delivery: every column the message carries is
\* overwritten, the hold (which no message carries) is not.
AfterDelivery(row, status, amount, periods) ==
    [row EXCEPT
        !.booking = [status |-> status, amount |-> amount, periods |-> periods,
                     undecided |-> row.booking.undecided],
        !.entitlement = ReconcileEntitlement(row.entitlement, status, periods)]

\* A message that cannot be decided: a version conflict, an order that cannot
\* be proved, or a payload nobody can read.  Only a booking already held can be
\* marked; for an unknown one the open question is all there is.  The last kind
\* looks the booking up without a lock, and may miss that it has become known,
\* or that an answer is lifting the hold it found there.
AfterHold(row, seen) ==
    [row EXCEPT
        !.question = TRUE,
        !.booking.undecided = row.booking.undecided
                                  \/ (seen /\ row.booking.status # "unknown")]

\* The question is answered: the open items it reads are closed, and then the
\* hold it has read is lifted.  It misses a hold that commits after it has read
\* the booking, and the item of one that commits after it has read the items.
AfterAnswer(row, sawHold, sawItems) ==
    [row EXCEPT
        !.question = row.question /\ ~sawItems,
        !.booking.undecided = row.booking.undecided /\ ~sawHold]

\* Everything one message or one answer can do to a booking.
OneMessage(row) ==
    {AfterDelivery(row, status, amount, periods) :
        status \in Statuses, amount \in Amounts, periods \in Windows}
      \cup {AfterHold(row, seen) : seen \in BOOLEAN}
      \cup {AfterAnswer(row, sawHold, sawItems) : sawHold \in BOOLEAN, sawItems \in BOOLEAN}

-----------------------------------------------------------------------------
Becomes(b, row) ==
    /\ booking' = [booking EXCEPT ![b] = row.booking]
    /\ question' = [question EXCEPT ![b] = row.question]
    /\ entitlement' = [entitlement EXCEPT ![b] = row.entitlement]

ApplyDelivery(b, status, amount, periods) ==
    /\ "deliver" \in Operations
    /\ Becomes(b, AfterDelivery(FeedRow(b), status, amount, periods))

HoldBooking(b) ==
    /\ "hold" \in Operations
    /\ \E seen \in BOOLEAN : Becomes(b, AfterHold(FeedRow(b), seen))

\* Without holds that commit meanwhile, an answer sees everything.
ResolveQuestion(b) ==
    /\ "resolve" \in Operations
    /\ \E sawHold, sawItems \in BOOLEAN :
           /\ (sawHold /\ sawItems) \/ "hold" \in Operations
           /\ Becomes(b, AfterAnswer(FeedRow(b), sawHold, sawItems))

FeedNext ==
    \E b \in Bookings :
        \/ \E status \in Statuses, amount \in Amounts, periods \in Windows :
               ApplyDelivery(b, status, amount, periods)
        \/ HoldBooking(b)
        \/ ResolveQuestion(b)

=============================================================================
