------------------------------- MODULE Intake -------------------------------
(***************************************************************************)
(* Intake (intake/service.py): messages in, recorded decisions out.        *)
(*                                                                         *)
(* Any number of workers each run one database transaction at a time under *)
(* READ COMMITTED: a push carries one message, a pull window or a file     *)
(* several, and a person's answer may carry the message to look at again.  *)
(* One step is one statement that other transactions can come before or    *)
(* after.  What a transaction has written is seen by nobody else until it  *)
(* commits; the rows it has written or selected for update, and the event  *)
(* ids it has inserted, make others wait.                                  *)
(***************************************************************************)
EXTENDS Adapters, Sequences, FiniteSets

CONSTANTS
    Periods,      \* billing months
    Workers,      \* processes that run intake
    Messages,     \* the messages partners send
    NoMessage,    \* stands for none of them
    payload,      \* what each message carries
    stamped,      \* the instant at which the partner stamped it
    made,         \* the instant of the change it describes
    Arrivals,     \* the sequences of messages one transaction may carry
    MaxReceived,  \* bound on the messages received, repeats included
    Operations    \* the operations this deployment performs

ASSUME IntakeAssumption ==
    /\ Amounts \subseteq Nat
    /\ Windows \subseteq SUBSET Periods
    /\ payload \in [Messages -> Payload]
    /\ stamped \in [Messages -> Int]
    /\ made \in [Messages -> Int]
    /\ \A m \in Messages : made[m] =< stamped[m]
    /\ NoMessage \notin Messages
    /\ Arrivals \subseteq Seq(Messages)
    /\ MaxReceived \in Nat

\* A timestamp is the partner's way to write the instant at which it stamped the
\* message, unless the wall clock never showed it.  That is the instant of the
\* change, except for a retry whose envelope is stamped afresh: it still describes
\* the change it was made for.
ASSUME HonestStamps ==
    \A m \in Messages :
        LET stamp == payload[m].stamp IN
        /\ stamp.form = "offset" => stamp.at = stamped[m]
        /\ stamp.form = "naive" => stamp.at = Local(stamped[m]) \/ stamp.at \in Skipped

VARIABLES
    booking,      \* the bookings table
    entitlement,  \* the entitlements table
    deliveries,   \* the deliveries table: every message received and its outcome
    processed,    \* the processed_events table
    answered,     \* deliveries whose open question has been answered
    received,     \* messages received so far
    tx            \* each worker's transaction

vars == <<booking, entitlement, deliveries, processed, answered, received, tx>>

\* What the adapter makes of each message.
normalised == [m \in Messages |-> Normalise(payload[m])]

Message(m) == normalised[m]

\* A fingerprint is injective in what it digests, and digests no timestamp.
CanonicalFingerprint(message) ==
    [status |-> message.status, amount |-> message.amount, periods |-> message.periods]

NoFingerprint == [status |-> "unknown", amount |-> 0, periods |-> {}]

NoRow == [status |-> "unknown", amount |-> 0, periods |-> {}, lo |-> 0, hi |-> 0,
          fingerprint |-> NoFingerprint, last |-> NoMessage, undecided |-> "no"]

NoEntitlement == [state |-> "none", periods |-> {}]

\* Variant: a delivery that is applied lifts the hold.
BookingValuesUnheld(message, m) ==
    [status |-> message.status, amount |-> message.amount, periods |-> message.periods,
     lo |-> message.updated.lo, hi |-> message.updated.hi,
     fingerprint |-> CanonicalFingerprint(message), last |-> m, undecided |-> "no"]

\* The columns a message fills in.  The hold is not one of them.
BookingValues(message, m) ==
    [status |-> message.status, amount |-> message.amount, periods |-> message.periods,
     lo |-> message.updated.lo, hi |-> message.updated.hi,
     fingerprint |-> CanonicalFingerprint(message), last |-> m]

Known(row) == row.status # "unknown"

Held(row) == row.undecided # "no"

StoredInstant(row) == Window(row.lo, row.hi)

-----------------------------------------------------------------------------
\* A transaction.  object is the booking the session still holds a reference
\* to; asked is the booking whose question is being answered.
Idle ==
    [at |-> "idle", todo |-> <<>>, id |-> 0, asked |-> Blank, object |-> NoRow,
     seen |-> {}, locks |-> {}, claims |-> {}, rows |-> [b \in Bookings |-> NoRow],
     owed |-> [b \in Bookings |-> NoEntitlement], log |-> {}, closed |-> {}]

\* What a statement of worker w reads: its own writes over what is committed.
Row(w, b) == IF b \in tx[w].locks THEN tx[w].rows[b] ELSE booking[b]

Owed(w, b) == IF b \in tx[w].locks THEN tx[w].owed[b] ELSE entitlement[b]

\* Variant: the row is selected without a lock.
RowIsNotAwaited(w, b) == TRUE

\* A row is locked by the transaction that wrote it or selected it for update,
\* or whose insert of it is not committed yet.
RowIsFree(w, b) == \A v \in Workers \ {w} : b \notin tx[v].locks

\* Outcomes that leave an open quarantine item behind.
Questions == {"quarantined", "order_not_provable", "conflict"}

RefOf(m) == Message(m).ref

OpenItems(b) == {d \in deliveries : d.outcome \in Questions /\ RefOf(d.message) = b
                                       /\ d.id \notin answered}

Current(w) == Head(tx[w].todo)

Decided(t, m, outcome) ==
    [t EXCEPT !.at = "next", !.todo = Tail(@), !.id = @ + 1,
              !.log = @ \cup {[id |-> t.id, message |-> m, outcome |-> outcome,
                              channel |-> IF t.asked = Blank THEN "partner" ELSE "replay"]}]

\* The row of b as worker w has now written it, under its lock.
Write(t, w, b, row) ==
    [t EXCEPT !.locks = @ \cup {b}, !.rows[b] = row, !.owed[b] = Owed(w, b)]

\* What a query for b gives the session: the object it already has, if a
\* question about b is being answered, and otherwise the row as it now is.
SessionObject(t, b, row) == IF t.asked = b /\ Known(t.object) THEN t.object ELSE row

Step(w, t) ==
    /\ tx' = [tx EXCEPT ![w] = t]
    /\ UNCHANGED <<booking, entitlement, deliveries, processed, answered, received>>

-----------------------------------------------------------------------------
Init ==
    /\ booking = [b \in Bookings |-> NoRow]
    /\ entitlement = [b \in Bookings |-> NoEntitlement]
    /\ deliveries = {}
    /\ processed = {}
    /\ answered = {}
    /\ received = 0
    /\ tx = [w \in Workers |-> Idle]

Begin(w, t) ==
    /\ tx[w].at = "idle"
    /\ received + Len(t.todo) =< MaxReceived
    /\ received' = received + Len(t.todo)
    /\ tx' = [tx EXCEPT ![w] = t]
    /\ UNCHANGED <<booking, entitlement, deliveries, processed, answered>>

\* A push, a pull window or a file arrives.
Receive(w) ==
    \E batch \in Arrivals :
        Begin(w, [Idle EXCEPT !.at = "next", !.todo = batch, !.id = received + 1])

\* The adapter refuses the message.  Its event id is not claimed.  The booking
\* it is about is looked up without a lock and, if known and not already held
\* for this very reason, marked in a later statement.
Refuse(w) ==
    LET t == tx[w]
        message == Message(Current(w))
        known == SessionObject(t, message.ref, Row(w, message.ref))
        filed == Decided(t, Current(w), "quarantined")
    IN  /\ t.at = "next" /\ t.todo # <<>>
        /\ Refused(message)
        /\ \/ /\ message.ref # Blank /\ Known(known) /\ known.undecided # message.kind
              /\ Step(w, [t EXCEPT !.at = "mark", !.object = known])
           \/ /\ message.ref = Blank \/ ~Known(known) \/ known.undecided = message.kind
              /\ Step(w, filed)

\* Variant: the flush writes every column of the object the session holds.
FlushHoldOfObject(row, object, kind) == [object EXCEPT !.undecided = kind]

\* The flush of a hold that is set, or lifted, on an object read without a lock.
\* Only that column has changed, so only that column is written.
FlushHold(row, object, kind) == [row EXCEPT !.undecided = kind]

Mark(w) ==
    LET t == tx[w]
        message == Message(Current(w))
        b == message.ref
    IN  /\ t.at = "mark"
        /\ RowIsFree(w, b)
        /\ Step(w, Decided(
               [Write(t, w, b, FlushHold(Row(w, b), t.object, message.kind)) EXCEPT
                    !.object = IF t.asked = b THEN [t.object EXCEPT !.undecided = message.kind]
                                              ELSE NoRow],
               Current(w), "quarantined"))

\* The message carries an event id that has been processed, by a committed
\* delivery or by one earlier in this transaction.
RepeatOfEvent(w) ==
    LET t == tx[w] event == Message(Current(w)).event IN
    /\ t.at = "next" /\ t.todo # <<>>
    /\ ~Refused(Message(Current(w)))
    /\ event # NoEvent /\ event \in processed \cup t.claims
    /\ Step(w, Decided(t, Current(w), "repeat_of_event"))

\* Variant: the id is looked up, and no index settles a race.
EventIsUnknown(w, event) == event \notin processed \cup tx[w].claims

\* The unique index lets one transaction insert the id; a second one waits for
\* the first to end.
EventIsFree(w, event) ==
    /\ event \notin processed \cup tx[w].claims
    /\ \A v \in Workers \ {w} : event \notin tx[v].claims

InsertEvent(t, event) == [t EXCEPT !.at = "decide", !.claims = @ \cup {event}]

\* Variant: a feed without event ids claims the absence of one.
ClaimAnything(w) ==
    LET t == tx[w] event == Message(Current(w)).event IN
    /\ t.at = "next" /\ t.todo # <<>>
    /\ ~Refused(Message(Current(w)))
    /\ EventIsFree(w, event)
    /\ Step(w, InsertEvent(t, event))

ClaimEvent(w) ==
    LET t == tx[w] event == Message(Current(w)).event IN
    /\ t.at = "next" /\ t.todo # <<>>
    /\ ~Refused(Message(Current(w)))
    /\ event # NoEvent
    /\ EventIsFree(w, event)
    /\ Step(w, InsertEvent(t, event))

-----------------------------------------------------------------------------
\* The obligation after a delivery is applied: none is created for a booking
\* that arrives cancelled, and a cancelled one is never reopened or moved.
ReconcileEntitlement(owed, row) ==
    CASE row.status = "cancelled" /\ owed.state = "none" -> owed
      [] row.status = "cancelled" /\ owed.state # "none" -> [owed EXCEPT !.state = "cancelled"]
      [] row.status # "cancelled" /\ owed.state = "cancelled" -> owed
      [] OTHER -> [state |-> "active", periods |-> row.periods]

\* SQLAlchemy writes the columns whose new value differs from the one the
\* session's object had, and leaves the others as they are in the table.
Flush(row, object, values) ==
    [c \in DOMAIN row |->
        IF c \in DOMAIN values /\ values[c] # object[c] THEN values[c] ELSE row[c]]

\* The message is applied: the columns are set and the obligation follows.
Apply(t, w, b, row, object, m) ==
    LET values == BookingValues(Message(m), m)
        written == Flush(row, object, values)
    IN  [Decided(Write(t, w, b, written), m, "applied") EXCEPT
            !.owed[b] = ReconcileEntitlement(Owed(w, b), BookingValues(Message(m), m))]

\* The booking is held; so is the session's object of it, if it is kept.
Hold(t, w, b, row, object, m, reason, outcome) ==
    [Decided(Write(t, w, b, Flush(row, object, [undecided |-> reason])), m, outcome) EXCEPT
        !.object = IF t.asked = b THEN [object EXCEPT !.undecided = reason] ELSE NoRow]

Lock(t, w, b, row, m, outcome) == Decided(Write(t, w, b, row), m, outcome)

\* The decision, taken under the row's lock on the row as it is then, or as the
\* session's object still has it.
Judge(t, w, b, row, object, m) ==
    LET message == Message(m)
        order == Compare(message.updated, StoredInstant(object))
        same == CanonicalFingerprint(message) = object.fingerprint
    IN  IF ~Known(row) THEN Apply(t, w, b, row, NoRow, m)
        ELSE CASE order = "older" -> Lock(t, w, b, row, m, "superseded")
               [] order = "not_provable" ->
                      Hold(t, w, b, row, object, m, "order_not_provable", "order_not_provable")
               [] order = "same" /\ same -> Lock(t, w, b, row, m, "duplicate")
               [] order = "same" /\ ~same ->
                      Hold(t, w, b, row, object, m, "conflicting_versions", "conflict")
               [] order = "newer" -> Apply(t, w, b, row, object, m)

Decide(w) ==
    LET t == tx[w]
        message == Message(Current(w))
        row == Row(w, message.ref)
        object == SessionObject(t, message.ref, row)
    IN  /\ \/ t.at = "decide"
           \/ t.at = "next" /\ t.todo # <<>> /\ ~Refused(message) /\ message.event = NoEvent
        /\ RowIsFree(w, message.ref)
        /\ Step(w, Judge(t, w, message.ref, row, object, Current(w)))

-----------------------------------------------------------------------------
\* A person answers what has been asked about a booking (nothing checks that a
\* question is open), and may replay a message about it: the booking is read
\* without a lock, and the session keeps the object.
Ask(w) ==
    /\ "resolve" \in Operations
    /\ \E b \in Bookings :
       \E replay \in {<<>>} \cup
              (IF "replay" \in Operations THEN {<<m>> : m \in {n \in Messages : RefOf(n) = b}}
                                          ELSE {}) :
           Begin(w, [Idle EXCEPT !.at = "items", !.todo = replay, !.id = received + 1,
                                 !.asked = b, !.object = booking[b]])

ReadItems(w) ==
    /\ tx[w].at = "items"
    /\ Step(w, [tx[w] EXCEPT !.at = "answer", !.seen = {d.id : d \in OpenItems(tx[w].asked)}])

\* The flush: the items read are closed, and the hold read is lifted.
Answer(w) ==
    LET t == tx[w]
        b == t.asked
        told == [t EXCEPT !.at = "next", !.closed = t.seen]
    IN  /\ t.at = "answer"
        /\ \/ /\ ~Held(t.object)
              /\ Step(w, told)
           \/ /\ Held(t.object)
              /\ RowIsFree(w, b)
              /\ Step(w, [Write(told, w, b, FlushHold(Row(w, b), t.object, "no"))
                              EXCEPT !.object.undecided = "no"])

-----------------------------------------------------------------------------
Commit(w) ==
    /\ tx[w].at = "next" /\ tx[w].todo = <<>>
    /\ booking' = [b \in Bookings |-> Row(w, b)]
    /\ entitlement' = [b \in Bookings |-> Owed(w, b)]
    /\ deliveries' = deliveries \cup tx[w].log
    /\ processed' = processed \cup tx[w].claims
    /\ answered' = answered \cup tx[w].closed
    /\ tx' = [tx EXCEPT ![w] = Idle]
    /\ UNCHANGED received

\* Variant: the session of a worker that failed is not rolled back.
RollbackForgotten(w) == [Idle EXCEPT !.locks = tx[w].locks, !.claims = tx[w].claims,
                                     !.rows = tx[w].rows, !.owed = tx[w].owed]

\* A transaction that does not commit leaves nothing: no row, no claim, no lock.
Rollback(w) == Idle

\* The process dies, or the client gives up.
Crash(w) ==
    /\ "crash" \in Operations
    /\ tx[w].at # "idle"
    /\ Step(w, Rollback(w))

\* The transactions worker w waits for.
WaitsFor(w) ==
    LET t == tx[w]
        message == Message(Current(w))
        rowOf(b) == {v \in Workers \ {w} : b \in tx[v].locks}
    IN  CASE t.at \in {"mark", "decide"} -> rowOf(message.ref)
          [] t.at = "answer" /\ Held(t.object) -> rowOf(t.asked)
          [] t.at = "next" /\ t.todo # <<>> /\ ~Refused(message) ->
                 IF message.event = NoEvent THEN rowOf(message.ref)
                 ELSE {v \in Workers \ {w} : message.event \in tx[v].claims}
          [] OTHER -> {}

\* The workers of S wait for one another in a ring.
Deadlocked(S) == \A w \in S : WaitsFor(w) \cap S # {} /\ \E v \in S : w \in WaitsFor(v)

\* The database breaks a deadlock by aborting one of the transactions in it.
BreakDeadlock(w) ==
    /\ \E S \in SUBSET Workers : w \in S /\ Deadlocked(S)
    /\ Step(w, Rollback(w))

\* The next statement of worker w's transaction, or its end.
Proceed(w) ==
    \/ Refuse(w)
    \/ Mark(w)
    \/ RepeatOfEvent(w)
    \/ ClaimEvent(w)
    \/ Decide(w)
    \/ ReadItems(w)
    \/ Answer(w)
    \/ Commit(w)
    \/ BreakDeadlock(w)

Next ==
    \E w \in Workers :
        \/ Receive(w)
        \/ Ask(w)
        \/ Proceed(w)
        \/ Crash(w)

\* A statement that has nothing to wait for is carried out, one that waits for
\* a lock is granted it sooner or later (lock queues are served in order), and a
\* deadlock is noticed.
Fairness == \A w \in Workers : SF_vars(Proceed(w))

Spec == Init /\ [][Next]_vars /\ Fairness

-----------------------------------------------------------------------------
Status == {"unknown", "confirmed", "amended", "cancelled"}

Reasons == {"no", "missing_field", "unknown_status_value", "not_parseable",
            "nonexistent_local_time", "no_zone_declared", "unreadable_field",
            "order_not_provable", "conflicting_versions"}

Fingerprint == [status : Status, amount : Amounts \cup {0}, periods : Windows \cup {{}}]

BookingRow ==
    [status : Status, amount : Amounts \cup {0}, periods : Windows \cup {{}}, lo : Int, hi : Int,
     fingerprint : Fingerprint, last : Messages \cup {NoMessage}, undecided : Reasons]

EntitlementRow == [state : {"none", "active", "cancelled"}, periods : Windows \cup {{}}]

Outcomes == Questions \cup {"applied", "superseded", "duplicate", "repeat_of_event"}

Delivery == [id : Nat, message : Messages, outcome : Outcomes, channel : {"partner", "replay"}]

Transaction ==
    [at : {"idle", "next", "mark", "decide", "items", "answer"}, todo : Seq(Messages),
     id : Nat, asked : Bookings \cup {Blank}, object : BookingRow, seen : SUBSET Nat,
     locks : SUBSET Bookings, claims : SUBSET Events, rows : [Bookings -> BookingRow],
     owed : [Bookings -> EntitlementRow], log : SUBSET Delivery, closed : SUBSET Nat]

TypeOK ==
    /\ booking \in [Bookings -> BookingRow]
    /\ entitlement \in [Bookings -> EntitlementRow]
    /\ deliveries \subseteq Delivery
    /\ processed \subseteq Events
    /\ answered \subseteq Nat
    /\ received \in Nat
    /\ tx \in [Workers -> Transaction]

Replaced(b) == Known(booking[b]) /\ booking'[b].last # booking[b].last

\* The rule of the module: an update is applied only if it is provably newer
\* than what is held.  So whatever races, repeats and clock changes happen, a
\* booking once known is only ever replaced by a message its partner stamped at a
\* later instant (not one whose stamp only reads later, or that arrived later),
\* and if that one describes an older change, it is a retry that was restamped.
OnlyRestampsGoBackwards ==
    [][\A b \in Bookings : Replaced(b) =>
          LET old == booking[b].last
              new == booking'[b].last
          IN  /\ stamped[new] > stamped[old]
              /\ made[new] =< made[old] => made[new] < stamped[new]]_vars

\* The row of b is one message as it was sent, whole, and what is owed for it
\* follows from it: an active obligation covers the row's periods, and there is
\* none only for a booking that has been cancelled all along.
Whole(b, row, owed) == Known(row) =>
    LET message == Message(row.last)
        values == BookingValues(message, row.last)
    IN  /\ row.last \in Messages /\ ~Refused(message) /\ message.ref = b
        /\ \A c \in DOMAIN values : row[c] = values[c]
        /\ owed.state = "active" => row.status # "cancelled" /\ owed.periods = row.periods
        /\ owed.state = "none" => row.status = "cancelled"

\* While nobody replays a message, a booking is never a mixture: its columns, its
\* stamp and its fingerprint are those of one delivery and what is owed is what
\* that delivery says, although refusals and answers mark the booking from an
\* object they read before they had its lock, which another delivery may have
\* replaced.  (With a replay they can be a mixture: NothingIsInvented.)
BookingIsOneMessage == \A b \in Bookings : Whole(b, booking[b], entitlement[b])

\* Nothing these deliveries about b say is provably newer than the row.
UpToDate(b, row, log) ==
    \A d \in log : d.outcome \notin {"quarantined", "repeat_of_event"} /\ RefOf(d.message) = b =>
        /\ Known(row)
        /\ Compare(Message(d.message).updated, StoredInstant(row)) # "newer"

\* Deliveries converge: nothing the kernel has compared with what it held, and
\* recorded as decided, is provably newer than what it holds now.  So once the
\* newest change has been decided, in whatever order they came, it is the one
\* held, unless its order could not be proved.
NothingNewerIsLost == \A b \in Bookings : UpToDate(b, booking[b], deliveries)

\* An event id is used up by exactly one decision: of the copies of an event
\* that could be read, one was decided and the others are repeats.  A refused
\* copy does not count, so that the corrected one is looked at.
EventDecidedOnce ==
    \A d \in deliveries :
        LET event == Message(d.message).event
            decided == {e \in deliveries : Message(e.message).event = event
                                    /\ e.outcome \notin {"quarantined", "repeat_of_event"}}
        IN  event # NoEvent /\ d.outcome # "quarantined" => Cardinality(decided) = 1

\* One row of a booking is the other, or a provably newer one.
Ahead(new, old) == Known(old) =>
    /\ Known(new)
    /\ \/ \A c \in {"lo", "hi", "last"} : new[c] = old[c]
       \/ Compare(StoredInstant(new), StoredInstant(old)) = "newer"

\* What the rules come to while transactions are under way: a row has one writer
\* at a time; what it has written is whole, not behind what is committed, and up
\* to date with everything its transaction has decided; and every decision the
\* transaction has logged was taken on a row it still has locked.
NothingUncommittedIsBehind ==
    \A w \in Workers :
        /\ \A v \in Workers \ {w} : tx[v].locks \cap tx[w].locks = {}
        /\ \A b \in tx[w].locks :
               /\ Whole(b, tx[w].rows[b], tx[w].owed[b])
               /\ Ahead(tx[w].rows[b], booking[b])
        /\ \A b \in Bookings :
               UpToDate(b, IF b \in tx[w].locks THEN tx[w].rows[b] ELSE NoRow, tx[w].log)

\* Every transaction ends: no lock is waited for for ever, although windows
\* lock bookings and event ids in whatever order their messages come.
TransactionsEnd == \A w \in Workers : tx[w].at # "idle" ~> tx[w].at = "idle"

-----------------------------------------------------------------------------
\* What the repository says of intake and a restamped retry, or an answer, can
\* make it do otherwise.

\* "An event that is older than what we hold never moves a booking backwards"
\* (docs/partner-coralbay.md): a booking is only replaced by a change its partner
\* made later.
NeverBackwards ==
    [][\A b \in Bookings :
           Replaced(b) => made[booking'[b].last] > made[booking[b].last]]_vars

\* "Close an open question, then look at the held message again": a message
\* that was held, and is replayed with the answer, is judged and not dismissed
\* as a repeat of itself.
HeldMessageIsReplayed ==
    \A d, e \in deliveries :
        d.channel = "replay" /\ e.message = d.message /\ e.id < d.id /\ e.outcome \in Questions
            => d.outcome # "repeat_of_event"

\* "The kernel never invents a fact about a booking in order to keep moving"
\* (intake/service.py): the status, the amount and the dates of a booking were said
\* together, by one delivery that was applied.
NothingIsInvented ==
    \A b \in Bookings : Known(booking[b]) =>
        \E d \in deliveries :
            /\ d.outcome = "applied"
            /\ RefOf(d.message) = b
            /\ \A c \in {"status", "amount", "periods"} : booking[b][c] = Message(d.message)[c]

\* A hold is "cleared when the question is answered" (models.py, undecided_reason):
\* no booking is held with every question about it answered.
HoldHasAnOpenQuestion ==
    \A b \in Bookings : Held(booking[b]) => OpenItems(b) # {}

-----------------------------------------------------------------------------
\* What billing sees of all this is BookingFeed: a message or an answer changes
\* what is read of a booking in one of the ways that module lists.
FeedBooking ==
    [b \in Bookings |->
        [status |-> CASE booking[b].status = "unknown" -> "unknown"
                      [] booking[b].status = "cancelled" -> "cancelled"
                      [] OTHER -> "live",
         amount |-> booking[b].amount, periods |-> booking[b].periods,
         undecided |-> Held(booking[b])]]

Feed == INSTANCE BookingFeed WITH
            booking <- FeedBooking,
            question <- [b \in Bookings |-> OpenItems(b) # {}]

\* What n steps of the feed can make of one booking.
AfterSteps(row, n) ==
    LET after[k \in 0 .. n] ==
            IF k = 0 THEN {row}
            ELSE after[k - 1] \cup UNION {Feed!OneMessage(r) : r \in after[k - 1]}
    IN  after[n]

\* The messages and answers whose transactions this step commits.
NewDecisions ==
    Cardinality(deliveries' \ deliveries)
      + Cardinality({w \in Workers : tx[w].asked # Blank /\ tx'[w].asked = Blank})

\* Every commit is, for each booking it changes, no more than one step of the
\* feed for each message or answer in it: what BillingRun takes intake to do is
\* what intake does.
CommitIsFeedSteps ==
    [][\A b \in Bookings :
          Feed!FeedRow(b)' = Feed!FeedRow(b)
            \/ Feed!FeedRow(b)' \in AfterSteps(Feed!FeedRow(b), NewDecisions)]_vars

=============================================================================
