---------------------------- MODULE Intake_proofs ----------------------------
(***************************************************************************)
(* Intake keeps its rules for any number of workers, bookings and messages *)
(* and for windows of any length, as long as no message is replayed with   *)
(* an answer: the replay decides on an old copy of the row (StaleReplay),  *)
(* and the argument below is about decisions taken on a locked one.  Types *)
(* are kept in any case (TypesKept).                                       *)
(***************************************************************************)
EXTENDS Intake, PartnerClock_proofs, TLAPS

\* A timestamp that can be compared.
Stamp(instant) == instant \in Instant /\ Usable(instant) /\ instant.lo =< instant.hi

\* A row nobody has written a message to has the columns of no message.
Fresh(row) == ~Known(row) =>
    \A c \in {"status", "amount", "periods", "lo", "hi", "fingerprint", "last"} :
        row[c] = NoRow[c]

\* Only a message that could be read was decided.
Readable(log) ==
    \A d \in log : d.outcome \notin {"quarantined", "repeat_of_event"} =>
                       ~Refused(Message(d.message))

\* Where a transaction is in its work.
Placed(t) ==
    /\ t \in Transaction
    /\ t.asked # Blank => t.todo = <<>>
    /\ t.at \in {"mark", "decide"} => t.todo # <<>>
    /\ t.at = "mark" => Refused(Message(Head(t.todo))) /\ Message(Head(t.todo)).ref \in Bookings
    /\ t.at = "decide" => ~Refused(Message(Head(t.todo)))
    /\ t.at \in {"items", "answer"} => t.asked \in Bookings

\* What a transaction has written and logged so far.
Sound(t) ==
    /\ \A b \in t.locks :
           /\ Whole(b, t.rows[b], t.owed[b])
           /\ Fresh(t.rows[b])
           /\ Ahead(t.rows[b], booking[b])
    /\ \A b \in Bookings : UpToDate(b, IF b \in t.locks THEN t.rows[b] ELSE NoRow, t.log)
    /\ Readable(t.log)

\* The committed tables.
TablesSound ==
    /\ \A b \in Bookings :
           /\ Whole(b, booking[b], entitlement[b])
           /\ Fresh(booking[b])
           /\ UpToDate(b, booking[b], deliveries)
    /\ Readable(deliveries)

OneWriter == \A w \in Workers : \A v \in Workers \ {w} : tx[v].locks \cap tx[w].locks = {}

IInv ==
    /\ TypeOK
    /\ TablesSound
    /\ OneWriter
    /\ \A w \in Workers : Placed(tx[w]) /\ Sound(tx[w])

-----------------------------------------------------------------------------
\* What the adapters give back: a refusal with a reason, or a booking.
LEMMA NormalisedMessage ==
    ASSUME NEW raw \in Payload
    PROVE  LET message == Normalise(raw) IN
           /\ message.event \in Events \cup {NoEvent}
           /\ Refused(message) => /\ message.kind \in Reasons \ {"no"}
                                  /\ message.ref \in Bookings \cup {Blank}
           /\ ~Refused(message) =>
                 /\ message.ref \in Bookings
                 /\ message.status \in Status \ {"unknown"}
                 /\ message.amount \in Amounts
                 /\ message.periods \in Windows
                 /\ message.updated = Updated(raw) /\ Stamp(message.updated)
<1>. USE AdapterAssumption
<1>1. /\ raw.feed \in {"coralbay", "lindhoff"}
      /\ raw.ref \in Bookings \cup {Blank} /\ raw.event \in Events \cup {NoEvent}
      /\ raw.amount \in Amounts /\ raw.periods \in Windows
      /\ raw.stamp \in [form : {"unreadable", "offset", "naive"}, at : Int]
  BY DEF Payload, Vocabulary
<1>2. ZoneDeclared(raw.feed) \in BOOLEAN
  BY <1>1 DEF ZoneDeclared
<1>3. /\ Updated(raw) \in Instant
      /\ Usable(Updated(raw)) => Stamp(Updated(raw))
      /\ ~Usable(Updated(raw)) => Updated(raw).problem \in Reasons \ {"no"}
  BY <1>1, <1>2, ParsedIsOrdered DEF Ordered, Updated, Stamp, Instant, Usable, Reasons
<1>4. KnownWord(raw) => Vocabulary[raw.feed][raw.word] \in Status \ {"unknown"}
  BY <1>1 DEF KnownWord, Vocabulary, Status
<1>5. ASSUME NEW kind \in Reasons \ {"no"}, NEW event \in Events \cup {NoEvent}
      PROVE  LET message == Refusal(raw, kind, event) IN
             /\ message.event \in Events \cup {NoEvent}
             /\ Refused(message) /\ message.kind \in Reasons \ {"no"}
             /\ message.ref \in Bookings \cup {Blank}
  BY <1>1 DEF Refusal, Refused, Reasons
<1>6. ASSUME NEW ref \in Bookings, NEW event \in Events \cup {NoEvent},
             KnownWord(raw), Usable(Updated(raw))
      PROVE  LET message == Canonical(raw, ref, event) IN
             /\ message.event \in Events \cup {NoEvent}
             /\ ~Refused(message)
             /\ message.ref \in Bookings
             /\ message.status \in Status \ {"unknown"}
             /\ message.amount \in Amounts
             /\ message.periods \in Windows
             /\ message.updated = Updated(raw) /\ Stamp(message.updated)
  BY <1>1, <1>3, <1>4, <1>6 DEF Canonical, Refused
<1>7. {"missing_field", "unknown_status_value", "unreadable_field", "no_zone_declared"}
         \subseteq Reasons \ {"no"}
  BY DEF Reasons
<1>. HIDE DEF Refused, Stamp, Usable
<1>8. CASE raw.feed = "coralbay"
  BY <1>1, <1>3, <1>5, <1>6, <1>7, <1>8 DEF Normalise, NormaliseCoralbay
<1>9. CASE raw.feed = "lindhoff"
  BY <1>1, <1>3, <1>5, <1>6, <1>7, <1>9 DEF Normalise, NormaliseLindhoff
<1>. QED
  BY <1>1, <1>8, <1>9

\* The messages the model is given, in the kernel's own words.
LEMMA MessageFacts ==
    ASSUME NEW m \in Messages
    PROVE  LET message == Message(m) IN
           /\ message = Normalise(payload[m]) /\ payload[m] \in Payload
           /\ message.event \in Events \cup {NoEvent}
           /\ Refused(message) => /\ message.kind \in Reasons \ {"no"}
                                  /\ message.ref \in Bookings \cup {Blank}
           /\ ~Refused(message) =>
                 /\ message.ref \in Bookings
                 /\ message.status \in Status \ {"unknown"}
                 /\ message.amount \in Amounts
                 /\ message.periods \in Windows
                 /\ message.updated = Updated(payload[m]) /\ Stamp(message.updated)
<1>1. payload[m] \in Payload
  BY IntakeAssumption
<1>2. Message(m) = Normalise(payload[m])
  BY DEF Message, normalised
<1>. QED
  BY <1>1, <1>2, NormalisedMessage

\* The window of a message that could be read holds the instant at which its
\* partner stamped it.
LEMMA MessageWindow ==
    ASSUME NEW m \in Messages, ~Refused(Message(m))
    PROVE  /\ stamped[m] \in Int
           /\ Message(m).updated.lo =< stamped[m] /\ stamped[m] =< Message(m).updated.hi
<1>. DEFINE stamp == payload[m].stamp
            zone == ZoneDeclared(payload[m].feed)
<1>1. /\ stamp \in [form : {"unreadable", "offset", "naive"}, at : Int]
      /\ zone \in BOOLEAN /\ stamped[m] \in Int
  BY MessageFacts, IntakeAssumption DEF Payload, ZoneDeclared
<1>2. /\ Message(m).updated = ParsePartnerTimestamp(stamp, zone)
      /\ Usable(ParsePartnerTimestamp(stamp, zone))
  BY MessageFacts DEF Updated, Stamp
<1>. HIDE DEF zone
<1>3. CASE stamp.form = "unreadable"
  BY <1>2, <1>3 DEF ParsePartnerTimestamp, Problem, Usable
<1>4. CASE stamp.form = "offset"
  <2>1. stamp.at = stamped[m]
    BY <1>4, HonestStamps
  <2>2. ParsePartnerTimestamp(stamp, zone) = Window(stamp.at, stamp.at)
    BY <1>4 DEF ParsePartnerTimestamp
  <2>. QED
    BY <1>1, <1>2, <2>1, <2>2 DEF Window
<1>5. CASE stamp.form = "naive"
  <2>1. zone /\ ParsePartnerTimestamp(stamp, zone) = ReadNaive(stamp.at)
    BY <1>1, <1>2, <1>5 DEF ParsePartnerTimestamp, Problem, Usable
  <2>2. stamp.at \notin Skipped
    BY <1>1, <1>2, <2>1, MissingHourIsRefused DEF Usable
  <2>3. stamp.at = Local(stamped[m])
    BY <1>5, <2>2, HonestStamps
  <2>4. stamped[m] \in Meanings(stamp.at)
    BY <1>1, <2>3 DEF Meanings
  <2>. QED
    BY <1>1, <1>2, <2>1, <2>2, <2>4, WindowIsTight DEF Holds
<1>. QED
  BY <1>1, <1>3, <1>4, <1>5

\* Newer, in terms of the ends of two windows.
LEMMA NewerMeansAfter ==
    ASSUME NEW a, NEW b, Stamp(a), Stamp(b)
    PROVE  /\ Compare(a, b) = "newer" <=> a.lo > b.hi
           /\ Compare(a, b) \in {"newer", "older", "same", "not_provable"}
           /\ Compare(a, b) = "same" => a.lo = b.lo /\ a.hi = b.hi
  BY DEF Stamp, Instant, Compare

\* A known row has the stamp of the message it was taken from.
LEMMA StampOfRow ==
    ASSUME NEW b, NEW row, NEW owed, Whole(b, row, owed), Known(row)
    PROVE  /\ row.last \in Messages /\ ~Refused(Message(row.last))
           /\ row.lo = Message(row.last).updated.lo /\ row.hi = Message(row.last).updated.hi
           /\ Stamp(StoredInstant(row))
           /\ StoredInstant(row).lo = row.lo /\ StoredInstant(row).hi = row.hi
<1>1. /\ row.last \in Messages /\ ~Refused(Message(row.last))
      /\ \A c \in DOMAIN BookingValues(Message(row.last), row.last) :
            row[c] = BookingValues(Message(row.last), row.last)[c]
  BY DEF Whole
<1>2. row.lo = Message(row.last).updated.lo /\ row.hi = Message(row.last).updated.hi
  BY <1>1 DEF BookingValues
<1>3. Stamp(Message(row.last).updated)
  BY <1>1, MessageFacts
<1>. QED
  BY <1>1, <1>2, <1>3 DEF Stamp, Instant, StoredInstant, Window, Usable

\* A row that is a later one's later one is its later one.
LEMMA AheadIsTransitive ==
    ASSUME NEW b, NEW new, NEW mid, NEW old, NEW newOwed, NEW midOwed, NEW oldOwed,
           Whole(b, new, newOwed), Whole(b, mid, midOwed), Whole(b, old, oldOwed),
           Ahead(new, mid), Ahead(mid, old)
    PROVE  Ahead(new, old)
<1>1. SUFFICES ASSUME Known(old) PROVE Ahead(new, old)
  BY DEF Ahead
<1>2. Known(mid) /\ Known(new)
  BY <1>1 DEF Ahead
<1>3. ASSUME NEW x, NEW y, NEW xOwed, NEW yOwed, Whole(b, x, xOwed), Whole(b, y, yOwed),
             Known(x), Known(y)
      PROVE  Ahead(x, y) <=> \/ x.lo = y.lo /\ x.hi = y.hi /\ x.last = y.last
                             \/ x.lo > y.hi
  BY <1>3, StampOfRow, NewerMeansAfter DEF Ahead
<1>4. /\ new.lo \in Int /\ new.hi \in Int /\ mid.lo \in Int /\ mid.hi \in Int
      /\ old.lo \in Int /\ old.hi \in Int /\ mid.lo =< mid.hi /\ new.lo =< new.hi
  BY <1>1, <1>2, StampOfRow DEF Stamp, Instant
<1>. QED
  BY <1>1, <1>2, <1>3, <1>4

\* A row that goes ahead stays up to date with what was decided before.
LEMMA AheadKeepsUpToDate ==
    ASSUME NEW b, NEW new, NEW old, NEW newOwed, NEW oldOwed, NEW log,
           Whole(b, new, newOwed), Whole(b, old, oldOwed), Ahead(new, old),
           UpToDate(b, old, log), Readable(log), \A d \in log : d.message \in Messages
    PROVE  UpToDate(b, new, log)
<1>1. SUFFICES ASSUME NEW d \in log, d.outcome \notin {"quarantined", "repeat_of_event"},
                      RefOf(d.message) = b
               PROVE  /\ Known(new)
                      /\ Compare(Message(d.message).updated, StoredInstant(new)) # "newer"
  BY DEF UpToDate
<1>. DEFINE stamp == Message(d.message).updated
<1>2. /\ Known(old) /\ Known(new)
      /\ Compare(stamp, StoredInstant(old)) # "newer"
  BY <1>1 DEF UpToDate, Ahead
<1>3. Stamp(stamp)
  BY <1>1, MessageFacts DEF Readable
<1>4. Stamp(StoredInstant(old)) /\ Stamp(StoredInstant(new))
  BY <1>2, StampOfRow
<1>. HIDE DEF stamp
<1>5. CASE \A c \in {"lo", "hi", "last"} : new[c] = old[c]
  BY <1>2, <1>5 DEF StoredInstant, stamp
<1>6. CASE Compare(StoredInstant(new), StoredInstant(old)) = "newer"
  <2>1. StoredInstant(new).lo > StoredInstant(old).hi
    BY <1>4, <1>6, NewerMeansAfter
  <2>2. ~(stamp.lo > StoredInstant(old).hi)
    BY <1>2, <1>3, <1>4, NewerMeansAfter
  <2>3. ~(stamp.lo > StoredInstant(new).hi)
    BY <1>3, <1>4, <2>1, <2>2 DEF Stamp, Instant
  <2>. QED
    BY <1>2, <1>3, <1>4, <2>3, NewerMeansAfter DEF stamp
<1>. QED
  BY <1>2, <1>5, <1>6 DEF Ahead

-----------------------------------------------------------------------------
Columns == {"status", "amount", "periods", "lo", "hi", "fingerprint", "last"}

\* A row put together column by column.
LEMMA RowFromColumns ==
    ASSUME NEW row, row = [c \in Columns \cup {"undecided"} |-> row[c]],
           row["status"] \in Status, row["amount"] \in Amounts \cup {0},
           row["periods"] \in Windows \cup {{}}, row["lo"] \in Int, row["hi"] \in Int,
           row["fingerprint"] \in Fingerprint, row["last"] \in Messages \cup {NoMessage},
           row["undecided"] \in Reasons
    PROVE  row \in BookingRow
  BY DEF Columns, BookingRow

\* The columns a message fills in.
LEMMA MessageColumns ==
    ASSUME NEW m \in Messages, ~Refused(Message(m))
    PROVE  LET values == BookingValues(Message(m), m) IN
           /\ DOMAIN values = Columns
           /\ values.status \in Status \ {"unknown"} /\ values.amount \in Amounts
           /\ values.periods \in Windows
           /\ values.lo \in Int /\ values.hi \in Int /\ values.lo =< values.hi
           /\ values.lo = Message(m).updated.lo /\ values.hi = Message(m).updated.hi
           /\ values.fingerprint \in Fingerprint
           /\ values.fingerprint = CanonicalFingerprint(Message(m))
           /\ values.last = m
<1>1. CanonicalFingerprint(Message(m)) \in Fingerprint
  BY MessageFacts DEF CanonicalFingerprint, Fingerprint
<1>. QED
  BY <1>1, MessageFacts DEF BookingValues, Columns, Stamp, Instant

\* A flush of a whole message writes the whole message: over the row it was
\* compared with, or over a row that had nothing.
LEMMA FlushWritesTheMessage ==
    ASSUME NEW row \in BookingRow, NEW object, NEW m \in Messages, ~Refused(Message(m)),
           object = row \/ (object = NoRow /\ ~Known(row) /\ Fresh(row))
    PROVE  LET values == BookingValues(Message(m), m)
               new == Flush(row, object, values)
           IN  /\ new \in BookingRow
               /\ \A c \in DOMAIN values : new[c] = values[c]
               /\ Known(new)
<1>. DEFINE values == BookingValues(Message(m), m)
            new == Flush(row, object, values)
<1>1. DOMAIN values = Columns
  BY MessageColumns
<1>2. DOMAIN row = Columns \cup {"undecided"}
  BY DEF BookingRow, Columns
<1>3. new = [c \in Columns \cup {"undecided"} |->
                IF c \in Columns /\ values[c] # object[c] THEN values[c] ELSE row[c]]
  BY <1>1, <1>2 DEF Flush
<1>4. \A c \in Columns : object[c] = row[c]
  BY DEF Fresh, Columns
<1>. HIDE DEF values, new
<1>5. /\ \A c \in Columns : new[c] = values[c]
      /\ new["undecided"] = row["undecided"]
      /\ new = [c \in Columns \cup {"undecided"} |-> new[c]]
  BY <1>3, <1>4 DEF Columns
<1>6. /\ values["status"] \in Status \ {"unknown"} /\ values["amount"] \in Amounts
      /\ values["periods"] \in Windows /\ values["lo"] \in Int /\ values["hi"] \in Int
      /\ values["fingerprint"] \in Fingerprint /\ values["last"] = m
  BY MessageColumns DEF values
<1>7. row["undecided"] \in Reasons
  BY DEF BookingRow
<1>8. new \in BookingRow
  BY <1>5, <1>6, <1>7, RowFromColumns DEF Columns
<1>9. Known(new)
  BY <1>5, <1>6 DEF Known, Columns
<1>. QED
  BY <1>1, <1>5, <1>8, <1>9 DEF values, new

\* A flush of a hold writes the hold and nothing else.
LEMMA FlushWritesTheHold ==
    ASSUME NEW row \in BookingRow, NEW reason \in Reasons
    PROVE  Flush(row, row, [undecided |-> reason]) = [row EXCEPT !.undecided = reason]
  BY DEF Flush, BookingRow

\* What a hold leaves alone.
LEMMA HoldingKeepsTheMessage ==
    ASSUME NEW b, NEW row \in BookingRow, NEW reason \in Reasons
    PROVE  LET new == [row EXCEPT !.undecided = reason] IN
           /\ new \in BookingRow
           /\ \A owed : Whole(b, row, owed) => Whole(b, new, owed)
           /\ Fresh(row) => Fresh(new)
           /\ Ahead(new, row)
           /\ \A old : Ahead(row, old) => Ahead(new, old)
           /\ \A log : UpToDate(b, row, log) => UpToDate(b, new, log)
           /\ Known(new) <=> Known(row)
           /\ StoredInstant(new) = StoredInstant(row)
<1>. DEFINE new == [row EXCEPT !.undecided = reason]
<1>1. /\ new \in BookingRow
      /\ \A c \in Columns : new[c] = row[c]
  BY DEF BookingRow, Columns
<1>. HIDE DEF new
<1>2. /\ new.status = row.status /\ new.lo = row.lo /\ new.hi = row.hi
      /\ new.last = row.last /\ new.periods = row.periods
  BY <1>1 DEF Columns
<1>3. (Known(new) <=> Known(row)) /\ StoredInstant(new) = StoredInstant(row)
  BY <1>2 DEF Known, StoredInstant
<1>4. \A c \in {"lo", "hi", "last"} : new[c] = row[c]
  BY <1>1 DEF Columns
<1>5. ASSUME NEW owed, Whole(b, row, owed) PROVE Whole(b, new, owed)
  <2>1. SUFFICES ASSUME Known(new) PROVE Whole(b, new, owed)
    BY DEF Whole
  <2>2. ~Refused(Message(row.last)) /\ row.last \in Messages
    BY <1>3, <1>5, <2>1 DEF Whole
  <2>3. DOMAIN BookingValues(Message(row.last), row.last) = Columns
    BY <2>2, MessageColumns
  <2>. QED
    BY <1>1, <1>2, <1>3, <1>5, <2>1, <2>3 DEF Whole
<1>6. Fresh(row) => Fresh(new)
  BY <1>1, <1>3 DEF Fresh, Columns
<1>7. Ahead(new, row)
  BY <1>3, <1>4 DEF Ahead
<1>8. \A old : Ahead(row, old) => Ahead(new, old)
  BY <1>3, <1>4 DEF Ahead
<1>9. \A log : UpToDate(b, row, log) => UpToDate(b, new, log)
  BY <1>3 DEF UpToDate
<1>. QED
  BY <1>1, <1>3, <1>5, <1>6, <1>7, <1>8, <1>9 DEF new

\* The obligation that follows from a message is the one its row is owed.
LEMMA ReconciledIsWhole ==
    ASSUME NEW b, NEW m \in Messages, ~Refused(Message(m)), Message(m).ref = b,
           NEW row, NEW owed \in EntitlementRow,
           \A c \in DOMAIN BookingValues(Message(m), m) :
               row[c] = BookingValues(Message(m), m)[c]
    PROVE  LET after == ReconcileEntitlement(owed, BookingValues(Message(m), m)) IN
           Whole(b, row, after) /\ after \in EntitlementRow
<1>. DEFINE values == BookingValues(Message(m), m)
            after == ReconcileEntitlement(owed, values)
<1>1. /\ DOMAIN values = Columns /\ values.last = m
      /\ values.status \in Status \ {"unknown"} /\ values.periods \in Windows
  BY MessageColumns
<1>2. row.last = m /\ row.status = values.status /\ row.periods = values.periods
  BY <1>1 DEF Columns
<1>. HIDE DEF values
<1>3. /\ after.state = "active" => values.status # "cancelled" /\ after.periods = values.periods
      /\ after.state = "none" => values.status = "cancelled"
      /\ after \in EntitlementRow
  BY <1>1 DEF ReconcileEntitlement, EntitlementRow
<1>. QED
  BY <1>1, <1>2, <1>3 DEF Whole, values

-----------------------------------------------------------------------------
\* Writing a row changes these parts of a transaction.
LEMMA WriteFields ==
    ASSUME NEW t \in Transaction, NEW w \in Workers, NEW b \in Bookings,
           NEW row \in BookingRow, Owed(w, b) \in EntitlementRow
    PROVE  LET n == Write(t, w, b, row) IN
           /\ n \in Transaction
           /\ n.locks = t.locks \cup {b}
           /\ n.rows = [t.rows EXCEPT ![b] = row]
           /\ n.owed = [t.owed EXCEPT ![b] = Owed(w, b)]
           /\ n.at = t.at /\ n.todo = t.todo /\ n.id = t.id /\ n.asked = t.asked
           /\ n.object = t.object /\ n.seen = t.seen /\ n.claims = t.claims
           /\ n.log = t.log /\ n.closed = t.closed
  BY DEF Write, Transaction

\* Deciding a message changes these.
LEMMA DecidedFields ==
    ASSUME NEW t \in Transaction, NEW m \in Messages, NEW outcome \in Outcomes, t.todo # <<>>
    PROVE  LET n == Decided(t, m, outcome) IN
           /\ n \in Transaction
           /\ n.at = "next" /\ n.todo = Tail(t.todo)
           /\ n.asked = t.asked /\ n.object = t.object
           /\ n.locks = t.locks /\ n.rows = t.rows /\ n.owed = t.owed
           /\ \E d : /\ n.log = t.log \cup {d}
                     /\ d.message = m /\ d.outcome = outcome
<1>. DEFINE d == [id |-> t.id, message |-> m, outcome |-> outcome,
                  channel |-> IF t.asked = Blank THEN "partner" ELSE "replay"]
            n == Decided(t, m, outcome)
<1>1. d \in Delivery /\ d.message = m /\ d.outcome = outcome
  BY DEF Delivery, Transaction
<1>. HIDE DEF d
<1>2. n = [t EXCEPT !.at = "next", !.todo = Tail(@), !.id = @ + 1, !.log = @ \cup {d}]
  BY DEF Decided, d
<1>3. Tail(t.todo) \in Seq(Messages) /\ t.id + 1 \in Nat /\ t.log \cup {d} \in SUBSET Delivery
  BY <1>1 DEF Transaction
<1>4. /\ n.at = "next" /\ n.todo = Tail(t.todo)
      /\ n.asked = t.asked /\ n.object = t.object
      /\ n.locks = t.locks /\ n.rows = t.rows /\ n.owed = t.owed
      /\ n.log = t.log \cup {d}
  BY <1>2 DEF Transaction
<1>5. n \in Transaction
  BY <1>2, <1>3 DEF Transaction
<1>. QED
  BY <1>1, <1>4, <1>5

\* The row a worker reads is whole, and not behind what is committed.
LEMMA RowRead ==
    ASSUME IInv, NEW w \in Workers, NEW b \in Bookings
    PROVE  /\ Row(w, b) \in BookingRow /\ Owed(w, b) \in EntitlementRow
           /\ Whole(b, Row(w, b), Owed(w, b))
           /\ Fresh(Row(w, b))
           /\ Ahead(Row(w, b), booking[b])
           /\ Whole(b, booking[b], entitlement[b])
           /\ UpToDate(b, Row(w, b), tx[w].log)
<1>1. /\ booking[b] \in BookingRow /\ entitlement[b] \in EntitlementRow
      /\ tx[w].rows[b] \in BookingRow /\ tx[w].owed[b] \in EntitlementRow
  BY DEF IInv, TypeOK, Transaction
<1>2. Whole(b, booking[b], entitlement[b]) /\ Fresh(booking[b])
  BY DEF IInv, TablesSound
<1>3. Ahead(booking[b], booking[b])
  BY DEF Ahead
<1>4. CASE b \in tx[w].locks
  BY <1>1, <1>2, <1>4 DEF IInv, Sound, Row, Owed
<1>5. CASE b \notin tx[w].locks
  <2>1. UpToDate(b, NoRow, tx[w].log)
    BY <1>5 DEF IInv, Sound
  <2>2. UpToDate(b, booking[b], tx[w].log)
    BY <2>1 DEF UpToDate, Known, NoRow
  <2>. QED
    BY <1>1, <1>2, <1>3, <1>5, <2>2 DEF Row, Owed
<1>. QED
  BY <1>4, <1>5

\* A step of one worker that commits nothing keeps the invariant if what the
\* worker has written is sound and locked by nobody else.
LEMMA StepKeeps ==
    ASSUME IInv, NEW w \in Workers, NEW t, Step(w, t), Placed(t), Sound(t),
           \A b \in t.locks : b \in tx[w].locks \/ RowIsFree(w, b)
    PROVE  IInv'
<1>1. /\ tx' = [tx EXCEPT ![w] = t] /\ tx \in [Workers -> Transaction]
      /\ tx'[w] = t /\ \A v \in Workers \ {w} : tx'[v] = tx[v]
      /\ UNCHANGED <<booking, entitlement, deliveries, processed, answered, received>>
  BY DEF Step, IInv, TypeOK
<1>2. TypeOK'
  BY <1>1 DEF IInv, TypeOK, Placed
<1>3. TablesSound'
  BY <1>1 DEF IInv, TablesSound
<1>4. OneWriter'
  <2>1. \A v \in Workers \ {w} : tx[v].locks \cap t.locks = {}
    BY DEF RowIsFree, IInv, OneWriter
  <2>. QED
    BY <1>1, <2>1 DEF IInv, OneWriter
<1>5. \A v \in Workers : (Placed(tx[v]) /\ Sound(tx[v]))'
  <2>1. \A x : Sound(x) => Sound(x)'
    BY <1>1 DEF Sound
  <2>. QED
    BY <1>1, <2>1 DEF IInv, Placed
<1>. QED
  BY <1>2, <1>3, <1>4, <1>5 DEF IInv

\* What a worker writes under the lock is sound if it is whole, not behind the
\* row it read, and up to date with the message it has decided.
LEMMA LockedWriteIsSound ==
    ASSUME IInv, NEW w \in Workers, NEW b \in Bookings, NEW row, NEW owed, NEW n,
           n.locks = tx[w].locks \cup {b},
           n.rows = [tx[w].rows EXCEPT ![b] = row],
           n.owed = [tx[w].owed EXCEPT ![b] = owed],
           Whole(b, row, owed), Fresh(row), Ahead(row, Row(w, b)),
           \/ n.log = tx[w].log
           \/ \E d : /\ n.log = tx[w].log \cup {d}
                     /\ d.outcome \notin {"quarantined", "repeat_of_event"} =>
                           /\ ~Refused(Message(d.message))
                           /\ RefOf(d.message) = b
                           /\ Known(row)
                           /\ Compare(Message(d.message).updated, StoredInstant(row)) # "newer"
    PROVE  Sound(n)
<1>1. /\ tx[w].rows \in [Bookings -> BookingRow] /\ tx[w].owed \in [Bookings -> EntitlementRow]
      /\ tx[w].locks \subseteq Bookings /\ tx[w].log \subseteq Delivery
      /\ Sound(tx[w])
  BY DEF IInv, TypeOK, Transaction
<1>2. /\ n.rows[b] = row /\ n.owed[b] = owed
      /\ \A c \in Bookings \ {b} : n.rows[c] = tx[w].rows[c] /\ n.owed[c] = tx[w].owed[c]
      /\ b \in n.locks
      /\ \A c \in Bookings \ {b} : c \in n.locks <=> c \in tx[w].locks
  BY <1>1
<1>3. Ahead(row, booking[b])
  BY RowRead, AheadIsTransitive
<1>4. UpToDate(b, row, tx[w].log)
  BY <1>1, RowRead, AheadKeepsUpToDate DEF Sound, Delivery
<1>5. \A c \in n.locks : Whole(c, n.rows[c], n.owed[c]) /\ Fresh(n.rows[c])
                           /\ Ahead(n.rows[c], booking[c])
  BY <1>1, <1>2, <1>3 DEF Sound
<1>6. Readable(n.log)
  BY <1>1 DEF Sound, Readable
<1>7. UpToDate(b, row, n.log)
  BY <1>4 DEF UpToDate
<1>8. ASSUME NEW c \in Bookings \ {b}
      PROVE  UpToDate(c, IF c \in n.locks THEN n.rows[c] ELSE NoRow, n.log)
  <2>1. UpToDate(c, IF c \in n.locks THEN n.rows[c] ELSE NoRow, tx[w].log)
    BY <1>1, <1>2 DEF Sound
  <2>. HIDE DEF NoRow
  <2>. QED
    BY <2>1 DEF UpToDate
<1>. QED
  BY <1>2, <1>5, <1>6, <1>7, <1>8 DEF Sound

-----------------------------------------------------------------------------
\* The message a worker is at, while it has one.
LEMMA CurrentMessage ==
    ASSUME IInv, NEW w \in Workers, tx[w].todo # <<>>
    PROVE  /\ Current(w) \in Messages
           /\ tx[w].asked = Blank
           /\ tx[w] \in Transaction
           /\ Placed(tx[w]) /\ Sound(tx[w])
           /\ \A b \in Bookings : \A row : SessionObject(tx[w], b, row) = row
<1>1. Placed(tx[w]) /\ Sound(tx[w])
  BY DEF IInv
<1>2. tx[w] \in Transaction /\ tx[w].asked = Blank /\ tx[w].todo \in Seq(Messages)
  BY <1>1 DEF Placed, Transaction
<1>3. Head(tx[w].todo) \in Messages
  BY <1>2
<1>. QED
  BY <1>1, <1>2, <1>3, AdapterAssumption DEF Current, SessionObject

\* A transaction that logs one more message and writes nothing stays sound, if
\* the message was not decided.
LEMMA LoggedIsSound ==
    ASSUME NEW t, NEW n, Sound(t), n.locks = t.locks, n.rows = t.rows, n.owed = t.owed,
           \/ n.log = t.log
           \/ \E d : /\ n.log = t.log \cup {d}
                     /\ d.outcome \in {"quarantined", "repeat_of_event"}
    PROVE  Sound(n)
<1>1. \A b, row : UpToDate(b, row, t.log) => UpToDate(b, row, n.log)
  BY DEF UpToDate
<1>2. Readable(n.log)
  BY DEF Sound, Readable
<1>. HIDE DEF NoRow
<1>. QED
  BY <1>1, <1>2 DEF Sound

\* A message that is done with leaves a transaction that can take the next.
LEMMA DecidedIsPlaced ==
    ASSUME NEW t \in Transaction, NEW m \in Messages, NEW outcome \in Outcomes,
           t.todo # <<>>, t.asked = Blank
    PROVE  Placed(Decided(t, m, outcome))
  BY DecidedFields DEF Placed

LEMMA RefuseKeeps ==
    ASSUME IInv, NEW w \in Workers, Refuse(w)
    PROVE  IInv'
<1>. DEFINE t == tx[w]
            m == Current(w)
            known == SessionObject(t, Message(m).ref, Row(w, Message(m).ref))
            marking == [t EXCEPT !.at = "mark", !.object = known]
            filed == Decided(t, m, "quarantined")
<1>1. t.todo # <<>> /\ Refused(Message(m)) /\ t.at = "next"
  BY DEF Refuse
<1>2. /\ m \in Messages /\ t.asked = Blank /\ t \in Transaction /\ Sound(t)
      /\ \A b \in Bookings : \A row : SessionObject(t, b, row) = row
  BY <1>1, CurrentMessage
<1>3. Message(m).ref \in Bookings \cup {Blank}
  BY <1>1, <1>2, MessageFacts
<1>4. CASE Message(m).ref # Blank /\ Step(w, marking)
  <2>1. Message(m).ref \in Bookings /\ known \in BookingRow
    BY <1>2, <1>3, <1>4, RowRead
  <2>. HIDE DEF known
  <2>2. /\ marking \in Transaction /\ marking.at = "mark" /\ marking.todo = t.todo
        /\ marking.asked = Blank /\ marking.log = t.log
        /\ marking.locks = t.locks /\ marking.rows = t.rows /\ marking.owed = t.owed
    BY <1>2, <2>1 DEF Transaction
  <2>. HIDE DEF marking
  <2>3. Placed(marking)
    BY <1>1, <2>1, <2>2 DEF Placed, Current
  <2>4. Sound(marking)
    BY <1>2, <2>2, LoggedIsSound
  <2>. QED
    BY <1>4, <2>2, <2>3, <2>4, StepKeeps
<1>5. CASE Step(w, filed)
  <2>1. "quarantined" \in Outcomes
    BY DEF Outcomes, Questions
  <2>2. Placed(filed) /\ filed.locks = t.locks
    BY <1>1, <1>2, <2>1, DecidedIsPlaced, DecidedFields
  <2>3. Sound(filed)
    BY <1>1, <1>2, <2>1, DecidedFields, LoggedIsSound
  <2>. QED
    BY <1>5, <2>2, <2>3, StepKeeps
<1>. QED
  BY <1>4, <1>5 DEF Refuse

LEMMA RepeatKeeps ==
    ASSUME IInv, NEW w \in Workers, RepeatOfEvent(w)
    PROVE  IInv'
<1>. DEFINE t == tx[w]
            repeat == Decided(t, Current(w), "repeat_of_event")
<1>1. t.todo # <<>> /\ Step(w, repeat)
  BY DEF RepeatOfEvent
<1>2. Current(w) \in Messages /\ t.asked = Blank /\ t \in Transaction /\ Sound(t)
  BY <1>1, CurrentMessage
<1>3. "repeat_of_event" \in Outcomes
  BY DEF Outcomes
<1>4. Placed(repeat) /\ repeat.locks = t.locks
  BY <1>1, <1>2, <1>3, DecidedIsPlaced, DecidedFields
<1>5. Sound(repeat)
  BY <1>1, <1>2, <1>3, DecidedFields, LoggedIsSound
<1>. QED
  BY <1>1, <1>4, <1>5, StepKeeps

LEMMA ClaimKeeps ==
    ASSUME IInv, NEW w \in Workers, ClaimEvent(w)
    PROVE  IInv'
<1>. DEFINE t == tx[w]
            event == Message(Current(w)).event
            claiming == InsertEvent(t, event)
<1>1. t.todo # <<>> /\ ~Refused(Message(Current(w))) /\ event # NoEvent /\ Step(w, claiming)
  BY DEF ClaimEvent
<1>2. Current(w) \in Messages /\ t.asked = Blank /\ t \in Transaction /\ Sound(t)
  BY <1>1, CurrentMessage
<1>3. event \in Events
  BY <1>1, <1>2, MessageFacts
<1>. HIDE DEF event
<1>4. /\ claiming \in Transaction /\ claiming.at = "decide" /\ claiming.todo = t.todo
      /\ claiming.asked = Blank /\ claiming.log = t.log
      /\ claiming.locks = t.locks /\ claiming.rows = t.rows /\ claiming.owed = t.owed
  BY <1>2, <1>3 DEF InsertEvent, Transaction
<1>. HIDE DEF claiming
<1>5. Placed(claiming) /\ Sound(claiming)
  BY <1>1, <1>2, <1>4, LoggedIsSound DEF Placed, Current
<1>. QED
  BY <1>1, <1>4, <1>5, StepKeeps

LEMMA MarkKeeps ==
    ASSUME IInv, NEW w \in Workers, Mark(w)
    PROVE  IInv'
<1>. DEFINE t == tx[w]
            m == Current(w)
            b == Message(m).ref
            row == [Row(w, b) EXCEPT !.undecided = Message(m).kind]
            written == Write(t, w, b, row)
            object == IF t.asked = b THEN [t.object EXCEPT !.undecided = Message(m).kind]
                                     ELSE NoRow
            marked == [written EXCEPT !.object = object]
            filed == Decided(marked, m, "quarantined")
<1>1. t.at = "mark" /\ RowIsFree(w, b) /\ Step(w, filed)
  BY DEF Mark, FlushHold
<1>2. t.todo # <<>> /\ Refused(Message(m)) /\ b \in Bookings
  BY <1>1 DEF IInv, Placed, Current
<1>3. m \in Messages /\ t.asked = Blank /\ t \in Transaction
  BY <1>2, CurrentMessage
<1>4. Message(m).kind \in Reasons
  BY <1>2, <1>3, MessageFacts
<1>. HIDE DEF b
<1>5. /\ row \in BookingRow
      /\ Whole(b, row, Owed(w, b)) /\ Fresh(row) /\ Ahead(row, Row(w, b))
      /\ Owed(w, b) \in EntitlementRow
  <2>1. /\ Row(w, b) \in BookingRow /\ Owed(w, b) \in EntitlementRow
        /\ Whole(b, Row(w, b), Owed(w, b)) /\ Fresh(Row(w, b))
    BY <1>2, RowRead
  <2>. QED
    BY <1>4, <2>1, HoldingKeepsTheMessage
<1>6. object = NoRow /\ NoRow \in BookingRow
  BY <1>2, <1>3, AdapterAssumption, IntakeAssumption
     DEF NoRow, BookingRow, Status, Reasons, Fingerprint, NoFingerprint
<1>. HIDE DEF row, object
<1>7. /\ written \in Transaction /\ written.locks = t.locks \cup {b}
      /\ written.rows = [t.rows EXCEPT ![b] = row]
      /\ written.owed = [t.owed EXCEPT ![b] = Owed(w, b)]
      /\ written.todo = t.todo /\ written.asked = t.asked /\ written.log = t.log
  <2>. HIDE DEF t
  <2>1. /\ t \in Transaction /\ b \in Bookings /\ row \in BookingRow
        /\ Owed(w, b) \in EntitlementRow
    BY <1>2, <1>3, <1>5
  <2>. QED
    BY <2>1, WriteFields
<1>. HIDE DEF written
<1>8. /\ marked \in Transaction /\ marked.locks = t.locks \cup {b}
      /\ marked.rows = [t.rows EXCEPT ![b] = row]
      /\ marked.owed = [t.owed EXCEPT ![b] = Owed(w, b)]
      /\ marked.todo = t.todo /\ marked.asked = t.asked /\ marked.log = t.log
  BY <1>6, <1>7 DEF Transaction
<1>. HIDE DEF marked
<1>9. "quarantined" \in Outcomes
  BY DEF Outcomes, Questions
<1>10. Placed(filed)
  BY <1>2, <1>3, <1>8, <1>9, DecidedIsPlaced
<1>11. /\ filed.locks = t.locks \cup {b}
       /\ filed.rows = [t.rows EXCEPT ![b] = row]
       /\ filed.owed = [t.owed EXCEPT ![b] = Owed(w, b)]
       /\ \E d : filed.log = t.log \cup {d} /\ d.outcome = "quarantined"
  BY <1>2, <1>3, <1>8, <1>9, DecidedFields
<1>. HIDE DEF filed
<1>12. Sound(filed)
  BY <1>2, <1>5, <1>11, LockedWriteIsSound
<1>13. \A c \in filed.locks : c \in t.locks \/ RowIsFree(w, c)
  BY <1>1, <1>11
<1>. QED
  BY <1>1, <1>10, <1>12, <1>13, StepKeeps DEF filed, b

\* A message is decided and the row of its booking written: what becomes of the
\* transaction, before the obligation or the session's object is set.
LEMMA DecidedWriteFields ==
    ASSUME IInv, NEW w \in Workers, tx[w].todo # <<>>, NEW b \in Bookings,
           NEW row \in BookingRow, NEW outcome \in Outcomes
    PROVE  LET t == tx[w]
               n == Decided(Write(t, w, b, row), Current(w), outcome)
           IN  /\ n \in Transaction
               /\ n.at = "next" /\ n.asked = Blank
               /\ n.locks = t.locks \cup {b}
               /\ n.rows = [t.rows EXCEPT ![b] = row]
               /\ n.owed = [t.owed EXCEPT ![b] = Owed(w, b)]
               /\ \E d : /\ n.log = t.log \cup {d}
                         /\ d.message = Current(w) /\ d.outcome = outcome
<1>. DEFINE t == tx[w]
            m == Current(w)
            written == Write(t, w, b, row)
            n == Decided(written, m, outcome)
<1>1. m \in Messages /\ t.asked = Blank /\ t \in Transaction
  BY CurrentMessage
<1>2. Owed(w, b) \in EntitlementRow
  BY RowRead
<1>3. /\ written \in Transaction /\ written.locks = t.locks \cup {b}
      /\ written.rows = [t.rows EXCEPT ![b] = row]
      /\ written.owed = [t.owed EXCEPT ![b] = Owed(w, b)]
      /\ written.todo = t.todo /\ written.asked = t.asked /\ written.log = t.log
  <2>. HIDE DEF t
  <2>. QED
    BY <1>1, <1>2, WriteFields
<1>. HIDE DEF written, m
<1>4. /\ n \in Transaction
      /\ n.at = "next" /\ n.todo = Tail(written.todo)
      /\ n.asked = written.asked /\ n.object = written.object
      /\ n.locks = written.locks /\ n.rows = written.rows /\ n.owed = written.owed
      /\ \E d : n.log = written.log \cup {d} /\ d.message = m /\ d.outcome = outcome
  BY <1>1, <1>3, DecidedFields
<1>. QED
  BY <1>1, <1>3, <1>4 DEF written, m

\* The decision of a message, whatever it is, keeps the invariant if the row
\* that is left is the message's, or one the message is not newer than.
LEMMA DecisionKeeps ==
    ASSUME IInv, NEW w \in Workers, tx[w].todo # <<>>,
           NEW b \in Bookings, RowIsFree(w, b),
           ~Refused(Message(Current(w))), RefOf(Current(w)) = b,
           NEW row, NEW owed, NEW n,
           Whole(b, row, owed), Known(row), Ahead(row, Row(w, b)),
           Compare(Message(Current(w)).updated, StoredInstant(row)) # "newer",
           n \in Transaction, n.at = "next", n.asked = Blank,
           n.locks = tx[w].locks \cup {b},
           n.rows = [tx[w].rows EXCEPT ![b] = row],
           n.owed = [tx[w].owed EXCEPT ![b] = owed],
           \E d : n.log = tx[w].log \cup {d} /\ d.message = Current(w),
           Step(w, n)
    PROVE  IInv'
<1>1. Placed(n)
  BY DEF Placed
<1>2. Fresh(row)
  BY DEF Fresh
<1>3. Sound(n)
  BY <1>2, LockedWriteIsSound
<1>4. \A c \in n.locks : c \in tx[w].locks \/ RowIsFree(w, c)
  OBVIOUS
<1>. QED
  BY <1>1, <1>3, <1>4, StepKeeps

\* Applying a message that is the first of its booking, or provably newer.
LEMMA ApplyKeeps ==
    ASSUME IInv, NEW w \in Workers, tx[w].todo # <<>>,
           NEW b \in Bookings, RowIsFree(w, b),
           ~Refused(Message(Current(w))), RefOf(Current(w)) = b,
           NEW object,
           \/ ~Known(Row(w, b)) /\ object = NoRow
           \/ /\ object = Row(w, b) /\ Known(Row(w, b))
              /\ Compare(Message(Current(w)).updated, StoredInstant(Row(w, b))) = "newer",
           Step(w, Apply(tx[w], w, b, Row(w, b), object, Current(w)))
    PROVE  IInv'
<1>. DEFINE t == tx[w]
            m == Current(w)
            row == Row(w, b)
            values == BookingValues(Message(m), m)
            new == Flush(row, object, values)
            owed == ReconcileEntitlement(Owed(w, b), values)
            decided == Decided(Write(t, w, b, new), m, "applied")
            n == Apply(t, w, b, row, object, m)
<1>1. m \in Messages
  BY CurrentMessage
<1>2. /\ row \in BookingRow /\ Fresh(row) /\ Owed(w, b) \in EntitlementRow
      /\ Whole(b, row, Owed(w, b))
  BY RowRead
<1>3. new \in BookingRow /\ Known(new) /\ \A c \in DOMAIN values : new[c] = values[c]
  BY <1>1, <1>2, FlushWritesTheMessage
<1>4. Whole(b, new, owed) /\ owed \in EntitlementRow
  BY <1>1, <1>2, <1>3, ReconciledIsWhole DEF RefOf
<1>5. /\ DOMAIN values = Columns
      /\ values.lo = Message(m).updated.lo /\ values.hi = Message(m).updated.hi
      /\ values.lo \in Int /\ values.hi \in Int /\ values.lo =< values.hi
      /\ Stamp(Message(m).updated)
  BY <1>1, MessageColumns, MessageFacts
<1>. HIDE DEF values
<1>6. new.lo = values.lo /\ new.hi = values.hi
  BY <1>3, <1>5 DEF Columns
<1>. HIDE DEF new, row
<1>7. Compare(Message(m).updated, StoredInstant(new)) # "newer"
  BY <1>3, <1>4, <1>5, <1>6, StampOfRow, NewerMeansAfter
<1>8. Ahead(new, row)
  <2>1. CASE ~Known(row)
    BY <2>1 DEF Ahead
  <2>2. CASE Known(row)
    <3>1. Compare(Message(m).updated, StoredInstant(row)) = "newer"
      BY <2>2 DEF row
    <3>2. Compare(StoredInstant(new), StoredInstant(row)) = "newer"
      BY <1>2, <1>3, <1>4, <1>5, <1>6, <2>2, <3>1, StampOfRow, NewerMeansAfter
    <3>. QED
      BY <1>3, <3>2 DEF Ahead
  <2>. QED
    BY <2>1, <2>2
<1>9. "applied" \in Outcomes
  BY DEF Outcomes
<1>10. /\ decided \in Transaction /\ decided.at = "next" /\ decided.asked = Blank
       /\ decided.locks = t.locks \cup {b}
       /\ decided.rows = [t.rows EXCEPT ![b] = new]
       /\ decided.owed = [t.owed EXCEPT ![b] = Owed(w, b)]
       /\ \E d : decided.log = t.log \cup {d} /\ d.message = m
  BY <1>3, <1>9, DecidedWriteFields
<1>11. n = [decided EXCEPT !.owed[b] = owed]
  BY DEF Apply, new, row, values
<1>. HIDE DEF decided, n, owed
<1>12. /\ n \in Transaction /\ n.at = "next" /\ n.asked = Blank
       /\ n.locks = t.locks \cup {b}
       /\ n.rows = [t.rows EXCEPT ![b] = new]
       /\ n.owed = [t.owed EXCEPT ![b] = owed]
       /\ \E d : n.log = t.log \cup {d} /\ d.message = m
  <2>1. /\ n.log = decided.log /\ n.at = decided.at /\ n.asked = decided.asked
        /\ n.locks = decided.locks /\ n.rows = decided.rows
        /\ n.owed = [decided.owed EXCEPT ![b] = owed]
        /\ n \in Transaction
    BY <1>4, <1>10, <1>11 DEF Transaction
  <2>2. [decided.owed EXCEPT ![b] = owed] = [t.owed EXCEPT ![b] = owed]
    BY <1>10
  <2>. QED
    BY <1>10, <2>1, <2>2
<1>. QED
  BY <1>3, <1>4, <1>7, <1>8, <1>12, DecisionKeeps DEF n, row

\* Holding a booking, or leaving it, after a message that is not newer.
LEMMA HoldKeeps ==
    ASSUME IInv, NEW w \in Workers, tx[w].todo # <<>>,
           NEW b \in Bookings, RowIsFree(w, b),
           ~Refused(Message(Current(w))), RefOf(Current(w)) = b,
           Known(Row(w, b)),
           Compare(Message(Current(w)).updated, StoredInstant(Row(w, b))) # "newer",
           NEW reason \in Reasons, NEW outcome \in Outcomes,
           Step(w, Hold(tx[w], w, b, Row(w, b), Row(w, b), Current(w), reason, outcome))
    PROVE  IInv'
<1>. DEFINE t == tx[w]
            m == Current(w)
            row == Row(w, b)
            new == [row EXCEPT !.undecided = reason]
            decided == Decided(Write(t, w, b, new), m, outcome)
            n == Hold(t, w, b, row, row, m, reason, outcome)
<1>1. t.asked # b
  BY CurrentMessage, AdapterAssumption
<1>2. /\ row \in BookingRow /\ Owed(w, b) \in EntitlementRow
      /\ Whole(b, row, Owed(w, b))
  BY RowRead
<1>. HIDE DEF row
<1>3. /\ new \in BookingRow /\ Whole(b, new, Owed(w, b)) /\ Ahead(new, row)
      /\ Known(new) /\ StoredInstant(new) = StoredInstant(row)
  BY <1>2, HoldingKeepsTheMessage DEF row
<1>4. n = [decided EXCEPT !.object = NoRow]
  BY <1>1, <1>2, FlushWritesTheHold DEF Hold
<1>. HIDE DEF new
<1>5. /\ decided \in Transaction /\ decided.at = "next" /\ decided.asked = Blank
      /\ decided.locks = t.locks \cup {b}
      /\ decided.rows = [t.rows EXCEPT ![b] = new]
      /\ decided.owed = [t.owed EXCEPT ![b] = Owed(w, b)]
      /\ \E d : decided.log = t.log \cup {d} /\ d.message = m
  BY <1>3, DecidedWriteFields
<1>6. NoRow \in BookingRow
  BY DEF NoRow, BookingRow, Status, Reasons, Fingerprint, NoFingerprint
<1>. HIDE DEF decided, n
<1>7. /\ n \in Transaction /\ n.at = "next" /\ n.asked = Blank
      /\ n.locks = t.locks \cup {b}
      /\ n.rows = [t.rows EXCEPT ![b] = new]
      /\ n.owed = [t.owed EXCEPT ![b] = Owed(w, b)]
      /\ \E d : n.log = t.log \cup {d} /\ d.message = m
  BY <1>4, <1>5, <1>6 DEF Transaction
<1>. QED
  BY <1>3, <1>7, DecisionKeeps DEF n, row

LEMMA LockKeeps ==
    ASSUME IInv, NEW w \in Workers, tx[w].todo # <<>>,
           NEW b \in Bookings, RowIsFree(w, b),
           ~Refused(Message(Current(w))), RefOf(Current(w)) = b,
           Known(Row(w, b)),
           Compare(Message(Current(w)).updated, StoredInstant(Row(w, b))) # "newer",
           NEW outcome \in Outcomes,
           Step(w, Lock(tx[w], w, b, Row(w, b), Current(w), outcome))
    PROVE  IInv'
<1>. DEFINE row == Row(w, b)
            n == Lock(tx[w], w, b, row, Current(w), outcome)
<1>1. /\ row \in BookingRow /\ Whole(b, row, Owed(w, b)) /\ Ahead(row, row)
  BY RowRead DEF Ahead
<1>. HIDE DEF row
<1>2. /\ n \in Transaction /\ n.at = "next" /\ n.asked = Blank
      /\ n.locks = tx[w].locks \cup {b}
      /\ n.rows = [tx[w].rows EXCEPT ![b] = row]
      /\ n.owed = [tx[w].owed EXCEPT ![b] = Owed(w, b)]
      /\ \E d : n.log = tx[w].log \cup {d} /\ d.message = Current(w)
  BY <1>1, DecidedWriteFields DEF Lock
<1>. QED
  BY <1>1, <1>2, DecisionKeeps DEF row

LEMMA DecideKeeps ==
    ASSUME IInv, NEW w \in Workers, Decide(w)
    PROVE  IInv'
<1>. DEFINE t == tx[w]
            m == Current(w)
            b == Message(m).ref
            row == Row(w, b)
            order == Compare(Message(m).updated, StoredInstant(row))
            same == CanonicalFingerprint(Message(m)) = row.fingerprint
<1>1. /\ t.todo # <<>> /\ ~Refused(Message(m)) /\ RowIsFree(w, b)
      /\ Step(w, Judge(t, w, b, row, SessionObject(t, b, row), m))
  BY DEF Decide, IInv, Placed, Current
<1>2. m \in Messages
  BY <1>1, CurrentMessage
<1>3. b \in Bookings /\ RefOf(m) = b /\ Stamp(Message(m).updated)
  BY <1>1, <1>2, MessageFacts DEF RefOf
<1>4. Step(w, Judge(t, w, b, row, row, m))
  <2>1. SessionObject(t, b, row) = row
    BY <1>1, <1>3, CurrentMessage
  <2>. QED
    BY <1>1, <2>1
<1>5. /\ {"superseded", "duplicate", "order_not_provable", "conflict"} \subseteq Outcomes
      /\ {"order_not_provable", "conflicting_versions"} \subseteq Reasons
  BY DEF Outcomes, Questions, Reasons
<1>. HIDE DEF b
<1>6. CASE ~Known(row)
  <2>1. Judge(t, w, b, row, row, m) = Apply(t, w, b, row, NoRow, m)
    BY <1>6 DEF Judge
  <2>. QED
    BY <1>1, <1>3, <1>4, <1>6, <2>1, ApplyKeeps DEF b
<1>7. CASE Known(row)
  <2>1. order \in {"newer", "older", "same", "not_provable"}
    <3>1. Whole(b, row, Owed(w, b))
      BY <1>3, RowRead
    <3>. QED
      BY <1>3, <1>7, <3>1, StampOfRow, NewerMeansAfter
  <2>2. CASE order = "older"
    <3>1. Judge(t, w, b, row, row, m) = Lock(t, w, b, row, m, "superseded")
      BY <1>7, <2>2 DEF Judge
    <3>. QED
      BY <1>1, <1>3, <1>4, <1>5, <1>7, <2>2, <3>1, LockKeeps DEF b
  <2>3. CASE order = "not_provable"
    <3>1. Judge(t, w, b, row, row, m) =
            Hold(t, w, b, row, row, m, "order_not_provable", "order_not_provable")
      BY <1>7, <2>3 DEF Judge
    <3>. QED
      BY <1>1, <1>3, <1>4, <1>5, <1>7, <2>3, <3>1, HoldKeeps DEF b
  <2>4. CASE order = "same" /\ same
    <3>1. Judge(t, w, b, row, row, m) = Lock(t, w, b, row, m, "duplicate")
      BY <1>7, <2>4 DEF Judge
    <3>. QED
      BY <1>1, <1>3, <1>4, <1>5, <1>7, <2>4, <3>1, LockKeeps DEF b
  <2>5. CASE order = "same" /\ ~same
    <3>1. Judge(t, w, b, row, row, m) =
            Hold(t, w, b, row, row, m, "conflicting_versions", "conflict")
      BY <1>7, <2>5 DEF Judge
    <3>. QED
      BY <1>1, <1>3, <1>4, <1>5, <1>7, <2>5, <3>1, HoldKeeps DEF b
  <2>6. CASE order = "newer"
    <3>1. Judge(t, w, b, row, row, m) = Apply(t, w, b, row, row, m)
      BY <1>7, <2>6 DEF Judge
    <3>. QED
      BY <1>1, <1>3, <1>4, <1>7, <2>6, <3>1, ApplyKeeps DEF b
  <2>. QED
    BY <2>1, <2>2, <2>3, <2>4, <2>5, <2>6
<1>. QED
  BY <1>6, <1>7

-----------------------------------------------------------------------------
LEMMA IdleIsSound ==
    /\ Idle \in Transaction /\ Placed(Idle) /\ Sound(Idle)
    /\ Idle.locks = {} /\ Idle.rows \in [Bookings -> BookingRow]
    /\ Idle.owed \in [Bookings -> EntitlementRow] /\ NoRow \in BookingRow
    /\ NoEntitlement \in EntitlementRow
<1>1. NoRow \in BookingRow /\ NoEntitlement \in EntitlementRow
  BY DEF NoRow, BookingRow, Status, Reasons, Fingerprint, NoFingerprint, NoEntitlement,
         EntitlementRow
<1>2. Idle \in Transaction
  <2>. HIDE DEF NoRow, NoEntitlement
  <2>. QED
    BY <1>1 DEF Idle, Transaction
<1>3. Placed(Idle)
  BY <1>2 DEF Placed, Idle
<1>4. Sound(Idle) /\ Idle.locks = {}
  BY DEF Sound, Idle, UpToDate, Readable
<1>. QED
  BY <1>1, <1>2, <1>3, <1>4 DEF Transaction

\* A transaction that begins has written nothing.
LEMMA BeginKeeps ==
    ASSUME IInv, NEW w \in Workers, NEW t, Begin(w, t), t \in Transaction, Placed(t),
           t.locks = {}, t.log = {}
    PROVE  IInv'
<1>1. /\ tx' = [tx EXCEPT ![w] = t] /\ tx \in [Workers -> Transaction]
      /\ tx'[w] = t /\ \A v \in Workers \ {w} : tx'[v] = tx[v]
      /\ UNCHANGED <<booking, entitlement, deliveries, processed, answered>>
      /\ received' = received + Len(t.todo) /\ received' \in Nat
  BY DEF Begin, IInv, TypeOK, Transaction
<1>2. TypeOK'
  BY <1>1 DEF IInv, TypeOK
<1>3. TablesSound'
  BY <1>1 DEF IInv, TablesSound
<1>4. OneWriter'
  BY <1>1 DEF IInv, OneWriter
<1>5. Sound(t)
  BY DEF Sound, UpToDate, Readable
<1>6. \A x : Sound(x) => Sound(x)'
  BY <1>1 DEF Sound
<1>7. \A v \in Workers : (Placed(tx[v]) /\ Sound(tx[v]))'
  BY <1>1, <1>5, <1>6 DEF IInv, Placed
<1>. QED
  BY <1>2, <1>3, <1>4, <1>7 DEF IInv

LEMMA ReceiveKeeps ==
    ASSUME IInv, NEW w \in Workers, Receive(w)
    PROVE  IInv'
<1>1. PICK batch \in Arrivals :
         Begin(w, [Idle EXCEPT !.at = "next", !.todo = batch, !.id = received + 1])
  BY DEF Receive
<1>. DEFINE t == [Idle EXCEPT !.at = "next", !.todo = batch, !.id = received + 1]
<1>2. batch \in Seq(Messages) /\ received + 1 \in Nat
  BY IntakeAssumption DEF IInv, TypeOK
<1>3. Idle.asked = Blank /\ Idle.log = {}
  BY DEF Idle
<1>4. /\ t \in Transaction /\ t.at = "next" /\ t.asked = Blank
      /\ t.locks = {} /\ t.log = {}
  BY <1>2, <1>3, IdleIsSound DEF Transaction
<1>. HIDE DEF t
<1>5. Placed(t)
  BY <1>4 DEF Placed
<1>. QED
  BY <1>1, <1>4, <1>5, BeginKeeps DEF t

LEMMA AskKeeps ==
    ASSUME IInv, "replay" \notin Operations, NEW w \in Workers, Ask(w)
    PROVE  IInv'
<1>1. PICK b \in Bookings :
         Begin(w, [Idle EXCEPT !.at = "items", !.todo = <<>>, !.id = received + 1,
                               !.asked = b, !.object = booking[b]])
  BY DEF Ask
<1>. DEFINE t == [Idle EXCEPT !.at = "items", !.todo = <<>>, !.id = received + 1,
                              !.asked = b, !.object = booking[b]]
<1>2. booking[b] \in BookingRow /\ received + 1 \in Nat /\ <<>> \in Seq(Messages)
  BY DEF IInv, TypeOK
<1>3. Idle.log = {}
  BY DEF Idle
<1>4. /\ t \in Transaction /\ t.at = "items" /\ t.asked = b /\ t.todo = <<>>
      /\ t.locks = {} /\ t.log = {}
  BY <1>2, <1>3, IdleIsSound DEF Transaction
<1>. HIDE DEF t
<1>5. Placed(t)
  BY <1>4 DEF Placed
<1>. QED
  BY <1>1, <1>4, <1>5, BeginKeeps DEF t

LEMMA ReadItemsKeeps ==
    ASSUME IInv, NEW w \in Workers, ReadItems(w)
    PROVE  IInv'
<1>. DEFINE t == tx[w]
            seen == {d.id : d \in OpenItems(t.asked)}
            n == [t EXCEPT !.at = "answer", !.seen = seen]
<1>1. t.at = "items" /\ Step(w, n)
  BY DEF ReadItems
<1>2. t \in Transaction /\ Placed(t) /\ Sound(t) /\ deliveries \subseteq Delivery
  BY DEF IInv, TypeOK, Placed
<1>3. seen \in SUBSET Nat
  BY <1>2 DEF OpenItems, Delivery
<1>. HIDE DEF seen
<1>4. /\ n \in Transaction /\ n.at = "answer" /\ n.asked = t.asked /\ n.todo = t.todo
      /\ n.log = t.log /\ n.locks = t.locks /\ n.rows = t.rows /\ n.owed = t.owed
  BY <1>2, <1>3 DEF Transaction
<1>. HIDE DEF n
<1>5. Placed(n) /\ Sound(n)
  BY <1>1, <1>2, <1>4, LoggedIsSound DEF Placed
<1>. QED
  BY <1>1, <1>4, <1>5, StepKeeps

LEMMA AnswerKeeps ==
    ASSUME IInv, NEW w \in Workers, Answer(w)
    PROVE  IInv'
<1>. DEFINE t == tx[w]
            b == t.asked
            told == [t EXCEPT !.at = "next", !.closed = t.seen]
            row == [Row(w, b) EXCEPT !.undecided = "no"]
            written == Write(told, w, b, row)
            n == [written EXCEPT !.object.undecided = "no"]
<1>1. t.at = "answer" /\ (Step(w, told) \/ (RowIsFree(w, b) /\ Step(w, n)))
  BY DEF Answer, FlushHold
<1>2. t \in Transaction /\ Placed(t) /\ Sound(t) /\ b \in Bookings /\ t.todo = <<>>
  BY <1>1, AdapterAssumption DEF IInv, Placed
<1>3. /\ told \in Transaction /\ told.at = "next" /\ told.asked = b /\ told.todo = <<>>
      /\ told.log = t.log /\ told.locks = t.locks /\ told.rows = t.rows /\ told.owed = t.owed
      /\ told.object = t.object
  BY <1>2 DEF Transaction
<1>. HIDE DEF told
<1>4. CASE Step(w, told)
  <2>1. Placed(told) /\ Sound(told)
    BY <1>2, <1>3, LoggedIsSound DEF Placed
  <2>. QED
    BY <1>3, <1>4, <2>1, StepKeeps
<1>5. CASE RowIsFree(w, b) /\ Step(w, n)
  <2>. HIDE DEF t, b
  <2>1. "no" \in Reasons
    BY DEF Reasons
  <2>2. /\ Row(w, b) \in BookingRow /\ Owed(w, b) \in EntitlementRow
        /\ Whole(b, Row(w, b), Owed(w, b)) /\ Fresh(Row(w, b))
    BY <1>2, RowRead
  <2>3. /\ row \in BookingRow
        /\ Whole(b, row, Owed(w, b)) /\ Fresh(row) /\ Ahead(row, Row(w, b))
    BY <2>1, <2>2, HoldingKeepsTheMessage
  <2>. HIDE DEF row
  <2>4. /\ written \in Transaction /\ written.locks = told.locks \cup {b}
        /\ written.rows = [told.rows EXCEPT ![b] = row]
        /\ written.owed = [told.owed EXCEPT ![b] = Owed(w, b)]
        /\ written.at = told.at /\ written.todo = told.todo /\ written.asked = told.asked
        /\ written.log = told.log
    BY <1>2, <1>3, <2>2, <2>3, WriteFields
  <2>. HIDE DEF written
  <2>5. [written.object EXCEPT !.undecided = "no"] \in BookingRow
    BY <2>1, <2>4 DEF Transaction, BookingRow
  <2>6. /\ n \in Transaction /\ n.at = "next" /\ n.todo = <<>>
        /\ n.locks = t.locks \cup {b}
        /\ n.rows = [t.rows EXCEPT ![b] = row]
        /\ n.owed = [t.owed EXCEPT ![b] = Owed(w, b)]
        /\ n.log = t.log
    BY <1>3, <2>4, <2>5 DEF Transaction
  <2>. HIDE DEF n
  <2>7. Placed(n)
    BY <2>6 DEF Placed
  <2>8. Sound(n)
    BY <1>2, <2>3, <2>6, LockedWriteIsSound DEF t
  <2>. QED
    BY <1>5, <2>6, <2>7, <2>8, StepKeeps DEF t, b
<1>. QED
  BY <1>1, <1>4, <1>5

LEMMA RollbackKeeps ==
    ASSUME IInv, NEW w \in Workers, Step(w, Rollback(w))
    PROVE  IInv'
  BY IdleIsSound, StepKeeps DEF Rollback

LEMMA CommitKeeps ==
    ASSUME IInv, NEW w \in Workers, Commit(w)
    PROVE  IInv'
<1>. DEFINE t == tx[w]
<1>1. /\ booking' = [b \in Bookings |-> Row(w, b)]
      /\ entitlement' = [b \in Bookings |-> Owed(w, b)]
      /\ deliveries' = deliveries \cup t.log
      /\ processed' = processed \cup t.claims
      /\ answered' = answered \cup t.closed
      /\ tx' = [tx EXCEPT ![w] = Idle]
      /\ received' = received
  BY DEF Commit
<1>2. /\ tx \in [Workers -> Transaction] /\ t \in Transaction /\ Sound(t)
      /\ tx'[w] = Idle /\ \A v \in Workers \ {w} : tx'[v] = tx[v]
  BY <1>1 DEF IInv, TypeOK
<1>3. TypeOK'
  BY <1>1, <1>2, RowRead, IdleIsSound DEF IInv, TypeOK, Transaction
<1>4. TablesSound'
  <2>1. Readable(deliveries \cup t.log)
    BY <1>2 DEF IInv, TablesSound, Sound, Readable
  <2>2. ASSUME NEW b \in Bookings
        PROVE  UpToDate(b, Row(w, b), deliveries \cup t.log)
    <3>1. UpToDate(b, booking[b], deliveries) /\ Readable(deliveries)
            /\ \A d \in deliveries : d.message \in Messages
      BY DEF IInv, TablesSound, TypeOK, Delivery
    <3>2. UpToDate(b, Row(w, b), deliveries)
      BY <3>1, RowRead, AheadKeepsUpToDate
    <3>3. UpToDate(b, Row(w, b), t.log)
      BY RowRead
    <3>. QED
      BY <3>2, <3>3 DEF UpToDate
  <2>. QED
    BY <1>1, <2>1, <2>2, RowRead DEF TablesSound
<1>5. OneWriter'
  BY <1>2, IdleIsSound DEF IInv, OneWriter
<1>6. ASSUME NEW v \in Workers PROVE (Placed(tx[v]) /\ Sound(tx[v]))'
  <2>1. CASE v = w
    <3>1. Placed(Idle)' /\ Sound(Idle)'
      BY IdleIsSound DEF Placed, Sound, Idle, UpToDate, Readable
    <3>. QED
      BY <1>2, <2>1, <3>1
  <2>2. CASE v # w
    <3>1. tx'[v] = tx[v] /\ Placed(tx[v]) /\ Sound(tx[v]) /\ tx[v].locks \subseteq Bookings
      BY <1>2, <2>2 DEF IInv, TypeOK, Transaction
    <3>2. \A b \in tx[v].locks : booking'[b] = booking[b]
      BY <1>1, <2>2, <3>1 DEF Row, IInv, OneWriter
    <3>. QED
      BY <3>1, <3>2 DEF Placed, Sound
  <2>. QED
    BY <2>1, <2>2
<1>. QED
  BY <1>3, <1>4, <1>5, <1>6 DEF IInv

-----------------------------------------------------------------------------
LEMMA IInvInitially == Init => IInv
<1>. SUFFICES ASSUME Init PROVE IInv
  OBVIOUS
<1>1. TypeOK
  BY IdleIsSound DEF Init, TypeOK
<1>2. TablesSound
  BY DEF Init, TablesSound, Whole, Fresh, UpToDate, Readable, Known, NoRow
<1>3. OneWriter /\ \A w \in Workers : Placed(tx[w]) /\ Sound(tx[w])
  BY IdleIsSound DEF Init, OneWriter
<1>. QED
  BY <1>1, <1>2, <1>3 DEF IInv

LEMMA IInvKept ==
    ASSUME "replay" \notin Operations, IInv, [Next]_vars
    PROVE  IInv'
<1>1. CASE UNCHANGED vars
  BY <1>1 DEF vars, IInv, TypeOK, TablesSound, OneWriter, Placed, Sound
<1>2. CASE Next
  <2>1. PICK w \in Workers : Receive(w) \/ Ask(w) \/ Proceed(w) \/ Crash(w)
    BY <1>2 DEF Next
  <2>2. CASE Proceed(w)
    BY <2>2, RefuseKeeps, MarkKeeps, RepeatKeeps, ClaimKeeps, DecideKeeps, ReadItemsKeeps,
       AnswerKeeps, CommitKeeps, RollbackKeeps DEF Proceed, BreakDeadlock
  <2>3. CASE Crash(w)
    BY <2>3, RollbackKeeps DEF Crash
  <2>. QED
    BY <2>1, <2>2, <2>3, ReceiveKeeps, AskKeeps
<1>. QED
  BY <1>1, <1>2

LEMMA IInvAlways ==
    ASSUME "replay" \notin Operations
    PROVE  Spec => []IInv
  BY IInvInitially, IInvKept, PTL DEF Spec

-----------------------------------------------------------------------------
\* Types are kept by replays too, which the invariant above excludes.  Where a
\* transaction is in its work, whether it replays a message or not:
Situated(t) ==
    /\ t \in Transaction
    /\ t.at \in {"mark", "decide"} => t.todo # <<>>
    /\ t.at = "mark" => Refused(Message(Head(t.todo))) /\ Message(Head(t.todo)).ref \in Bookings
    /\ t.at = "decide" => ~Refused(Message(Head(t.todo)))
    /\ t.at \in {"items", "answer"} => t.asked \in Bookings

TInv ==
    /\ TypeOK
    /\ \A w \in Workers : Situated(tx[w])

LEMMA StepIsTyped ==
    ASSUME TInv, NEW w \in Workers, NEW n, Step(w, n), Situated(n)
    PROVE  TInv'
<1>1. /\ tx' = [tx EXCEPT ![w] = n] /\ tx \in [Workers -> Transaction]
      /\ tx'[w] = n /\ \A v \in Workers \ {w} : tx'[v] = tx[v]
      /\ UNCHANGED <<booking, entitlement, deliveries, processed, answered, received>>
  BY DEF Step, TInv, TypeOK
<1>2. TypeOK'
  BY <1>1 DEF TInv, TypeOK, Situated
<1>3. \A v \in Workers : Situated(tx[v])'
  BY <1>1 DEF TInv, Situated
<1>. QED
  BY <1>2, <1>3 DEF TInv

\* What a statement of a worker reads.
LEMMA ReadsAreTyped ==
    ASSUME TInv, NEW w \in Workers
    PROVE  /\ tx[w] \in Transaction /\ Situated(tx[w])
           /\ \A b \in Bookings :
                 /\ Row(w, b) \in BookingRow /\ Owed(w, b) \in EntitlementRow
                 /\ \A row \in BookingRow : SessionObject(tx[w], b, row) \in BookingRow
           /\ tx[w].todo # <<>> => Current(w) \in Messages
<1>1. tx[w] \in Transaction /\ Situated(tx[w])
  BY DEF TInv, Situated
<1>2. /\ booking \in [Bookings -> BookingRow] /\ entitlement \in [Bookings -> EntitlementRow]
      /\ tx[w].rows \in [Bookings -> BookingRow] /\ tx[w].owed \in [Bookings -> EntitlementRow]
      /\ tx[w].object \in BookingRow /\ tx[w].todo \in Seq(Messages)
  BY <1>1 DEF TInv, TypeOK, Transaction
<1>3. tx[w].todo # <<>> => Head(tx[w].todo) \in Messages
  BY <1>2
<1>. QED
  BY <1>1, <1>2, <1>3 DEF Row, Owed, SessionObject, Current

\* A flush writes columns of the right types, whatever object it compares with.
LEMMA FlushIsTyped ==
    ASSUME NEW row \in BookingRow, NEW object
    PROVE  /\ \A m \in Messages : ~Refused(Message(m)) =>
                  Flush(row, object, BookingValues(Message(m), m)) \in BookingRow
           /\ \A reason \in Reasons : Flush(row, object, [undecided |-> reason]) \in BookingRow
<1>1. /\ DOMAIN row = Columns \cup {"undecided"}
      /\ row["status"] \in Status /\ row["amount"] \in Amounts \cup {0}
      /\ row["periods"] \in Windows \cup {{}} /\ row["lo"] \in Int /\ row["hi"] \in Int
      /\ row["fingerprint"] \in Fingerprint /\ row["last"] \in Messages \cup {NoMessage}
      /\ row["undecided"] \in Reasons
  BY DEF BookingRow, Columns
<1>2. ASSUME NEW m \in Messages, ~Refused(Message(m))
      PROVE  Flush(row, object, BookingValues(Message(m), m)) \in BookingRow
  <2>. DEFINE values == BookingValues(Message(m), m)
              new == Flush(row, object, values)
  <2>1. /\ DOMAIN values = Columns
        /\ values["status"] \in Status /\ values["amount"] \in Amounts
        /\ values["periods"] \in Windows /\ values["lo"] \in Int /\ values["hi"] \in Int
        /\ values["fingerprint"] \in Fingerprint /\ values["last"] = m
    BY <1>2, MessageColumns
  <2>2. new = [c \in Columns \cup {"undecided"} |->
                  IF c \in Columns /\ values[c] # object[c] THEN values[c] ELSE row[c]]
    BY <1>1, <2>1 DEF Flush
  <2>. HIDE DEF new, values
  <2>3. /\ new = [c \in Columns \cup {"undecided"} |-> new[c]]
        /\ \A c \in Columns : new[c] = values[c] \/ new[c] = row[c]
        /\ new["undecided"] = row["undecided"]
    BY <2>2 DEF Columns
  <2>4. new \in BookingRow
    BY <1>1, <1>2, <2>1, <2>3, RowFromColumns DEF Columns
  <2>. QED
    BY <2>4 DEF new, values
<1>3. ASSUME NEW reason \in Reasons
      PROVE  Flush(row, object, [undecided |-> reason]) \in BookingRow
  <2>. DEFINE new == Flush(row, object, [undecided |-> reason])
  <2>1. new = [c \in Columns \cup {"undecided"} |->
                  IF c = "undecided" /\ reason # object[c] THEN reason ELSE row[c]]
    BY <1>1 DEF Flush
  <2>. HIDE DEF new
  <2>2. /\ new = [c \in Columns \cup {"undecided"} |-> new[c]]
        /\ \A c \in Columns : new[c] = row[c]
        /\ new["undecided"] \in Reasons
    BY <1>1, <2>1 DEF Columns
  <2>3. new \in BookingRow
    BY <1>1, <2>2, RowFromColumns DEF Columns
  <2>. QED
    BY <2>3 DEF new
<1>. QED
  BY <1>2, <1>3

LEMMA BeginIsTyped ==
    ASSUME TInv, NEW w \in Workers, NEW t, Begin(w, t), Situated(t)
    PROVE  TInv'
<1>1. /\ tx' = [tx EXCEPT ![w] = t] /\ tx \in [Workers -> Transaction]
      /\ tx'[w] = t /\ \A v \in Workers \ {w} : tx'[v] = tx[v]
      /\ UNCHANGED <<booking, entitlement, deliveries, processed, answered>>
      /\ received' \in Nat
  BY DEF Begin, TInv, TypeOK, Situated, Transaction
<1>2. TypeOK'
  BY <1>1 DEF TInv, TypeOK, Situated
<1>3. \A v \in Workers : Situated(tx[v])'
  BY <1>1 DEF TInv, Situated
<1>. QED
  BY <1>2, <1>3 DEF TInv

LEMMA ReceiveIsTyped ==
    ASSUME TInv, NEW w \in Workers, Receive(w)
    PROVE  TInv'
<1>1. PICK batch \in Arrivals :
         Begin(w, [Idle EXCEPT !.at = "next", !.todo = batch, !.id = received + 1])
  BY DEF Receive
<1>. DEFINE t == [Idle EXCEPT !.at = "next", !.todo = batch, !.id = received + 1]
<1>2. batch \in Seq(Messages) /\ received + 1 \in Nat
  BY IntakeAssumption DEF TInv, TypeOK
<1>3. t \in Transaction /\ t.at = "next"
  BY <1>2, IdleIsSound DEF Transaction
<1>. HIDE DEF t
<1>4. Situated(t)
  BY <1>3 DEF Situated
<1>. QED
  BY <1>1, <1>4, BeginIsTyped DEF t

LEMMA AskIsTyped ==
    ASSUME TInv, NEW w \in Workers, Ask(w)
    PROVE  TInv'
<1>1. PICK b \in Bookings, replay \in {<<>>} \cup {<<m>> : m \in Messages} :
         Begin(w, [Idle EXCEPT !.at = "items", !.todo = replay, !.id = received + 1,
                               !.asked = b, !.object = booking[b]])
  BY DEF Ask
<1>. DEFINE t == [Idle EXCEPT !.at = "items", !.todo = replay, !.id = received + 1,
                              !.asked = b, !.object = booking[b]]
<1>2. booking[b] \in BookingRow /\ received + 1 \in Nat /\ replay \in Seq(Messages)
  <2>1. booking[b] \in BookingRow /\ received + 1 \in Nat
    BY DEF TInv, TypeOK
  <2>2. replay = <<>> \/ \E m \in Messages : replay = <<m>>
    OBVIOUS
  <2>3. <<>> \in Seq(Messages) /\ \A m \in Messages : <<m>> \in Seq(Messages)
    OBVIOUS
  <2>. QED
    BY <2>1, <2>2, <2>3, Zenon
<1>3. t \in Transaction /\ t.at = "items" /\ t.asked = b
  BY <1>2, IdleIsSound DEF Transaction
<1>. HIDE DEF t
<1>4. Situated(t)
  BY <1>3 DEF Situated
<1>. QED
  BY <1>1, <1>4, BeginIsTyped DEF t

LEMMA RefuseIsTyped ==
    ASSUME TInv, NEW w \in Workers, Refuse(w)
    PROVE  TInv'
<1>. DEFINE t == tx[w]
            m == Current(w)
            known == SessionObject(t, Message(m).ref, Row(w, Message(m).ref))
            marking == [t EXCEPT !.at = "mark", !.object = known]
            filed == Decided(t, m, "quarantined")
<1>1. t.todo # <<>> /\ Refused(Message(m))
  BY DEF Refuse
<1>2. m \in Messages /\ t \in Transaction
  BY <1>1, ReadsAreTyped
<1>3. CASE Message(m).ref # Blank /\ Step(w, marking)
  <2>1. Message(m).ref \in Bookings
    BY <1>1, <1>2, <1>3, MessageFacts
  <2>2. known \in BookingRow
    BY <2>1, ReadsAreTyped
  <2>. HIDE DEF known
  <2>3. marking \in Transaction /\ marking.at = "mark" /\ marking.todo = t.todo
    BY <1>2, <2>2 DEF Transaction
  <2>. HIDE DEF marking
  <2>4. Situated(marking)
    BY <1>1, <2>1, <2>3 DEF Situated, Current
  <2>. QED
    BY <1>3, <2>4, StepIsTyped
<1>4. CASE Step(w, filed)
  <2>1. "quarantined" \in Outcomes
    BY DEF Outcomes, Questions
  <2>2. filed \in Transaction /\ filed.at = "next"
    BY <1>1, <1>2, <2>1, DecidedFields
  <2>. HIDE DEF filed
  <2>. QED
    BY <1>4, <2>2, StepIsTyped DEF Situated
<1>. QED
  BY <1>3, <1>4 DEF Refuse

LEMMA RepeatIsTyped ==
    ASSUME TInv, NEW w \in Workers, RepeatOfEvent(w)
    PROVE  TInv'
<1>. DEFINE n == Decided(tx[w], Current(w), "repeat_of_event")
<1>1. tx[w].todo # <<>> /\ Step(w, n)
  BY DEF RepeatOfEvent
<1>2. Current(w) \in Messages /\ tx[w] \in Transaction
  BY <1>1, ReadsAreTyped
<1>3. "repeat_of_event" \in Outcomes
  BY DEF Outcomes
<1>4. n \in Transaction /\ n.at = "next"
  BY <1>1, <1>2, <1>3, DecidedFields
<1>. HIDE DEF n
<1>. QED
  BY <1>1, <1>4, StepIsTyped DEF Situated

LEMMA ClaimIsTyped ==
    ASSUME TInv, NEW w \in Workers, ClaimEvent(w)
    PROVE  TInv'
<1>. DEFINE t == tx[w]
            event == Message(Current(w)).event
            n == InsertEvent(t, event)
<1>1. t.todo # <<>> /\ ~Refused(Message(Current(w))) /\ event # NoEvent /\ Step(w, n)
  BY DEF ClaimEvent
<1>2. Current(w) \in Messages /\ t \in Transaction
  BY <1>1, ReadsAreTyped
<1>3. event \in Events
  BY <1>1, <1>2, MessageFacts
<1>. HIDE DEF event
<1>4. n \in Transaction /\ n.at = "decide" /\ n.todo = t.todo
  BY <1>2, <1>3 DEF InsertEvent, Transaction
<1>. HIDE DEF n
<1>5. Situated(n)
  BY <1>1, <1>4 DEF Situated, Current
<1>. QED
  BY <1>1, <1>5, StepIsTyped

\* A row is written, a message decided, and the obligation or the session's
\* object set.
LEMMA DecidedWriteIsTyped ==
    ASSUME TInv, NEW w \in Workers, tx[w].todo # <<>>, NEW b \in Bookings,
           NEW row \in BookingRow, NEW outcome \in Outcomes
    PROVE  LET n == Decided(Write(tx[w], w, b, row), Current(w), outcome) IN
           /\ Situated(n)
           /\ \A owed \in EntitlementRow : Situated([n EXCEPT !.owed[b] = owed])
           /\ \A object \in BookingRow : Situated([n EXCEPT !.object = object])
<1>. DEFINE t == tx[w]
            m == Current(w)
            written == Write(t, w, b, row)
            n == Decided(written, m, outcome)
<1>1. m \in Messages /\ t \in Transaction /\ Owed(w, b) \in EntitlementRow
  BY ReadsAreTyped
<1>2. written \in Transaction /\ written.todo = t.todo
  <2>. HIDE DEF t
  <2>. QED
    BY <1>1 DEF Write, Transaction
<1>. HIDE DEF written, m
<1>3. n \in Transaction /\ n.at = "next"
  BY <1>1, <1>2, DecidedFields
<1>. HIDE DEF n
<1>4. ASSUME NEW owed \in EntitlementRow
      PROVE  LET x == [n EXCEPT !.owed[b] = owed] IN x \in Transaction /\ x.at = "next"
  BY <1>3 DEF Transaction
<1>5. ASSUME NEW object \in BookingRow
      PROVE  LET x == [n EXCEPT !.object = object] IN x \in Transaction /\ x.at = "next"
  BY <1>3 DEF Transaction
<1>. QED
  BY <1>3, <1>4, <1>5 DEF Situated, n, written, m

LEMMA MarkIsTyped ==
    ASSUME TInv, NEW w \in Workers, Mark(w)
    PROVE  TInv'
<1>. DEFINE t == tx[w]
            m == Current(w)
            b == Message(m).ref
            row == [Row(w, b) EXCEPT !.undecided = Message(m).kind]
            written == Write(t, w, b, row)
            object == IF t.asked = b THEN [t.object EXCEPT !.undecided = Message(m).kind]
                                     ELSE NoRow
            marked == [written EXCEPT !.object = object]
            filed == Decided(marked, m, "quarantined")
<1>1. t.at = "mark" /\ Step(w, filed)
  BY DEF Mark, FlushHold
<1>2. t.todo # <<>> /\ Refused(Message(m)) /\ b \in Bookings
  BY <1>1 DEF TInv, Situated, Current
<1>3. m \in Messages /\ t \in Transaction
  BY <1>2, ReadsAreTyped
<1>4. Message(m).kind \in Reasons
  BY <1>2, <1>3, MessageFacts
<1>. HIDE DEF b
<1>5. Row(w, b) \in BookingRow /\ Owed(w, b) \in EntitlementRow
  BY <1>2, ReadsAreTyped
<1>6. row \in BookingRow
  BY <1>4, <1>5 DEF BookingRow
<1>7. object \in BookingRow
  <2>1. t.object \in BookingRow
    BY <1>3 DEF Transaction
  <2>2. [t.object EXCEPT !.undecided = Message(m).kind] \in BookingRow
    BY <1>4, <2>1 DEF BookingRow
  <2>. QED
    BY <2>2, IdleIsSound
<1>. HIDE DEF row, object
<1>8. written \in Transaction /\ written.todo = t.todo
  <2>. HIDE DEF t
  <2>1. t \in Transaction
    BY <1>3
  <2>. QED
    BY <1>2, <1>5, <1>6, <2>1 DEF Write, Transaction
<1>. HIDE DEF written
<1>9. marked \in Transaction /\ marked.todo = t.todo
  BY <1>7, <1>8 DEF Transaction
<1>. HIDE DEF marked
<1>10. "quarantined" \in Outcomes
  BY DEF Outcomes, Questions
<1>11. filed \in Transaction /\ filed.at = "next"
  BY <1>2, <1>3, <1>9, <1>10, DecidedFields
<1>. HIDE DEF filed
<1>. QED
  BY <1>1, <1>11, StepIsTyped DEF Situated

LEMMA DecideIsTyped ==
    ASSUME TInv, NEW w \in Workers, Decide(w)
    PROVE  TInv'
<1>. DEFINE t == tx[w]
            m == Current(w)
            b == Message(m).ref
            row == Row(w, b)
            object == SessionObject(t, b, row)
            n == Judge(t, w, b, row, object, m)
<1>1. t.todo # <<>> /\ ~Refused(Message(m)) /\ Step(w, n)
  BY DEF Decide, TInv, Situated, Current
<1>2. m \in Messages
  BY <1>1, ReadsAreTyped
<1>3. b \in Bookings
  BY <1>1, <1>2, MessageFacts
<1>4. row \in BookingRow /\ object \in BookingRow /\ Owed(w, b) \in EntitlementRow
  BY <1>3, ReadsAreTyped
<1>5. NoRow \in BookingRow
  BY IdleIsSound
<1>. HIDE DEF row, object
<1>6. ASSUME NEW base \in BookingRow
      PROVE  Situated(Apply(t, w, b, row, base, m))
  <2>. DEFINE values == BookingValues(Message(m), m)
              owed == ReconcileEntitlement(Owed(w, b), values)
              new == Flush(row, base, values)
  <2>1. owed \in EntitlementRow
    BY <1>1, <1>2, <1>3, <1>4, ReconciledIsWhole
  <2>2. new \in BookingRow
    BY <1>1, <1>2, <1>4, FlushIsTyped
  <2>3. "applied" \in Outcomes
    BY DEF Outcomes
  <2>4. Apply(t, w, b, row, base, m)
            = [Decided(Write(t, w, b, new), m, "applied") EXCEPT !.owed[b] = owed]
    BY DEF Apply
  <2>. HIDE DEF owed, new, values, b
  <2>5. Situated([Decided(Write(t, w, b, new), m, "applied") EXCEPT !.owed[b] = owed])
    BY <1>1, <1>3, <2>1, <2>2, <2>3, DecidedWriteIsTyped
  <2>. QED
    BY <2>4, <2>5
<1>7. ASSUME NEW reason \in Reasons, NEW outcome \in Outcomes
      PROVE  Situated(Hold(t, w, b, row, object, m, reason, outcome))
  <2>. DEFINE new == Flush(row, object, [undecided |-> reason])
              kept == IF t.asked = b THEN [object EXCEPT !.undecided = reason] ELSE NoRow
  <2>1. new \in BookingRow
    BY <1>4, FlushIsTyped
  <2>2. kept \in BookingRow
    <3>1. [object EXCEPT !.undecided = reason] \in BookingRow
      BY <1>4 DEF BookingRow
    <3>. QED
      BY <1>5, <3>1
  <2>3. Hold(t, w, b, row, object, m, reason, outcome)
            = [Decided(Write(t, w, b, new), m, outcome) EXCEPT !.object = kept]
    BY DEF Hold
  <2>. HIDE DEF new, kept, b
  <2>. QED
    BY <1>1, <1>3, <2>1, <2>2, <2>3, DecidedWriteIsTyped
<1>8. ASSUME NEW outcome \in Outcomes
      PROVE  Situated(Lock(t, w, b, row, m, outcome))
  <2>. HIDE DEF b
  <2>. QED
    BY <1>1, <1>3, <1>4, DecidedWriteIsTyped DEF Lock
<1>9. /\ {"superseded", "duplicate", "order_not_provable", "conflict"} \subseteq Outcomes
      /\ {"order_not_provable", "conflicting_versions"} \subseteq Reasons
  BY DEF Outcomes, Questions, Reasons
<1>10. Situated(n)
  <2>. DEFINE order == Compare(Message(m).updated, StoredInstant(object))
              same == CanonicalFingerprint(Message(m)) = object.fingerprint
  <2>1. Compare(Message(m).updated, StoredInstant(object))
            \in {"older", "not_provable", "same", "newer"}
    BY DEF Compare
  <2>. HIDE DEF order, same
  <2>2. n = IF ~Known(row) THEN Apply(t, w, b, row, NoRow, m)
            ELSE CASE order = "older" -> Lock(t, w, b, row, m, "superseded")
                   [] order = "not_provable" ->
                      Hold(t, w, b, row, object, m, "order_not_provable", "order_not_provable")
                   [] order = "same" /\ same -> Lock(t, w, b, row, m, "duplicate")
                   [] order = "same" /\ ~same ->
                      Hold(t, w, b, row, object, m, "conflicting_versions", "conflict")
                   [] order = "newer" -> Apply(t, w, b, row, object, m)
    BY DEF Judge, order, same
  <2>. HIDE DEF n
  <2>. QED
    BY <1>4, <1>5, <1>6, <1>7, <1>8, <1>9, <2>1, <2>2 DEF order
<1>. HIDE DEF n
<1>. QED
  BY <1>1, <1>10, StepIsTyped

LEMMA ReadItemsIsTyped ==
    ASSUME TInv, NEW w \in Workers, ReadItems(w)
    PROVE  TInv'
<1>. DEFINE t == tx[w]
            seen == {d.id : d \in OpenItems(t.asked)}
            n == [t EXCEPT !.at = "answer", !.seen = seen]
<1>1. t.at = "items" /\ Step(w, n)
  BY DEF ReadItems
<1>2. t \in Transaction /\ Situated(t) /\ deliveries \subseteq Delivery
  BY ReadsAreTyped DEF TInv, TypeOK
<1>3. seen \in SUBSET Nat
  BY <1>2 DEF OpenItems, Delivery
<1>. HIDE DEF seen
<1>4. n \in Transaction /\ n.at = "answer" /\ n.asked = t.asked
  BY <1>2, <1>3 DEF Transaction
<1>. HIDE DEF n
<1>. QED
  BY <1>1, <1>2, <1>4, StepIsTyped DEF Situated

LEMMA AnswerIsTyped ==
    ASSUME TInv, NEW w \in Workers, Answer(w)
    PROVE  TInv'
<1>. DEFINE t == tx[w]
            b == t.asked
            told == [t EXCEPT !.at = "next", !.closed = t.seen]
            row == [Row(w, b) EXCEPT !.undecided = "no"]
            written == Write(told, w, b, row)
            n == [written EXCEPT !.object.undecided = "no"]
<1>1. t.at = "answer" /\ (Step(w, told) \/ Step(w, n))
  BY DEF Answer, FlushHold
<1>2. t \in Transaction /\ b \in Bookings
  BY <1>1, ReadsAreTyped DEF Situated
<1>3. told \in Transaction /\ told.at = "next"
  BY <1>2 DEF Transaction
<1>. HIDE DEF told
<1>4. CASE Step(w, told)
  BY <1>3, <1>4, StepIsTyped DEF Situated
<1>5. CASE Step(w, n)
  <2>. HIDE DEF t, b
  <2>1. "no" \in Reasons
    BY DEF Reasons
  <2>2. Row(w, b) \in BookingRow /\ Owed(w, b) \in EntitlementRow
    BY <1>2, ReadsAreTyped
  <2>3. row \in BookingRow
    BY <2>1, <2>2 DEF BookingRow
  <2>. HIDE DEF row
  <2>4. written \in Transaction /\ written.at = "next"
    BY <1>2, <1>3, <2>2, <2>3 DEF Write, Transaction
  <2>. HIDE DEF written
  <2>5. [written.object EXCEPT !.undecided = "no"] \in BookingRow
    BY <2>1, <2>4 DEF Transaction, BookingRow
  <2>6. n \in Transaction /\ n.at = "next"
    BY <2>4, <2>5 DEF Transaction
  <2>. HIDE DEF n
  <2>. QED
    BY <1>5, <2>6, StepIsTyped DEF Situated
<1>. QED
  BY <1>1, <1>4, <1>5

LEMMA RollbackIsTyped ==
    ASSUME TInv, NEW w \in Workers, Step(w, Rollback(w))
    PROVE  TInv'
<1>1. Situated(Idle)
  BY IdleIsSound DEF Situated, Idle
<1>. QED
  BY <1>1, StepIsTyped DEF Rollback

LEMMA CommitIsTyped ==
    ASSUME TInv, NEW w \in Workers, Commit(w)
    PROVE  TInv'
<1>1. /\ booking' = [b \in Bookings |-> Row(w, b)]
      /\ entitlement' = [b \in Bookings |-> Owed(w, b)]
      /\ deliveries' = deliveries \cup tx[w].log
      /\ processed' = processed \cup tx[w].claims
      /\ answered' = answered \cup tx[w].closed
      /\ tx' = [tx EXCEPT ![w] = Idle]
      /\ received' = received
  BY DEF Commit
<1>2. /\ tx \in [Workers -> Transaction]
      /\ tx'[w] = Idle /\ \A v \in Workers \ {w} : tx'[v] = tx[v]
  BY <1>1 DEF TInv, TypeOK
<1>3. TypeOK'
  BY <1>1, <1>2, ReadsAreTyped, IdleIsSound DEF TInv, TypeOK, Transaction
<1>4. Situated(Idle)
  BY IdleIsSound DEF Situated, Idle
<1>5. \A v \in Workers : Situated(tx[v])'
  BY <1>2, <1>4 DEF TInv, Situated
<1>. QED
  BY <1>3, <1>5 DEF TInv

\* Every table and every transaction keeps its shape, through replays too.
THEOREM TypesKept == Spec => []TypeOK
<1>1. Init => TInv
  <2>1. SUFFICES ASSUME Init PROVE TInv
    OBVIOUS
  <2>2. Situated(Idle)
    BY IdleIsSound DEF Situated, Idle
  <2>3. \A w \in Workers : tx[w] = Idle
    BY <2>1 DEF Init
  <2>. QED
    BY <2>1, <2>2, <2>3, IInvInitially DEF IInv, TInv
<1>2. TInv /\ [Next]_vars => TInv'
  <2>1. SUFFICES ASSUME TInv, [Next]_vars PROVE TInv'
    OBVIOUS
  <2>2. CASE UNCHANGED vars
    BY <2>1, <2>2 DEF vars, TInv, TypeOK, Situated
  <2>3. CASE Next
    <3>1. PICK w \in Workers : Receive(w) \/ Ask(w) \/ Proceed(w) \/ Crash(w)
      BY <2>3 DEF Next
    <3>2. CASE Proceed(w)
      BY <2>1, <3>2, RefuseIsTyped, MarkIsTyped, RepeatIsTyped, ClaimIsTyped, DecideIsTyped,
         ReadItemsIsTyped, AnswerIsTyped, CommitIsTyped, RollbackIsTyped
         DEF Proceed, BreakDeadlock
    <3>3. CASE Crash(w)
      BY <2>1, <3>3, RollbackIsTyped DEF Crash
    <3>. QED
      BY <2>1, <3>1, <3>2, <3>3, ReceiveIsTyped, AskIsTyped
  <2>. QED
    BY <2>1, <2>2, <2>3
<1>3. TInv => TypeOK
  BY DEF TInv
<1>. QED
  BY <1>1, <1>2, <1>3, PTL DEF Spec

\* While nothing is replayed, a row is one message, whole, and the obligation
\* follows from it: a hold set by a refusal, or lifted by an answer, on an object
\* read before the row was locked never brings back anything of a version that
\* has been replaced since (service.py, _quarantine and resolve_and_replay against
\* the decisions taken under the lock).
THEOREM RowsAreWholeMessages ==
    ASSUME "replay" \notin Operations
    PROVE  Spec => []BookingIsOneMessage
<1>1. IInv => BookingIsOneMessage
  BY DEF IInv, TablesSound, BookingIsOneMessage
<1>. QED
  BY <1>1, IInvAlways, PTL

\* Nothing decided is provably newer than what is held: deliveries converge in
\* whatever order they come (service.py, _apply and compare).
THEOREM DeliveriesConverge ==
    ASSUME "replay" \notin Operations
    PROVE  Spec => []NothingNewerIsLost
<1>1. IInv => NothingNewerIsLost
  BY DEF IInv, TablesSound, NothingNewerIsLost
<1>. QED
  BY <1>1, IInvAlways, PTL

\* Rows have one writer at a time, and nothing a transaction has written and not
\* committed is behind the tables.
THEOREM UncommittedIsNotBehind ==
    ASSUME "replay" \notin Operations
    PROVE  Spec => []NothingUncommittedIsBehind
<1>1. IInv => NothingUncommittedIsBehind
  BY DEF IInv, OneWriter, Sound, NothingUncommittedIsBehind
<1>. QED
  BY <1>1, IInvAlways, PTL

\* Only a commit changes the rows, and it changes a row's message only to one
\* stamped at a later instant.
LEMMA CommitIsStampedLater ==
    ASSUME IInv, NEW w \in Workers, Commit(w), NEW b \in Bookings, Replaced(b)
    PROVE  /\ booking[b].last \in Messages /\ booking'[b].last \in Messages
           /\ stamped[booking'[b].last] > stamped[booking[b].last]
<1>. DEFINE old == booking[b]
            new == Row(w, b)
<1>1. booking'[b] = new
  BY DEF Commit
<1>2. /\ Whole(b, new, Owed(w, b)) /\ Whole(b, old, entitlement[b]) /\ Ahead(new, old)
  BY RowRead
<1>3. Known(new) /\ Known(old)
  BY <1>2 DEF Ahead, Replaced
<1>. HIDE DEF old, new
<1>4. Compare(StoredInstant(new), StoredInstant(old)) = "newer"
  BY <1>1, <1>2, <1>3 DEF Ahead, Replaced, old
<1>5. new.lo > old.hi
  BY <1>2, <1>3, <1>4, StampOfRow, NewerMeansAfter
<1>6. /\ stamped[new.last] \in Int /\ new.lo =< stamped[new.last]
      /\ stamped[old.last] \in Int /\ stamped[old.last] =< old.hi
      /\ new.last \in Messages /\ old.last \in Messages
  BY <1>2, <1>3, StampOfRow, MessageWindow
<1>7. new.lo \in Int /\ old.hi \in Int
  BY <1>2, <1>3, StampOfRow DEF Stamp, Instant
<1>. QED
  BY <1>1, <1>5, <1>6, <1>7 DEF old

LEMMA OnlyCommitWritesRows ==
    ASSUME NEW w \in Workers, Receive(w) \/ Ask(w) \/ Proceed(w) \/ Crash(w), ~Commit(w)
    PROVE  booking' = booking
  BY DEF Receive, Ask, Proceed, Crash, Begin, Step, Refuse, Mark, RepeatOfEvent, ClaimEvent,
         Decide, ReadItems, Answer, BreakDeadlock

\* What every step does to the rows, in terms of when messages were stamped.
LEMMA StepIsStampedLater ==
    ASSUME IInv, [Next]_vars, NEW b \in Bookings, Replaced(b)
    PROVE  /\ booking[b].last \in Messages /\ booking'[b].last \in Messages
           /\ stamped[booking'[b].last] > stamped[booking[b].last]
<1>1. booking' # booking
  BY DEF Replaced
<1>2. PICK w \in Workers : Receive(w) \/ Ask(w) \/ Proceed(w) \/ Crash(w)
  BY <1>1 DEF Next, vars
<1>3. Commit(w)
  BY <1>1, <1>2, OnlyCommitWritesRows
<1>. QED
  BY <1>3, CommitIsStampedLater

\* The rule of the module, in terms of instants: while nothing is replayed, a known
\* booking is only ever replaced by a message stamped later, although some stamps
\* are wall clock readings that fit two instants, and only a message that was
\* restamped can take it back to an older change (service.py, with clock.py).
THEOREM OnlyRestampsTakeBack ==
    ASSUME "replay" \notin Operations
    PROVE  Spec => OnlyRestampsGoBackwards
<1>. DEFINE Forwards == \A b \in Bookings : Replaced(b) =>
                LET old == booking[b].last
                    new == booking'[b].last
                IN  /\ stamped[new] > stamped[old]
                    /\ made[new] =< made[old] => made[new] < stamped[new]
<1>1. IInv /\ [Next]_vars => Forwards
  <2>1. SUFFICES ASSUME IInv, [Next]_vars, NEW b \in Bookings, Replaced(b)
                 PROVE  LET old == booking[b].last
                            new == booking'[b].last
                        IN  /\ stamped[new] > stamped[old]
                            /\ made[new] =< made[old] => made[new] < stamped[new]
    OBVIOUS
  <2>2. /\ booking[b].last \in Messages /\ booking'[b].last \in Messages
        /\ stamped[booking'[b].last] > stamped[booking[b].last]
    BY <2>1, StepIsStampedLater
  <2>. QED
    BY <2>2, IntakeAssumption
<1>2. Spec => [][Forwards]_vars
  BY <1>1, IInvAlways, PTL DEF Spec
<1>. QED
  BY <1>2 DEF OnlyRestampsGoBackwards

\* So what docs/partner-coralbay.md promises is kept to partners who stamp a
\* message with the instant of its change, and never stamp it afresh: a booking
\* is only ever replaced by a later change.
THEOREM BookingsGoForwards ==
    ASSUME "replay" \notin Operations, \A m \in Messages : made[m] = stamped[m]
    PROVE  Spec => NeverBackwards
<1>. DEFINE Forwards == \A b \in Bookings :
                Replaced(b) => made[booking'[b].last] > made[booking[b].last]
<1>1. IInv /\ [Next]_vars => Forwards
  <2>1. SUFFICES ASSUME IInv, [Next]_vars, NEW b \in Bookings, Replaced(b)
                 PROVE  made[booking'[b].last] > made[booking[b].last]
    OBVIOUS
  <2>. QED
    BY <2>1, StepIsStampedLater
<1>2. Spec => [][Forwards]_vars
  BY <1>1, IInvAlways, PTL DEF Spec
<1>. QED
  BY <1>2 DEF NeverBackwards

=============================================================================
