# A TLA+ model of the booking-to-billing kernel

This directory is kept beside the Python code of the kernel (paths below are
relative to the repository, which is at `src/`). It holds TLA+ modules that
model intake, the file import and billing, TLC configurations that check them on
small instances, and TLAPS proofs of what matters most for every value of the
constants.

Contents: [the system](#1-the-system), [modules](#2-the-modules),
[what the runs check](#3-the-runs), [what is proved](#4-the-proofs),
[disagreements with the code](#5-where-the-code-and-its-words-disagree),
[what is not modelled](#6-what-is-not-modelled), [the plan](#7-the-plan).

## 1. The system

Partners send bookings; the kernel decides what each message may change, keeps
one billable obligation (entitlement) per booking, and once a month turns the
obligations into charges at a payment provider whose answers may be lost. All
state is in one PostgreSQL database; any number of processes work on it, each
through SQLAlchemy sessions under READ COMMITTED.

| Component | State | Operations | What makes it correct |
|---|---|---|---|
| Billing run, `src/kernel/billing/run.py` | `billing_lines`, `billing_runs` | `prepare`, `submit`, `resume`, `establish_out_of_band`, `cancel` | one line per obligation; the intent is durable before the call; money moves at most once, for the frozen amount; the books hold what moved; a cancellation says where it landed; every attempt is concluded |
| Simulated provider, `billing/payments.py` | `simulated_provider_charges` | `create_charge`, `lookup` | same key: same result, or a refusal; a key is forgotten after the retention window |
| Entitlements, `entitlements/service.py` | `entitlements` | `reconcile_entitlement` | follows the booking; a cancelled one is never reopened |
| Intake, `intake/service.py` | `deliveries`, `processed_events`, `bookings`, `version_conflicts`, `quarantine_items` | `apply_delivery`, `run_pull_window`, `resolve_and_replay` | a booking only moves forward in provable order; nothing undecidable is applied; an event is processed once |
| Partner clock, `clock.py` | none | `parse_partner_timestamp`, `compare`, `month_bounds` | never orders two timestamps whose order is not certain |
| Adapters, `partners/*.py` | none | `normalise`, `resolve_columns` | translate what was agreed, refuse the rest |
| File import, `intake/service.py` | `import_batches` | `import_file`, `expected_minimum_rows` | a file is applied as a whole or not at all |
| Report, `billing/reconciliation.py` | none (reads) | `reconcile` | what it says is open is open |
| HTTP surface, `api/app.py` | none | `receive` | the status code tells the partner what to do next |
| Journal, switches, engine, configuration, demo | `journal_entries`, a set of disabled protections | | support |

**How they interact.** Intake and billing share `bookings`, `quarantine_items`
and `entitlements` through the database only: `apply_delivery` calls
`reconcile_entitlement` in its own transaction, `prepare` reads all three tables,
and `submit` and `resume` never look at them again. Billing calls the provider
between transactions, never inside one. `cancel` writes `entitlements` and
`billing_lines`. Nothing schedules anything: operations run when a caller, a
scheduler or a person starts them.

**What is hard.**

* *Interleaving.* The claim in `submit` is one conditional UPDATE and is safe;
  `_settle`, the expiry branch of `resume`, `establish_out_of_band` and `cancel`
  are an unlocked SELECT, a decision in Python, and an UPDATE of the columns that
  changed. Two operations on one line can each act on what the other has replaced.
* *Crashes.* A worker can die after the claim, during the call, or before the
  settle. `create_charge` itself is a SELECT, then an INSERT.
* *Lost answers, retries and timeouts.* The effect is committed before the caller
  hears; a retry inside the window replays it, one outside must not be made.
* *Time.* `now` is read once when an operation starts; the provider reads its own.
* *Staleness.* Amounts are frozen when prepared, and so is the decision to bill.
  `resolve_and_replay` decides about a booking it read before it had the lock.
* *Order.* Messages come late, twice, with a fresher stamp on a retry, and with wall
  clock readings that mean two instants or none. Operations that a person starts come
  in any order too: nothing checks that a line to establish is unresolved, or that a
  question to answer is open.
* *Locks.* A window takes row locks and event ids in the order of its messages, and
  keeps them until it commits: two windows can wait for each other.
* *Damage.* A download may stop after any byte of a file.

The list with lines, and the property that would catch each going wrong, is under
`hazards` in `PROJECT.json`.

## 2. The modules

```
PartnerClock            the order of timestamps
     |
 Adapters               payloads
     |
  Intake  ----->  MCIntake
     |
     |   (every commit is steps of; CommitIsFeedSteps)
     v
BookingFeed   Provider        what billing reads, what it calls
        \      /
       BillingRun  ------->  Obligation        (implements; ImplementsPromise)
           |
        Report  ----->  MCBillingRun

FileImport              whether a file reaches Intake at all
```

**`PartnerClock`** is `clock.py`: `ParsePartnerTimestamp` makes a window of a
timestamp (`ReadNaive` for a wall clock reading, with the two folds and the round
trip), `Compare` orders two windows or refuses to. Instants are numbers, and the
zone goes forward once and back once, at two instants and by a shift that are
parameters; what `zoneinfo` answers for a reading and a fold is modelled by its rule
(`OffsetOfReading`).

**`Adapters`** is `partners/`: `NormaliseCoralbay` and `NormaliseLindhoff`, the
checks in the order of the code. A payload says which of its fields can be read and
what they mean; the words of both vocabularies are the real ones.

**`Intake`** is `intake/service.py` without the files. `tx[w]` is the transaction
worker `w` has open: what it still has to do, its rows and claims that nobody else
sees yet, the locks it holds, the session's object, what it has logged.

| Code | Steps |
|---|---|
| a push, `run_pull_window`, the rows of a file | `Receive` (one message or several, one transaction) |
| `_quarantine` | `Refuse` (adapter, delivery, item, the unlocked look at the booking), `Mark` (the flush of the hold, `FlushHold`) |
| the event id | `RepeatOfEvent`, or `ClaimEvent`, which waits while another transaction has the id |
| from the select for update to `_finish` and `reconcile_entitlement` | `Decide`, which waits for the row's lock: `Judge` with `Apply`, `Hold` or `Lock` |
| `resolve_and_replay` | `Ask` (the booking, unlocked; any booking, with a question or without), `ReadItems`, `Answer` (the flush, `FlushHold`), then the replay as above |
| commit, death, the database's deadlock detection | `Commit`, `Crash`, `BreakDeadlock` |

Once a row is locked nothing another transaction does is seen before the commit, so
the decision and its writes are one step. Inserting a booking that another
transaction has inserted and not committed waits like a lock, and then finds the row.
`Flush` writes the columns that differ from the session's object; `SessionObject` is
the identity map: inside `resolve_and_replay` a select returns the object already
there, with the columns it was read with. Three flushes are made from an object that may
be out of date: a mark, an answer, and whatever a replay decides. The first two change
one column, the third changes all that a message carries. A delivery record stands for its row in
`deliveries` and for the quarantine item it raised; an answered item is its id in
`answered`. A fingerprint is a record of what it digests. Every message has two instants
that the kernel never sees: when its partner stamped it (`stamped`) and when the change it
describes was made (`made`). They differ for a retry whose envelope was stamped afresh
(`partners/coralbay.py:7-9`), which is a later stamp on an older change; what
`HonestStamps` assumes is only that a stamp is a way to write the first of the two.

**`MCIntake`** lists the messages of the instance, with one event retried under a fresher
stamp among them, and the windows each run lets them arrive in.

**`FileImport`** is `import_file` and `expected_minimum_rows`: a file as the partner
sent it, what is left of it after a download that stopped anywhere, the structural
checks (`Incomplete`), the floor, and the history it comes from. A file is its
shape, its number of rows and its trailer.

**`Report`** is `reconcile`: the totals of a month by line state, and what each open
question about a booking is said to hold up (`HoldingUp`).

**`BookingFeed`** is intake and entitlements as billing sees them: for each
booking its columns billing reads, whether an open question names it, and its
entitlement. A delivery that is applied overwrites the columns and reconciles the
entitlement (`ApplyDelivery`, with `ReconcileEntitlement` for the whole of
`entitlements/service.py`); one that cannot be decided holds the booking, or, when
the booking is not known, only opens a question (`HoldBooking`); an answer closes
and lifts what it has read (`ResolveQuestion`). That last one takes no lock, so it
may miss a hold that commits while it runs, in either of its two halves. How a
delivery is *judged* is abstracted: any delivery may be applied. That this is all
intake ever does to these rows is checked: `CommitIsFeedSteps`.

**`Provider`** is `SimulatedProvider` over its table. `ChargesFor` is the SELECT
by key, `CarryOut` the INSERT with its unique index, `KeyNoLongerRetained` and
`IdempotencyConflict` the two refusals; `NextChargeRef` is the count-based
reference.

**`BillingRun`** is `billing/run.py`. `lines` is `billing_lines`, one row or none
for each entitlement and period; `worker[w]` is what process `w` has in its
locals and its open session.

| Code | Steps |
|---|---|
| `prepare` | `PrepareRead` (the join), `PrepareJudge` (one look at the open questions per row), `PrepareCommit` (insert, do nothing on conflict) |
| `submit` | `SubmitList`; per line `SubmitClaim` or `SubmitSkip`; the call; `SettleLoad`, `SettleFlush`; `ListDone` |
| `create_charge` | `CreateChargeNew` or `CreateChargeReplay` (the SELECT); `CreateChargeExecute` (INSERT, answer kept or lost) or `CreateChargeRaced` (the index refuses it) |
| `resume` | `ResumeList`; per line `ResumeRead` and the call, or `ExpireLoad`, `ExpireFlush` |
| `establish_out_of_band` | `EstablishLoad` (a line in any state, as in the code), `EstablishLookup`, `EstablishFlush` |
| `cancel` | `CancelLoad`, `CancelFlush` (all the entitlement's lines, and the entitlement) |
| process death | `Crash`, between any two steps: the session is rolled back, the locals are gone |

The rule for the grain: a transaction that is one statement, or whose rows are
locked, is one step; one that reads a row without a lock and writes it later is
two, with the rows it read kept in `worker[w].rows`. `WriteBack` is what
SQLAlchemy's flush does with such a row: it sets the columns whose value differs
from the one read and leaves the others as they now are. An exception the caller
does not catch ends the worker (`Catches`, `Raise`): `submit` does not catch
`KeyNoLongerRetained`, `resume` does not catch `IdempotencyConflict`, neither
catches the database's integrity error.

Data is abstract: an amount is a number, a reference the number it is formatted
from, a fingerprint a record of what it digests (so equal exactly when the
parameters are), a key the pair it is derived from. `reason`, `resolved_at`,
`billing_runs` and the journal are left out: no operation reads them.

**`Obligation`** is what billing promises: for each obligation an amount is
intended once, money moves at most once and for that amount, and what is booked
is the operation that moved it. `BillingRun!Promise` maps the lines and the
provider's table to it.

**`MCBillingRun`** gives the model values and the symmetry for TLC.

The modules that end in `_proofs` hold the theorems, each about the module of its
name and on top of the one it is indented under:

```
PartnerClock_proofs
    Intake_proofs               (about Intake)
        IntakeFeed_proofs       what billing sees of intake
IntakeEvents_proofs             (about Intake) events are decided once
BillingRun_proofs
    BillingRecords_proofs       what the lines say of attempts and cancellations
        Report_proofs           what the report adds up
FileImport_proofs
```

## 3. The runs

### Billing

Three passing runs are instances of `MCBillingRun`. `Operations` selects what a deployment
does, so that each question is asked of as many workers, months and ticks as it
needs. Bounds: `MaxTime` ends the clock, `CrashUntil` ends the crashes (a system
whose processes die for ever concludes nothing), and nothing else is bounded:
deliveries, holds, prices and operations may repeat without limit.

| Run | Instance | Shows |
|---|---|---|
| `workers` | 1 booking, 1 month, 2 workers, retention 1, clock 0..2, crashes at 0 and 1; deliver, hold, resolve, prepare, submit, resume | `AttemptIsOnRecord`, `ClaimIsExclusive`, `AttemptsAreConcluded` |
| `full` | 1 booking, 1 month, 2 workers (symmetric), 2 prices, retention 0, clock 0..1, crashes at 0; everything but holds | `TypeOK`, `OneOperationPerObligation`, `ParametersStayFrozen`, `SettledOnEvidence`, `NothingFrozenMoves`, `ImplementsPromise` |
| `serial` | 1 booking over 2 months, 1 worker, retention 0, clock 0..1, crashes at 0; everything but holds | `AttemptIsOnRecord`, `CancellationIsTruthful`, `ReportBoundsWhatMoved`, `MovedMoneyIsBooked` |

What the properties say:

* `OneOperationPerObligation`: money moves at most once for an entitlement and
  period, whatever crashes, retries, races and out-of-band corrections happen.
* `ParametersStayFrozen`: an operation is for the amount its line records however
  the booking has been amended since, and no retry clashes with what was sent.
* `SettledOnEvidence`: a reference on a line is that of an operation carried out
  under that line's key, and a charged line has one.
* `AttemptIsOnRecord`: while an operation exists or may be about to, its line says
  an attempt was made, so a later resume finds it. It needs that no person corrects
  lines while a call is in flight: it is checked with two workers and no
  correction, and with all corrections and one worker.
* `ClaimIsExclusive`: two submits are never on the same line (again without
  corrections: establishing may return a line to `prepared` under a slow call).
* `CancellationIsTruthful`: whatever lines `cancel` and `establish` are called for, a
  line marked `after_charge` is charged, no money moved for a voided line, and no line
  is voided or given up once its outcome is booked. One worker: section 5 shows that two
  break it. It does not say that a voided line stays voided, because establishing it
  puts it back to `prepared` (section 5 again).
* `ReportBoundsWhatMoved`: at any moment the report shows as charged no more than
  what moved in the month, and what moved is no more than what it shows as charged,
  submitted or unresolved. One worker, for the same reason.
* `ImplementsPromise`: the refinement of `Obligation`.
* `AttemptsAreConcluded` (liveness): a submitted line becomes charged or
  unresolved.
* `MovedMoneyIsBooked` (liveness): an operation carried out is eventually a charged
  line.
* `NothingFrozenMoves`: the inductive invariant of the proofs, checked on all
  reachable states before it was proved.

**Why the bounds are enough.** The hazards concern one line and two operations on
it, so one obligation and two workers reach every race; a second month is needed
for the list loops and for a cancellation that meets lines in different states,
and is in `serial`, where the one worker also leaves a line alone for another.
Retention 0 makes a key expire one tick after it was used, so one
tick takes a line and its key to the other side of both comparisons, `resume`'s with
its frozen `now` and the provider's with its own, and the first may still say 0 when
the second says 1. Retention 1 with two ticks, in `workers`, has in addition a tick in
which time has passed and a retry is still a replay. Two prices are enough to tell a
frozen amount from a current one. All three runs end crashes before the clock ends:
`workers` and `serial` because their liveness needs it, `full` to keep its size down.
A worker of `full` may die at any step before the tick, with what it sent or claimed
left for the operations on either side of it; crashes at any time are in the proofs.

**Fairness.** Nothing in the code schedules the operations, so the liveness
properties say what is assumed of whoever does (`Fairness`): time passes, a
process that has begun an operation continues or dies (and processes stop dying
at some point), and somebody keeps calling `submit` and `resume` for a period,
and `establish_out_of_band` for a line the report shows as unresolved (it may be
called for any other line as well, and nothing is assumed of that). The last three are
strong fairness: the call is disabled while the process is busy with something else, and
what is assumed is that it is made again and again, which is what a monthly job
with retries and a person working through the report amount to. No fairness is
assumed of deliveries, holds, answers, cancellations, preparations or of the
provider's answer arriving.

### Intake and files

| Run | Instance | Shows |
|---|---|---|
| `intake` | 3 bookings, 4 event ids, 9 messages arriving alone or in 4 windows of two, 2 workers, 3 messages received; answers and crashes | `TypeOK`, `BookingIsOneMessage`, `NothingNewerIsLost`, `EventDecidedOnce`, `NothingUncommittedIsBehind`, `OnlyRestampsGoBackwards`, `CommitIsFeedSteps`, `TransactionsEnd` |
| `files` | files of 0, 1 or 10 rows, cut anywhere, the floor from the last 3 of up to 4 applied files | `TypeOK`, `TrailerMeansWhole`, `WholeFileIsNotRefused`, `MinorityCannotLowerTheFloor` |

* `OnlyRestampsGoBackwards`: a booking is only replaced by a message its partner stamped
  at a later instant, whatever the wall clock showed at either; if that message
  describes an older change, it is a retry that was stamped afresh. That such a retry
  does take a booking back is a disagreement (`RestampedRetry.cfg`, section 5).
* `NothingNewerIsLost`: no delivery that was decided is provably newer than the row.
  With the previous one: whatever order deliveries come in, the newest change whose
  order can be proved is the one held.
* `EventDecidedOnce`: of the copies of an event that could be read one was decided
  and the others are repeats, also when a refused copy came first.
* `BookingIsOneMessage`: the columns, stamp and fingerprint of a row come from one
  delivery and the entitlement follows from it, although refusals and answers flush a
  booking they read before they had its lock (a flush of the whole object would put the
  old columns back). The run has no replays: with them a row can be a mixture
  (`MixedBooking.cfg`, section 5).
* `NothingUncommittedIsBehind`: the same of rows that are not committed yet, and that
  a row has one writer.
* `CommitIsFeedSteps`: for each booking a commit is no more than one step of
  `BookingFeed` for every message or answer in it. The feed that `BillingRun` is
  checked against is what intake does.
* `TransactionsEnd` (liveness): every transaction ends.
* `TrailerMeansWhole`: if any of the trailer is left, what is applied is the whole
  file.
* `WholeFileIsNotRefused`: a whole file in a declared shape is applied, or held
  because at least half of the recent files had more than five times its rows.
* `MinorityCannotLowerTheFloor`: while at least half of the recent files had `n` rows
  or more, the floor is at least a fifth of `n`.

**Why the bounds are enough.** Time counts half hours, and summer time lasts from 10
to 20: a naive reading of the instance falls before, in and after the hour that runs
twice, and in the one that is missing. Two workers reach every race on one row or
one event id. Three messages are enough for a version, its successor, and one that
comes late, again or in conflict; two of them may be a window, whose row a push waits for
while it holds the event id the window needs next, so that they deadlock.
`MaxReceived` bounds the messages received, repeats included; all intake and file
configurations say `CHECK_DEADLOCK FALSE` because everything stops when that many have
been received (`MaxFiles` in `FileImport`). Three files with a lookback of 3 and one more let the
oldest leave the history; the code's 7 differs in length only. Row counts 0, 1 and 10
(`RowCounts`, none above `MaxRows`) are on both sides of a fifth of one another, and 10
can lose a digit in its trailer: `Powers` has the powers of ten by which a number can
be cut, and the theorems hold for any row counts and powers.

**Fairness.** `Fairness` asks of every worker that its next statement is carried out
once it has nothing to wait for, again and again: PostgreSQL serves a lock's queue in
order, which is strong fairness of `Proceed`, and its deadlock detector aborts a
transaction of every ring (`BreakDeadlock`). Nothing is assumed of messages, answers
or crashes.

## 4. The proofs

### Billing

`BillingRun_proofs` proves, from `Init`, `Next` and the assumptions on the
constants (amounts and times are naturals, months come from the months):

| Theorem | States |
|---|---|
| `FrozenInvariant` | `Spec => []NothingFrozenMoves` |
| `TypeCorrect` | `Spec => []TypeOK` |
| `AtMostOneOperation` | `Spec => []OneOperationPerObligation` |
| `FrozenParameters` | `Spec => []ParametersStayFrozen` |
| `EvidenceBehindEverySettlement` | `Spec => []SettledOnEvidence` |
| `NothingIsTakenBack` | `Spec => [][Grows]_vars` |
| `BillingKeepsItsPromise` | `Spec => ImplementsPromise` |

for any sets of bookings, months, workers, amounts and operations, any retention
and any bound on time and crashes. The sets need not be finite; only the table of
charges is, because references are counted.

**The argument.** None of the properties is inductive as it stands, because a
worker acts on rows it read long before. `NothingFrozenMoves` adds, for every
worker, what its locals still have in common with the tables: the rows of its
session belong to lines that exist and carry either no reference or the line's
own (`RowsIntact`); a request in flight is the one its line still records
(`RequestIntact`); an answer in hand is that of a charge for its line
(`AnswerIntact`); a session about to write holds the row it will write
(`SessionIntact`); what is left of a list exists (`ListIntact`). For the tables:
an existing line has its own key and the fingerprint of its amount, a charge has
a line with its parameters, and no two charges share a key (`TablesIntact`).

Each worker's part only speaks of what is never taken back: that a line exists,
its frozen columns, its reference once it has one, a charge. `Grows` is that
statement about a step, and `Monotone` says that a worker's part survives any
step that only grows the tables. So each action has to be shown to grow them, to
keep `TablesIntact`, and to establish its own worker's part. The one place where
two sessions could overwrite each other's reference is `WriteBackIsIntact`: both
references come from a charge under the same key, and there is only one.

The refinement then follows from the invariant and `Grows`: a step that rewrites
one existing line books a reference or is not seen (`OneLineRewritten`),
`PrepareCommit` intends, `CreateChargeExecute` moves.

Three of the runs' invariants do not hold for every deployment (section 5), and are
proved under the condition that makes them true:

| Theorem | Assumes | States |
|---|---|---|
| `EveryAttemptIsOnRecord` | no `cancel` and no `establish` in `Operations` | `Spec => []AttemptIsOnRecord` |
| `ClaimsAreExclusive` | the same | `Spec => []ClaimIsExclusive` |
| `CancellationsAreTruthful` | one worker at a time | `Spec => []CancellationIsTruthful` |
| `OneWorkersAttemptsAreOnRecord` | the same | `Spec => []AttemptIsOnRecord` |

These four are in `BillingRecords_proofs`. *Workers* (its section 1): submit and
resume only ever move a line forwards among submitted, charged and unresolved
(`AttemptsStand`), so the line any worker is on, and every line a resume has listed,
stays attempted (`OnRecord`); a claim takes a line that is prepared, and so nobody's.
*One worker* (section 2): what a session has read is still what is in the table
(`Knows`), so each flush writes the row the code had in mind
(`FlushWritesWhatIsMeant`) and each row tells the truth about itself and the
provider's table (`Truthful`), also when the line it establishes was voided, blocked or
charged: what is put back to `prepared` has no operation. Neither says anything about two workers of whom one
corrects lines: there the properties fail.

### The report

| Theorem | Assumes | States |
|---|---|---|
| `OneWorkersReportBoundsWhatMoved` | one worker at a time, finitely many bookings | `Spec => []ReportBoundsWhatMoved` |
| `WorkersReportBoundsWhatMoved` | no `cancel` and no `establish`, finitely many bookings | the same |

Both follow from `NothingFrozenMoves` and `AttemptIsOnRecord`: a charged line has its
own operation, for its amount, and an operation has a line that is charged, submitted
or unresolved. What is left is that a sum of larger amounts over more bookings is
larger (`Report_proofs`, section 1). Sums are recursive functions on subsets; the
library's induction theorems take an operator as a parameter, which the provers
cannot instantiate, so each fact about them is proved from a minimal counterexample: a
subset for which the fact fails and which has none below it (`MinimalSet`). The
bookings are assumed finite because a sum over an infinite set means nothing.

### The clock

`PartnerClock_proofs` proves, for every zone with `ZoneAssumption` (one transition
forward, a later one back, far enough apart for the hours not to overlap):

| Theorem | States |
|---|---|
| `MissingHourIsRefused` | a naive reading is refused exactly when no instant shows it |
| `WindowIsTight` | otherwise the window's ends are instants that show it and no other instant does outside; it is marked ambiguous exactly when there are two |
| `WindowHoldsTheInstant` | however an instant is written, the window made of it holds it |
| `OrderIsCertain` | newer (older) is answered exactly when every meaning of one is after (before) every meaning of the other |
| `OrderIsStrict` | newer is transitive, and older is its converse |

`FoldedReadings` computes the two folds of a reading in each part of the year and
the rest is arithmetic.

### Intake

`Intake_proofs` proves, from the assumptions on the constants (payloads are payloads,
`HonestStamps`: a stamp is a way to write the instant at which the message was stamped,
unless it is a reading the clock never showed; a change is made no later than it is
stamped):

| Theorem | Assumes | States |
|---|---|---|
| `TypesKept` | | `Spec => []TypeOK` |
| `RowsAreWholeMessages` | no replays | `Spec => []BookingIsOneMessage` |
| `DeliveriesConverge` | no replays | `Spec => []NothingNewerIsLost` |
| `UncommittedIsNotBehind` | no replays | `Spec => []NothingUncommittedIsBehind` |
| `OnlyRestampsTakeBack` | no replays | `Spec => OnlyRestampsGoBackwards` |
| `BookingsGoForwards` | no replays, and every message is stamped when its change is made | `Spec => NeverBackwards` |

for any workers, bookings, messages, windows of messages and any bound on what is
received. No replays is `"replay" \notin Operations`: answers are given, but the message
is not looked at again. With replays `OnlyRestampsGoBackwards` fails (`stale_replay`) and
so does `BookingIsOneMessage` (`MixedBooking.cfg` refutes what it implies), and the argument
with them, since it is about decisions taken on a locked row. What is left of
`RowsAreWholeMessages` is about marks and answers, which write their one column over a
row that is no longer the one they read. `BookingsGoForwards` is what
`docs/partner-coralbay.md:52` promises, under the condition that makes it true. Types need no
such assumption; their invariant (`TInv`) also says where a transaction is in its work
(`Situated`), without which an answer could not be typed.

**The argument.** What is committed can only be argued about through what
transactions are about to commit. `IInv` says of the tables that each row is one
whole message, that an unknown row is empty, and that no decided delivery is provably
newer than its row (`TablesSound`); of each transaction that it is in a proper place
(`Placed`) and that every row it has written is whole, equal to or provably newer than
the committed one, and up to date with everything the transaction itself has decided
(`Sound`); and that no two transactions have written the same row (`OneWriter`).
`OneWriter` is what makes `Sound` last: while a transaction has a row, nobody else
commits one. `Judge` keeps `Sound` because of `OrderIsStrict`: a row is replaced only
by a newer one, and what was not newer than the old row is not newer than that.
`Commit` moves `Sound` into `TablesSound`. Both theorems about going backwards then follow
from `WindowHoldsTheInstant` and `OrderIsCertain`: the two windows hold the two instants
of stamping, so a provably newer stamp was made later (`StepIsStampedLater`).

`IntakeEvents_proofs` proves `EventsAreDecidedOnce`, `Spec => []EventDecidedOnce`, from
`Init` and `Next` alone, replays included. Its invariant (`EInv`) counts decisions in
two places: in the committed deliveries each processed event has exactly one; in a
transaction each event it has claimed has exactly one, except the one it is about to
decide (`Pending`), and no event has been claimed by two transactions or claimed and
processed. A commit adds two such counts over disjoint sets of events.

### Intake and the feed

`IntakeFeed_proofs` proves `BillingSeesTheFeed`, `Spec => CommitIsFeedSteps`, without
replays: the feed that `BillingRun` is specified against is what intake does, for
any number of workers and messages and for windows of any length. It is the link
between the two halves of the project.

`AfterSteps(row, n)`, all that `n` steps of the feed can make of a row, is a recursive
function on the numbers up to `n`. That such a function exists, is the only one, and
that one step more is one more application (`StepsExist`, `StepsAreUnique`,
`AfterOneMore`) is proved from a least counterexample (`LeastNumber`). Then each
thing a message or an answer does to a row is shown to be a step of the feed on what
billing would see of it (`SeenApplied`, `SeenHeld`, `SeenAsked`, `SeenAnswered`).

The property speaks of commits only; a transaction takes many steps before. `FInv`
says for each transaction, on top of `IInv`:

* what it would leave of a booking is what as many steps of the feed as it has decided
  messages can make of what is committed (`Follows`). The booking may or may not have
  had an open question before; both are followed, because somebody else may open or
  close one until the commit;
* a transaction that answers has decided nothing and written nothing but that a hold
  is lifted (`OnlyLifts`): its commit is one step, an answer that may have missed a hold;
* its decisions are numbered one after the other with numbers nobody else has or has
  used (`Numbered`, `OwnNumbers`): the number of messages a commit decides is the number
  of deliveries it adds, and a decision never disappears in an equal one.

Messages of others that commit meanwhile do not disturb `Follows`: `OneWriter` says the
rows a transaction has written are nobody else's, and of a booking it has not written it
has at most opened a question, which is a step from whatever the row has become
(`UnlockedFollows`). `MessagesAreFeedSteps` and `AnswerIsOneFeedStep` are the commit.

### Files

`FileImport_proofs` proves, for files of any length, cut anywhere, any lookback and any
history, from the assumptions on the constants:

| Theorem | States |
|---|---|
| `FileTypes` | `Spec => []TypeOK` |
| `TheTrailerProvesTheFile` | `Spec => TrailerMeansWhole` |
| `NoFalseAlarm` | `Spec => WholeFileIsNotRefused` |
| `MinorityIsHarmless` | `Spec => []MinorityCannotLowerTheFloor` |

`TheTrailerProvesTheFile` and `NoFalseAlarm` rest on one lemma: of all that can be left of a file, only the whole
file and a file cut between two lines are complete by their looks, and a trailer with its
last digits missing is a smaller number (`CompleteByItsLooks`). `FInv` adds to the types
that what is at hand is a download of what was sent. The floor is a fifth of
the median, the count in the middle of the recent ones: it exists and is one of them
(`MedianIsInTheMiddle`), and the files that are far larger or far smaller than what it
allows are counted (`FloorIsFarBelowHalf`).

### What stays with TLC

* The liveness properties (`AttemptsAreConcluded`, `MovedMoneyIsBooked`,
  `TransactionsEnd`): the proof system has no liveness under fairness.
* The intake properties in deployments with replays, except `TypeOK` and
  `EventDecidedOnce`, which are proved there too. No run claims the others:
  `stale_replay` and `MixedBooking.cfg` refute two of them, and which of the rest survive
  is open.

Every invariant and every other action property of the passing runs is stated by a
theorem.

## 5. Where the code and its words disagree

Seven runs are expected to find a violation; each checks what a doc, a comment or
a test says of the program.

* `cancel_overwrites_claim` (2 workers): `cancel` reads a prepared line, a `submit`
  claims it and charges it, `cancel` flushes `voided` over it. `models.py:85` says of
  voided "cancelled before anything was submitted". The money has moved; the line
  says nothing was submitted.
* `cancelled_line_billed`: `establish_out_of_band` takes a line in any state and looks at
  nothing else. A line `cancel` has voided, or one cancelled while its outcome is unknown,
  goes back to `prepared` when the lookup finds nothing, still marked as cancelled, and
  the next `submit` bills it. `tests/test_cancellation.py:83`: "a cancelled obligation is
  not billed again by the next run"; `run.py:397`: "before anything was submitted, the
  line is voided and that is the end of it". (TLC's trace is the voided line, the
  shorter of the two.)
* `submit_never_looks_again`: what happens to a booking once `prepare` has read it, before
  the insert or after, changes nothing of its line: a cancellation that comes through
  intake cancels the entitlement and no line, a `cancel` that commits before the insert
  finds no line to void, a hold stays on the booking, and `submit` claims by the line's
  state alone. `README.md:123` says of a cancellation "before anything was submitted:
  voided, and that is the end of it", and `intake/service.py:247-248` of a hold "nothing
  about this booking is decidable, so nothing about it is billed".
* `answered_not_billed`: a blocked line is never released:
  `intake/service.py:584-585` says "the booking simply becomes decidable again and
  the next run bills it". (The test named "answering the question releases the
  hold and the run bills it" asserts that the line is still blocked.)
* `stale_replay` (2 workers, answers with replays): `resolve_and_replay` reads the
  booking, another worker commits a newer version, and the replay, whose select for update
  gets the object the session already has, is judged against the old version and written
  over the new one. `intake/service.py:11`: "An update is applied only if it is provably
  newer than what we hold".
* `replay_swallowed` (3 messages, 1 worker): a message held because its order cannot
  be proved, or because it conflicts, has claimed its event id, so looking at it again
  finds the id processed. `intake/service.py:577`: "Close an open question, then look
  at the held message again"; `README.md:101-102` says the same.
* `cut_between_lines`: a file cut exactly between two lines loses its trailer and is
  applied, down to a cut right after the header, unless it falls below a floor its caller
  passes. `intake/service.py:296-298`: "as a whole or not at all", and a truncated download
  stops the batch; `docs/partner-lindhoff.md:24` says the same. With any of the trailer
  left nothing gets past (`TrailerMeansWhole`, proved).

Four more configurations, which are not among the runs of `PROJECT.json`, find further
sentences refuted; each takes TLC at most a minute.

* `MixedBooking.cfg` (`MCIntake`, `NothingIsInvented`; the instance of `stale_replay`): the
  replay's flush writes only the columns that differ from the object it read, so where
  another worker has changed the row since, the row ends with the amount and dates of one
  message and the status of the other. `intake/service.py:17-18`: "the kernel never invents
  a fact about a booking in order to keep moving".
* `RestampedRetry.cfg` (`MCIntake`, `NeverBackwards`; 2 messages, 1 worker): the first copy
  of an event is lost, a later change is applied, and the retry arrives with a stamp fresher
  than both. Its id is new and its stamp is newer, so it is applied.
  `docs/partner-coralbay.md:52`: "An event that is older than what we hold never moves a
  booking backwards". (The test of the restamped retry, `test_intake_edges.py:89`, has both
  copies arrive.)
* `HoldWithoutQuestion.cfg` (`MCIntake`, `HoldHasAnOpenQuestion`; 2 workers): a hold commits
  after an answer has read the booking and before it reads the open items: its item is
  closed and the hold stays. `models.py:184-185` says of the hold "Cleared when the question
  is answered".
* `QuestionBlocksUnheld.cfg` (`MCBillingRun`, `ReportedUnaffectedIsUnaffected`): a question
  raised before its booking is known, or by a refusal that looked the booking up just
  before it was, is no hold, and blocks the booking's line all the same; the report says of
  it "this message only, the booking is unaffected" (`reconciliation.py:95`).

Seen while modelling, and not refuting any sentence of the repository:

* Two resumes on one line: the one that listed it as expired may mark it
  unresolved after the other has charged it. The reference survives (proved), and
  establishing repairs the state.
* `resume` judges age with the `now` it read at its start, so in a long run it may
  present a key that has meanwhile left the window. The simulated provider refuses
  it; the model's `CreateChargeReplay` takes that branch.
* References are numbered by counting rows, so two concurrent creates for
  different keys can get the same one.
* A Lindhoff row or push without a reference becomes the booking `"None"`
  (`partners/lindhoff.py:139`), shared by all of them; `partners/base.py:3-6` says an
  adapter is not allowed to guess. The booking is in the `intake` run. A push without
  `cust` is an uncaught `KeyError` (`lindhoff.py:142`).
* `#rows=` with its number cut off is a `ValueError` nobody catches, and so is
  (`KeyError`) a row under column names with blanks around them: `resolve_columns`
  strips the names and `import_file` reads the row by the names as they are. Neither
  leaves a batch row behind. The same goes for a number that does not fit its
  column: the whole file is rolled back for one row.
* "Applying a truncated file silently cancels every booking it failed to mention"
  (`service.py:392`): a booking that is not mentioned is not touched.
* A feed that shrinks below a fifth of its size is held every night: files that are
  held do not count for the floor.
* The other half of `HoldWithoutQuestion.cfg`: a refusal looks its booking up without a lock,
  so an answer that is lifting a hold at that moment may leave the refusal's question
  without a hold (`AfterAnswer`, `AfterHold`). `prepare` still sees the question.
* `DeliveryOutcome.HELD` is never produced.

## 6. What is not modelled

* The wording of the report's open questions, its counts by cancellation and its
  rendering: they read tables and format text.
* The status code of a push: a formatting of the outcome.
* `version_conflicts`: one row per delivery whose outcome is `conflict`, resolved with
  the questions; no operation but the report's reads it. The locks of quarantine rows
  that two answers of one question would close together: both set the same columns.
* `month_bounds` and `period_of`: a billing period is a model value, and a booking's
  dates are the set of periods they overlap.
* The channel, the batch id, the raw payload and the received time of a delivery,
  the journal (append-only text), connection set-up, configuration, the demonstration
  script, and `InjectedClientProvider` (a pass-through to a client outside the
  repository).
* The switches that disable holding and conflict detection: off in normal operation.

A database that aborts a transaction for another reason than a deadlock (a value too
long or too large for its column) is a `Crash` of the worker as far as the tables are
concerned.

The promise that an amount is what the partner meant (`amount_basis`) is an
interpretation of a field and not a property of the program; `BillableAmount`
takes the booking's worth for a period as one number.

## 7. The plan

1. *Done*: `BookingFeed`, `Provider`, `BillingRun`, `Obligation`, their runs and
   proofs.
2. *Done*: `PartnerClock`, `Adapters`, `Intake`, with the clock's lemmas, intake's
   invariants and `BookingFeed` as what intake implements.
3. *Done*: `FileImport`, and the money side of `Report`.
4. *Done*: the proofs of the invariants that hold only without corrections, or for one
   worker, and that an event is decided once.
5. *Done*: the proofs about files, the report, and that intake is the feed billing is
   specified against.
6. *Done*: lines established in any state, answers without a question, retries stamped
   afresh, and what the report says an open question holds up.
7. Left: which of intake's rules hold with replays.
