----------------------------- MODULE BillingRun -----------------------------
(***************************************************************************)
(* Monthly billing: prepare, submit, resume, establish, cancel, run by any *)
(* number of workers against one database and one payment provider, while  *)
(* intake keeps changing the bookings (BookingFeed).                       *)
(*                                                                         *)
(* Every database transaction is one step, and a transaction that reads a  *)
(* row and writes it back later is two: the row is read without a lock     *)
(* under READ COMMITTED, the session remembers what it read, and the flush *)
(* updates exactly the columns the code has changed since.  A worker may   *)
(* die between any two steps; what its session had not committed is gone.  *)
(***************************************************************************)
EXTENDS BookingFeed, Provider

CONSTANTS
    Workers,      \* processes running billing operations
    CrashUntil    \* workers may die only while the clock is below this bound

ASSUME BillingAssumption == CrashUntil \in Nat

VARIABLES
    lines,    \* billing_lines: for each entitlement and period, its line if any
    worker    \* what each worker is in the middle of

vars == <<booking, question, entitlement, charges, clock, lines, worker>>

-----------------------------------------------------------------------------
\* One obligation per entitlement and period.  An entitlement is one to one
\* with its booking (bookings.id is unique in entitlements).
Obligations == Bookings \X Periods

LineStates == {"prepared", "submitted", "charged", "voided", "blocked", "unresolved"}

Cancellations == {"none", "before_submission", "while_unresolved", "after_charge"}

Never == -1        \* submitted_at is null
NoRef == 0         \* charge_ref is null
NoKey == <<>>

Line == [state : LineStates \cup {"absent"}, cancellation : Cancellations,
         submittedAt : Nat \cup {Never}, chargeRef : Nat,
         amount : Amounts \cup {0}, key : Obligations \cup {NoKey},
         fingerprint : [amount : Amounts \cup {0}]]

NoLine == [state |-> "absent", cancellation |-> "none", submittedAt |-> Never,
           chargeRef |-> NoRef, amount |-> 0, key |-> NoKey,
           fingerprint |-> RequestFingerprint(0)]

Request == [key : Obligations \cup {NoKey}, fingerprint : [amount : Amounts \cup {0}],
            amount : Amounts \cup {0}]

NoRequest == [key |-> NoKey, fingerprint |-> RequestFingerprint(0), amount |-> 0]

Charge == [key : Obligations, fingerprint : [amount : Amounts \cup {0}],
           amount : Amounts \cup {0}, ref : Nat \ {0}, createdAt : Nat]

Tasks == {"none", "prepare", "submit", "resume", "establish", "cancel"}

Steps == {"idle", "judging", "submitting", "resuming", "calling", "executing",
          "answered", "settling", "expiring", "looking", "recording", "cancelling"}

NoRows == [o \in Obligations |-> NoLine]

\* A worker's locals: the call's task and step, the clock it read when it
\* began, the obligations of its list still to do (and those a resume found
\* expired), the one it is on, the request it sends, the charge reference it
\* was given, and the rows its open session holds.
Worker == [task : Tasks, at : Steps, now : Nat, todo : SUBSET Obligations,
           expired : SUBSET Obligations, line : Obligations \cup {NoKey},
           request : Request, ref : Nat, rows : [Obligations -> Line]]

Idle == [task |-> "none", at |-> "idle", now |-> 0, todo |-> {}, expired |-> {},
         line |-> NoKey, request |-> NoRequest, ref |-> NoRef, rows |-> NoRows]

TypeOK ==
    /\ FeedTypeOK
    /\ charges \subseteq Charge /\ IsFiniteSet(charges)
    /\ clock \in Nat
    /\ lines \in [Obligations -> Line]
    /\ worker \in [Workers -> Worker]

Init ==
    /\ FeedInit
    /\ charges = {}
    /\ clock = 0
    /\ lines = NoRows
    /\ worker = [w \in Workers |-> Idle]

-----------------------------------------------------------------------------
Exists(o) == lines[o].state # "absent"

\* What a fresh session holds after reading the rows of S: the others are
\* simply not in it.
Load(S) == [o \in Obligations |-> IF o \in S THEN lines[o] ELSE NoLine]

\* The UPDATE a flush emits: a column is written only if the session's value
\* differs from the one it read.  The other columns keep whatever anybody else
\* has committed meanwhile.
WriteBack(current, read, new) ==
    [current EXCEPT
        !.state        = IF new.state        = read.state        THEN @ ELSE new.state,
        !.cancellation = IF new.cancellation = read.cancellation THEN @ ELSE new.cancellation,
        !.submittedAt  = IF new.submittedAt  = read.submittedAt  THEN @ ELSE new.submittedAt,
        !.chargeRef    = IF new.chargeRef    = read.chargeRef    THEN @ ELSE new.chargeRef]

\* The flush of a session holding one changed row.
FlushLine(w, new) ==
    LET o == worker[w].line IN
    lines' = [lines EXCEPT ![o] = WriteBack(@, worker[w].rows[o], new)]

\* Variant: a fresh key on every attempt (mutations.py, DERIVED_IDEMPOTENCY_KEY).
RequestWithFreshKey(line) ==
    [key |-> <<line.key[1], line.key[2], clock>>, fingerprint |-> line.fingerprint, amount |-> line.amount]

\* Variant: the amount is read from the booking again on every attempt.
RequestAtCurrentPrice(line) ==
    LET amount == booking[line.key[1]].amount IN
    [key |-> line.key, fingerprint |-> RequestFingerprint(amount), amount |-> amount]

\* The request a session takes from the line it has read.
RequestOf(line) == [key |-> line.key, fingerprint |-> line.fingerprint, amount |-> line.amount]

\* Back to the head of the loop over the call's list.
Continue(ctx) ==
    [ctx EXCEPT !.at = IF ctx.task = "submit" THEN "submitting" ELSE "resuming",
                !.line = NoKey, !.request = NoRequest, !.ref = NoRef, !.rows = NoRows]

Start(w, operation) == worker[w].at = "idle" /\ operation \in Operations

At(w, step) == worker[w].at = step

Become(w, ctx) == worker' = [worker EXCEPT ![w] = ctx]

feedUnchanged == UNCHANGED <<booking, question, entitlement>>

-----------------------------------------------------------------------------
\* 1. Preparation: one transaction that reads every obligation due in the
\* period, asks again about open questions row by row, and inserts the lines.

IdempotencyKeyFor(b, p) == <<b, p>>

BillableAmount(held) == held.amount

Due(p) == {b \in Bookings : entitlement[b].state # "none" /\ p \in entitlement[b].periods}

DraftState(b) ==
    CASE booking[b].undecided               -> "blocked"
      [] ~booking[b].undecided /\ entitlement[b].state = "cancelled" -> "voided"
      [] OTHER                              -> "prepared"

Draft(b, p) ==
    [NoLine EXCEPT !.state = DraftState(b),
                   !.amount = BillableAmount(booking[b]),
                   !.key = IdempotencyKeyFor(b, p),
                   !.fingerprint = RequestFingerprint(BillableAmount(booking[b]))]

PrepareRead(w, p) ==
    /\ Start(w, "prepare")
    /\ Become(w, [Idle EXCEPT !.task = "prepare", !.at = "judging",
                     !.todo = Due(p) \X {p},
                     !.rows = [o \in Obligations |->
                         IF o \in Due(p) \X {p} THEN Draft(o[1], o[2]) ELSE NoLine]])
    /\ feedUnchanged /\ UNCHANGED <<charges, clock, lines>>

\* A later statement of the same transaction sees questions opened since.
PrepareJudge(w, o) ==
    /\ At(w, "judging")
    /\ o \in worker[w].todo
    /\ Become(w, [worker[w] EXCEPT !.todo = @ \ {o},
                     !.rows[o].state = IF question[o[1]] THEN "blocked" ELSE @])
    /\ feedUnchanged /\ UNCHANGED <<charges, clock, lines>>

\* Variant: the insert updates the line it conflicts with.
PrepareCommitOverwriting(w) ==
    /\ At(w, "judging")
    /\ worker[w].todo = {}
    /\ lines' = [o \in Obligations |->
           IF worker[w].rows[o].state # "absent" THEN worker[w].rows[o] ELSE lines[o]]
    /\ Become(w, Idle)
    /\ feedUnchanged /\ UNCHANGED <<charges, clock>>

\* INSERT ... ON CONFLICT DO NOTHING on (entitlement, period): a line that
\* exists is never touched.
PrepareCommit(w) ==
    /\ At(w, "judging")
    /\ worker[w].todo = {}
    /\ lines' = [o \in Obligations |-> IF Exists(o) THEN lines[o] ELSE worker[w].rows[o]]
    /\ Become(w, Idle)
    /\ feedUnchanged /\ UNCHANGED <<charges, clock>>

-----------------------------------------------------------------------------
\* 2. Submission: list the prepared lines, then claim, call and settle each.

SubmitList(w, p) ==
    /\ Start(w, "submit")
    /\ Become(w, [Idle EXCEPT !.task = "submit", !.at = "submitting", !.now = clock,
                     !.todo = {o \in Obligations : o[2] = p /\ lines[o].state = "prepared"}])
    /\ feedUnchanged /\ UNCHANGED <<charges, clock, lines>>

\* Variant: the claim trusts the list it read.
ClaimableAsListed(line) == TRUE

\* What the conditional UPDATE finds to take.
Claimable(line) == line.state = "prepared"

\* Variant: the claim is rolled back (mutations.py, INTENT_BEFORE_CALL).
ClaimRolledBack(line, now) == line

\* The row after the claim's transaction.
Claimed(line, now) == [line EXCEPT !.state = "submitted", !.submittedAt = now]

SubmitClaim(w, o) ==
    /\ At(w, "submitting")
    /\ o \in worker[w].todo
    /\ Claimable(lines[o])
    /\ lines' = [lines EXCEPT ![o] = Claimed(@, worker[w].now)]
    /\ Become(w, [worker[w] EXCEPT !.at = "calling", !.todo = @ \ {o}, !.line = o,
                     !.request = RequestOf(lines[o])])
    /\ feedUnchanged /\ UNCHANGED <<charges, clock>>

SubmitSkip(w, o) ==
    /\ At(w, "submitting")
    /\ o \in worker[w].todo
    /\ ~Claimable(lines[o])
    /\ Become(w, [worker[w] EXCEPT !.todo = @ \ {o}])
    /\ feedUnchanged /\ UNCHANGED <<charges, clock, lines>>

ListDone(w) ==
    /\ worker[w].at \in {"submitting", "resuming"}
    /\ worker[w].todo = {}
    /\ Become(w, Idle)
    /\ feedUnchanged /\ UNCHANGED <<charges, clock, lines>>

-----------------------------------------------------------------------------
\* The provider call, shared by submit and resume.  The two catch different
\* exceptions; one that is not caught ends the worker.

Catches(task) ==
    CASE task = "submit" -> {"ProviderUnavailable", "IdempotencyConflict"}
      [] task = "resume" -> {"ProviderUnavailable", "KeyNoLongerRetained"}
      [] OTHER -> {}

Raise(w, exception) ==
    Become(w, IF exception \in Catches(worker[w].task) THEN Continue(worker[w]) ELSE Idle)

\* The key is new to the provider: it counts its rows for the next reference.
CreateChargeNew(w) ==
    /\ At(w, "calling")
    /\ ChargesFor(worker[w].request.key) = {}
    /\ Become(w, [worker[w] EXCEPT !.at = "executing", !.ref = NextChargeRef])
    /\ feedUnchanged /\ UNCHANGED <<charges, clock, lines>>

\* The key is known: forgotten, refused, or the stored result is replayed.
CreateChargeReplay(w) ==
    /\ At(w, "calling")
    /\ \E c \in ChargesFor(worker[w].request.key) :
           IF KeyNoLongerRetained(c) THEN Raise(w, "KeyNoLongerRetained")
           ELSE IF IdempotencyConflict(c, worker[w].request) THEN Raise(w, "IdempotencyConflict")
           ELSE Become(w, [worker[w] EXCEPT !.at = "answered", !.ref = c.ref])
    /\ feedUnchanged /\ UNCHANGED <<charges, clock, lines>>

\* The operation is carried out, and its answer arrives or is lost.
CreateChargeExecute(w) ==
    /\ At(w, "executing")
    /\ CarryOut(worker[w].request, worker[w].ref)
    /\ \/ Become(w, [worker[w] EXCEPT !.at = "answered"])
       \/ Raise(w, "ProviderUnavailable")
    /\ feedUnchanged /\ UNCHANGED <<clock, lines>>

\* Somebody else inserted the key between the two statements.
CreateChargeRaced(w) ==
    /\ At(w, "executing")
    /\ ChargesFor(worker[w].request.key) # {}
    /\ Raise(w, "IntegrityError")
    /\ feedUnchanged /\ UNCHANGED <<charges, clock, lines>>

\* Variant: the state is recorded without the reference it rests on.
SettledWithoutReference(line, ref) == [line EXCEPT !.state = "charged"]

Settled(line, ref) == [line EXCEPT !.state = "charged", !.chargeRef = ref]

SettleLoad(w) ==
    /\ At(w, "answered")
    /\ Become(w, [worker[w] EXCEPT !.at = "settling", !.rows = Load({worker[w].line})])
    /\ feedUnchanged /\ UNCHANGED <<charges, clock, lines>>

SettleFlush(w) ==
    /\ At(w, "settling")
    /\ FlushLine(w, Settled(worker[w].rows[worker[w].line], worker[w].ref))
    /\ Become(w, Continue(worker[w]))
    /\ feedUnchanged /\ UNCHANGED <<charges, clock>>

-----------------------------------------------------------------------------
\* 3. Resume: list the submitted lines with their ages as of now, then give up
\* on those past the retention window and present the key again for the rest.

Age(line, now) == IF line.submittedAt = Never THEN 0 ELSE now - line.submittedAt

\* Variant: the retention window is never looked at.
NeverPastRetention(line, now) == FALSE

PastRetention(line, now) == Age(line, now) > Retention

ResumeList(w, p) ==
    LET pending == {o \in Obligations : o[2] = p /\ lines[o].state = "submitted"} IN
    /\ Start(w, "resume")
    /\ Become(w, [Idle EXCEPT !.task = "resume", !.at = "resuming", !.todo = pending,
                     !.expired = {o \in pending : PastRetention(lines[o], clock)}])
    /\ feedUnchanged /\ UNCHANGED <<charges, clock, lines>>

ResumeRead(w, o) ==
    /\ At(w, "resuming")
    /\ o \in worker[w].todo \ worker[w].expired
    /\ Become(w, [worker[w] EXCEPT !.at = "calling", !.todo = @ \ {o}, !.line = o,
                     !.request = RequestOf(lines[o])])
    /\ feedUnchanged /\ UNCHANGED <<charges, clock, lines>>

ExpireLoad(w, o) ==
    /\ At(w, "resuming")
    /\ o \in worker[w].todo \cap worker[w].expired
    /\ Become(w, [worker[w] EXCEPT !.at = "expiring", !.todo = @ \ {o}, !.line = o,
                     !.rows = Load({o})])
    /\ feedUnchanged /\ UNCHANGED <<charges, clock, lines>>

ExpireFlush(w) ==
    /\ At(w, "expiring")
    /\ FlushLine(w, [worker[w].rows[worker[w].line] EXCEPT !.state = "unresolved"])
    /\ Become(w, Continue(worker[w]))
    /\ feedUnchanged /\ UNCHANGED <<charges, clock>>

-----------------------------------------------------------------------------
\* Out of band: a person looks a line up in the provider's records.  It is meant
\* for unresolved lines, and takes a line in any state.

EstablishLoad(w, o) ==
    /\ Start(w, "establish")
    /\ Exists(o)
    /\ Become(w, [Idle EXCEPT !.task = "establish", !.at = "looking", !.line = o,
                     !.rows = Load({o})])
    /\ feedUnchanged /\ UNCHANGED <<charges, clock, lines>>

EstablishLookup(w) ==
    LET found == ChargesFor(worker[w].rows[worker[w].line].key) IN
    /\ At(w, "looking")
    /\ \/ /\ found = {}
          /\ Become(w, [worker[w] EXCEPT !.at = "recording"])
       \/ \E c \in found : Become(w, [worker[w] EXCEPT !.at = "recording", !.ref = c.ref])
    /\ feedUnchanged /\ UNCHANGED <<charges, clock, lines>>

\* Variant: the line is put back whatever the lookup found.
EstablishedWithoutLooking(line, ref) ==
    [line EXCEPT !.state = "prepared", !.submittedAt = Never]

\* Variant: a found operation is noted in the reason and nowhere else.
EstablishedInProse(line, ref) ==
    IF ref = NoRef THEN [line EXCEPT !.state = "prepared", !.submittedAt = Never] ELSE line

Established(line, ref) ==
    IF ref = NoRef THEN [line EXCEPT !.state = "prepared", !.submittedAt = Never]
                   ELSE Settled(line, ref)

EstablishFlush(w) ==
    /\ At(w, "recording")
    /\ FlushLine(w, Established(worker[w].rows[worker[w].line], worker[w].ref))
    /\ Become(w, Idle)
    /\ feedUnchanged /\ UNCHANGED <<charges, clock>>

-----------------------------------------------------------------------------
\* 4. Cancellation of one obligation, against whatever state each line was
\* read in.

\* Variant: an attempt in flight is voided like one never made.
CancelledWhateverItsState(line) ==
    IF line.state \in {"prepared", "blocked", "submitted", "unresolved"}
    THEN [line EXCEPT !.state = "voided", !.cancellation = "before_submission"]
    ELSE [line EXCEPT !.cancellation = "after_charge"]

Cancelled(line) ==
    CASE line.state \in {"prepared", "blocked"} ->
             [line EXCEPT !.state = "voided", !.cancellation = "before_submission"]
      [] line.state \in {"submitted", "unresolved"} ->
             [line EXCEPT !.cancellation = "while_unresolved"]
      [] line.state = "charged" ->
             [line EXCEPT !.cancellation = "after_charge"]
      [] OTHER -> line

CancelLoad(w, b) ==
    /\ Start(w, "cancel")
    /\ entitlement[b].state # "none"
    /\ Become(w, [Idle EXCEPT !.task = "cancel", !.at = "cancelling",
                     !.todo = {b} \X Periods, !.rows = Load({b} \X Periods)])
    /\ feedUnchanged /\ UNCHANGED <<charges, clock, lines>>

CancelFlush(w) ==
    LET read == worker[w].rows IN
    /\ At(w, "cancelling")
    /\ entitlement' = [b \in Bookings |->
           IF \E o \in worker[w].todo : o[1] = b
           THEN [entitlement[b] EXCEPT !.state = "cancelled"] ELSE entitlement[b]]
    /\ lines' = [o \in Obligations |-> WriteBack(lines[o], read[o], Cancelled(read[o]))]
    /\ Become(w, Idle)
    /\ UNCHANGED <<booking, question, charges, clock>>

-----------------------------------------------------------------------------
\* The process dies: its session is rolled back and its locals are gone.
Crash(w) ==
    /\ ~At(w, "idle")
    /\ clock < CrashUntil
    /\ Become(w, Idle)
    /\ feedUnchanged /\ UNCHANGED <<charges, clock, lines>>

Tick ==
    /\ clock < MaxTime
    /\ clock' = clock + 1
    /\ feedUnchanged /\ UNCHANGED <<charges, lines, worker>>

Feed == FeedNext /\ UNCHANGED <<charges, clock, lines, worker>>

Prepare(w) ==
    \/ \E p \in Periods : PrepareRead(w, p)
    \/ \E o \in Obligations : PrepareJudge(w, o)
    \/ PrepareCommit(w)

Submit(w) ==
    \/ \E p \in Periods : SubmitList(w, p)
    \/ \E o \in Obligations : SubmitClaim(w, o) \/ SubmitSkip(w, o)

CreateCharge(w) ==
    CreateChargeNew(w) \/ CreateChargeReplay(w) \/ CreateChargeExecute(w) \/ CreateChargeRaced(w)

Settle(w) == SettleLoad(w) \/ SettleFlush(w)

Resume(w) ==
    \/ \E p \in Periods : ResumeList(w, p)
    \/ \E o \in Obligations : ResumeRead(w, o) \/ ExpireLoad(w, o)
    \/ ExpireFlush(w)

Establish(w) ==
    \/ \E o \in Obligations : EstablishLoad(w, o)
    \/ EstablishLookup(w)
    \/ EstablishFlush(w)

Cancel(w) == (\E b \in Bookings : CancelLoad(w, b)) \/ CancelFlush(w)

WorkerNext(w) ==
    \/ Prepare(w) \/ Submit(w) \/ CreateCharge(w) \/ Settle(w) \/ ListDone(w)
    \/ Resume(w) \/ Establish(w) \/ Cancel(w)

Next == Feed \/ Tick \/ \E w \in Workers : WorkerNext(w) \/ Crash(w)

Spec == Init /\ [][Next]_vars

-----------------------------------------------------------------------------
\* What may be assumed of whoever runs the operations.  Nothing in the code
\* schedules them: a call that has begun runs to its end or its worker dies,
\* time passes, and somebody keeps calling submit, resume and, for a line the
\* report shows as unresolved, establish, each time a worker is free.

Proceeds(w) == ~At(w, "idle") /\ WorkerNext(w)

Fairness ==
    /\ WF_vars(Tick)
    /\ \A w \in Workers : WF_vars(Proceeds(w))
    /\ \A p \in Periods :
           /\ SF_vars(\E w \in Workers : SubmitList(w, p))
           /\ SF_vars(\E w \in Workers : ResumeList(w, p))
    /\ \A o \in Obligations :
           SF_vars(\E w \in Workers : lines[o].state = "unresolved" /\ EstablishLoad(w, o))

FairSpec == Spec /\ Fairness

-----------------------------------------------------------------------------
\* Safety.

SameObligation(key, other) == key[1] = other[1] /\ key[2] = other[2]

\* Money moves at most once for an entitlement and period, whatever crashes,
\* retries, concurrent workers and out-of-band corrections happen in between
\* (the derived key of billing/run.py against the provider's unique index).
OneOperationPerObligation ==
    \A c, d \in charges : SameObligation(c.key, d.key) => c = d

\* The parameters are frozen when the line is prepared: an operation is carried
\* out for the amount its line records, however the booking has been amended
\* since, and no retry ever clashes with what was first sent.
ParametersStayFrozen ==
    /\ \A c \in charges : \E o \in Obligations :
           /\ lines[o].key = c.key
           /\ lines[o].amount = c.amount
    /\ \A w \in Workers : worker[w].at \in {"calling", "executing"} =>
           \A c \in ChargesFor(worker[w].request.key) :
               ~IdempotencyConflict(c, worker[w].request)

\* A line is only ever settled on evidence: a reference it carries is that of
\* an operation carried out under its own key, and a charged line carries one.
SettledOnEvidence ==
    \A o \in Obligations :
        /\ lines[o].state = "charged" => lines[o].chargeRef # NoRef
        /\ lines[o].chargeRef # NoRef =>
               \E c \in ChargesFor(lines[o].key) : c.ref = lines[o].chargeRef

\* The intent is durable before the call: while only workers run (no person
\* cancels or establishes), an operation that exists, or may be about to, has a
\* line that says an attempt was made, so a later resume finds it.
AttemptIsOnRecord ==
    \A o \in Obligations :
        (\/ \E c \in charges : SameObligation(c.key, o)
         \/ \E w \in Workers : worker[w].at \in {"calling", "executing"} /\ worker[w].line = o)
        => lines[o].state \in {"submitted", "charged", "unresolved"}

\* One worker takes a prepared line: two submits are never on the same one.
ClaimIsExclusive ==
    \A v, w \in Workers :
        /\ v # w
        /\ worker[v].task = "submit" /\ worker[w].task = "submit"
        => worker[v].line # worker[w].line \/ worker[v].line = NoKey

\* With one worker at a time, whatever line cancel and establish are called for,
\* a cancelled line does not contradict the provider: one marked "after_charge"
\* is charged, no money moved for a voided one, and no line is voided or given up
\* on once its outcome is in the books.  (What it does not say is that a cancelled
\* line is not billed again: CancelledLineIsNotBilledAgain.)
CancellationIsTruthful ==
    \A o \in Obligations :
        /\ lines[o].cancellation = "after_charge" => lines[o].state = "charged"
        /\ lines[o].state \in {"voided", "unresolved"} => lines[o].chargeRef = NoRef
        /\ lines[o].state = "voided" => ~\E c \in charges : SameObligation(c.key, o)

-----------------------------------------------------------------------------
\* What the repository says of the program and two workers, or the order of two
\* operations, can make it do otherwise.

\* A voided line is one for which nothing was ever submitted (models.py says of
\* VOIDED "cancelled before anything was submitted").
VoidedMeansNothingSent ==
    \A o \in Obligations : lines[o].state = "voided" =>
        ~\E c \in charges : SameObligation(c.key, o)

Takes(o) == lines[o].state # "submitted" /\ lines'[o].state = "submitted"

\* Once a cancellation is recorded on a line, no later run bills that line
\* (test_cancellation.py, "a cancelled obligation is not billed again by the
\* next run"; run.py, of a line nothing was submitted for, "the line is voided and
\* that is the end of it").
CancelledLineIsNotBilledAgain ==
    [][\A o \in Obligations : lines[o].cancellation # "none" => ~Takes(o)]_vars

\* What is submitted is still owed and still decidable: its obligation has not been
\* cancelled (README, "before anything was submitted: voided, and that is the end
\* of it") and its booking is not held (intake/service.py, "nothing about this
\* booking is decidable, so nothing about it is billed").
SubmittedIsStillOwed ==
    [][\A o \in Obligations : Takes(o) =>
           /\ entitlement[o[1]].state # "cancelled"
           /\ ~booking[o[1]].undecided]_vars

\* Once the question is answered, the next run bills the booking: a run that
\* finds it decidable and owed leaves no blocked line for the period
\* (intake/service.py, "the booking simply becomes decidable again and the next
\* run bills it").
AnsweredBookingIsBilledByNextRun ==
    [][\A w \in Workers, o \in Obligations :
           PrepareCommit(w) /\ worker[w].rows[o].state = "prepared"
           => lines'[o].state # "blocked"]_vars

-----------------------------------------------------------------------------
\* The refinement: what the lines and the provider's table together promise.

IntentOf(o) == IF Exists(o) THEN {lines[o].amount} ELSE {}

MovedFor(o) == {[amount |-> c.amount, ref |-> c.ref] : c \in ChargesFor(o)}

BookedFor(o) == IF lines[o].chargeRef = NoRef THEN {} ELSE {lines[o].chargeRef}

Promise == INSTANCE Obligation WITH
    Amounts <- Amounts \cup {0},
    intent <- [o \in Obligations |-> IntentOf(o)],
    moved  <- [o \in Obligations |-> MovedFor(o)],
    booked <- [o \in Obligations |-> BookedFor(o)]

\* Every step of the billing run is a step of the obligation's promise, or
\* changes nothing it can see.
ImplementsPromise == Promise!Spec

-----------------------------------------------------------------------------
\* Liveness.

\* An attempt is always followed by an answer or by an admission that there is
\* none: no line stays submitted for ever.
AttemptsAreConcluded ==
    \A o \in Obligations :
        lines[o].state = "submitted" ~> lines[o].state \in {"charged", "unresolved"}

\* Money that moved is eventually in the books.
MovedMoneyIsBooked ==
    \A o \in Obligations : (ChargesFor(o) # {}) ~> (lines[o].state = "charged")

-----------------------------------------------------------------------------
\* The inductive invariant behind the safety properties.  A worker's locals are
\* about rows it may have read long ago, so each part relates them to what can
\* no longer change: a line's parameters, a reference once booked, a charge.

\* The parameters of an existing line are the ones frozen for its obligation.
Intact(line, o) ==
    /\ line.key = o
    /\ line.fingerprint = RequestFingerprint(line.amount)
    /\ line.state = "charged" => line.chargeRef # NoRef

TablesIntact ==
    /\ \A o \in Obligations : Exists(o) => Intact(lines[o], o)
    /\ \A o \in Obligations : lines[o].chargeRef # NoRef =>
           \E c \in charges : c.key = o /\ c.ref = lines[o].chargeRef
    /\ \A c \in charges :
           /\ Exists(c.key)
           /\ c.fingerprint = lines[c.key].fingerprint
           /\ c.amount = lines[c.key].amount
    /\ \A c, d \in charges : c.key = d.key => c = d

\* The rows of an open session are drafts of new lines, or were read from lines
\* whose reference, if they had one, is still the same.
RowsIntact(ctx) ==
    \A o \in Obligations : ctx.rows[o].state # "absent" =>
        /\ Intact(ctx.rows[o], o)
        /\ ctx.at # "judging" =>
               Exists(o) /\ ctx.rows[o].chargeRef \in {NoRef, lines[o].chargeRef}

\* A request on its way is the one its line still records.
RequestIntact(ctx) ==
    ctx.at \in {"calling", "executing", "answered", "settling"} =>
        /\ ctx.line \in Obligations
        /\ Exists(ctx.line)
        /\ ctx.request = RequestOf(lines[ctx.line])

\* An answer in hand is that of an operation carried out under the line's key.
AnswerIntact(ctx) ==
    /\ ctx.at = "executing" => ctx.ref # NoRef
    /\ ctx.at \in {"answered", "settling"} => ctx.ref # NoRef
    /\ ctx.at \in {"answered", "settling", "recording"} /\ ctx.ref # NoRef =>
           \E c \in charges : c.key = ctx.line /\ c.ref = ctx.ref

\* A session about to judge or to flush a line holds that line, and a draft
\* carries no reference.
SessionIntact(ctx) ==
    /\ ctx.at = "judging" =>
           /\ \A o \in Obligations : ctx.rows[o].chargeRef = NoRef
           /\ \A o \in ctx.todo : ctx.rows[o].state # "absent"
    /\ ctx.at = "looking" => ctx.ref = NoRef
    /\ ctx.at \in {"settling", "expiring", "looking", "recording"} =>
           ctx.line \in Obligations /\ ctx.rows[ctx.line].state # "absent"

\* What is left of a list of lines names lines that exist.
ListIntact(ctx) ==
    ctx.at \notin {"judging", "cancelling"} => \A o \in ctx.todo : Exists(o)

WorkerIntact(ctx) ==
    /\ RowsIntact(ctx)
    /\ RequestIntact(ctx)
    /\ AnswerIntact(ctx)
    /\ SessionIntact(ctx)
    /\ ListIntact(ctx)

\* What is frozen stays frozen in every row, request and answer, however many
\* workers are anywhere in their calls.
NothingFrozenMoves ==
    /\ TypeOK
    /\ TablesIntact
    /\ \A w \in Workers : WorkerIntact(worker[w])

=============================================================================
