-------------------------- MODULE BillingRun_proofs --------------------------
(***************************************************************************)
(* What BillingRun promises for every number of bookings, periods, workers *)
(* and amounts, every retention window and every choice of operations.     *)
(*                                                                         *)
(* The argument is one inductive invariant, NothingFrozenMoves.  Its parts *)
(* about a worker only mention what the tables never take back, so they    *)
(* survive every step of the other workers (lemma Monotone) and each       *)
(* action is left with its own worker and the rows it writes.              *)
(***************************************************************************)
EXTENDS BillingRun, FiniteSetTheorems, TLAPS

\* What every step does to the tables: lines keep their parameters and any
\* reference they carry, and charges are only added.
Grows ==
    /\ charges \subseteq charges'
    /\ \A o \in Obligations : Exists(o) =>
           /\ Exists(o)'
           /\ RequestOf(lines'[o]) = RequestOf(lines[o])
           /\ lines[o].chargeRef # NoRef => lines'[o].chargeRef = lines[o].chargeRef

-----------------------------------------------------------------------------
\* The parts about the types.

\* The empty row, the empty set of rows and the idle worker are well typed.
LEMMA EmptiesAreTyped ==
    NoLine \in Line /\ NoRows \in [Obligations -> Line] /\ Idle \in Worker
  <1>1. NoLine \in Line
    BY DEF NoLine, Line, LineStates, Cancellations, NoRef, RequestFingerprint, Never
  <1>2. NoRows \in [Obligations -> Line]
    BY <1>1 DEF NoRows
  <1>3. NoRequest \in Request
    BY DEF NoRequest, Request, RequestFingerprint
  <1>. QED
    BY <1>1, <1>2, <1>3 DEF Idle, Worker, Tasks, Steps, NoRef

\* A line written back is a line, for any of the values a session can hold.
LEMMA WriteBackIsTyped ==
    ASSUME NEW current \in Line, NEW read \in Line, NEW new \in Line
    PROVE  WriteBack(current, read, new) \in Line
  <1>. DEFINE state == IF new.state = read.state THEN current.state ELSE new.state
              cancellation == IF new.cancellation = read.cancellation
                              THEN current.cancellation ELSE new.cancellation
              submittedAt == IF new.submittedAt = read.submittedAt
                             THEN current.submittedAt ELSE new.submittedAt
              chargeRef == IF new.chargeRef = read.chargeRef
                           THEN current.chargeRef ELSE new.chargeRef
  <1>1. /\ state \in LineStates \cup {"absent"}
        /\ cancellation \in Cancellations
        /\ submittedAt \in Nat \cup {Never}
        /\ chargeRef \in Nat
    BY DEF Line
  <1>2. WriteBack(current, read, new) =
            [current EXCEPT !.state = state, !.cancellation = cancellation,
                            !.submittedAt = submittedAt, !.chargeRef = chargeRef]
    BY DEF WriteBack
  <1>. HIDE DEF state, cancellation, submittedAt, chargeRef
  <1>. QED
    BY <1>1, <1>2 DEF Line

\* A write back never touches the frozen columns.
LEMMA WriteBackKeepsFrozen ==
    ASSUME NEW current \in Line, NEW read \in Line, NEW new \in Line
    PROVE  RequestOf(WriteBack(current, read, new)) = RequestOf(current)
  BY DEF WriteBack, Line, RequestOf

\* The other columns hold the session's value where it changed it and the
\* committed one where it did not.
LEMMA WriteBackColumns ==
    ASSUME NEW current \in Line, NEW read \in Line, NEW new \in Line
    PROVE  /\ WriteBack(current, read, new).state =
                  IF new.state = read.state THEN current.state ELSE new.state
           /\ WriteBack(current, read, new).chargeRef =
                  IF new.chargeRef = read.chargeRef THEN current.chargeRef ELSE new.chargeRef
  BY DEF WriteBack, Line

\* The request of a line is well typed.
LEMMA RequestIsTyped ==
    ASSUME NEW line \in Line
    PROVE  RequestOf(line) \in Request
  BY DEF RequestOf, Request, Line

\* A worker that goes back to its list is well typed and holds nothing.
LEMMA ContinueIsTyped ==
    ASSUME NEW ctx \in Worker
    PROVE  Continue(ctx) \in Worker
  <1>1. NoRows \in [Obligations -> Line] /\ NoRequest \in Request
    BY EmptiesAreTyped DEF NoRequest, Request, RequestFingerprint
  <1>. QED
    BY <1>1 DEF Continue, Worker, Steps, NoRef

-----------------------------------------------------------------------------
\* A worker that holds no row, request or answer satisfies its part as long as
\* the lines on its list exist.
LEMMA RestingIsIntact ==
    ASSUME NEW ctx \in Worker, ctx.rows = NoRows,
           ctx.at \in {"idle", "submitting", "resuming"}
    PROVE  /\ ListIntact(ctx) => WorkerIntact(ctx)
           /\ ListIntact(ctx)' => WorkerIntact(ctx)'
  BY DEF WorkerIntact, RowsIntact, RequestIntact, AnswerIntact, SessionIntact, NoRows, NoLine

\* Whatever a worker holds stays intact while the tables grow.
LEMMA Monotone ==
    ASSUME TypeOK, Grows, NEW ctx \in Worker, WorkerIntact(ctx)
    PROVE  WorkerIntact(ctx)'
  <1>1. RowsIntact(ctx)'
    BY DEF WorkerIntact, RowsIntact, Grows, TypeOK, Worker, Line
  <1>2. RequestIntact(ctx)'
    BY DEF WorkerIntact, RequestIntact, Grows
  <1>3. AnswerIntact(ctx)' /\ SessionIntact(ctx)'
    BY DEF WorkerIntact, AnswerIntact, SessionIntact, Grows
  <1>4. ListIntact(ctx)'
    BY DEF WorkerIntact, ListIntact, Grows, Worker
  <1>. QED
    BY <1>1, <1>2, <1>3, <1>4 DEF WorkerIntact

\* One worker moves to a new context and the tables grow: the invariant is left
\* with the tables themselves and that one context.
LEMMA OneWorkerMoves ==
    ASSUME NothingFrozenMoves, Grows,
           NEW w \in Workers, NEW ctx \in Worker, Become(w, ctx), WorkerIntact(ctx)',
           FeedTypeOK', clock' = clock, lines' \in [Obligations -> Line],
           charges' \subseteq Charge, IsFiniteSet(charges'), TablesIntact'
    PROVE  NothingFrozenMoves' /\ Grows
  <1>1. worker' \in [Workers -> Worker]
    BY DEF NothingFrozenMoves, TypeOK, Become
  <1>2. TypeOK'
    BY <1>1 DEF NothingFrozenMoves, TypeOK
  <1>3. ASSUME NEW v \in Workers PROVE WorkerIntact(worker[v])'
    <2>1. CASE v = w
      BY <2>1 DEF Become, NothingFrozenMoves, TypeOK, WorkerIntact, RowsIntact,
                  RequestIntact, AnswerIntact, SessionIntact, ListIntact
    <2>2. CASE v # w
      <3>1. worker'[v] = worker[v] /\ worker[v] \in Worker
        BY <2>2 DEF Become, NothingFrozenMoves, TypeOK
      <3>2. WorkerIntact(worker[v])
        BY DEF NothingFrozenMoves
      <3>. DEFINE ctxv == worker[v]
      <3>3. ASSUME NEW c \in Worker, WorkerIntact(c) PROVE WorkerIntact(c)'
        BY <3>3, Monotone DEF NothingFrozenMoves
      <3>. QED
        BY <3>1, <3>2, <3>3
    <2>. QED
      BY <2>1, <2>2
  <1>. QED
    BY <1>2, <1>3 DEF NothingFrozenMoves

\* Tables that do not change stay intact and, trivially, grow.
LEMMA TablesStand ==
    ASSUME NothingFrozenMoves, UNCHANGED <<charges, lines>>
    PROVE  /\ Grows /\ TablesIntact'
           /\ lines' \in [Obligations -> Line] /\ charges' \subseteq Charge
           /\ IsFiniteSet(charges')
  BY DEF NothingFrozenMoves, TypeOK, Grows, TablesIntact, Exists, Intact

\* A step of one worker that writes nothing.
LEMMA OnlyWorkerMoves ==
    ASSUME NothingFrozenMoves, NEW w \in Workers, NEW ctx \in Worker, Become(w, ctx),
           WorkerIntact(ctx), feedUnchanged, UNCHANGED <<charges, clock, lines>>
    PROVE  NothingFrozenMoves' /\ Grows
  <1>1. Grows /\ TablesIntact' /\ lines' \in [Obligations -> Line]
        /\ charges' \subseteq Charge /\ IsFiniteSet(charges')
    BY TablesStand
  <1>2. WorkerIntact(ctx)'
    BY <1>1, Monotone DEF NothingFrozenMoves
  <1>3. FeedTypeOK'
    BY DEF NothingFrozenMoves, TypeOK, FeedTypeOK, feedUnchanged
  <1>. QED
    BY <1>1, <1>2, <1>3, OneWorkerMoves

\* A step of nobody: the feed changes the bookings, or time passes.
LEMMA NobodyMoves ==
    ASSUME NothingFrozenMoves, UNCHANGED <<charges, lines, worker>>,
           FeedTypeOK', clock' \in Nat
    PROVE  NothingFrozenMoves' /\ Grows
  <1>1. Grows /\ TablesIntact' /\ lines' \in [Obligations -> Line]
        /\ charges' \subseteq Charge /\ IsFiniteSet(charges')
    BY TablesStand
  <1>2. TypeOK'
    BY <1>1 DEF NothingFrozenMoves, TypeOK
  <1>3. ASSUME NEW v \in Workers PROVE WorkerIntact(worker[v])'
    BY DEF NothingFrozenMoves, WorkerIntact, RowsIntact, RequestIntact, AnswerIntact,
           SessionIntact, ListIntact, Exists
  <1>. QED
    BY <1>1, <1>2, <1>3 DEF NothingFrozenMoves

-----------------------------------------------------------------------------
\* The initial state.
LEMMA InitIntact ==
    Init => NothingFrozenMoves
  <1>. SUFFICES ASSUME Init PROVE NothingFrozenMoves
    OBVIOUS
  <1>1. TypeOK
    <2>1. FeedTypeOK
      BY DEF Init, FeedInit, FeedTypeOK, Booking, NoBooking, Entitlement, NoEntitlement
    <2>2. IsFiniteSet(charges)
      BY FS_EmptySet DEF Init
    <2>. QED
      BY <2>1, <2>2, EmptiesAreTyped DEF Init, TypeOK
  <1>2. TablesIntact
    BY DEF Init, TablesIntact, Exists, NoRows, NoLine
  <1>3. ASSUME NEW w \in Workers PROVE WorkerIntact(worker[w])
    <2>1. worker[w] = Idle
      BY DEF Init
    <2>. QED
      BY <2>1, EmptiesAreTyped, RestingIsIntact DEF Idle, ListIntact
  <1>. QED
    BY <1>1, <1>2, <1>3 DEF NothingFrozenMoves

-----------------------------------------------------------------------------
\* Steps that write nothing, one lemma per operation.

\* A row of the feed stays one, whatever one message or one answer does to it.
FeedRows == [booking : Booking, question : BOOLEAN, entitlement : Entitlement]

LEMMA RowsAreKept ==
    ASSUME NEW row \in FeedRows
    PROVE  /\ \A status \in Statuses, amount \in Amounts, periods \in Windows :
                  AfterDelivery(row, status, amount, periods) \in FeedRows
           /\ \A seen \in BOOLEAN : AfterHold(row, seen) \in FeedRows
           /\ \A sawHold, sawItems \in BOOLEAN : AfterAnswer(row, sawHold, sawItems) \in FeedRows
  <1>1. ASSUME NEW status \in Statuses, NEW amount \in Amounts, NEW periods \in Windows
        PROVE  AfterDelivery(row, status, amount, periods) \in FeedRows
    <2>1. ReconcileEntitlement(row.entitlement, status, periods) \in Entitlement
      BY FeedAssumption DEF FeedRows, ReconcileEntitlement, Entitlement, Statuses
    <2>2. [status |-> status, amount |-> amount, periods |-> periods,
           undecided |-> row.booking.undecided] \in Booking
      BY FeedAssumption DEF FeedRows, Booking
    <2>. QED
      BY <2>1, <2>2 DEF AfterDelivery, FeedRows
  <1>2. ASSUME NEW held \in BOOLEAN PROVE [row.booking EXCEPT !.undecided = held] \in Booking
    BY DEF FeedRows, Booking
  <1>3. ASSUME NEW seen \in BOOLEAN PROVE AfterHold(row, seen) \in FeedRows
    <2>. DEFINE held == row.booking.undecided \/ (seen /\ row.booking.status # "unknown")
    <2>1. held \in BOOLEAN
      BY DEF FeedRows, Booking
    <2>. HIDE DEF held
    <2>2. [row.booking EXCEPT !.undecided = held] \in Booking
      BY <1>2, <2>1
    <2>3. AfterHold(row, seen) = [row EXCEPT !.question = TRUE,
                                             !.booking = [row.booking EXCEPT !.undecided = held]]
      BY DEF AfterHold, held, FeedRows, Booking
    <2>. QED
      BY <2>2, <2>3 DEF FeedRows
  <1>4. ASSUME NEW sawHold \in BOOLEAN, NEW sawItems \in BOOLEAN
        PROVE  AfterAnswer(row, sawHold, sawItems) \in FeedRows
    <2>. DEFINE open == row.question /\ ~sawItems
                held == row.booking.undecided /\ ~sawHold
    <2>1. open \in BOOLEAN /\ held \in BOOLEAN
      BY DEF FeedRows, Booking
    <2>. HIDE DEF open, held
    <2>2. [row.booking EXCEPT !.undecided = held] \in Booking
      BY <1>2, <2>1
    <2>3. AfterAnswer(row, sawHold, sawItems) =
              [row EXCEPT !.question = open,
                          !.booking = [row.booking EXCEPT !.undecided = held]]
      BY DEF AfterAnswer, open, held, FeedRows, Booking
    <2>. QED
      BY <2>1, <2>2, <2>3 DEF FeedRows
  <1>. QED
    BY <1>1, <1>3, <1>4

\* Deliveries, holds and answers only touch what billing has not yet read.
LEMMA FeedKeeps ==
    ASSUME NothingFrozenMoves, Feed
    PROVE  NothingFrozenMoves' /\ Grows
  <1>1. FeedTypeOK'
    <2>1. PICK b \in Bookings :
              \/ \E status \in Statuses, amount \in Amounts, periods \in Windows :
                     ApplyDelivery(b, status, amount, periods)
              \/ HoldBooking(b)
              \/ ResolveQuestion(b)
      BY DEF Feed, FeedNext
    <2>2. FeedRow(b) \in FeedRows
      BY DEF NothingFrozenMoves, TypeOK, FeedTypeOK, FeedRow, FeedRows
    <2>3. \E row \in FeedRows : Becomes(b, row)
      BY <2>1, <2>2, RowsAreKept DEF ApplyDelivery, HoldBooking, ResolveQuestion
    <2>. QED
      BY <2>3 DEF NothingFrozenMoves, TypeOK, FeedTypeOK, Becomes, FeedRows
  <1>. QED
    BY <1>1, NobodyMoves DEF Feed, NothingFrozenMoves, TypeOK

\* A run that reads what is due holds drafts of the lines it may insert.
LEMMA PrepareReadKeeps ==
    ASSUME NothingFrozenMoves, NEW w \in Workers, NEW p \in Periods, PrepareRead(w, p)
    PROVE  NothingFrozenMoves' /\ Grows
  <1>. DEFINE due == Due(p) \X {p}
              rows == [o \in Obligations |-> IF o \in due THEN Draft(o[1], o[2]) ELSE NoLine]
              ctx == [Idle EXCEPT !.task = "prepare", !.at = "judging", !.todo = due,
                                  !.rows = rows]
  <1>1. due \subseteq Obligations
    BY DEF Due, Obligations
  <1>2. ASSUME NEW o \in due
        PROVE  /\ Draft(o[1], o[2]) \in Line
               /\ Intact(Draft(o[1], o[2]), o)
               /\ Draft(o[1], o[2]).chargeRef = NoRef
               /\ Draft(o[1], o[2]).state # "absent"
    <2>1. o[1] \in Bookings /\ o[2] = p /\ o = <<o[1], o[2]>> /\ o \in Obligations
      BY <1>1 DEF Due, Obligations
    <2>2. DraftState(o[1]) \in {"blocked", "voided", "prepared"}
      BY DEF DraftState
    <2>3. BillableAmount(booking[o[1]]) \in Amounts \cup {0}
      BY <2>1 DEF BillableAmount, NothingFrozenMoves, TypeOK, FeedTypeOK, Booking
    <2>. QED
      BY <2>1, <2>2, <2>3, EmptiesAreTyped
      DEF Draft, Line, LineStates, IdempotencyKeyFor, RequestFingerprint, Intact, NoLine
  <1>3. rows \in [Obligations -> Line]
    BY <1>2, EmptiesAreTyped
  <1>4. ctx \in Worker
    BY <1>1, <1>3, EmptiesAreTyped DEF Worker, Tasks, Steps
  <1>5. WorkerIntact(ctx)
    <2>1. ctx.rows = rows /\ ctx.at = "judging" /\ ctx.todo = due
      BY EmptiesAreTyped DEF Worker, Idle
    <2>2. RowsIntact(ctx)
      BY <1>2, <2>1 DEF RowsIntact, NoLine
    <2>3. SessionIntact(ctx)
      BY <1>1, <1>2, <2>1 DEF SessionIntact, NoLine
    <2>. QED
      BY <2>1, <2>2, <2>3 DEF WorkerIntact, RequestIntact, AnswerIntact, ListIntact
  <1>. QED
    BY <1>4, <1>5, OnlyWorkerMoves DEF PrepareRead

\* Judging one obligation again changes the state of its draft and nothing else.
LEMMA PrepareJudgeKeeps ==
    ASSUME NothingFrozenMoves, NEW w \in Workers, NEW o \in Obligations, PrepareJudge(w, o)
    PROVE  NothingFrozenMoves' /\ Grows
  <1>. DEFINE old == worker[w]
              state == IF question[o[1]] THEN "blocked" ELSE old.rows[o].state
              ctx == [old EXCEPT !.todo = @ \ {o}, !.rows[o].state = state]
  <1>1. old \in Worker /\ WorkerIntact(old) /\ old.at = "judging" /\ Become(w, ctx)
    BY DEF NothingFrozenMoves, TypeOK, PrepareJudge, At, Become
  <1>2. old.rows[o] \in Line /\ state \in LineStates \cup {"absent"}
    BY <1>1 DEF Worker, Line, LineStates
  <1>. HIDE DEF state
  <1>3. /\ [old.rows[o] EXCEPT !.state = state] \in Line
        /\ ctx.rows = [old.rows EXCEPT ![o] = [old.rows[o] EXCEPT !.state = state]]
        /\ ctx.at = "judging" /\ ctx.todo = old.todo \ {o}
    BY <1>1, <1>2 DEF Worker, Line
  <1>4. ctx \in Worker
    BY <1>1, <1>3 DEF Worker
  <1>5. RowsIntact(ctx)
    <2>1. old.rows[o].state # "absent" /\ old.rows[o].state # "charged"
      BY <1>1 DEF PrepareJudge, WorkerIntact, RowsIntact, SessionIntact, Intact
    <2>2. state # "charged"
      BY <2>1 DEF state
    <2>. QED
      BY <1>1, <1>2, <1>3, <2>1, <2>2 DEF WorkerIntact, RowsIntact, Intact, Line
  <1>6. SessionIntact(ctx)
    <2>1. state # "absent"
      BY <1>1 DEF state, PrepareJudge, WorkerIntact, SessionIntact
    <2>2. old.rows \in [Obligations -> Line] /\ old.todo \subseteq Obligations
      BY <1>1 DEF Worker
    <2>. QED
      BY <1>1, <1>2, <1>3, <2>1, <2>2 DEF WorkerIntact, SessionIntact, Line
  <1>. QED
    BY <1>1, <1>3, <1>4, <1>5, <1>6, OnlyWorkerMoves
    DEF WorkerIntact, RequestIntact, AnswerIntact, ListIntact, PrepareJudge

\* Starting on the prepared lines of a period.
LEMMA SubmitListKeeps ==
    ASSUME NothingFrozenMoves, NEW w \in Workers, NEW p \in Periods, SubmitList(w, p)
    PROVE  NothingFrozenMoves' /\ Grows
  <1>. DEFINE ctx == [Idle EXCEPT !.task = "submit", !.at = "submitting", !.now = clock,
                   !.todo = {x \in Obligations : x[2] = p /\ lines[x].state = "prepared"}]
  <1>1. ctx \in Worker /\ ctx.rows = NoRows /\ ctx.at = "submitting"
    BY EmptiesAreTyped DEF Worker, Tasks, Steps, NothingFrozenMoves, TypeOK, Idle
  <1>2. ListIntact(ctx)
    BY <1>1 DEF ListIntact, Exists
  <1>. QED
    BY <1>1, <1>2, RestingIsIntact, OnlyWorkerMoves DEF SubmitList

\* Starting on the submitted lines of a period.
LEMMA ResumeListKeeps ==
    ASSUME NothingFrozenMoves, NEW w \in Workers, NEW p \in Periods, ResumeList(w, p)
    PROVE  NothingFrozenMoves' /\ Grows
  <1>. DEFINE pending == {x \in Obligations : x[2] = p /\ lines[x].state = "submitted"}
              expired == {x \in pending : PastRetention(lines[x], clock)}
              ctx == [Idle EXCEPT !.task = "resume", !.at = "resuming", !.todo = pending,
                                  !.expired = expired]
  <1>1. ctx \in Worker /\ ctx.rows = NoRows /\ ctx.at = "resuming"
    BY EmptiesAreTyped DEF Worker, Tasks, Steps, Idle
  <1>2. ListIntact(ctx)
    BY <1>1 DEF ListIntact, Exists
  <1>. QED
    BY <1>1, <1>2, RestingIsIntact, OnlyWorkerMoves DEF ResumeList

\* Dropping from a list what somebody else has taken.
LEMMA SubmitSkipKeeps ==
    ASSUME NothingFrozenMoves, NEW w \in Workers, NEW o \in Obligations, SubmitSkip(w, o)
    PROVE  NothingFrozenMoves' /\ Grows
  <1>. DEFINE ctx == [worker[w] EXCEPT !.todo = @ \ {o}]
  <1>1. /\ ctx \in Worker /\ ctx.at = "submitting" /\ ctx.rows = worker[w].rows
        /\ ctx.todo \subseteq worker[w].todo
    BY DEF SubmitSkip, At, NothingFrozenMoves, TypeOK, Worker
  <1>2. WorkerIntact(ctx)
    BY <1>1 DEF SubmitSkip, At, NothingFrozenMoves, WorkerIntact, RowsIntact,
       RequestIntact, AnswerIntact, SessionIntact, ListIntact
  <1>. QED
    BY <1>1, <1>2, OnlyWorkerMoves DEF SubmitSkip

\* A worker that becomes idle, by finishing or by dying.
LEMMA IdleKeeps ==
    ASSUME NothingFrozenMoves, NEW w \in Workers, Become(w, Idle),
           feedUnchanged, UNCHANGED <<charges, clock, lines>>
    PROVE  NothingFrozenMoves' /\ Grows
  <1>1. WorkerIntact(Idle)
    BY EmptiesAreTyped, RestingIsIntact DEF Idle, ListIntact
  <1>. QED
    BY <1>1, EmptiesAreTyped, OnlyWorkerMoves

\* What a worker that goes back to its list satisfies.
LEMMA ContinueIsIntact ==
    ASSUME NEW ctx \in Worker, WorkerIntact(ctx), ctx.at \notin {"judging", "cancelling"}
    PROVE  /\ WorkerIntact(Continue(ctx))
           /\ Grows => WorkerIntact(Continue(ctx))'
  <1>1. /\ Continue(ctx).rows = NoRows /\ Continue(ctx).at \in {"submitting", "resuming"}
        /\ Continue(ctx).todo = ctx.todo /\ ctx.todo \subseteq Obligations
    BY DEF Continue, Worker
  <1>2. ListIntact(Continue(ctx))
    BY <1>1 DEF ListIntact, WorkerIntact
  <1>3. Grows => ListIntact(Continue(ctx))'
    BY <1>1 DEF ListIntact, WorkerIntact, Grows
  <1>. QED
    BY <1>1, <1>2, <1>3, ContinueIsTyped, RestingIsIntact

\* Any exception leaves the worker idle or back at its list.
LEMMA RaiseKeeps ==
    ASSUME NothingFrozenMoves, NEW w \in Workers, NEW exception, Raise(w, exception),
           worker[w].at \notin {"judging", "cancelling"},
           feedUnchanged, UNCHANGED <<charges, clock, lines>>
    PROVE  NothingFrozenMoves' /\ Grows
  <1>1. worker[w] \in Worker /\ WorkerIntact(worker[w])
    BY DEF NothingFrozenMoves, TypeOK
  <1>2. CASE exception \in Catches(worker[w].task)
    <2>1. Continue(worker[w]) \in Worker /\ WorkerIntact(Continue(worker[w]))
      BY <1>1, ContinueIsTyped, ContinueIsIntact
    <2>2. Become(w, Continue(worker[w]))
      BY <1>2 DEF Raise
    <2>. QED
      BY <2>1, <2>2, OnlyWorkerMoves
  <1>3. CASE exception \notin Catches(worker[w].task)
    BY <1>3, IdleKeeps DEF Raise
  <1>. QED
    BY <1>2, <1>3

\* Rows just read from the tables are intact.
LEMMA LoadIsIntact ==
    ASSUME NothingFrozenMoves, NEW S \in SUBSET Obligations
    PROVE  /\ Load(S) \in [Obligations -> Line]
           /\ \A o \in S : Exists(o) => Load(S)[o].state # "absent"
           /\ \A o \in Obligations : Load(S)[o].state # "absent" =>
                  /\ Intact(Load(S)[o], o)
                  /\ Exists(o) /\ Load(S)[o].chargeRef = lines[o].chargeRef
  <1>1. \A o \in Obligations : Load(S)[o] = IF o \in S THEN lines[o] ELSE NoLine
    BY DEF Load
  <1>2. NoLine.state = "absent"
    BY DEF NoLine
  <1>. QED
    BY <1>1, <1>2, EmptiesAreTyped DEF Load, NothingFrozenMoves, TypeOK, TablesIntact, Exists

\* Opening a session on rows of the tables.
LEMMA LoadsKeep ==
    ASSUME NothingFrozenMoves, NEW w \in Workers,
           \/ SettleLoad(w)
           \/ \E o \in Obligations : ExpireLoad(w, o) \/ EstablishLoad(w, o)
           \/ \E b \in Bookings : CancelLoad(w, b)
    PROVE  NothingFrozenMoves' /\ Grows
  <1>1. worker[w] \in Worker /\ WorkerIntact(worker[w])
    BY DEF NothingFrozenMoves, TypeOK
  <1>2. CASE SettleLoad(w)
    <2>. DEFINE l == worker[w].line
                ctx == [worker[w] EXCEPT !.at = "settling", !.rows = Load({l})]
    <2>1. l \in Obligations /\ Exists(l) /\ worker[w].at = "answered"
      BY <1>1, <1>2 DEF SettleLoad, At, WorkerIntact, RequestIntact
    <2>2. /\ Load({l}) \in [Obligations -> Line]
          /\ Load({l})[l].state # "absent"
          /\ \A x \in Obligations : Load({l})[x].state # "absent" =>
                 /\ Intact(Load({l})[x], x)
                 /\ Exists(x) /\ Load({l})[x].chargeRef = lines[x].chargeRef
      <3>1. {l} \in SUBSET Obligations
        BY <2>1
      <3>. QED
        BY <2>1, <3>1, LoadIsIntact
    <2>3. /\ ctx \in Worker /\ ctx.at = "settling" /\ ctx.rows = Load({l}) /\ ctx.line = l
          /\ ctx.request = worker[w].request /\ ctx.ref = worker[w].ref
          /\ ctx.todo = worker[w].todo
      BY <1>1, <2>2 DEF Worker, Steps
    <2>4. RowsIntact(ctx) /\ SessionIntact(ctx)
      BY <2>1, <2>2, <2>3 DEF RowsIntact, SessionIntact
    <2>5. RequestIntact(ctx) /\ AnswerIntact(ctx) /\ ListIntact(ctx)
      BY <1>1, <2>1, <2>3 DEF WorkerIntact, RequestIntact, AnswerIntact, ListIntact
    <2>. QED
      BY <1>2, <2>3, <2>4, <2>5, OnlyWorkerMoves DEF SettleLoad, WorkerIntact
  <1>3. ASSUME NEW o \in Obligations, ExpireLoad(w, o) PROVE NothingFrozenMoves' /\ Grows
    <2>. DEFINE ctx == [worker[w] EXCEPT !.at = "expiring", !.todo = @ \ {o}, !.line = o,
                     !.rows = Load({o})]
    <2>1. /\ ctx \in Worker /\ ctx.at = "expiring" /\ ctx.rows = Load({o}) /\ ctx.line = o
          /\ ctx.todo \subseteq worker[w].todo
      BY <1>1, LoadIsIntact DEF Worker, Steps
    <2>2. Exists(o) /\ ListIntact(ctx)
      BY <1>1, <1>3, <2>1 DEF ExpireLoad, At, WorkerIntact, ListIntact
    <2>3. WorkerIntact(ctx)
      BY <2>1, <2>2, LoadIsIntact
      DEF WorkerIntact, RowsIntact, RequestIntact, AnswerIntact, SessionIntact
    <2>. QED
      BY <1>3, <2>1, <2>3, OnlyWorkerMoves DEF ExpireLoad
  <1>4. ASSUME NEW o \in Obligations, EstablishLoad(w, o) PROVE NothingFrozenMoves' /\ Grows
    <2>. DEFINE ctx == [Idle EXCEPT !.task = "establish", !.at = "looking", !.line = o,
                     !.rows = Load({o})]
    <2>1. /\ ctx \in Worker /\ ctx.at = "looking" /\ ctx.rows = Load({o}) /\ ctx.line = o
          /\ ctx.ref = NoRef /\ ctx.todo = {}
      BY EmptiesAreTyped, LoadIsIntact DEF Worker, Steps, Tasks, Idle
    <2>2. Exists(o)
      BY <1>4 DEF EstablishLoad
    <2>3. WorkerIntact(ctx)
      BY <2>1, <2>2, LoadIsIntact
      DEF WorkerIntact, RowsIntact, RequestIntact, AnswerIntact, SessionIntact, ListIntact
    <2>. QED
      BY <1>4, <2>1, <2>3, OnlyWorkerMoves DEF EstablishLoad
  <1>5. ASSUME NEW b \in Bookings, CancelLoad(w, b) PROVE NothingFrozenMoves' /\ Grows
    <2>. DEFINE S == {b} \X Periods
                ctx == [Idle EXCEPT !.task = "cancel", !.at = "cancelling", !.todo = S,
                                    !.rows = Load(S)]
    <2>1. S \subseteq Obligations
      BY DEF Obligations
    <2>2. /\ Load(S) \in [Obligations -> Line]
          /\ \A x \in Obligations : Load(S)[x].state # "absent" =>
                 /\ Intact(Load(S)[x], x)
                 /\ Exists(x) /\ Load(S)[x].chargeRef = lines[x].chargeRef
      BY <2>1, LoadIsIntact
    <2>3. ctx \in Worker /\ ctx.at = "cancelling" /\ ctx.rows = Load(S)
      BY EmptiesAreTyped, <2>1, <2>2 DEF Worker, Steps, Tasks, Idle
    <2>4. WorkerIntact(ctx)
      BY <2>2, <2>3 DEF WorkerIntact, RowsIntact, RequestIntact, AnswerIntact, SessionIntact,
         ListIntact
    <2>. QED
      BY <1>5, <2>3, <2>4, OnlyWorkerMoves DEF CancelLoad
  <1>. QED
    BY <1>2, <1>3, <1>4, <1>5

\* Asking the provider: whatever it answers, nothing is written here.
LEMMA CallsKeep ==
    ASSUME NothingFrozenMoves, NEW w \in Workers,
           \/ CreateChargeNew(w)
           \/ CreateChargeReplay(w)
           \/ CreateChargeRaced(w)
           \/ \E o \in Obligations : ResumeRead(w, o)
           \/ EstablishLookup(w)
    PROVE  NothingFrozenMoves' /\ Grows
  <1>1. worker[w] \in Worker /\ WorkerIntact(worker[w])
    BY DEF NothingFrozenMoves, TypeOK
  <1>2. CASE CreateChargeNew(w)
    <2>. DEFINE ctx == [worker[w] EXCEPT !.at = "executing", !.ref = NextChargeRef]
    <2>1. NextChargeRef \in Nat \ {0}
      BY FS_CardinalityType DEF NothingFrozenMoves, TypeOK, NextChargeRef
    <2>2. /\ ctx \in Worker /\ ctx.at = "executing" /\ ctx.ref # NoRef
          /\ ctx.rows = worker[w].rows /\ ctx.line = worker[w].line
          /\ ctx.request = worker[w].request /\ ctx.todo = worker[w].todo
      BY <1>1, <2>1 DEF Worker, Steps, NoRef
    <2>3. WorkerIntact(ctx)
      BY <1>1, <1>2, <2>2 DEF CreateChargeNew, At, WorkerIntact, RowsIntact, RequestIntact,
         AnswerIntact, SessionIntact, ListIntact
    <2>. QED
      BY <1>2, <2>2, <2>3, OnlyWorkerMoves DEF CreateChargeNew
  <1>3. CASE CreateChargeReplay(w)
    <2>1. PICK c \in ChargesFor(worker[w].request.key) :
              \/ Raise(w, "KeyNoLongerRetained")
              \/ Raise(w, "IdempotencyConflict")
              \/ Become(w, [worker[w] EXCEPT !.at = "answered", !.ref = c.ref])
      BY <1>3 DEF CreateChargeReplay
    <2>2. CASE Raise(w, "KeyNoLongerRetained") \/ Raise(w, "IdempotencyConflict")
      BY <1>3, <2>2, RaiseKeeps DEF CreateChargeReplay, At
    <2>3. CASE Become(w, [worker[w] EXCEPT !.at = "answered", !.ref = c.ref])
      <3>. DEFINE ctx == [worker[w] EXCEPT !.at = "answered", !.ref = c.ref]
      <3>1. c \in charges /\ c.key = worker[w].request.key /\ c.ref \in Nat \ {0}
        BY DEF ChargesFor, NothingFrozenMoves, TypeOK, Charge
      <3>2. /\ worker[w].line \in Obligations /\ Exists(worker[w].line)
            /\ worker[w].request = RequestOf(lines[worker[w].line])
        BY <1>1, <1>3 DEF CreateChargeReplay, At, WorkerIntact, RequestIntact
      <3>3. c.key = worker[w].line
        BY <3>1, <3>2 DEF NothingFrozenMoves, TablesIntact, Intact, RequestOf
      <3>4. /\ ctx \in Worker /\ ctx.at = "answered" /\ ctx.ref = c.ref
            /\ ctx.rows = worker[w].rows /\ ctx.line = worker[w].line
            /\ ctx.request = worker[w].request /\ ctx.todo = worker[w].todo
        BY <1>1, <3>1 DEF Worker, Steps
      <3>5. WorkerIntact(ctx)
        BY <1>1, <1>3, <3>1, <3>2, <3>3, <3>4 DEF CreateChargeReplay, At, WorkerIntact,
           RowsIntact, RequestIntact, AnswerIntact, SessionIntact, ListIntact, NoRef
      <3>. QED
        BY <1>3, <2>3, <3>4, <3>5, OnlyWorkerMoves DEF CreateChargeReplay
    <2>. QED
      BY <2>1, <2>2, <2>3
  <1>4. CASE CreateChargeRaced(w)
    BY <1>4, RaiseKeeps DEF CreateChargeRaced, At
  <1>5. ASSUME NEW o \in Obligations, ResumeRead(w, o) PROVE NothingFrozenMoves' /\ Grows
    <2>. DEFINE ctx == [worker[w] EXCEPT !.at = "calling", !.todo = @ \ {o}, !.line = o,
                     !.request = RequestOf(lines[o])]
    <2>1. RequestOf(lines[o]) \in Request
      BY RequestIsTyped DEF NothingFrozenMoves, TypeOK
    <2>2. /\ ctx \in Worker /\ ctx.at = "calling" /\ ctx.rows = worker[w].rows
          /\ ctx.line = o /\ ctx.request = RequestOf(lines[o])
          /\ ctx.todo \subseteq worker[w].todo
      BY <1>1, <2>1 DEF Worker, Steps
    <2>3. Exists(o)
      BY <1>1, <1>5 DEF ResumeRead, At, WorkerIntact, ListIntact
    <2>4. WorkerIntact(ctx)
      BY <1>1, <1>5, <2>2, <2>3 DEF ResumeRead, At, WorkerIntact, RowsIntact, RequestIntact,
         AnswerIntact, SessionIntact, ListIntact
    <2>. QED
      BY <1>5, <2>2, <2>4, OnlyWorkerMoves DEF ResumeRead
  <1>6. CASE EstablishLookup(w)
    <2>. DEFINE found == ChargesFor(worker[w].rows[worker[w].line].key)
                ctx(ref) == [worker[w] EXCEPT !.at = "recording", !.ref = ref]
    <2>1. /\ worker[w].at = "looking" /\ worker[w].ref = NoRef
          /\ worker[w].line \in Obligations
          /\ worker[w].rows[worker[w].line].key = worker[w].line
      BY <1>1, <1>6 DEF EstablishLookup, At, WorkerIntact, SessionIntact, RowsIntact, Intact
    <2>2. ASSUME NEW ref \in Nat, Become(w, ctx(ref)),
                 ref # NoRef => \E c \in charges : c.key = worker[w].line /\ c.ref = ref
          PROVE  NothingFrozenMoves' /\ Grows
      <3>1. /\ ctx(ref) \in Worker /\ ctx(ref).at = "recording" /\ ctx(ref).ref = ref
            /\ ctx(ref).rows = worker[w].rows /\ ctx(ref).line = worker[w].line
            /\ ctx(ref).todo = worker[w].todo
        BY <1>1 DEF Worker, Steps
      <3>2. WorkerIntact(ctx(ref))
        BY <1>1, <2>1, <2>2, <3>1 DEF WorkerIntact, RowsIntact, RequestIntact, AnswerIntact,
           SessionIntact, ListIntact
      <3>. QED
        BY <1>6, <2>2, <3>1, <3>2, OnlyWorkerMoves DEF EstablishLookup
    <2>3. CASE Become(w, [worker[w] EXCEPT !.at = "recording"])
      <3>1. [worker[w] EXCEPT !.at = "recording"] = ctx(NoRef)
        BY <1>1, <2>1 DEF Worker
      <3>. QED
        BY <2>2, <2>3, <3>1 DEF NoRef
    <2>4. ASSUME NEW c \in found, Become(w, ctx(c.ref))
          PROVE  NothingFrozenMoves' /\ Grows
      <3>1. c \in charges /\ c.key = worker[w].line /\ c.ref \in Nat
        BY <2>1 DEF ChargesFor, NothingFrozenMoves, TypeOK, Charge
      <3>. QED
        BY <2>2, <2>4, <3>1
    <2>. QED
      BY <1>6, <2>3, <2>4 DEF EstablishLookup
  <1>. QED
    BY <1>2, <1>3, <1>4, <1>5, <1>6

-----------------------------------------------------------------------------
\* Steps that write lines.

\* Lines may be rewritten as long as what exists keeps its frozen columns and
\* its reference, and a reference newly booked is backed by a charge.
LEMMA LinesMove ==
    ASSUME NothingFrozenMoves, charges' = charges, lines' \in [Obligations -> Line],
           \A o \in Obligations :
               /\ Exists(o) =>
                      /\ lines'[o].state # "absent"
                      /\ RequestOf(lines'[o]) = RequestOf(lines[o])
                      /\ lines[o].chargeRef # NoRef => lines'[o].chargeRef = lines[o].chargeRef
               /\ lines'[o].state # "absent" => Intact(lines'[o], o)
               /\ lines'[o].chargeRef # NoRef =>
                      \E c \in charges : c.key = o /\ c.ref = lines'[o].chargeRef
    PROVE  Grows /\ TablesIntact'
  <1>1. Grows
    BY DEF Grows, Exists
  <1>2. \A c \in charges :
            /\ c.key \in Obligations /\ Exists(c.key)
            /\ RequestOf(lines'[c.key]) = RequestOf(lines[c.key])
            /\ lines'[c.key].state # "absent"
    BY DEF NothingFrozenMoves, TypeOK, TablesIntact, Charge
  <1>3. \A c \in charges :
            /\ c.fingerprint = lines'[c.key].fingerprint
            /\ c.amount = lines'[c.key].amount
    BY <1>2 DEF NothingFrozenMoves, TablesIntact, RequestOf
  <1>4. TablesIntact'
    BY <1>2, <1>3 DEF NothingFrozenMoves, TablesIntact, Exists, Intact
  <1>. QED
    BY <1>1, <1>4

\* Writing back a row that was intact when read, with a reference that is backed
\* by a charge or was not changed, is such a rewriting.
LEMMA WriteBackIsIntact ==
    ASSUME NothingFrozenMoves, NEW o \in Obligations, Exists(o),
           NEW read \in Line, NEW new \in Line,
           Intact(read, o), read.chargeRef \in {NoRef, lines[o].chargeRef},
           new.state # "absent", new.state = "charged" => new.chargeRef # NoRef,
           new.chargeRef = NoRef => read.chargeRef = NoRef,
           new.chargeRef # NoRef => \E c \in charges : c.key = o /\ c.ref = new.chargeRef
    PROVE  LET line == WriteBack(lines[o], read, new) IN
           /\ line \in Line /\ line.state # "absent"
           /\ RequestOf(line) = RequestOf(lines[o])
           /\ lines[o].chargeRef # NoRef => line.chargeRef = lines[o].chargeRef
           /\ Intact(line, o)
           /\ line.chargeRef # NoRef =>
                  \E c \in charges : c.key = o /\ c.ref = line.chargeRef
  <1>. DEFINE line == WriteBack(lines[o], read, new)
  <1>0. lines[o] \in Line /\ Intact(lines[o], o)
    BY DEF NothingFrozenMoves, TypeOK, TablesIntact
  <1>1. line \in Line
    BY <1>0, WriteBackIsTyped
  <1>2. RequestOf(line) = RequestOf(lines[o])
    BY <1>0, WriteBackKeepsFrozen
  <1>3. /\ line.state = IF new.state = read.state THEN lines[o].state ELSE new.state
        /\ line.chargeRef = IF new.chargeRef = read.chargeRef
                            THEN lines[o].chargeRef ELSE new.chargeRef
    BY <1>0, WriteBackColumns
  <1>. HIDE DEF line
  <1>4. line.state # "absent"
    BY <1>3 DEF Exists
  <1>5. lines[o].chargeRef # NoRef => line.chargeRef = lines[o].chargeRef
    <2>1. SUFFICES ASSUME lines[o].chargeRef # NoRef, new.chargeRef # read.chargeRef
                   PROVE  new.chargeRef = lines[o].chargeRef
      BY <1>3
    <2>2. PICK c \in charges : c.key = o /\ c.ref = new.chargeRef
      BY <2>1
    <2>3. PICK d \in charges : d.key = o /\ d.ref = lines[o].chargeRef
      BY <2>1 DEF NothingFrozenMoves, TablesIntact
    <2>. QED
      BY <2>2, <2>3 DEF NothingFrozenMoves, TablesIntact
  <1>6. line.chargeRef # NoRef => \E c \in charges : c.key = o /\ c.ref = line.chargeRef
    BY <1>3 DEF NothingFrozenMoves, TablesIntact
  <1>7. line.state = "charged" => line.chargeRef # NoRef
    BY <1>0, <1>3 DEF Intact
  <1>8. line.key = o /\ line.fingerprint = RequestFingerprint(line.amount)
    BY <1>0, <1>2 DEF Intact, RequestOf
  <1>. QED
    BY <1>1, <1>2, <1>4, <1>5, <1>6, <1>7, <1>8 DEF Intact, line

\* A session flushes the one line it holds and its worker moves on.
LEMMA FlushKeeps ==
    ASSUME NothingFrozenMoves, NEW w \in Workers, NEW new \in Line, FlushLine(w, new),
           worker[w].at \in {"settling", "expiring", "recording"},
           LET read == worker[w].rows[worker[w].line] IN
               /\ new.state # "absent"
               /\ new.state = "charged" => new.chargeRef # NoRef
               /\ new.chargeRef = NoRef => read.chargeRef = NoRef
               /\ new.chargeRef # NoRef =>
                      \E c \in charges : c.key = worker[w].line /\ c.ref = new.chargeRef,
           Become(w, Idle) \/ Become(w, Continue(worker[w])),
           feedUnchanged, UNCHANGED <<charges, clock>>
    PROVE  NothingFrozenMoves' /\ Grows
  <1>. DEFINE l == worker[w].line
              read == worker[w].rows[l]
              line == WriteBack(lines[l], read, new)
  <1>1. worker[w] \in Worker /\ WorkerIntact(worker[w])
    BY DEF NothingFrozenMoves, TypeOK
  <1>2. l \in Obligations /\ read.state # "absent"
    BY <1>1 DEF WorkerIntact, SessionIntact
  <1>3. /\ read \in Line /\ Exists(l) /\ Intact(read, l)
        /\ read.chargeRef \in {NoRef, lines[l].chargeRef}
    BY <1>1, <1>2 DEF Worker, WorkerIntact, RowsIntact
  <1>4. /\ line \in Line /\ line.state # "absent"
        /\ RequestOf(line) = RequestOf(lines[l])
        /\ lines[l].chargeRef # NoRef => line.chargeRef = lines[l].chargeRef
        /\ Intact(line, l)
        /\ line.chargeRef # NoRef => \E c \in charges : c.key = l /\ c.ref = line.chargeRef
    BY <1>2, <1>3, WriteBackIsIntact
  <1>. HIDE DEF line
  <1>5. /\ lines \in [Obligations -> Line] /\ lines' = [lines EXCEPT ![l] = line]
        /\ lines' \in [Obligations -> Line]
    BY <1>2, <1>4 DEF NothingFrozenMoves, TypeOK, FlushLine, line
  <1>6. ASSUME NEW o \in Obligations
        PROVE  /\ Exists(o) =>
                      /\ lines'[o].state # "absent"
                      /\ RequestOf(lines'[o]) = RequestOf(lines[o])
                      /\ lines[o].chargeRef # NoRef => lines'[o].chargeRef = lines[o].chargeRef
               /\ lines'[o].state # "absent" => Intact(lines'[o], o)
               /\ lines'[o].chargeRef # NoRef =>
                      \E c \in charges : c.key = o /\ c.ref = lines'[o].chargeRef
    <2>1. CASE o = l
      BY <1>4, <1>5, <2>1
    <2>2. CASE o # l
      <3>1. lines'[o] = lines[o]
        BY <1>5, <2>2
      <3>. QED
        BY <3>1 DEF NothingFrozenMoves, TablesIntact, Exists
    <2>. QED
      BY <2>1, <2>2
  <1>7. Grows /\ TablesIntact'
    BY <1>5, <1>6, LinesMove
  <1>8. FeedTypeOK' /\ charges' \subseteq Charge /\ IsFiniteSet(charges')
    BY DEF NothingFrozenMoves, TypeOK, FeedTypeOK, feedUnchanged
  <1>9. CASE Become(w, Idle)
    <2>1. WorkerIntact(Idle)'
      BY EmptiesAreTyped, RestingIsIntact DEF Idle, ListIntact
    <2>. QED
      BY <1>5, <1>7, <1>8, <1>9, <2>1, EmptiesAreTyped, OneWorkerMoves
  <1>10. CASE Become(w, Continue(worker[w]))
    <2>1. ASSUME NEW ctx \in Worker, ctx = Continue(worker[w]) PROVE WorkerIntact(ctx)'
      <3>1. ctx.rows = NoRows /\ ctx.at \in {"submitting", "resuming"} /\ ctx.todo = worker[w].todo
        BY <1>1, <2>1 DEF Continue, Worker
      <3>2. ListIntact(ctx)'
        BY <1>1, <1>7, <3>1 DEF WorkerIntact, ListIntact, Grows, Worker
      <3>. QED
        BY <3>1, <3>2, RestingIsIntact
    <2>2. Continue(worker[w]) \in Worker
      BY <1>1, ContinueIsTyped
    <2>. QED
      BY <1>5, <1>7, <1>8, <1>10, <2>1, <2>2, OneWorkerMoves
  <1>. QED
    BY <1>9, <1>10

\* Settling, giving up and recording what was looked up.
LEMMA FlushesKeep ==
    ASSUME NothingFrozenMoves, NEW w \in Workers,
           \/ SettleFlush(w)
           \/ ExpireFlush(w)
           \/ EstablishFlush(w)
    PROVE  NothingFrozenMoves' /\ Grows
  <1>. DEFINE l == worker[w].line
              read == worker[w].rows[l]
  <1>1. worker[w] \in Worker /\ WorkerIntact(worker[w])
    BY DEF NothingFrozenMoves, TypeOK
  <1>2. worker[w].at \in {"settling", "expiring", "recording"}
    BY DEF SettleFlush, ExpireFlush, EstablishFlush, At
  <1>3. /\ l \in Obligations /\ read \in Line /\ read.state # "absent"
        /\ Exists(l) /\ Intact(read, l) /\ read.chargeRef \in {NoRef, lines[l].chargeRef}
    BY <1>1, <1>2 DEF WorkerIntact, SessionIntact, RowsIntact, Worker
  <1>4. worker[w].ref \in Nat
    BY <1>1 DEF Worker
  <1>5. read.chargeRef # NoRef => \E c \in charges : c.key = l /\ c.ref = read.chargeRef
    BY <1>3 DEF NothingFrozenMoves, TablesIntact
  <1>6. ASSUME worker[w].ref # NoRef, worker[w].at \in {"settling", "recording"},
               FlushLine(w, Settled(read, worker[w].ref)),
               Become(w, Idle) \/ Become(w, Continue(worker[w])),
               feedUnchanged, UNCHANGED <<charges, clock>>
        PROVE  NothingFrozenMoves' /\ Grows
    <2>. DEFINE new == Settled(read, worker[w].ref)
    <2>1. new \in Line /\ new.state = "charged" /\ new.chargeRef = worker[w].ref
      BY <1>3, <1>4 DEF Settled, Line, LineStates
    <2>2. \E c \in charges : c.key = l /\ c.ref = new.chargeRef
      BY <1>1, <1>6, <2>1 DEF WorkerIntact, AnswerIntact
    <2>. HIDE DEF new
    <2>3. FlushLine(w, new)
      BY <1>6 DEF new
    <2>. QED
      BY <1>2, <1>6, <2>1, <2>2, <2>3, FlushKeeps
  <1>7. CASE SettleFlush(w)
    <2>1. worker[w].ref # NoRef
      BY <1>1, <1>7 DEF SettleFlush, At, WorkerIntact, AnswerIntact
    <2>. QED
      BY <1>6, <1>7, <2>1 DEF SettleFlush, At
  <1>8. CASE ExpireFlush(w)
    <2>. DEFINE new == [read EXCEPT !.state = "unresolved"]
    <2>1. new \in Line /\ new.state = "unresolved" /\ new.chargeRef = read.chargeRef
      BY <1>3 DEF Line, LineStates
    <2>. HIDE DEF new
    <2>2. FlushLine(w, new)
      BY <1>8 DEF ExpireFlush, new
    <2>. QED
      BY <1>2, <1>5, <1>8, <2>1, <2>2, FlushKeeps DEF ExpireFlush
  <1>9. CASE EstablishFlush(w)
    <2>1. CASE worker[w].ref # NoRef
      BY <1>6, <1>9, <2>1 DEF EstablishFlush, Established, At
    <2>2. CASE worker[w].ref = NoRef
      <3>. DEFINE new == [read EXCEPT !.state = "prepared", !.submittedAt = Never]
      <3>1. new \in Line /\ new.state = "prepared" /\ new.chargeRef = read.chargeRef
        BY <1>3 DEF Line, LineStates
      <3>. HIDE DEF new
      <3>2. FlushLine(w, new)
        BY <1>9, <2>2 DEF EstablishFlush, Established, new
      <3>. QED
        BY <1>2, <1>5, <1>9, <3>1, <3>2, FlushKeeps DEF EstablishFlush
    <2>. QED
      BY <2>1, <2>2
  <1>. QED
    BY <1>7, <1>8, <1>9

\* A session that changed nothing writes nothing.
LEMMA WriteBackOfNothing ==
    ASSUME NEW current \in Line, NEW read
    PROVE  WriteBack(current, read, read) = current
  BY DEF WriteBack, Line

\* A cancellation keeps a line's reference, and charges no line.
LEMMA CancelledColumns ==
    ASSUME NEW line \in Line, line.state # "absent"
    PROVE  /\ Cancelled(line) \in Line
           /\ Cancelled(line).chargeRef = line.chargeRef
           /\ Cancelled(line).state # "absent"
           /\ Cancelled(line).state = "charged" => line.state = "charged"
  <1>1. CASE line.state \in {"prepared", "blocked"}
    <2>1. Cancelled(line) =
              [line EXCEPT !.state = "voided", !.cancellation = "before_submission"]
      BY <1>1 DEF Cancelled
    <2>. QED
      BY <2>1 DEF Line, LineStates, Cancellations
  <1>2. CASE line.state \in {"submitted", "unresolved"}
    <2>1. Cancelled(line) = [line EXCEPT !.cancellation = "while_unresolved"]
      BY <1>2 DEF Cancelled
    <2>. QED
      BY <1>2, <2>1 DEF Line, LineStates, Cancellations
  <1>3. CASE line.state = "charged"
    <2>1. Cancelled(line) = [line EXCEPT !.cancellation = "after_charge"]
      BY <1>3 DEF Cancelled
    <2>. QED
      BY <1>3, <2>1 DEF Line, LineStates, Cancellations
  <1>4. CASE line.state = "voided"
    <2>1. Cancelled(line) = line
      BY <1>4 DEF Cancelled
    <2>. QED
      BY <1>4, <2>1
  <1>. QED
    BY <1>1, <1>2, <1>3, <1>4 DEF Line, LineStates

\* The lines of one obligation are cancelled, each as it was read.
LEMMA CancelFlushKeeps ==
    ASSUME NothingFrozenMoves, NEW w \in Workers, CancelFlush(w)
    PROVE  NothingFrozenMoves' /\ Grows
  <1>. DEFINE read == worker[w].rows
  <1>1. worker[w] \in Worker /\ WorkerIntact(worker[w])
    BY DEF NothingFrozenMoves, TypeOK
  <1>2. ASSUME NEW o \in Obligations
        PROVE  LET line == WriteBack(lines[o], read[o], Cancelled(read[o])) IN
               /\ line \in Line
               /\ Exists(o) =>
                      /\ line.state # "absent"
                      /\ RequestOf(line) = RequestOf(lines[o])
                      /\ lines[o].chargeRef # NoRef => line.chargeRef = lines[o].chargeRef
               /\ line.state # "absent" => Intact(line, o)
               /\ line.chargeRef # NoRef => \E c \in charges : c.key = o /\ c.ref = line.chargeRef
    <2>. DEFINE new == Cancelled(read[o])
    <2>0. lines[o] \in Line /\ read[o] \in Line
      BY <1>1 DEF NothingFrozenMoves, TypeOK, Worker
    <2>1. CASE read[o].state = "absent"
      <3>1. new = read[o]
        BY <2>0, <2>1 DEF Cancelled
      <3>2. WriteBack(lines[o], read[o], new) = lines[o]
        BY <2>0, <3>1, WriteBackOfNothing
      <3>. QED
        BY <2>0, <3>2 DEF NothingFrozenMoves, TablesIntact, Exists
    <2>2. CASE read[o].state # "absent"
      <3>1. /\ new \in Line /\ new.chargeRef = read[o].chargeRef /\ new.state # "absent"
            /\ new.state = "charged" => read[o].state = "charged"
        BY <2>0, <2>2, CancelledColumns
      <3>2. /\ Exists(o) /\ Intact(read[o], o)
            /\ read[o].chargeRef \in {NoRef, lines[o].chargeRef}
        BY <1>1, <2>2 DEF CancelFlush, At, WorkerIntact, RowsIntact
      <3>3. new.state = "charged" => new.chargeRef # NoRef
        BY <3>1, <3>2 DEF Intact
      <3>4. new.chargeRef # NoRef => \E c \in charges : c.key = o /\ c.ref = new.chargeRef
        BY <3>1, <3>2 DEF NothingFrozenMoves, TablesIntact
      <3>. QED
        BY <2>0, <3>1, <3>2, <3>3, <3>4, WriteBackIsIntact
    <2>. QED
      BY <2>1, <2>2
  <1>3. /\ lines' = [o \in Obligations |-> WriteBack(lines[o], read[o], Cancelled(read[o]))]
        /\ charges' = charges
    BY DEF CancelFlush
  <1>4. lines' \in [Obligations -> Line]
    BY <1>2, <1>3
  <1>5. Grows /\ TablesIntact'
    BY <1>2, <1>3, <1>4, LinesMove
  <1>6. FeedTypeOK'
    BY DEF NothingFrozenMoves, TypeOK, FeedTypeOK, CancelFlush, Entitlement
  <1>7. WorkerIntact(Idle)'
    BY EmptiesAreTyped, RestingIsIntact DEF Idle, ListIntact
  <1>. QED
    BY <1>4, <1>5, <1>6, <1>7, EmptiesAreTyped, OneWorkerMoves
    DEF CancelFlush, NothingFrozenMoves, TypeOK

\* The drafts of a run become lines where there was none.
LEMMA PrepareCommitKeeps ==
    ASSUME NothingFrozenMoves, NEW w \in Workers, PrepareCommit(w)
    PROVE  NothingFrozenMoves' /\ Grows
  <1>1. worker[w] \in Worker /\ WorkerIntact(worker[w]) /\ worker[w].at = "judging"
    BY DEF NothingFrozenMoves, TypeOK, PrepareCommit, At
  <1>2. \A o \in Obligations : lines'[o] = IF Exists(o) THEN lines[o] ELSE worker[w].rows[o]
    BY DEF PrepareCommit
  <1>3. lines' \in [Obligations -> Line] /\ charges' = charges
    BY <1>1 DEF PrepareCommit, NothingFrozenMoves, TypeOK, Worker
  <1>4. ASSUME NEW o \in Obligations, ~Exists(o)
        PROVE  /\ lines'[o].state # "absent" => Intact(lines'[o], o)
               /\ lines'[o].chargeRef # NoRef =>
                      \E c \in charges : c.key = o /\ c.ref = lines'[o].chargeRef
    BY <1>1, <1>2, <1>4 DEF WorkerIntact, RowsIntact, SessionIntact
  <1>5. Grows /\ TablesIntact'
    <2>1. \A o \in Obligations : Exists(o) =>
              /\ lines'[o] = lines[o] /\ lines[o].state # "absent" /\ Intact(lines[o], o)
              /\ lines[o].chargeRef # NoRef =>
                     \E c \in charges : c.key = o /\ c.ref = lines[o].chargeRef
      BY <1>2 DEF NothingFrozenMoves, TablesIntact, Exists
    <2>. QED
      BY <1>3, <1>4, <2>1, LinesMove
  <1>6. FeedTypeOK'
    BY DEF NothingFrozenMoves, TypeOK, FeedTypeOK, PrepareCommit, feedUnchanged
  <1>7. WorkerIntact(Idle)'
    BY EmptiesAreTyped, RestingIsIntact DEF Idle, ListIntact
  <1>. QED
    BY <1>3, <1>5, <1>6, <1>7, EmptiesAreTyped, OneWorkerMoves
    DEF PrepareCommit, NothingFrozenMoves, TypeOK

\* A claim changes no frozen column, and the request it takes is the line's.
LEMMA SubmitClaimKeeps ==
    ASSUME NothingFrozenMoves, NEW w \in Workers, NEW o \in Obligations, SubmitClaim(w, o)
    PROVE  NothingFrozenMoves' /\ Grows
  <1>. DEFINE line == Claimed(lines[o], worker[w].now)
              ctx == [worker[w] EXCEPT !.at = "calling", !.todo = @ \ {o}, !.line = o,
                          !.request = RequestOf(lines[o])]
  <1>1. /\ worker[w] \in Worker /\ WorkerIntact(worker[w]) /\ worker[w].at = "submitting"
        /\ lines[o] \in Line
    BY DEF NothingFrozenMoves, TypeOK, SubmitClaim, At
  <1>2. /\ line \in Line /\ line.state = "submitted" /\ line.chargeRef = lines[o].chargeRef
        /\ RequestOf(line) = RequestOf(lines[o])
    BY <1>1 DEF Claimed, Line, LineStates, Worker, RequestOf
  <1>3. Exists(o) /\ Intact(lines[o], o)
    BY DEF SubmitClaim, Claimable, NothingFrozenMoves, TablesIntact, Exists
  <1>4. Intact(line, o)
    BY <1>2, <1>3 DEF Intact, RequestOf
  <1>. HIDE DEF line
  <1>5. /\ lines' = [lines EXCEPT ![o] = line] /\ lines' \in [Obligations -> Line]
        /\ charges' = charges
    BY <1>2 DEF SubmitClaim, NothingFrozenMoves, TypeOK, line
  <1>6. Grows /\ TablesIntact'
    <2>1. lines'[o] = line /\ \A x \in Obligations : x # o => lines'[x] = lines[x]
      BY <1>5 DEF NothingFrozenMoves, TypeOK
    <2>2. \A x \in Obligations :
              /\ Exists(x) => lines[x].state # "absent" /\ Intact(lines[x], x)
              /\ ~Exists(x) => lines[x].state = "absent"
              /\ lines[x].chargeRef # NoRef =>
                     \E c \in charges : c.key = x /\ c.ref = lines[x].chargeRef
      BY DEF NothingFrozenMoves, TablesIntact, Exists
    <2>3. \A x \in Obligations :
               /\ Exists(x) =>
                      /\ lines'[x].state # "absent"
                      /\ RequestOf(lines'[x]) = RequestOf(lines[x])
                      /\ lines[x].chargeRef # NoRef => lines'[x].chargeRef = lines[x].chargeRef
               /\ lines'[x].state # "absent" => Intact(lines'[x], x)
               /\ lines'[x].chargeRef # NoRef =>
                      \E c \in charges : c.key = x /\ c.ref = lines'[x].chargeRef
      <3>. SUFFICES ASSUME NEW x \in Obligations
                    PROVE  /\ Exists(x) =>
                              /\ lines'[x].state # "absent"
                              /\ RequestOf(lines'[x]) = RequestOf(lines[x])
                              /\ lines[x].chargeRef # NoRef =>
                                     lines'[x].chargeRef = lines[x].chargeRef
                           /\ lines'[x].state # "absent" => Intact(lines'[x], x)
                           /\ lines'[x].chargeRef # NoRef =>
                                  \E c \in charges : c.key = x /\ c.ref = lines'[x].chargeRef
        OBVIOUS
      <3>1. CASE x = o
        BY <1>2, <1>4, <2>1, <2>2, <3>1
      <3>2. CASE x # o
        BY <2>1, <2>2, <3>2
      <3>. QED
        BY <3>1, <3>2
    <2>. QED
      BY <1>5, <2>3, LinesMove
  <1>7. /\ ctx \in Worker /\ ctx.at = "calling" /\ ctx.rows = worker[w].rows /\ ctx.line = o
        /\ ctx.request = RequestOf(lines[o]) /\ ctx.todo \subseteq worker[w].todo
    <2>1. RequestOf(lines[o]) \in Request
      BY <1>1, RequestIsTyped
    <2>. QED
      BY <1>1, <2>1 DEF Worker, Steps
  <1>8. WorkerIntact(ctx)
    BY <1>1, <1>3, <1>7 DEF WorkerIntact, RowsIntact, RequestIntact, AnswerIntact,
       SessionIntact, ListIntact
  <1>9. ASSUME NEW c \in Worker, c = ctx PROVE WorkerIntact(c)'
    BY <1>6, <1>8, <1>9, Monotone DEF NothingFrozenMoves
  <1>10. FeedTypeOK'
    BY DEF NothingFrozenMoves, TypeOK, FeedTypeOK, SubmitClaim, feedUnchanged
  <1>. QED
    BY <1>5, <1>6, <1>7, <1>9, <1>10, OneWorkerMoves
    DEF SubmitClaim, NothingFrozenMoves, TypeOK

\* The provider adds the one operation for a key it does not hold.
LEMMA CreateChargeExecuteKeeps ==
    ASSUME NothingFrozenMoves, NEW w \in Workers, CreateChargeExecute(w)
    PROVE  NothingFrozenMoves' /\ Grows
  <1>. DEFINE l == worker[w].line
              charge == ChargeRecord(worker[w].request, worker[w].ref)
              answered == [worker[w] EXCEPT !.at = "answered"]
  <1>1. /\ worker[w] \in Worker /\ WorkerIntact(worker[w]) /\ worker[w].at = "executing"
        /\ worker[w].ref # NoRef
    BY DEF NothingFrozenMoves, TypeOK, CreateChargeExecute, At, WorkerIntact, AnswerIntact
  <1>2. /\ l \in Obligations /\ Exists(l) /\ worker[w].request = RequestOf(lines[l])
        /\ lines[l] \in Line /\ Intact(lines[l], l)
    BY <1>1 DEF WorkerIntact, RequestIntact, NothingFrozenMoves, TypeOK, TablesIntact
  <1>3. /\ charge \in Charge /\ charge.key = l /\ charge.ref = worker[w].ref
        /\ charge.fingerprint = lines[l].fingerprint /\ charge.amount = lines[l].amount
    BY <1>1, <1>2 DEF ChargeRecord, Charge, Worker, Request, RequestOf, Intact, Line, NoRef,
       NothingFrozenMoves, TypeOK
  <1>4. /\ \A c \in charges : c.key # l
        /\ charges' = charges \cup {charge} /\ lines' = lines
    BY <1>2 DEF CreateChargeExecute, CarryOut, ChargesFor, RequestOf, Intact
  <1>. HIDE DEF charge
  <1>5. charges' \subseteq Charge /\ IsFiniteSet(charges')
    BY <1>3, <1>4, FS_AddElement DEF NothingFrozenMoves, TypeOK
  <1>6. Grows /\ TablesIntact'
    <2>1. Grows
      BY <1>4 DEF Grows, Exists
    <2>2. TablesIntact'
      BY <1>2, <1>3, <1>4 DEF NothingFrozenMoves, TablesIntact, Exists, Intact
    <2>. QED
      BY <2>1, <2>2
  <1>7. FeedTypeOK' /\ lines' \in [Obligations -> Line] /\ clock' = clock
    BY DEF NothingFrozenMoves, TypeOK, FeedTypeOK, CreateChargeExecute, feedUnchanged
  <1>8. CASE Become(w, answered)
    <2>1. /\ answered \in Worker /\ answered.at = "answered" /\ answered.rows = worker[w].rows
          /\ answered.line = l /\ answered.ref = worker[w].ref
          /\ answered.request = worker[w].request /\ answered.todo = worker[w].todo
      BY <1>1 DEF Worker, Steps
    <2>2. WorkerIntact(worker[w]) /\ worker[w] \in Worker
      BY <1>1
    <2>3. ASSUME NEW ctx \in Worker, ctx = worker[w] PROVE WorkerIntact(ctx)'
      BY <1>1, <1>6, <2>3, Monotone DEF NothingFrozenMoves
    <2>4. ASSUME NEW ctx \in Worker, ctx = answered PROVE WorkerIntact(ctx)'
      <3>1. \E c \in charges' : c.key = ctx.line /\ c.ref = ctx.ref
        BY <1>3, <1>4, <2>1, <2>4
      <3>. DEFINE old == worker[w]
      <3>2. ASSUME NEW o \in Worker, o = worker[w] PROVE WorkerIntact(ctx)'
        <4>1. WorkerIntact(o)'
          BY <2>3, <3>2
        <4>2. /\ ctx.at = "answered" /\ o.at = "executing" /\ ctx.rows = o.rows
              /\ ctx.line = o.line /\ ctx.ref = o.ref /\ ctx.request = o.request
              /\ ctx.todo = o.todo /\ ctx.ref # NoRef
          BY <1>1, <2>1, <2>4, <3>2
        <4>. QED
          BY <3>1, <4>1, <4>2 DEF WorkerIntact, RowsIntact, RequestIntact, AnswerIntact,
             SessionIntact, ListIntact
      <3>. QED
        BY <1>1, <3>2
    <2>. QED
      BY <1>5, <1>6, <1>7, <1>8, <2>1, <2>4, OneWorkerMoves
  <1>9. CASE Raise(w, "ProviderUnavailable")
    <2>1. CASE Become(w, Idle)
      <3>1. WorkerIntact(Idle)'
        BY EmptiesAreTyped, RestingIsIntact DEF Idle, ListIntact
      <3>. QED
        BY <1>5, <1>6, <1>7, <2>1, <3>1, EmptiesAreTyped, OneWorkerMoves
    <2>2. CASE Become(w, Continue(worker[w]))
      <3>1. ASSUME NEW ctx \in Worker, ctx = Continue(worker[w]) PROVE WorkerIntact(ctx)'
        <4>1. /\ ctx.rows = NoRows /\ ctx.at \in {"submitting", "resuming"}
              /\ ctx.todo = worker[w].todo
          BY <1>1, <3>1 DEF Continue, Worker
        <4>2. ListIntact(ctx)'
          BY <1>1, <1>6, <4>1 DEF WorkerIntact, ListIntact, Grows, Worker
        <4>. QED
          BY <4>1, <4>2, RestingIsIntact
      <3>2. Continue(worker[w]) \in Worker
        BY <1>1, ContinueIsTyped
      <3>. QED
        BY <1>5, <1>6, <1>7, <2>2, <3>1, <3>2, OneWorkerMoves
    <2>. QED
      BY <1>9, <2>1, <2>2 DEF Raise
  <1>. QED
    BY <1>8, <1>9 DEF CreateChargeExecute

-----------------------------------------------------------------------------
\* Every step keeps the invariant, and takes nothing back.
LEMMA NextKeeps ==
    NothingFrozenMoves /\ [Next]_vars => NothingFrozenMoves' /\ Grows
  <1>. SUFFICES ASSUME NothingFrozenMoves, [Next]_vars PROVE NothingFrozenMoves' /\ Grows
    OBVIOUS
  <1>1. CASE UNCHANGED vars
    BY <1>1, NobodyMoves DEF vars, NothingFrozenMoves, TypeOK, FeedTypeOK
  <1>2. CASE Feed
    BY <1>2, FeedKeeps
  <1>3. CASE Tick
    BY <1>3, NobodyMoves DEF Tick, NothingFrozenMoves, TypeOK, FeedTypeOK, feedUnchanged
  <1>4. ASSUME NEW w \in Workers, WorkerNext(w) \/ Crash(w)
        PROVE  NothingFrozenMoves' /\ Grows
    <2>1. CASE Prepare(w)
      BY <2>1, PrepareReadKeeps, PrepareJudgeKeeps, PrepareCommitKeeps DEF Prepare
    <2>2. CASE Submit(w)
      <3>1. ASSUME NEW p \in Periods, SubmitList(w, p) PROVE NothingFrozenMoves' /\ Grows
        BY <3>1, SubmitListKeeps
      <3>2. ASSUME NEW o \in Obligations, SubmitSkip(w, o) PROVE NothingFrozenMoves' /\ Grows
        BY <3>2, SubmitSkipKeeps
      <3>. QED
        BY <2>2, <3>1, <3>2, SubmitClaimKeeps DEF Submit
    <2>3. CASE CreateCharge(w)
      BY <2>3, CreateChargeExecuteKeeps, CallsKeep DEF CreateCharge
    <2>4. CASE Settle(w)
      BY <2>4, LoadsKeep, FlushesKeep DEF Settle
    <2>5. CASE ListDone(w)
      BY <2>5, IdleKeeps DEF ListDone
    <2>6. CASE Resume(w)
      BY <2>6, ResumeListKeeps, CallsKeep, LoadsKeep, FlushesKeep DEF Resume
    <2>7. CASE Establish(w)
      BY <2>7, CallsKeep, LoadsKeep, FlushesKeep DEF Establish
    <2>8. CASE Cancel(w)
      BY <2>8, LoadsKeep, CancelFlushKeeps DEF Cancel
    <2>9. CASE Crash(w)
      BY <2>9, IdleKeeps DEF Crash
    <2>. QED
      BY <1>4, <2>1, <2>2, <2>3, <2>4, <2>5, <2>6, <2>7, <2>8, <2>9 DEF WorkerNext
  <1>. QED
    BY <1>1, <1>2, <1>3, <1>4 DEF Next

-----------------------------------------------------------------------------
\* Whatever is anywhere in flight, the frozen parameters, the references and the
\* charges agree (the inductive invariant, for every value of the constants).
THEOREM FrozenInvariant ==
    Spec => []NothingFrozenMoves
  <1>1. Init => NothingFrozenMoves
    BY InitIntact
  <1>2. NothingFrozenMoves /\ [Next]_vars => NothingFrozenMoves'
    BY NextKeeps
  <1>. QED
    BY <1>1, <1>2, PTL DEF Spec

\* No step of a handler leaves its row, its session or the provider's table with
\* a value outside its type: references stay positive and keys stay obligations.
THEOREM TypeCorrect ==
    Spec => []TypeOK
  <1>1. NothingFrozenMoves => TypeOK
    BY DEF NothingFrozenMoves
  <1>. QED
    BY <1>1, FrozenInvariant, PTL

\* No line that exists ever disappears, changes its key, fingerprint or amount,
\* or loses its charge reference, and no operation is ever taken back.
THEOREM NothingIsTakenBack ==
    Spec => [][Grows]_vars
  <1>1. NothingFrozenMoves /\ [Next]_vars => Grows
    BY NextKeeps
  <1>. QED
    BY <1>1, FrozenInvariant, PTL DEF Spec

\* The payment provider is made to carry out at most one operation for an
\* entitlement and period, with any number of workers, crashes and retries.
THEOREM AtMostOneOperation ==
    Spec => []OneOperationPerObligation
  <1>1. NothingFrozenMoves => OneOperationPerObligation
    <2>. SUFFICES ASSUME NothingFrozenMoves, NEW c \in charges, NEW d \in charges,
                         SameObligation(c.key, d.key)
                  PROVE  c = d
      BY DEF OneOperationPerObligation
    <2>1. c.key \in Obligations /\ d.key \in Obligations
      BY DEF NothingFrozenMoves, TypeOK, Charge
    <2>2. c.key = d.key
      BY <2>1 DEF SameObligation, Obligations
    <2>. QED
      BY <2>2 DEF NothingFrozenMoves, TablesIntact
  <1>. QED
    BY <1>1, FrozenInvariant, PTL

\* Every operation was carried out for the amount its line froze, and no retry
\* is ever refused for having changed its parameters.
THEOREM FrozenParameters ==
    Spec => []ParametersStayFrozen
  <1>1. NothingFrozenMoves => ParametersStayFrozen
    <2>. SUFFICES ASSUME NothingFrozenMoves PROVE ParametersStayFrozen
      OBVIOUS
    <2>1. ASSUME NEW c \in charges
          PROVE  \E o \in Obligations : lines[o].key = c.key /\ lines[o].amount = c.amount
      <3>1. c.key \in Obligations
        BY DEF NothingFrozenMoves, TypeOK, Charge
      <3>2. lines[c.key].key = c.key /\ lines[c.key].amount = c.amount
        BY <3>1 DEF NothingFrozenMoves, TablesIntact, Intact
      <3>. QED
        BY <3>1, <3>2
    <2>2. ASSUME NEW w \in Workers, worker[w].at \in {"calling", "executing"},
                 NEW c \in ChargesFor(worker[w].request.key)
          PROVE  ~IdempotencyConflict(c, worker[w].request)
      <3>. DEFINE l == worker[w].line
      <3>1. /\ l \in Obligations /\ Exists(l)
            /\ worker[w].request = RequestOf(lines[l])
        BY <2>2 DEF NothingFrozenMoves, WorkerIntact, RequestIntact
      <3>2. worker[w].request.key = l /\ worker[w].request.fingerprint = lines[l].fingerprint
        BY <3>1 DEF NothingFrozenMoves, TablesIntact, Intact, RequestOf
      <3>3. c \in charges /\ c.key = l
        BY <3>2 DEF ChargesFor
      <3>. QED
        BY <3>2, <3>3 DEF IdempotencyConflict, NothingFrozenMoves, TablesIntact
    <2>. QED
      BY <2>1, <2>2 DEF ParametersStayFrozen
  <1>. QED
    BY <1>1, FrozenInvariant, PTL

\* A reference in the books is that of an operation carried out for the line
\* that holds it, and no line is charged without one.
THEOREM EvidenceBehindEverySettlement ==
    Spec => []SettledOnEvidence
  <1>1. NothingFrozenMoves => SettledOnEvidence
    <2>. SUFFICES ASSUME NothingFrozenMoves, NEW o \in Obligations
                  PROVE  /\ lines[o].state = "charged" => lines[o].chargeRef # NoRef
                         /\ lines[o].chargeRef # NoRef =>
                                \E c \in ChargesFor(lines[o].key) : c.ref = lines[o].chargeRef
      BY DEF SettledOnEvidence
    <2>1. lines[o].state = "charged" => lines[o].chargeRef # NoRef
      BY DEF NothingFrozenMoves, TablesIntact, Intact, Exists
    <2>2. ASSUME lines[o].chargeRef # NoRef
          PROVE  \E c \in ChargesFor(lines[o].key) : c.ref = lines[o].chargeRef
      <3>1. PICK c \in charges : c.key = o /\ c.ref = lines[o].chargeRef
        BY <2>2 DEF NothingFrozenMoves, TablesIntact
      <3>2. lines[o].key = o
        BY <3>1 DEF NothingFrozenMoves, TablesIntact, Intact
      <3>. QED
        BY <3>1, <3>2 DEF ChargesFor
    <2>. QED
      BY <2>1, <2>2
  <1>. QED
    BY <1>1, FrozenInvariant, PTL

-----------------------------------------------------------------------------
\* The refinement.  Grows says what a step may not take back; what is left is
\* what it may add, seen through the mapping.

\* A step that changes no operation, no reference and no line's existence is
\* not seen by the promise.
LEMMA UnseenStep ==
    ASSUME NothingFrozenMoves, Grows, charges' = charges,
           \A o \in Obligations :
               /\ Exists(o)' => Exists(o)
               /\ lines'[o].chargeRef = lines[o].chargeRef
    PROVE  UNCHANGED Promise!vars
  <1>1. \A o \in Obligations : IntentOf(o)' = IntentOf(o)
    BY DEF Grows, IntentOf, RequestOf, Exists
  <1>2. \A o \in Obligations : MovedFor(o)' = MovedFor(o)
    BY DEF MovedFor, ChargesFor
  <1>3. \A o \in Obligations : BookedFor(o)' = BookedFor(o)
    BY DEF BookedFor
  <1>. QED
    BY <1>1, <1>2, <1>3 DEF Promise!vars

\* A step that rewrites one existing line books a reference, or nothing is seen.
LEMMA OneLineRewritten ==
    ASSUME NothingFrozenMoves, NothingFrozenMoves', Grows, charges' = charges,
           NEW l \in Obligations, Exists(l),
           \A o \in Obligations : o # l => lines'[o] = lines[o]
    PROVE  [Promise!Next]_Promise!vars
  <1>1. \A o \in Obligations : Exists(o)' => Exists(o)
    BY DEF Exists
  <1>2. CASE lines'[l].chargeRef = lines[l].chargeRef
    BY <1>1, <1>2, UnseenStep
  <1>3. CASE lines'[l].chargeRef # lines[l].chargeRef
    <2>1. lines[l].chargeRef = NoRef /\ lines'[l].chargeRef # NoRef
      BY <1>3 DEF Grows
    <2>2. PICK c \in charges : c.key = l /\ c.ref = lines'[l].chargeRef
      BY <2>1 DEF NothingFrozenMoves, TablesIntact
    <2>3. \A o \in Obligations : IntentOf(o)' = IntentOf(o) /\ MovedFor(o)' = MovedFor(o)
      BY <1>1 DEF Grows, IntentOf, RequestOf, Exists, MovedFor, ChargesFor
    <2>4. \A o \in Obligations : o # l => BookedFor(o)' = BookedFor(o)
      BY DEF BookedFor
    <2>5. BookedFor(l) = {} /\ BookedFor(l)' = {c.ref}
      BY <2>1, <2>2 DEF BookedFor
    <2>6. [amount |-> c.amount, ref |-> c.ref] \in MovedFor(l)
      BY <2>2 DEF MovedFor, ChargesFor
    <2>7. Promise!Book(l)
      BY <2>3, <2>4, <2>5, <2>6 DEF Promise!Book
    <2>. QED
      BY <2>7 DEF Promise!Next
  <1>. QED
    BY <1>2, <1>3

\* Initially nothing is intended, moved or booked.
LEMMA InitKeepsPromise ==
    Init => Promise!Init
  BY DEF Init, Promise!Init, IntentOf, MovedFor, BookedFor, ChargesFor, Exists, NoRows, NoLine

\* A run's commit records the intent of the obligations that had no line.
LEMMA PrepareCommitIntends ==
    ASSUME NothingFrozenMoves, Grows, NEW w \in Workers, PrepareCommit(w)
    PROVE  Promise!Next
  <1>. DEFINE draft == worker[w].rows
              S == {o \in Obligations : ~Exists(o) /\ draft[o].state # "absent"}
              amount == [o \in S |-> draft[o].amount]
  <1>1. \A o \in Obligations :
            /\ lines'[o] = IF Exists(o) THEN lines[o] ELSE draft[o]
            /\ draft[o] \in Line /\ draft[o].chargeRef = NoRef
            /\ ~Exists(o) => lines[o].chargeRef = NoRef
    BY DEF PrepareCommit, At, NothingFrozenMoves, TypeOK, Worker, WorkerIntact, SessionIntact,
       TablesIntact
  <1>2. amount \in [S -> Amounts \cup {0}] /\ S \in SUBSET Obligations
    BY <1>1 DEF Line
  <1>3. ASSUME NEW o \in Obligations
        PROVE  /\ IntentOf(o)' = IF o \in S THEN {amount[o]} ELSE IntentOf(o)
               /\ o \in S => IntentOf(o) = {}
               /\ BookedFor(o)' = BookedFor(o) /\ MovedFor(o)' = MovedFor(o)
    BY <1>1 DEF IntentOf, BookedFor, MovedFor, ChargesFor, Exists, PrepareCommit
  <1>4. Promise!Intend(S)
    BY <1>2, <1>3 DEF Promise!Intend
  <1>. QED
    BY <1>2, <1>4 DEF Promise!Next

\* The provider's insert moves money for an obligation that had none moved, for
\* the amount intended.
LEMMA ExecuteMoves ==
    ASSUME NothingFrozenMoves, NEW w \in Workers, CreateChargeExecute(w)
    PROVE  Promise!Next
  <1>. DEFINE charge == ChargeRecord(worker[w].request, worker[w].ref)
              operation == [amount |-> charge.amount, ref |-> charge.ref]
  <1>1. PICK l \in Obligations :
            /\ Exists(l) /\ Intact(lines[l], l)
            /\ worker[w].request = RequestOf(lines[l])
    BY DEF CreateChargeExecute, At, NothingFrozenMoves, WorkerIntact, RequestIntact, TablesIntact
  <1>2. /\ ChargesFor(l) = {} /\ charges' = charges \cup {charge} /\ lines' = lines
        /\ charge.key = l /\ charge.amount = lines[l].amount
    BY <1>1 DEF CreateChargeExecute, CarryOut, ChargeRecord, RequestOf, Intact
  <1>. HIDE DEF charge
  <1>3. MovedFor(l) = {} /\ MovedFor(l)' = {operation}
    BY <1>2 DEF MovedFor, ChargesFor
  <1>4. \A o \in Obligations : o # l => MovedFor(o)' = MovedFor(o)
    BY <1>2 DEF MovedFor, ChargesFor
  <1>5. \A o \in Obligations : IntentOf(o)' = IntentOf(o) /\ BookedFor(o)' = BookedFor(o)
    BY <1>2 DEF IntentOf, BookedFor, Exists
  <1>6. operation.amount \in IntentOf(l)
    BY <1>1, <1>2 DEF IntentOf
  <1>7. Promise!Move(l)
    BY <1>1, <1>3, <1>4, <1>5, <1>6 DEF Promise!Move
  <1>. QED
    BY <1>1, <1>7 DEF Promise!Next

\* Every other step of a worker writes nothing, or rewrites one line, or cancels
\* lines without touching a reference.
LEMMA WorkerStepIsPromised ==
    ASSUME NothingFrozenMoves, NothingFrozenMoves', Grows, NEW w \in Workers,
           WorkerNext(w) \/ Crash(w)
    PROVE  [Promise!Next]_Promise!vars
  <1>1. CASE UNCHANGED <<charges, lines>>
    BY <1>1, UnseenStep DEF Exists
  <1>2. CASE PrepareCommit(w)
    BY <1>2, PrepareCommitIntends
  <1>3. ASSUME NEW o \in Obligations, SubmitClaim(w, o) PROVE [Promise!Next]_Promise!vars
    <2>1. Exists(o) /\ charges' = charges /\ \A x \in Obligations : x # o => lines'[x] = lines[x]
      BY <1>3 DEF SubmitClaim, Claimable, Exists, NothingFrozenMoves, TypeOK
    <2>. QED
      BY <2>1, OneLineRewritten
  <1>4. CASE CreateChargeExecute(w)
    BY <1>4, ExecuteMoves
  <1>5. ASSUME NEW new, FlushLine(w, new), charges' = charges,
               worker[w].at \in {"settling", "expiring", "recording"}
        PROVE  [Promise!Next]_Promise!vars
    <2>1. PICK l \in Obligations : l = worker[w].line /\ Exists(l)
      BY <1>5 DEF NothingFrozenMoves, WorkerIntact, SessionIntact, RowsIntact
    <2>2. \A x \in Obligations : x # l => lines'[x] = lines[x]
      BY <1>5, <2>1 DEF FlushLine, NothingFrozenMoves, TypeOK
    <2>. QED
      BY <1>5, <2>1, <2>2, OneLineRewritten
  <1>6. CASE SettleFlush(w) \/ ExpireFlush(w) \/ EstablishFlush(w)
    BY <1>5, <1>6 DEF SettleFlush, ExpireFlush, EstablishFlush, At
  <1>7. CASE CancelFlush(w)
    <2>. DEFINE read == worker[w].rows
    <2>1. ASSUME NEW o \in Obligations
          PROVE  /\ Exists(o)' => Exists(o)
                 /\ lines'[o].chargeRef = lines[o].chargeRef
      <3>1. lines'[o] = WriteBack(lines[o], read[o], Cancelled(read[o]))
        BY <1>7 DEF CancelFlush
      <3>2. lines[o] \in Line /\ read[o] \in Line
        BY DEF NothingFrozenMoves, TypeOK, Worker
      <3>3. CASE read[o].state = "absent"
        <4>1. Cancelled(read[o]) = read[o]
          BY <3>3 DEF Cancelled
        <4>2. lines'[o] = lines[o]
          BY <3>1, <3>2, <4>1, WriteBackOfNothing
        <4>. QED
          BY <4>2 DEF Exists
      <3>4. CASE read[o].state # "absent"
        <4>1. Exists(o)
          BY <1>7, <3>4 DEF CancelFlush, At, NothingFrozenMoves, WorkerIntact, RowsIntact
        <4>2. Cancelled(read[o]) \in Line /\ Cancelled(read[o]).chargeRef = read[o].chargeRef
          BY <3>2, <3>4, CancelledColumns
        <4>3. lines'[o].chargeRef = lines[o].chargeRef
          BY <3>1, <3>2, <4>2, WriteBackColumns
        <4>. QED
          BY <4>1, <4>3
      <3>. QED
        BY <3>3, <3>4
    <2>2. charges' = charges
      BY <1>7 DEF CancelFlush
    <2>. QED
      BY <2>1, <2>2, UnseenStep
  <1>8. CASE Prepare(w)
    BY <1>1, <1>2, <1>8 DEF Prepare, PrepareRead, PrepareJudge
  <1>9. CASE Submit(w)
    BY <1>1, <1>3, <1>9 DEF Submit, SubmitList, SubmitSkip
  <1>10. CASE CreateCharge(w)
    BY <1>1, <1>4, <1>10
    DEF CreateCharge, CreateChargeNew, CreateChargeReplay, CreateChargeRaced
  <1>11. CASE Settle(w)
    BY <1>1, <1>6, <1>11 DEF Settle, SettleLoad
  <1>12. CASE Resume(w)
    BY <1>1, <1>6, <1>12 DEF Resume, ResumeList, ResumeRead, ExpireLoad
  <1>13. CASE Establish(w)
    BY <1>1, <1>6, <1>13 DEF Establish, EstablishLoad, EstablishLookup
  <1>14. CASE Cancel(w)
    BY <1>1, <1>7, <1>14 DEF Cancel, CancelLoad
  <1>15. CASE ListDone(w) \/ Crash(w)
    BY <1>1, <1>15 DEF ListDone, Crash
  <1>. QED
    BY <1>8, <1>9, <1>10, <1>11, <1>12, <1>13, <1>14, <1>15 DEF WorkerNext

\* The billing run implements the promise: an amount is intended once, money
\* moves at most once and for that amount, and what is booked is the operation
\* that moved it.
THEOREM BillingKeepsItsPromise ==
    Spec => ImplementsPromise
  <1>1. NothingFrozenMoves /\ NothingFrozenMoves' /\ [Next]_vars => [Promise!Next]_Promise!vars
    <2>. SUFFICES ASSUME NothingFrozenMoves, NothingFrozenMoves', [Next]_vars
                  PROVE  [Promise!Next]_Promise!vars
      OBVIOUS
    <2>1. Grows
      BY NextKeeps
    <2>2. CASE UNCHANGED vars \/ Feed \/ Tick
      <3>1. charges' = charges /\ lines' = lines
        BY <2>2 DEF vars, Feed, Tick
      <3>. QED
        BY <2>1, <3>1, UnseenStep DEF Exists
    <2>3. ASSUME NEW w \in Workers, WorkerNext(w) \/ Crash(w)
          PROVE  [Promise!Next]_Promise!vars
      BY <2>1, <2>3, WorkerStepIsPromised
    <2>. QED
      BY <2>2, <2>3 DEF Next
  <1>. QED
    BY <1>1, InitKeepsPromise, FrozenInvariant, PTL DEF Spec, ImplementsPromise, Promise!Spec

=============================================================================
