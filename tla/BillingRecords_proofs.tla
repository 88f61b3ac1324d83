------------------------- MODULE BillingRecords_proofs -------------------------
(***************************************************************************)
(* What the books say of the money, in the two settings in which they tell *)
(* the truth: any number of workers as long as no person cancels a line or *)
(* establishes one out of band (section 1), and one worker at a time,      *)
(* whatever it does and however often it dies (section 2).  With both,     *)
(* CancelOverwritesClaim and CancelledLineBilled show what happens instead.*)
(***************************************************************************)
EXTENDS BillingRun_proofs

-----------------------------------------------------------------------------
\* 1. Submit and resume among themselves.

\* The row says that a call was made, or is about to be.
Attempted(line) == line.state \in {"submitted", "charged", "unresolved"}

\* A line a worker is on, or that a resume has listed, has been attempted.
Recorded(ctx, rows) ==
    /\ ctx.at \notin {"looking", "recording", "cancelling"}
    /\ ctx.at \notin {"idle", "judging"} => ctx.task \in {"submit", "resume"}
    /\ ctx.at = "resuming" => ctx.task = "resume"
    /\ ctx.line # NoKey => Attempted(rows[ctx.line])
    /\ ctx.task = "resume" => \A o \in ctx.todo : Attempted(rows[o])

OnRecord ==
    /\ \A c \in charges : Attempted(lines[c.key])
    /\ \A w \in Workers : Recorded(worker[w], lines)
    /\ ClaimIsExclusive

\* No attempt is ever struck from the record.
AttemptsStand == \A o \in Obligations : Attempted(lines[o]) => Attempted(lines'[o])

-----------------------------------------------------------------------------
\* Every step that moves one worker.  It is on a line nobody had taken, on the
\* one it was on, on none, or it is not a submit.
LEMMA RecordStep ==
    ASSUME NothingFrozenMoves, OnRecord, NEW w \in Workers, NEW ctx,
           Become(w, ctx), AttemptsStand, Recorded(ctx, lines'),
           \A c \in charges' : c \in charges \/ Attempted(lines'[c.key]),
           \/ ctx.line = NoKey
           \/ ctx.task # "submit"
           \/ ctx.line = worker[w].line /\ ctx.task = worker[w].task
           \/ ctx.line \in Obligations /\ ~Attempted(lines[ctx.line])
    PROVE  OnRecord'
<1>1. /\ worker'[w] = ctx /\ \A v \in Workers \ {w} : worker'[v] = worker[v]
      /\ \A v \in Workers : worker[v] \in Worker
      /\ \A c \in charges : c.key \in Obligations
  BY DEF Become, NothingFrozenMoves, TypeOK, Charge
<1>2. (\A c \in charges : Attempted(lines[c.key]))'
  BY <1>1 DEF OnRecord, AttemptsStand
<1>3. \A v \in Workers : Recorded(worker'[v], lines')
  <2>1. ASSUME NEW v \in Workers \ {w} PROVE Recorded(worker[v], lines')
    <3>1. /\ Recorded(worker[v], lines) /\ worker[v].todo \subseteq Obligations
          /\ worker[v].line \in Obligations \cup {NoKey}
      BY <1>1 DEF OnRecord, Worker
    <3>. QED
      BY <3>1 DEF Recorded, AttemptsStand
  <2>. QED
    BY <1>1, <2>1
<1>4. ClaimIsExclusive'
  <2>1. ASSUME NEW v \in Workers \ {w}, worker[v].task = "submit", ctx.task = "submit"
        PROVE  worker[v].line # ctx.line \/ worker[v].line = NoKey
    <3>1. worker[v].line # NoKey => Attempted(lines[worker[v].line])
      BY DEF OnRecord, Recorded
    <3>2. worker[v].line # worker[w].line \/ worker[v].line = NoKey \/ worker[w].task # "submit"
      BY <2>1 DEF OnRecord, ClaimIsExclusive
    <3>. QED
      BY <2>1, <3>1, <3>2
  <2>2. \A u, v \in Workers :
            /\ u # v /\ worker'[u].task = "submit" /\ worker'[v].task = "submit"
            => worker'[u].line # worker'[v].line \/ worker'[u].line = NoKey
    BY <1>1, <2>1 DEF OnRecord, ClaimIsExclusive
  <2>. QED
    BY <2>2 DEF ClaimIsExclusive
<1>. QED
  BY <1>2, <1>3, <1>4 DEF OnRecord

\* Steps that leave the tables alone.
LEMMA TablesStandStep ==
    ASSUME NothingFrozenMoves, OnRecord, NEW w \in Workers, NEW ctx,
           Become(w, ctx), Recorded(ctx, lines), lines' = lines, charges' = charges,
           \/ ctx.line = NoKey
           \/ ctx.task # "submit"
           \/ ctx.line = worker[w].line /\ ctx.task = worker[w].task
    PROVE  OnRecord'
  BY RecordStep DEF AttemptsStand

LEMMA NoKeyIsNoObligation == \A o \in Obligations : o # NoKey
  BY DEF Obligations, NoKey

LEMMA IdleIsRecorded ==
    ASSUME NEW rows
    PROVE  Recorded(Idle, rows) /\ Idle.line = NoKey
  BY DEF Recorded, Idle

\* Back at the head of its list a worker is on no line.
LEMMA ContinueIsRecorded ==
    ASSUME NEW ctx \in Worker, NEW rows, Recorded(ctx, rows),
           ctx.at \notin {"idle", "judging"}
    PROVE  Recorded(Continue(ctx), rows) /\ Continue(ctx).line = NoKey
<1>1. /\ Continue(ctx).at = IF ctx.task = "submit" THEN "submitting" ELSE "resuming"
      /\ Continue(ctx).task = ctx.task /\ Continue(ctx).todo = ctx.todo
      /\ Continue(ctx).line = NoKey
  BY DEF Continue, Worker
<1>. QED
  BY <1>1 DEF Recorded

\* A flush that writes an outcome leaves every attempt on record.
LEMMA FlushKeepsAttempts ==
    ASSUME NothingFrozenMoves, NEW w \in Workers, NEW new, FlushLine(w, new), Attempted(new)
    PROVE  AttemptsStand
<1>. DEFINE o == worker[w].line
            row == WriteBack(lines[o], worker[w].rows[o], new)
<1>1. lines' = [lines EXCEPT ![o] = row] /\ lines \in [Obligations -> Line]
  BY DEF FlushLine, NothingFrozenMoves, TypeOK
<1>2. ASSUME o \in Obligations PROVE row.state \in {lines[o].state, new.state}
  BY <1>1, <1>2 DEF WriteBack, Line
<1>. HIDE DEF row
<1>3. ASSUME NEW p \in Obligations, Attempted(lines[p]) PROVE Attempted(lines'[p])
  <2>1. CASE p = o
    BY <1>1, <1>2, <1>3, <2>1 DEF Attempted
  <2>2. CASE p # o
    BY <1>1, <1>3, <2>2
  <2>. QED
    BY <2>1, <2>2
<1>. QED
  BY <1>3 DEF AttemptsStand

-----------------------------------------------------------------------------
\* Preparing adds lines and changes none; no other step of it touches a line.
LEMMA PrepareStaysOnRecord ==
    ASSUME NothingFrozenMoves, OnRecord, NEW w \in Workers, Prepare(w)
    PROVE  OnRecord'
<1>1. worker[w] \in Worker /\ Recorded(worker[w], lines)
  BY DEF NothingFrozenMoves, TypeOK, OnRecord
<1>2. ASSUME NEW p \in Periods, PrepareRead(w, p) PROVE OnRecord'
  <2>. DEFINE drafts == [o \in Obligations |->
                  IF o \in Due(p) \X {p} THEN Draft(o[1], o[2]) ELSE NoLine]
              ctx == [Idle EXCEPT !.task = "prepare", !.at = "judging",
                                  !.todo = Due(p) \X {p}, !.rows = drafts]
  <2>1. Become(w, ctx) /\ lines' = lines /\ charges' = charges
    BY <1>2 DEF PrepareRead
  <2>2. ctx.at = "judging" /\ ctx.task = "prepare" /\ ctx.line = NoKey
    BY DEF Idle
  <2>. HIDE DEF ctx
  <2>. QED
    BY <2>1, <2>2, TablesStandStep DEF Recorded
<1>3. ASSUME NEW o \in Obligations, PrepareJudge(w, o) PROVE OnRecord'
  <2>. DEFINE state == IF question[o[1]] THEN "blocked" ELSE worker[w].rows[o].state
              ctx == [worker[w] EXCEPT !.todo = @ \ {o}, !.rows[o].state = state]
  <2>1. /\ Become(w, ctx) /\ lines' = lines /\ charges' = charges
        /\ worker[w].at = "judging"
    BY <1>3 DEF PrepareJudge, At
  <2>. HIDE DEF state
  <2>2. /\ ctx.at = worker[w].at /\ ctx.task = worker[w].task /\ ctx.line = worker[w].line
        /\ ctx.todo = worker[w].todo \ {o}
    BY <1>1 DEF Worker
  <2>. HIDE DEF ctx
  <2>3. Recorded(ctx, lines)
    BY <1>1, <2>1, <2>2 DEF Recorded
  <2>. QED
    BY <2>1, <2>2, <2>3, TablesStandStep
<1>4. CASE PrepareCommit(w)
  <2>1. Become(w, Idle) /\ charges' = charges
    BY <1>4 DEF PrepareCommit
  <2>2. AttemptsStand
    BY <1>4 DEF PrepareCommit, AttemptsStand, Attempted, Exists
  <2>. QED
    BY <2>1, <2>2, IdleIsRecorded, RecordStep
<1>. QED
  BY <1>2, <1>3, <1>4 DEF Prepare

\* A submit takes a line that is prepared, and so nobody's.
LEMMA SubmitStaysOnRecord ==
    ASSUME NothingFrozenMoves, OnRecord, NEW w \in Workers, Submit(w)
    PROVE  OnRecord'
<1>1. worker[w] \in Worker /\ Recorded(worker[w], lines)
  BY DEF NothingFrozenMoves, TypeOK, OnRecord
<1>2. ASSUME NEW p \in Periods, SubmitList(w, p) PROVE OnRecord'
  <2>. DEFINE listed == {o \in Obligations : o[2] = p /\ lines[o].state = "prepared"}
              ctx == [Idle EXCEPT !.task = "submit", !.at = "submitting", !.now = clock,
                                  !.todo = listed]
  <2>1. Become(w, ctx) /\ lines' = lines /\ charges' = charges
    BY <1>2 DEF SubmitList
  <2>. HIDE DEF listed
  <2>2. ctx.at = "submitting" /\ ctx.task = "submit" /\ ctx.line = NoKey
    BY DEF Idle
  <2>. HIDE DEF ctx
  <2>. QED
    BY <2>1, <2>2, TablesStandStep DEF Recorded
<1>3. ASSUME NEW o \in Obligations, SubmitClaim(w, o) PROVE OnRecord'
  <2>. DEFINE ctx == [worker[w] EXCEPT !.at = "calling", !.todo = @ \ {o}, !.line = o,
                                       !.request = RequestOf(lines[o])]
  <2>1. /\ Become(w, ctx) /\ charges' = charges
        /\ worker[w].at = "submitting" /\ lines[o].state = "prepared"
        /\ lines' = [lines EXCEPT ![o] = Claimed(lines[o], worker[w].now)]
    BY <1>3 DEF SubmitClaim, At, Claimable
  <2>2. /\ ctx.at = "calling" /\ ctx.task = worker[w].task /\ ctx.line = o
        /\ ctx.todo = worker[w].todo \ {o}
    BY <1>1 DEF Worker
  <2>3. lines \in [Obligations -> Line]
    BY DEF NothingFrozenMoves, TypeOK
  <2>. HIDE DEF ctx
  <2>4. lines'[o].state = "submitted" /\ \A p \in Obligations \ {o} : lines'[p] = lines[p]
    BY <2>1, <2>3 DEF Claimed, Line
  <2>5. AttemptsStand
    BY <2>4 DEF AttemptsStand, Attempted
  <2>6. worker[w].todo \subseteq Obligations
    BY <1>1 DEF Worker
  <2>7. Recorded(ctx, lines')
    BY <1>1, <2>1, <2>2, <2>4, <2>6 DEF Recorded, Attempted
  <2>8. ~Attempted(lines[o])
    BY <2>1 DEF Attempted
  <2>. QED
    BY <2>1, <2>2, <2>5, <2>7, <2>8, RecordStep
<1>4. ASSUME NEW o \in Obligations, SubmitSkip(w, o) PROVE OnRecord'
  <2>. DEFINE ctx == [worker[w] EXCEPT !.todo = @ \ {o}]
  <2>1. Become(w, ctx) /\ lines' = lines /\ charges' = charges
    BY <1>4 DEF SubmitSkip
  <2>2. /\ ctx.at = worker[w].at /\ ctx.task = worker[w].task /\ ctx.line = worker[w].line
        /\ ctx.todo = worker[w].todo \ {o}
    BY <1>1 DEF Worker
  <2>. HIDE DEF ctx
  <2>3. Recorded(ctx, lines)
    BY <1>1, <2>2 DEF Recorded
  <2>. QED
    BY <2>1, <2>2, <2>3, TablesStandStep
<1>. QED
  BY <1>2, <1>3, <1>4 DEF Submit

\* A call moves money only for the line the worker is on.
LEMMA CreateStaysOnRecord ==
    ASSUME NothingFrozenMoves, OnRecord, NEW w \in Workers, CreateCharge(w)
    PROVE  OnRecord'
<1>. DEFINE ctx == worker[w]
<1>1. ctx \in Worker /\ Recorded(ctx, lines) /\ WorkerIntact(ctx)
  BY DEF NothingFrozenMoves, TypeOK, OnRecord
<1>2. /\ ctx.at \in {"calling", "executing"} /\ ctx.line \in Obligations
      /\ ctx.request.key = ctx.line /\ lines' = lines
      /\ Attempted(lines[ctx.line])
  <2>1. ctx.at \in {"calling", "executing"} /\ lines' = lines
    BY DEF CreateCharge, CreateChargeNew, CreateChargeReplay, CreateChargeExecute,
           CreateChargeRaced, At
  <2>2. /\ ctx.line \in Obligations /\ Intact(lines[ctx.line], ctx.line)
        /\ ctx.request = RequestOf(lines[ctx.line])
    BY <1>1, <2>1 DEF WorkerIntact, RequestIntact, NothingFrozenMoves, TablesIntact
  <2>3. ctx.line # NoKey
    BY <2>2, NoKeyIsNoObligation
  <2>. QED
    BY <1>1, <2>1, <2>2, <2>3 DEF Recorded, Intact, RequestOf
<1>3. ASSUME NEW ref
      PROVE  LET answered == [ctx EXCEPT !.at = "answered", !.ref = ref]
                 executing == [ctx EXCEPT !.at = "executing", !.ref = ref]
                 told == [ctx EXCEPT !.at = "answered"]
             IN  \A n \in {answered, executing, told} :
                     Recorded(n, lines) /\ n.line = ctx.line /\ n.task = ctx.task
  BY <1>1, <1>2 DEF Recorded, Worker
<1>4. Recorded(Idle, lines) /\ Idle.line = NoKey
  BY IdleIsRecorded
<1>5. Recorded(Continue(ctx), lines) /\ Continue(ctx).line = NoKey
  BY <1>1, <1>2, ContinueIsRecorded
<1>6. CASE CreateChargeExecute(w)
  <2>1. /\ charges' = charges \cup {ChargeRecord(ctx.request, ctx.ref)}
        /\ \/ Become(w, [ctx EXCEPT !.at = "answered"])
           \/ Become(w, Continue(ctx)) \/ Become(w, Idle)
    BY <1>6 DEF CreateChargeExecute, CarryOut, Raise
  <2>2. \A c \in charges' : c \in charges \/ Attempted(lines'[c.key])
    BY <1>2, <2>1 DEF ChargeRecord
  <2>3. AttemptsStand
    BY <1>2 DEF AttemptsStand
  <2>. HIDE DEF ctx
  <2>4. CASE Become(w, [ctx EXCEPT !.at = "answered"])
    BY <1>2, <1>3, <2>2, <2>3, <2>4, RecordStep DEF ctx
  <2>5. CASE Become(w, Continue(ctx)) \/ Become(w, Idle)
    BY <1>2, <1>4, <1>5, <2>2, <2>3, <2>5, RecordStep
  <2>. QED
    BY <2>1, <2>4, <2>5
<1>7. CASE CreateChargeNew(w) \/ CreateChargeReplay(w) \/ CreateChargeRaced(w)
  <2>1. charges' = charges
    BY <1>7 DEF CreateChargeNew, CreateChargeReplay, CreateChargeRaced
  <2>2. \/ \E ref : \/ Become(w, [ctx EXCEPT !.at = "answered", !.ref = ref])
                    \/ Become(w, [ctx EXCEPT !.at = "executing", !.ref = ref])
        \/ Become(w, Continue(ctx)) \/ Become(w, Idle)
    BY <1>7 DEF CreateChargeNew, CreateChargeReplay, CreateChargeRaced, Raise
  <2>. HIDE DEF ctx
  <2>3. ASSUME NEW ref, \/ Become(w, [ctx EXCEPT !.at = "answered", !.ref = ref])
                        \/ Become(w, [ctx EXCEPT !.at = "executing", !.ref = ref])
        PROVE  OnRecord'
    BY <1>2, <1>3, <2>1, <2>3, TablesStandStep DEF ctx
  <2>4. CASE Become(w, Continue(ctx)) \/ Become(w, Idle)
    BY <1>2, <1>4, <1>5, <2>1, <2>4, TablesStandStep
  <2>. QED
    BY <2>2, <2>3, <2>4
<1>. QED
  BY <1>6, <1>7 DEF CreateCharge

LEMMA SettleStaysOnRecord ==
    ASSUME NothingFrozenMoves, OnRecord, NEW w \in Workers, Settle(w)
    PROVE  OnRecord'
<1>1. worker[w] \in Worker /\ Recorded(worker[w], lines)
  BY DEF NothingFrozenMoves, TypeOK, OnRecord
<1>2. CASE SettleLoad(w)
  <2>. DEFINE ctx == [worker[w] EXCEPT !.at = "settling", !.rows = Load({worker[w].line})]
  <2>1. /\ Become(w, ctx) /\ lines' = lines /\ charges' = charges
        /\ worker[w].at = "answered"
    BY <1>2 DEF SettleLoad, At
  <2>2. /\ ctx.at = "settling" /\ ctx.task = worker[w].task /\ ctx.line = worker[w].line
        /\ ctx.todo = worker[w].todo
    BY <1>1 DEF Worker
  <2>. HIDE DEF ctx
  <2>3. Recorded(ctx, lines)
    BY <1>1, <2>1, <2>2 DEF Recorded
  <2>. QED
    BY <2>1, <2>2, <2>3, TablesStandStep
<1>3. CASE SettleFlush(w)
  <2>. DEFINE new == Settled(worker[w].rows[worker[w].line], worker[w].ref)
  <2>1. /\ Become(w, Continue(worker[w])) /\ FlushLine(w, new) /\ charges' = charges
        /\ worker[w].at = "settling"
    BY <1>3 DEF SettleFlush, At
  <2>2. worker[w].line \in Obligations
    BY <2>1 DEF NothingFrozenMoves, WorkerIntact, SessionIntact
  <2>3. Attempted(new)
    BY <1>1, <2>2 DEF Settled, Attempted, Worker, Line
  <2>4. AttemptsStand
    BY <2>1, <2>3, FlushKeepsAttempts
  <2>5. Recorded(Continue(worker[w]), lines') /\ Continue(worker[w]).line = NoKey
    BY <1>1, <2>1, <2>4, ContinueIsRecorded DEF Recorded, AttemptsStand, Worker
  <2>. QED
    BY <2>1, <2>4, <2>5, RecordStep
<1>. QED
  BY <1>2, <1>3 DEF Settle

LEMMA ResumeStaysOnRecord ==
    ASSUME NothingFrozenMoves, OnRecord, NEW w \in Workers, Resume(w)
    PROVE  OnRecord'
<1>1. worker[w] \in Worker /\ Recorded(worker[w], lines)
  BY DEF NothingFrozenMoves, TypeOK, OnRecord
<1>2. ASSUME NEW p \in Periods, ResumeList(w, p) PROVE OnRecord'
  <2>. DEFINE pending == {o \in Obligations : o[2] = p /\ lines[o].state = "submitted"}
              old == {o \in pending : PastRetention(lines[o], clock)}
              ctx == [Idle EXCEPT !.task = "resume", !.at = "resuming", !.todo = pending,
                                  !.expired = old]
  <2>1. Become(w, ctx) /\ lines' = lines /\ charges' = charges
    BY <1>2 DEF ResumeList
  <2>2. \A o \in pending : Attempted(lines[o])
    BY DEF Attempted
  <2>. HIDE DEF pending, old
  <2>3. ctx.at = "resuming" /\ ctx.task = "resume" /\ ctx.line = NoKey /\ ctx.todo = pending
    BY DEF Idle
  <2>. HIDE DEF ctx
  <2>. QED
    BY <2>1, <2>2, <2>3, TablesStandStep DEF Recorded
<1>3. ASSUME NEW o \in Obligations, ResumeRead(w, o) \/ ExpireLoad(w, o) PROVE OnRecord'
  <2>. DEFINE calling == [worker[w] EXCEPT !.at = "calling", !.todo = @ \ {o}, !.line = o,
                                           !.request = RequestOf(lines[o])]
              expiring == [worker[w] EXCEPT !.at = "expiring", !.todo = @ \ {o}, !.line = o,
                                            !.rows = Load({o})]
  <2>1. /\ Become(w, calling) \/ Become(w, expiring)
        /\ lines' = lines /\ charges' = charges
        /\ worker[w].at = "resuming" /\ o \in worker[w].todo
    BY <1>3 DEF ResumeRead, ExpireLoad, At
  <2>2. /\ calling.at = "calling" /\ calling.task = worker[w].task /\ calling.line = o
        /\ calling.todo = worker[w].todo \ {o}
    BY <1>1 DEF Worker
  <2>3. /\ expiring.at = "expiring" /\ expiring.task = worker[w].task /\ expiring.line = o
        /\ expiring.todo = worker[w].todo \ {o}
    BY <1>1 DEF Worker
  <2>. HIDE DEF calling, expiring
  <2>4. /\ Recorded(calling, lines) /\ calling.task # "submit"
        /\ Recorded(expiring, lines) /\ expiring.task # "submit"
    BY <1>1, <2>1, <2>2, <2>3 DEF Recorded
  <2>. QED
    BY <2>1, <2>4, TablesStandStep
<1>4. CASE ExpireFlush(w)
  <2>. DEFINE new == [worker[w].rows[worker[w].line] EXCEPT !.state = "unresolved"]
  <2>1. /\ Become(w, Continue(worker[w])) /\ FlushLine(w, new) /\ charges' = charges
        /\ worker[w].at = "expiring"
    BY <1>4 DEF ExpireFlush, At
  <2>2. worker[w].line \in Obligations
    BY <2>1 DEF NothingFrozenMoves, WorkerIntact, SessionIntact
  <2>3. Attempted(new)
    BY <1>1, <2>2 DEF Attempted, Worker, Line
  <2>4. AttemptsStand
    BY <2>1, <2>3, FlushKeepsAttempts
  <2>5. Recorded(Continue(worker[w]), lines') /\ Continue(worker[w]).line = NoKey
    BY <1>1, <2>1, <2>4, ContinueIsRecorded DEF Recorded, AttemptsStand, Worker
  <2>. QED
    BY <2>1, <2>4, <2>5, RecordStep
<1>. QED
  BY <1>2, <1>3, <1>4 DEF Resume

-----------------------------------------------------------------------------
LEMMA OnRecordAlways ==
    ASSUME {"cancel", "establish"} \cap Operations = {}
    PROVE  Spec => []OnRecord
<1>1. Init => OnRecord
  BY IdleIsRecorded DEF Init, OnRecord, ClaimIsExclusive, Idle
<1>2. ASSUME NothingFrozenMoves, OnRecord, [Next]_vars PROVE OnRecord'
  <2>1. CASE UNCHANGED <<charges, lines, worker>>
    BY <1>2, <2>1 DEF OnRecord, ClaimIsExclusive
  <2>2. ASSUME NEW w \in Workers, WorkerNext(w) \/ Crash(w) PROVE OnRecord'
    <3>1. worker[w] \in Worker /\ Recorded(worker[w], lines)
      BY <1>2 DEF NothingFrozenMoves, TypeOK, OnRecord
    <3>2. ~Establish(w) /\ ~Cancel(w)
      BY <3>1 DEF Establish, EstablishLoad, EstablishLookup, EstablishFlush, Cancel, CancelLoad,
                  CancelFlush, Start, At, Recorded
    <3>3. CASE ListDone(w) \/ Crash(w)
      <4>1. Become(w, Idle) /\ lines' = lines /\ charges' = charges
        BY <3>3 DEF ListDone, Crash
      <4>. QED
        BY <1>2, <4>1, IdleIsRecorded, TablesStandStep
    <3>. QED
      BY <1>2, <2>2, <3>2, <3>3, PrepareStaysOnRecord, SubmitStaysOnRecord,
         CreateStaysOnRecord, SettleStaysOnRecord, ResumeStaysOnRecord DEF WorkerNext
  <2>. QED
    BY <1>2, <2>1, <2>2 DEF Next, Feed, Tick, vars
<1>. QED
  BY <1>1, <1>2, FrozenInvariant, PTL DEF Spec

\* While no person cancels or establishes, every operation that exists, or may be
\* about to, has a line that says so, whichever workers die when: the intent is
\* committed before the call (billing/run.py, submit).
THEOREM EveryAttemptIsOnRecord ==
    ASSUME {"cancel", "establish"} \cap Operations = {}
    PROVE  Spec => []AttemptIsOnRecord
<1>1. NothingFrozenMoves /\ OnRecord => AttemptIsOnRecord
  <2>1. SUFFICES ASSUME NothingFrozenMoves, OnRecord, NEW o \in Obligations,
                        \/ \E c \in charges : SameObligation(c.key, o)
                        \/ \E w \in Workers : worker[w].line = o
                 PROVE  Attempted(lines[o])
    BY DEF AttemptIsOnRecord, Attempted
  <2>2. ASSUME NEW c \in charges, SameObligation(c.key, o) PROVE Attempted(lines[o])
    <3>1. c.key \in Obligations
      BY <2>1 DEF NothingFrozenMoves, TypeOK, Charge
    <3>2. c.key = o
      BY <2>2, <3>1 DEF SameObligation, Obligations
    <3>. QED
      BY <2>1, <3>2 DEF OnRecord
  <2>3. ASSUME NEW w \in Workers, worker[w].line = o PROVE Attempted(lines[o])
    <3>. QED
      BY <2>1, <2>3, NoKeyIsNoObligation DEF OnRecord, Recorded
  <2>. QED
    BY <2>1, <2>2, <2>3
<1>. QED
  BY <1>1, FrozenInvariant, OnRecordAlways, PTL

\* The conditional update of the claim gives a prepared line to one worker, and
\* nothing submit or resume does makes it prepared again (billing/run.py, submit).
THEOREM ClaimsAreExclusive ==
    ASSUME {"cancel", "establish"} \cap Operations = {}
    PROVE  Spec => []ClaimIsExclusive
<1>1. OnRecord => ClaimIsExclusive
  BY DEF OnRecord
<1>. QED
  BY <1>1, OnRecordAlways, PTL

-----------------------------------------------------------------------------
\* 2. One worker at a time.  What its session has read is still what is in the
\* table, so a flush writes the row the code had in mind.

\* What a row says of the operation for o, given those carried out.
Truthful(line, o, moved) ==
    /\ line.cancellation = "after_charge" => line.state = "charged"
    /\ line.chargeRef # NoRef => line.state = "charged"
    /\ line.state \notin {"submitted", "charged", "unresolved"} =>
           \A c \in moved : c.key # o

\* What the only worker knows of the tables.
Knows(ctx, table, moved) ==
    /\ ctx.at = "judging" => \A o \in Obligations :
           /\ ctx.rows[o].cancellation = "none"
           /\ ctx.rows[o].state \in {"absent", "prepared", "blocked", "voided"}
    /\ ctx.at \in {"calling", "executing", "answered", "settling", "expiring"} =>
           ctx.task \in {"submit", "resume"} /\ table[ctx.line].state = "submitted"
    /\ ctx.at \in {"settling", "expiring", "looking", "recording"} =>
           ctx.rows[ctx.line] = table[ctx.line]
    /\ ctx.at = "recording" /\ ctx.ref = NoRef => \A c \in moved : c.key # ctx.line
    /\ ctx.at = "cancelling" =>
           \A o \in Obligations : ctx.rows[o] \in {NoLine, table[o]}
    /\ ctx.at = "submitting" => ctx.task = "submit"
    /\ ctx.at = "resuming" => ctx.task = "resume"
    /\ ctx.task = "resume" =>
           \A o \in ctx.todo : table[o].state = "submitted" /\ o # ctx.line

TruthfulTables ==
    /\ \A o \in Obligations : Truthful(lines[o], o, charges)
    /\ \A w \in Workers : Knows(worker[w], lines, charges)

OneWorker == \A v, w \in Workers : v = w

-----------------------------------------------------------------------------
\* A step of the only worker.
LEMMA OnlyWorkerSteps ==
    ASSUME OneWorker, NothingFrozenMoves, NEW w \in Workers, NEW ctx, Become(w, ctx),
           Knows(ctx, lines', charges'),
           \A o \in Obligations : Truthful(lines'[o], o, charges')
    PROVE  TruthfulTables'
<1>1. \A v \in Workers : worker'[v] = ctx
  BY DEF Become, NothingFrozenMoves, TypeOK, OneWorker
<1>. QED
  BY <1>1 DEF TruthfulTables

\* A step that reads.
LEMMA OnlyWorkerReads ==
    ASSUME OneWorker, NothingFrozenMoves, TruthfulTables, NEW w \in Workers, NEW ctx,
           Become(w, ctx), Knows(ctx, lines, charges), lines' = lines, charges' = charges
    PROVE  TruthfulTables'
  BY OnlyWorkerSteps DEF TruthfulTables

LEMMA IdleKnowsNothing ==
    ASSUME NEW table, NEW moved
    PROVE  Knows(Idle, table, moved)
  BY DEF Knows, Idle

\* Back at its list, whatever became of the line it was on.
LEMMA ContinueKnows ==
    ASSUME NEW ctx \in Worker, NEW table, NEW moved, Knows(ctx, table, moved),
           ctx.at \in {"calling", "executing", "answered", "settling", "expiring"},
           NEW new, NEW more, \A o \in Obligations \ {ctx.line} : new[o] = table[o]
    PROVE  Knows(Continue(ctx), new, more)
<1>1. /\ Continue(ctx).at = IF ctx.task = "submit" THEN "submitting" ELSE "resuming"
      /\ Continue(ctx).task = ctx.task /\ Continue(ctx).todo = ctx.todo
      /\ Continue(ctx).line = NoKey /\ ctx.todo \subseteq Obligations
  BY DEF Continue, Worker
<1>2. \A o \in Obligations : o # NoKey
  BY DEF Obligations, NoKey
<1>. QED
  BY <1>1, <1>2 DEF Knows

\* Each column takes the session's value, if the row is still as it was read.
LEMMA WriteBackOfRead ==
    ASSUME NEW line \in Line, NEW new
    PROVE  /\ WriteBack(line, line, new).state = new.state
           /\ WriteBack(line, line, new).cancellation = new.cancellation
           /\ WriteBack(line, line, new).chargeRef = new.chargeRef
  BY DEF WriteBack, Line

\* The flush of a row that is still as it was read writes the row meant.
LEMMA FlushWritesWhatIsMeant ==
    ASSUME NothingFrozenMoves, NEW w \in Workers, worker[w].line \in Obligations,
           worker[w].rows[worker[w].line] = lines[worker[w].line],
           NEW new, FlushLine(w, new)
    PROVE  LET o == worker[w].line IN
           /\ lines'[o].state = new.state /\ lines'[o].cancellation = new.cancellation
           /\ lines'[o].chargeRef = new.chargeRef
           /\ \A p \in Obligations \ {o} : lines'[p] = lines[p]
<1>. DEFINE o == worker[w].line
            row == WriteBack(lines[o], lines[o], new)
<1>1. lines' = [lines EXCEPT ![o] = row] /\ lines \in [Obligations -> Line]
  BY DEF FlushLine, NothingFrozenMoves, TypeOK
<1>2. /\ row.state = new.state /\ row.cancellation = new.cancellation
      /\ row.chargeRef = new.chargeRef
  BY <1>1, WriteBackOfRead
<1>. HIDE DEF row
<1>. QED
  BY <1>1, <1>2

-----------------------------------------------------------------------------
LEMMA PrepareIsTruthful ==
    ASSUME OneWorker, NothingFrozenMoves, TruthfulTables, NEW w \in Workers, Prepare(w)
    PROVE  TruthfulTables'
<1>1. worker[w] \in Worker /\ Knows(worker[w], lines, charges) /\ WorkerIntact(worker[w])
  BY DEF NothingFrozenMoves, TypeOK, TruthfulTables
<1>2. ASSUME NEW p \in Periods, PrepareRead(w, p) PROVE TruthfulTables'
  <2>. DEFINE drafts == [o \in Obligations |->
                  IF o \in Due(p) \X {p} THEN Draft(o[1], o[2]) ELSE NoLine]
              ctx == [Idle EXCEPT !.task = "prepare", !.at = "judging",
                                  !.todo = Due(p) \X {p}, !.rows = drafts]
  <2>1. Become(w, ctx) /\ lines' = lines /\ charges' = charges
    BY <1>2 DEF PrepareRead
  <2>2. \A o \in Obligations :
            /\ drafts[o].cancellation = "none"
            /\ drafts[o].state \in {"absent", "prepared", "blocked", "voided"}
    BY DEF Draft, NoLine, DraftState
  <2>. HIDE DEF drafts
  <2>3. ctx.at = "judging" /\ ctx.task = "prepare" /\ ctx.rows = drafts
    BY DEF Idle
  <2>. HIDE DEF ctx
  <2>. QED
    BY <2>1, <2>2, <2>3, OnlyWorkerReads DEF Knows
<1>3. ASSUME NEW o \in Obligations, PrepareJudge(w, o) PROVE TruthfulTables'
  <2>. DEFINE state == IF question[o[1]] THEN "blocked" ELSE worker[w].rows[o].state
              ctx == [worker[w] EXCEPT !.todo = @ \ {o}, !.rows[o].state = state]
  <2>1. /\ Become(w, ctx) /\ lines' = lines /\ charges' = charges
        /\ worker[w].at = "judging"
    BY <1>3 DEF PrepareJudge, At
  <2>2. state \in {"blocked", worker[w].rows[o].state}
    OBVIOUS
  <2>. HIDE DEF state
  <2>3. /\ ctx.at = "judging" /\ ctx.task = worker[w].task /\ ctx.line = worker[w].line
        /\ ctx.todo = worker[w].todo \ {o}
        /\ ctx.rows = [worker[w].rows EXCEPT ![o].state = state]
    BY <1>1, <2>1 DEF Worker
  <2>. HIDE DEF ctx
  <2>4. \A p \in Obligations :
            /\ ctx.rows[p].cancellation = "none"
            /\ ctx.rows[p].state \in {"absent", "prepared", "blocked", "voided"}
    BY <1>1, <2>1, <2>2, <2>3 DEF Knows, Worker, Line
  <2>5. Knows(ctx, lines, charges)
    BY <1>1, <2>3, <2>4 DEF Knows
  <2>. QED
    BY <2>1, <2>5, OnlyWorkerReads
<1>4. CASE PrepareCommit(w)
  <2>1. /\ Become(w, Idle) /\ charges' = charges /\ worker[w].at = "judging"
        /\ \A o \in Obligations :
               lines'[o] = IF Exists(o) THEN lines[o] ELSE worker[w].rows[o]
    BY <1>4 DEF PrepareCommit, At
  <2>2. ASSUME NEW o \in Obligations, ~Exists(o)
        PROVE  Truthful(worker[w].rows[o], o, charges)
    <3>1. \A c \in charges : c.key # o
      BY <2>2 DEF NothingFrozenMoves, TablesIntact
    <3>2. /\ worker[w].rows[o].cancellation = "none"
          /\ worker[w].rows[o].state \in {"absent", "prepared", "blocked", "voided"}
          /\ worker[w].rows[o].chargeRef = NoRef
      BY <1>1, <2>1 DEF Knows, WorkerIntact, SessionIntact
    <3>. QED
      BY <3>1, <3>2 DEF Truthful
  <2>3. \A o \in Obligations : Truthful(lines'[o], o, charges')
    BY <2>1, <2>2 DEF TruthfulTables
  <2>. QED
    BY <2>1, <2>3, IdleKnowsNothing, OnlyWorkerSteps
<1>. QED
  BY <1>2, <1>3, <1>4 DEF Prepare

LEMMA SubmitIsTruthful ==
    ASSUME OneWorker, NothingFrozenMoves, TruthfulTables, NEW w \in Workers, Submit(w)
    PROVE  TruthfulTables'
<1>1. worker[w] \in Worker /\ Knows(worker[w], lines, charges)
  BY DEF NothingFrozenMoves, TypeOK, TruthfulTables
<1>2. ASSUME NEW p \in Periods, SubmitList(w, p) PROVE TruthfulTables'
  <2>. DEFINE listed == {o \in Obligations : o[2] = p /\ lines[o].state = "prepared"}
              ctx == [Idle EXCEPT !.task = "submit", !.at = "submitting", !.now = clock,
                                  !.todo = listed]
  <2>1. Become(w, ctx) /\ lines' = lines /\ charges' = charges
    BY <1>2 DEF SubmitList
  <2>. HIDE DEF listed
  <2>2. ctx.at = "submitting" /\ ctx.task = "submit"
    BY DEF Idle
  <2>. HIDE DEF ctx
  <2>. QED
    BY <2>1, <2>2, OnlyWorkerReads DEF Knows
<1>3. ASSUME NEW o \in Obligations, SubmitClaim(w, o) PROVE TruthfulTables'
  <2>. DEFINE ctx == [worker[w] EXCEPT !.at = "calling", !.todo = @ \ {o}, !.line = o,
                                       !.request = RequestOf(lines[o])]
              claimed == Claimed(lines[o], worker[w].now)
  <2>1. /\ Become(w, ctx) /\ charges' = charges
        /\ worker[w].at = "submitting" /\ lines[o].state = "prepared"
        /\ lines' = [lines EXCEPT ![o] = claimed]
    BY <1>3 DEF SubmitClaim, At, Claimable
  <2>2. /\ ctx.at = "calling" /\ ctx.task = "submit" /\ ctx.line = o
    BY <1>1, <2>1 DEF Worker, Knows
  <2>3. lines \in [Obligations -> Line]
    BY DEF NothingFrozenMoves, TypeOK
  <2>4. /\ claimed.state = "submitted" /\ claimed.cancellation = lines[o].cancellation
        /\ claimed.chargeRef = lines[o].chargeRef
    BY <2>3 DEF Claimed, Line
  <2>. HIDE DEF ctx, claimed
  <2>5. lines'[o] = claimed /\ \A p \in Obligations \ {o} : lines'[p] = lines[p]
    BY <2>1, <2>3
  <2>6. \A p \in Obligations : Truthful(lines'[p], p, charges')
    BY <2>1, <2>4, <2>5 DEF Truthful, TruthfulTables
  <2>7. Knows(ctx, lines', charges')
    BY <2>2, <2>4, <2>5 DEF Knows
  <2>. QED
    BY <2>1, <2>6, <2>7, OnlyWorkerSteps
<1>4. ASSUME NEW o \in Obligations, SubmitSkip(w, o) PROVE TruthfulTables'
  <2>. DEFINE ctx == [worker[w] EXCEPT !.todo = @ \ {o}]
  <2>1. /\ Become(w, ctx) /\ lines' = lines /\ charges' = charges
        /\ worker[w].at = "submitting"
    BY <1>4 DEF SubmitSkip, At
  <2>2. ctx.at = "submitting" /\ ctx.task = "submit"
    BY <1>1, <2>1 DEF Worker, Knows
  <2>. HIDE DEF ctx
  <2>. QED
    BY <2>1, <2>2, OnlyWorkerReads DEF Knows
<1>. QED
  BY <1>2, <1>3, <1>4 DEF Submit

\* Money moves only for a line that is submitted.
LEMMA CreateIsTruthful ==
    ASSUME OneWorker, NothingFrozenMoves, TruthfulTables, NEW w \in Workers, CreateCharge(w)
    PROVE  TruthfulTables'
<1>. DEFINE ctx == worker[w]
<1>1. ctx \in Worker /\ Knows(ctx, lines, charges) /\ WorkerIntact(ctx)
  BY DEF NothingFrozenMoves, TypeOK, TruthfulTables
<1>2. /\ ctx.at \in {"calling", "executing"} /\ ctx.line \in Obligations
      /\ ctx.request.key = ctx.line /\ lines' = lines
      /\ lines[ctx.line].state = "submitted" /\ ctx.task \in {"submit", "resume"}
  <2>1. ctx.at \in {"calling", "executing"} /\ lines' = lines
    BY DEF CreateCharge, CreateChargeNew, CreateChargeReplay, CreateChargeExecute,
           CreateChargeRaced, At
  <2>2. /\ ctx.line \in Obligations /\ Intact(lines[ctx.line], ctx.line)
        /\ ctx.request = RequestOf(lines[ctx.line])
    BY <1>1, <2>1 DEF WorkerIntact, RequestIntact, NothingFrozenMoves, TablesIntact
  <2>. QED
    BY <1>1, <2>1, <2>2 DEF Knows, Intact, RequestOf
<1>3. /\ charges' = charges \/ charges' = charges \cup {ChargeRecord(ctx.request, ctx.ref)}
      /\ \/ \E ref : \/ Become(w, [ctx EXCEPT !.at = "answered", !.ref = ref])
                     \/ Become(w, [ctx EXCEPT !.at = "executing", !.ref = ref])
         \/ Become(w, [ctx EXCEPT !.at = "answered"])
         \/ Become(w, Continue(ctx)) \/ Become(w, Idle)
  BY DEF CreateCharge, CreateChargeNew, CreateChargeReplay, CreateChargeExecute,
         CreateChargeRaced, CarryOut, Raise
<1>4. ASSUME NEW n, n.at \in {"answered", "executing"}, n.task = ctx.task, n.line = ctx.line,
             n.todo = ctx.todo
      PROVE  Knows(n, lines, charges')
  BY <1>1, <1>2, <1>4 DEF Knows
<1>5. ASSUME NEW ref
      PROVE  /\ Knows([ctx EXCEPT !.at = "answered", !.ref = ref], lines, charges')
             /\ Knows([ctx EXCEPT !.at = "executing", !.ref = ref], lines, charges')
             /\ Knows([ctx EXCEPT !.at = "answered"], lines, charges')
  <2>. DEFINE answered == [ctx EXCEPT !.at = "answered", !.ref = ref]
              executing == [ctx EXCEPT !.at = "executing", !.ref = ref]
              told == [ctx EXCEPT !.at = "answered"]
  <2>1. \A n \in {answered, executing, told} :
            /\ n.at \in {"answered", "executing"} /\ n.task = ctx.task
            /\ n.line = ctx.line /\ n.todo = ctx.todo
    BY <1>1 DEF Worker
  <2>. HIDE DEF answered, executing, told, ctx
  <2>2. \A n \in {answered, executing, told} : Knows(n, lines, charges')
    BY <1>4, <2>1
  <2>. QED
    BY <2>2 DEF answered, executing, told
<1>6. Knows(Idle, lines, charges')
  BY IdleKnowsNothing
<1>7. Knows(Continue(ctx), lines, charges')
  BY <1>1, <1>2, ContinueKnows
<1>8. \A c \in charges' : c \in charges \/ c.key = ctx.line
  <2>. DEFINE charge == ChargeRecord(ctx.request, ctx.ref)
  <2>1. charge.key = ctx.line
    BY <1>2 DEF ChargeRecord
  <2>. HIDE DEF charge
  <2>2. charges' = charges \/ charges' = charges \cup {charge}
    BY <1>3 DEF charge
  <2>. QED
    BY <2>1, <2>2
<1>9. \A o \in Obligations : Truthful(lines'[o], o, charges')
  BY <1>2, <1>8 DEF Truthful, TruthfulTables
<1>. HIDE DEF ctx
<1>10. ASSUME NEW ref, \/ Become(w, [ctx EXCEPT !.at = "answered", !.ref = ref])
                      \/ Become(w, [ctx EXCEPT !.at = "executing", !.ref = ref])
                      \/ Become(w, [ctx EXCEPT !.at = "answered"])
      PROVE  TruthfulTables'
  BY <1>2, <1>5, <1>9, <1>10, OnlyWorkerSteps
<1>11. CASE Become(w, Continue(ctx)) \/ Become(w, Idle)
  BY <1>2, <1>6, <1>7, <1>9, <1>11, OnlyWorkerSteps
<1>. QED
  BY <1>3, <1>10, <1>11

LEMMA SettleIsTruthful ==
    ASSUME OneWorker, NothingFrozenMoves, TruthfulTables, NEW w \in Workers, Settle(w)
    PROVE  TruthfulTables'
<1>1. /\ worker[w] \in Worker /\ Knows(worker[w], lines, charges) /\ WorkerIntact(worker[w])
      /\ lines \in [Obligations -> Line]
  BY DEF NothingFrozenMoves, TypeOK, TruthfulTables
<1>2. CASE SettleLoad(w)
  <2>. DEFINE ctx == [worker[w] EXCEPT !.at = "settling", !.rows = Load({worker[w].line})]
  <2>1. /\ Become(w, ctx) /\ lines' = lines /\ charges' = charges
        /\ worker[w].at = "answered"
    BY <1>2 DEF SettleLoad, At
  <2>2. /\ ctx.at = "settling" /\ ctx.task = worker[w].task /\ ctx.line = worker[w].line
        /\ ctx.todo = worker[w].todo /\ ctx.rows = Load({worker[w].line})
    BY <1>1 DEF Worker
  <2>. HIDE DEF ctx
  <2>3. ctx.line \in Obligations
    BY <1>1, <2>1, <2>2 DEF WorkerIntact, RequestIntact
  <2>4. ctx.rows[ctx.line] = lines[ctx.line]
    BY <2>2, <2>3 DEF Load
  <2>5. Knows(ctx, lines, charges)
    BY <1>1, <2>1, <2>2, <2>4 DEF Knows
  <2>. QED
    BY <2>1, <2>5, OnlyWorkerReads
<1>3. CASE SettleFlush(w)
  <2>. DEFINE o == worker[w].line
              new == Settled(worker[w].rows[o], worker[w].ref)
  <2>1. /\ Become(w, Continue(worker[w])) /\ FlushLine(w, new) /\ charges' = charges
        /\ worker[w].at = "settling"
    BY <1>3 DEF SettleFlush, At
  <2>2. /\ o \in Obligations /\ worker[w].rows[o] = lines[o] /\ lines[o] \in Line
        /\ lines[o].state = "submitted"
    BY <1>1, <2>1 DEF WorkerIntact, SessionIntact, Knows
  <2>3. new.state = "charged" /\ new.cancellation = lines[o].cancellation
    BY <2>2 DEF Settled, Line
  <2>. HIDE DEF new
  <2>4. /\ lines'[o].state = "charged" /\ lines'[o].cancellation = lines[o].cancellation
        /\ \A p \in Obligations \ {o} : lines'[p] = lines[p]
    BY <2>1, <2>2, <2>3, FlushWritesWhatIsMeant
  <2>5. \A p \in Obligations : Truthful(lines'[p], p, charges')
    BY <2>1, <2>2, <2>4 DEF Truthful, TruthfulTables
  <2>6. Knows(Continue(worker[w]), lines', charges')
    BY <1>1, <2>1, <2>4, ContinueKnows
  <2>. QED
    BY <2>1, <2>5, <2>6, OnlyWorkerSteps
<1>. QED
  BY <1>2, <1>3 DEF Settle

LEMMA ResumeIsTruthful ==
    ASSUME OneWorker, NothingFrozenMoves, TruthfulTables, NEW w \in Workers, Resume(w)
    PROVE  TruthfulTables'
<1>1. /\ worker[w] \in Worker /\ Knows(worker[w], lines, charges) /\ WorkerIntact(worker[w])
      /\ lines \in [Obligations -> Line]
  BY DEF NothingFrozenMoves, TypeOK, TruthfulTables
<1>2. ASSUME NEW p \in Periods, ResumeList(w, p) PROVE TruthfulTables'
  <2>. DEFINE pending == {o \in Obligations : o[2] = p /\ lines[o].state = "submitted"}
              old == {o \in pending : PastRetention(lines[o], clock)}
              ctx == [Idle EXCEPT !.task = "resume", !.at = "resuming", !.todo = pending,
                                  !.expired = old]
  <2>1. Become(w, ctx) /\ lines' = lines /\ charges' = charges
    BY <1>2 DEF ResumeList
  <2>2. \A o \in pending : lines[o].state = "submitted" /\ o # NoKey
    BY DEF Obligations, NoKey
  <2>. HIDE DEF pending, old
  <2>3. ctx.at = "resuming" /\ ctx.task = "resume" /\ ctx.line = NoKey /\ ctx.todo = pending
    BY DEF Idle
  <2>. HIDE DEF ctx
  <2>. QED
    BY <2>1, <2>2, <2>3, OnlyWorkerReads DEF Knows
<1>3. ASSUME NEW o \in Obligations, ResumeRead(w, o) \/ ExpireLoad(w, o)
      PROVE  TruthfulTables'
  <2>. DEFINE calling == [worker[w] EXCEPT !.at = "calling", !.todo = @ \ {o}, !.line = o,
                                           !.request = RequestOf(lines[o])]
              expiring == [worker[w] EXCEPT !.at = "expiring", !.todo = @ \ {o}, !.line = o,
                                            !.rows = Load({o})]
  <2>1. /\ Become(w, calling) \/ Become(w, expiring)
        /\ lines' = lines /\ charges' = charges
        /\ worker[w].at = "resuming" /\ o \in worker[w].todo
    BY <1>3 DEF ResumeRead, ExpireLoad, At
  <2>2. /\ calling.at = "calling" /\ calling.task = worker[w].task /\ calling.line = o
        /\ calling.todo = worker[w].todo \ {o}
    BY <1>1 DEF Worker
  <2>3. /\ expiring.at = "expiring" /\ expiring.task = worker[w].task /\ expiring.line = o
        /\ expiring.todo = worker[w].todo \ {o} /\ expiring.rows = Load({o})
    BY <1>1 DEF Worker
  <2>4. Load({o})[o] = lines[o]
    BY DEF Load
  <2>. HIDE DEF calling, expiring
  <2>5. Knows(calling, lines, charges) /\ Knows(expiring, lines, charges)
    BY <1>1, <2>1, <2>2, <2>3, <2>4 DEF Knows
  <2>. QED
    BY <2>1, <2>5, OnlyWorkerReads
<1>4. CASE ExpireFlush(w)
  <2>. DEFINE o == worker[w].line
              new == [worker[w].rows[o] EXCEPT !.state = "unresolved"]
  <2>1. /\ Become(w, Continue(worker[w])) /\ FlushLine(w, new) /\ charges' = charges
        /\ worker[w].at = "expiring"
    BY <1>4 DEF ExpireFlush, At
  <2>2. /\ o \in Obligations /\ worker[w].rows[o] = lines[o] /\ lines[o] \in Line
        /\ lines[o].state = "submitted"
    BY <1>1, <2>1 DEF WorkerIntact, SessionIntact, Knows
  <2>3. /\ new.state = "unresolved" /\ new.cancellation = lines[o].cancellation
        /\ new.chargeRef = lines[o].chargeRef
    BY <2>2 DEF Line
  <2>. HIDE DEF new
  <2>4. /\ lines'[o].state = "unresolved" /\ lines'[o].cancellation = lines[o].cancellation
        /\ lines'[o].chargeRef = lines[o].chargeRef
        /\ \A p \in Obligations \ {o} : lines'[p] = lines[p]
    BY <2>1, <2>2, <2>3, FlushWritesWhatIsMeant
  <2>5. \A p \in Obligations : Truthful(lines'[p], p, charges')
    BY <2>1, <2>2, <2>4 DEF Truthful, TruthfulTables
  <2>6. Knows(Continue(worker[w]), lines', charges')
    BY <1>1, <2>1, <2>4, ContinueKnows
  <2>. QED
    BY <2>1, <2>5, <2>6, OnlyWorkerSteps
<1>. QED
  BY <1>2, <1>3, <1>4 DEF Resume

\* A line is put back only if the provider has no operation for it.
LEMMA EstablishIsTruthful ==
    ASSUME OneWorker, NothingFrozenMoves, TruthfulTables, NEW w \in Workers, Establish(w)
    PROVE  TruthfulTables'
<1>1. /\ worker[w] \in Worker /\ Knows(worker[w], lines, charges) /\ WorkerIntact(worker[w])
      /\ lines \in [Obligations -> Line]
  BY DEF NothingFrozenMoves, TypeOK, TruthfulTables
<1>2. ASSUME NEW o \in Obligations, EstablishLoad(w, o) PROVE TruthfulTables'
  <2>. DEFINE ctx == [Idle EXCEPT !.task = "establish", !.at = "looking", !.line = o,
                                  !.rows = Load({o})]
  <2>1. /\ Become(w, ctx) /\ lines' = lines /\ charges' = charges
    BY <1>2 DEF EstablishLoad
  <2>2. /\ ctx.at = "looking" /\ ctx.task = "establish" /\ ctx.line = o
        /\ ctx.rows[o] = lines[o]
    BY DEF Idle, Load
  <2>. HIDE DEF ctx
  <2>. QED
    BY <2>1, <2>2, OnlyWorkerReads DEF Knows
<1>3. CASE EstablishLookup(w)
  <2>. DEFINE ctx == worker[w]
              o == ctx.line
              told(ref) == [ctx EXCEPT !.at = "recording", !.ref = ref]
              untold == [ctx EXCEPT !.at = "recording"]
  <2>1. /\ lines' = lines /\ charges' = charges /\ ctx.at = "looking"
        /\ \/ ChargesFor(ctx.rows[o].key) = {} /\ Become(w, untold)
           \/ \E c \in ChargesFor(ctx.rows[o].key) : Become(w, told(c.ref))
    BY <1>3 DEF EstablishLookup, At
  <2>2. /\ o \in Obligations /\ ctx.rows[o].state # "absent" /\ ctx.rows[o].key = o
    BY <1>1, <2>1 DEF WorkerIntact, SessionIntact, RowsIntact, Intact
  <2>3. CASE ChargesFor(ctx.rows[o].key) = {} /\ Become(w, untold)
    <3>1. \A c \in charges : c.key # o
      BY <2>2, <2>3 DEF ChargesFor
    <3>2. /\ untold.at = "recording" /\ untold.task = ctx.task /\ untold.line = o
          /\ untold.todo = ctx.todo /\ untold.rows = ctx.rows
      BY <1>1 DEF Worker
    <3>. HIDE DEF untold
    <3>3. Knows(untold, lines, charges)
      BY <1>1, <2>1, <3>1, <3>2 DEF Knows
    <3>. QED
      BY <2>1, <2>3, <3>3, OnlyWorkerReads
  <2>4. ASSUME NEW c \in ChargesFor(ctx.rows[o].key), Become(w, told(c.ref))
        PROVE  TruthfulTables'
    <3>1. c.ref # NoRef
      BY DEF ChargesFor, NothingFrozenMoves, TypeOK, Charge, NoRef
    <3>2. /\ told(c.ref).at = "recording" /\ told(c.ref).task = ctx.task
          /\ told(c.ref).line = o /\ told(c.ref).ref = c.ref
          /\ told(c.ref).todo = ctx.todo /\ told(c.ref).rows = ctx.rows
      BY <1>1 DEF Worker
    <3>. HIDE DEF told
    <3>3. Knows(told(c.ref), lines, charges)
      BY <1>1, <2>1, <3>1, <3>2 DEF Knows
    <3>. QED
      BY <2>1, <2>4, <3>3, OnlyWorkerReads
  <2>. QED
    BY <2>1, <2>3, <2>4
<1>4. CASE EstablishFlush(w)
  <2>. DEFINE o == worker[w].line
              ref == worker[w].ref
              new == Established(worker[w].rows[o], ref)
  <2>1. /\ Become(w, Idle) /\ FlushLine(w, new) /\ charges' = charges
        /\ worker[w].at = "recording"
    BY <1>4 DEF EstablishFlush, At
  <2>2. /\ o \in Obligations /\ worker[w].rows[o] = lines[o] /\ lines[o] \in Line
        /\ lines[o].state # "absent"
        /\ ref = NoRef => \A c \in charges : c.key # o
    BY <1>1, <2>1 DEF WorkerIntact, SessionIntact, Knows
  \* A lookup that finds nothing is about a line nothing was ever booked on.
  <2>3. ref = NoRef => lines[o].chargeRef = NoRef /\ lines[o].state # "charged"
    BY <2>2 DEF NothingFrozenMoves, TablesIntact, Intact, Exists
  <2>4. /\ new.cancellation = lines[o].cancellation
        /\ ref = NoRef => new.state = "prepared" /\ new.chargeRef = lines[o].chargeRef
        /\ ref # NoRef => new.state = "charged"
    BY <2>2 DEF Established, Settled, Line
  <2>. HIDE DEF new
  <2>5. /\ lines'[o].state = new.state /\ lines'[o].cancellation = new.cancellation
        /\ lines'[o].chargeRef = new.chargeRef
        /\ \A p \in Obligations \ {o} : lines'[p] = lines[p]
    BY <2>1, <2>2, FlushWritesWhatIsMeant
  <2>6. Truthful(lines'[o], o, charges)
    BY <2>2, <2>3, <2>4, <2>5 DEF Truthful, TruthfulTables
  <2>7. \A p \in Obligations : Truthful(lines'[p], p, charges')
    BY <2>1, <2>5, <2>6 DEF TruthfulTables
  <2>. QED
    BY <2>1, <2>7, IdleKnowsNothing, OnlyWorkerSteps
<1>. QED
  BY <1>2, <1>3, <1>4 DEF Establish

LEMMA CancelIsTruthful ==
    ASSUME OneWorker, NothingFrozenMoves, TruthfulTables, NEW w \in Workers, Cancel(w)
    PROVE  TruthfulTables'
<1>1. Knows(worker[w], lines, charges) /\ lines \in [Obligations -> Line]
  BY DEF NothingFrozenMoves, TypeOK, TruthfulTables
<1>2. ASSUME NEW b \in Bookings, CancelLoad(w, b) PROVE TruthfulTables'
  <2>. DEFINE rows == Load({b} \X Periods)
              ctx == [Idle EXCEPT !.task = "cancel", !.at = "cancelling",
                                  !.todo = {b} \X Periods, !.rows = rows]
  <2>1. Become(w, ctx) /\ lines' = lines /\ charges' = charges
    BY <1>2 DEF CancelLoad
  <2>2. \A o \in Obligations : rows[o] \in {NoLine, lines[o]}
    BY DEF Load
  <2>. HIDE DEF rows
  <2>3. ctx.at = "cancelling" /\ ctx.task = "cancel" /\ ctx.rows = rows
    BY DEF Idle
  <2>. HIDE DEF ctx
  <2>. QED
    BY <2>1, <2>2, <2>3, OnlyWorkerReads DEF Knows
<1>3. CASE CancelFlush(w)
  <2>. DEFINE read == worker[w].rows
  <2>1. /\ Become(w, Idle) /\ charges' = charges /\ worker[w].at = "cancelling"
        /\ \A o \in Obligations :
               lines'[o] = WriteBack(lines[o], read[o], Cancelled(read[o]))
    BY <1>3 DEF CancelFlush, At
  <2>2. ASSUME NEW o \in Obligations PROVE Truthful(lines'[o], o, charges)
    <3>1. read[o] = NoLine \/ read[o] = lines[o]
      BY <1>1, <2>1 DEF Knows
    <3>2. lines[o] \in Line /\ Truthful(lines[o], o, charges)
      BY <1>1 DEF TruthfulTables
    <3>3. CASE read[o] = NoLine
      <4>1. Cancelled(read[o]) = read[o]
        BY <3>3 DEF Cancelled, NoLine
      <4>2. lines'[o] = lines[o]
        BY <2>1, <3>2, <4>1, WriteBackOfNothing
      <4>. QED
        BY <3>2, <4>2
    <3>4. CASE read[o] = lines[o]
      <4>. DEFINE line == lines[o]
      <4>1. /\ lines'[o].state = Cancelled(line).state
            /\ lines'[o].cancellation = Cancelled(line).cancellation
            /\ lines'[o].chargeRef = Cancelled(line).chargeRef
        BY <2>1, <3>2, <3>4, WriteBackOfRead
      <4>. HIDE DEF line
      <4>2. Truthful(Cancelled(line), o, charges)
        <5>1. line \in Line /\ Truthful(line, o, charges)
          BY <3>2 DEF line
        <5>2. CASE line.state \in {"prepared", "blocked"}
          <6>1. Cancelled(line) =
                    [line EXCEPT !.state = "voided", !.cancellation = "before_submission"]
            BY <5>2 DEF Cancelled
          <6>. QED
            BY <5>1, <5>2, <6>1 DEF Truthful, Line
        <5>3. CASE line.state \in {"submitted", "unresolved"}
          <6>1. Cancelled(line) = [line EXCEPT !.cancellation = "while_unresolved"]
            BY <5>3 DEF Cancelled
          <6>. QED
            BY <5>1, <5>3, <6>1 DEF Truthful, Line
        <5>4. CASE line.state = "charged"
          <6>1. Cancelled(line) = [line EXCEPT !.cancellation = "after_charge"]
            BY <5>4 DEF Cancelled
          <6>. QED
            BY <5>1, <5>4, <6>1 DEF Truthful, Line
        <5>5. CASE line.state \in {"voided", "absent"}
          BY <5>1, <5>5 DEF Cancelled
        <5>. QED
          BY <5>1, <5>2, <5>3, <5>4, <5>5 DEF Line, LineStates
      <4>. QED
        BY <4>1, <4>2 DEF Truthful, line
    <3>. QED
      BY <3>1, <3>3, <3>4
  <2>. QED
    BY <2>1, <2>2, IdleKnowsNothing, OnlyWorkerSteps
<1>. QED
  BY <1>2, <1>3 DEF Cancel

-----------------------------------------------------------------------------
LEMMA TruthfulAlways ==
    ASSUME OneWorker
    PROVE  Spec => []TruthfulTables
<1>1. Init => TruthfulTables
  BY IdleKnowsNothing DEF Init, TruthfulTables, Truthful, NoRows, NoLine, NoRef
<1>2. ASSUME NothingFrozenMoves, TruthfulTables, [Next]_vars PROVE TruthfulTables'
  <2>1. CASE UNCHANGED <<charges, lines, worker>>
    BY <1>2, <2>1 DEF TruthfulTables
  <2>2. ASSUME NEW w \in Workers, WorkerNext(w) \/ Crash(w) PROVE TruthfulTables'
    <3>1. CASE ListDone(w) \/ Crash(w)
      <4>1. Become(w, Idle) /\ lines' = lines /\ charges' = charges
        BY <3>1 DEF ListDone, Crash
      <4>. QED
        BY <1>2, <4>1, IdleKnowsNothing, OnlyWorkerReads
    <3>. QED
      BY <1>2, <2>2, <3>1, PrepareIsTruthful, SubmitIsTruthful, CreateIsTruthful,
         SettleIsTruthful, ResumeIsTruthful, EstablishIsTruthful, CancelIsTruthful
         DEF WorkerNext
  <2>. QED
    BY <1>2, <2>1, <2>2 DEF Next, Feed, Tick, vars
<1>. QED
  BY <1>1, <1>2, FrozenInvariant, PTL DEF Spec

\* With one worker at a time, whatever it does in whatever order and whichever line
\* it establishes, in whatever state: a line cancelled after the charge is charged,
\* and no voided or given up line is one for which money is in the books
\* (billing/run.py, cancel and establish_out_of_band).  That a voided line stays
\* voided is not said, and is not so.
THEOREM CancellationsAreTruthful ==
    ASSUME OneWorker
    PROVE  Spec => []CancellationIsTruthful
<1>1. NothingFrozenMoves /\ TruthfulTables => CancellationIsTruthful
  <2>1. SUFFICES ASSUME NothingFrozenMoves, TruthfulTables, NEW o \in Obligations
                 PROVE  /\ lines[o].cancellation = "after_charge" =>
                               lines[o].state = "charged"
                        /\ lines[o].state \in {"voided", "unresolved"} =>
                               lines[o].chargeRef = NoRef
                        /\ lines[o].state = "voided" =>
                               ~\E c \in charges : SameObligation(c.key, o)
    BY DEF CancellationIsTruthful
  <2>2. Truthful(lines[o], o, charges)
    BY <2>1 DEF TruthfulTables
  <2>3. ASSUME NEW c \in charges, SameObligation(c.key, o) PROVE c.key = o
    <3>1. c.key \in Obligations
      BY <2>1 DEF NothingFrozenMoves, TypeOK, Charge
    <3>. QED
      BY <2>3, <3>1 DEF SameObligation, Obligations
  <2>. QED
    BY <2>2, <2>3 DEF Truthful
<1>. QED
  BY <1>1, FrozenInvariant, TruthfulAlways, PTL

\* And then, with corrections and cancellations too, every operation that exists,
\* or may be about to, has a line that says so (billing/run.py, submit).
THEOREM OneWorkersAttemptsAreOnRecord ==
    ASSUME OneWorker
    PROVE  Spec => []AttemptIsOnRecord
<1>1. NothingFrozenMoves /\ TruthfulTables => AttemptIsOnRecord
  <2>1. SUFFICES ASSUME NothingFrozenMoves, TruthfulTables, NEW o \in Obligations,
                        \/ \E c \in charges : SameObligation(c.key, o)
                        \/ \E w \in Workers :
                               worker[w].at \in {"calling", "executing"} /\ worker[w].line = o
                 PROVE  lines[o].state \in {"submitted", "charged", "unresolved"}
    BY DEF AttemptIsOnRecord
  <2>2. ASSUME NEW c \in charges, SameObligation(c.key, o)
        PROVE  lines[o].state \in {"submitted", "charged", "unresolved"}
    <3>1. c.key \in Obligations
      BY <2>1 DEF NothingFrozenMoves, TypeOK, Charge
    <3>2. c.key = o
      BY <2>2, <3>1 DEF SameObligation, Obligations
    <3>. QED
      BY <2>1, <3>2 DEF TruthfulTables, Truthful
  <2>3. ASSUME NEW w \in Workers, worker[w].at \in {"calling", "executing"},
               worker[w].line = o
        PROVE  lines[o].state = "submitted"
    BY <2>1, <2>3 DEF TruthfulTables, Knows
  <2>. QED
    BY <2>1, <2>2, <2>3
<1>. QED
  BY <1>1, FrozenInvariant, TruthfulAlways, PTL

==============================================================================
