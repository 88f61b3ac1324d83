-------------------------- MODULE IntakeEvents_proofs --------------------------
(***************************************************************************)
(* An event id is used up by exactly one decision, for any number of       *)
(* workers, messages, copies of one event and replays (EventDecidedOnce).   *)
(***************************************************************************)
EXTENDS Intake, FiniteSetTheorems, TLAPS

Decision(d) == d.outcome \notin {"quarantined", "repeat_of_event"}

DecisionsOf(log, e) == {d \in log : Message(d.message).event = e /\ Decision(d)}

One(S) == \E d : S = {d}

\* Each claimed event has one decision in the log, unless it is pending; no
\* other event has any.
Counted(log, claimed, pending) ==
    \A e : e # NoEvent =>
        IF e \in claimed \ pending THEN One(DecisionsOf(log, e)) ELSE DecisionsOf(log, e) = {}

\* What was not refused has an event that is claimed, if it has one.
Heard(log, claimed) ==
    \A d \in log : d.outcome # "quarantined" =>
                       Message(d.message).event \in claimed \cup {NoEvent}

\* The event whose id is inserted and whose message is still to be decided.
Pending(t) == IF t.at = "decide" THEN {Message(Head(t.todo)).event} ELSE {}

OneUse(t) ==
    /\ Pending(t) \subseteq t.claims
    /\ t.claims \cap processed = {}
    /\ Counted(t.log, t.claims, Pending(t))
    /\ Heard(t.log, processed \cup t.claims)

OneClaimant == \A w \in Workers : \A v \in Workers \ {w} : tx[v].claims \cap tx[w].claims = {}

\* Every worker has a transaction.
Shaped == DOMAIN tx = Workers /\ \A w \in Workers : DOMAIN tx[w] = DOMAIN Idle

EInv ==
    /\ Shaped
    /\ Counted(deliveries, processed, {})
    /\ Heard(deliveries, processed)
    /\ OneClaimant
    /\ \A w \in Workers : OneUse(tx[w])

-----------------------------------------------------------------------------
LEMMA DecisionsOfUnion ==
    ASSUME NEW log, NEW more, NEW e
    PROVE  DecisionsOf(log \cup more, e) = DecisionsOf(log, e) \cup DecisionsOf(more, e)
  BY DEF DecisionsOf

\* A step of one worker that commits nothing keeps the invariant if nobody else
\* has claimed what it claims.
LEMMA StepKeepsUse ==
    ASSUME EInv, NEW w \in Workers, NEW t, Step(w, t), OneUse(t), DOMAIN t = DOMAIN Idle,
           \A e \in t.claims :
               e \in tx[w].claims \/ \A v \in Workers \ {w} : e \notin tx[v].claims
    PROVE  EInv'
<1>1. /\ tx'[w] = t /\ \A v \in Workers \ {w} : tx'[v] = tx[v]
      /\ UNCHANGED <<deliveries, processed>>
      /\ Shaped'
  BY DEF Step, EInv, Shaped
<1>2. (Counted(deliveries, processed, {}) /\ Heard(deliveries, processed))'
  BY <1>1 DEF EInv, Counted, Heard, DecisionsOf, Decision
<1>3. OneClaimant'
  <2>1. \A v \in Workers \ {w} : tx[v].claims \cap t.claims = {}
    BY DEF EInv, OneClaimant
  <2>. QED
    BY <1>1, <2>1 DEF EInv, OneClaimant
<1>4. ASSUME NEW v \in Workers PROVE OneUse(tx[v])'
  <2>1. OneUse(tx'[v])
    BY <1>1 DEF EInv
  <2>. QED
    BY <1>1, <2>1 DEF OneUse
<1>. QED
  BY <1>1, <1>2, <1>3, <1>4 DEF EInv

\* A transaction that logs nothing, or a message it does not decide.
LEMMA UndecidedUse ==
    ASSUME NEW t, NEW n, OneUse(t), n.claims = t.claims, Pending(n) = Pending(t),
           \/ n.log = t.log
           \/ \E d : /\ n.log = t.log \cup {d} /\ ~Decision(d)
                     /\ \/ d.outcome = "quarantined"
                        \/ Message(d.message).event \in processed \cup t.claims
    PROVE  OneUse(n)
<1>1. \A e : DecisionsOf(n.log, e) = DecisionsOf(t.log, e)
  BY DEF DecisionsOf
<1>2. Heard(n.log, processed \cup t.claims)
  BY DEF OneUse, Heard
<1>3. Counted(n.log, t.claims, Pending(t))
  BY <1>1 DEF OneUse, Counted
<1>. QED
  BY <1>2, <1>3 DEF OneUse

\* A transaction that decides a message whose event it has claimed for it, or
\* that has no event.
LEMMA DecidedUse ==
    ASSUME NEW t, NEW n, NEW d, OneUse(t), n.claims = t.claims, Pending(n) = {},
           n.log = t.log \cup {d}, Decision(d),
           \/ Message(d.message).event = NoEvent /\ Pending(t) = {}
           \/ Pending(t) = {Message(d.message).event}
    PROVE  OneUse(n)
<1>. DEFINE event == Message(d.message).event
<1>1. \A e : DecisionsOf({d}, e) = IF e = event THEN {d} ELSE {}
  BY DEF DecisionsOf
<1>2. \A e : DecisionsOf(n.log, e) = DecisionsOf(t.log, e) \cup DecisionsOf({d}, e)
  BY DecisionsOfUnion
<1>3. Heard(n.log, processed \cup t.claims)
  BY DEF OneUse, Heard
<1>. HIDE DEF event
<1>4. ASSUME NEW e, e # NoEvent
      PROVE  IF e \in t.claims THEN One(DecisionsOf(n.log, e)) ELSE DecisionsOf(n.log, e) = {}
  <2>1. IF e \in t.claims \ Pending(t) THEN One(DecisionsOf(t.log, e))
                                       ELSE DecisionsOf(t.log, e) = {}
    BY <1>4 DEF OneUse, Counted
  <2>2. CASE e = event
    <3>1. e \in Pending(t) /\ e \in t.claims
      BY <1>4, <2>2 DEF OneUse, event
    <3>2. DecisionsOf(n.log, e) = {d}
      BY <1>1, <1>2, <2>1, <2>2, <3>1
    <3>. QED
      BY <3>1, <3>2 DEF One
  <2>3. CASE e # event
    <3>1. DecisionsOf({d}, e) = {}
      BY <1>1, <2>3
    <3>2. DecisionsOf(n.log, e) = DecisionsOf(t.log, e)
      BY <1>2, <3>1
    <3>3. e \notin Pending(t)
      BY <2>3 DEF event
    <3>. QED
      BY <2>1, <3>2, <3>3
  <2>. QED
    BY <2>2, <2>3
<1>5. Counted(n.log, t.claims, {})
  BY <1>4 DEF Counted
<1>. QED
  BY <1>3, <1>5 DEF OneUse

\* What deciding a message does to the claims and the log of a transaction.
LEMMA DecidedLog ==
    ASSUME NEW t, DOMAIN t = DOMAIN Idle, NEW m, NEW outcome
    PROVE  LET n == Decided(t, m, outcome) IN
           /\ DOMAIN n = DOMAIN Idle /\ n.at = "next" /\ n.claims = t.claims
           /\ \E d : n.log = t.log \cup {d} /\ d.message = m /\ d.outcome = outcome
<1>. DEFINE d == [id |-> t.id, message |-> m, outcome |-> outcome,
                  channel |-> IF t.asked = Blank THEN "partner" ELSE "replay"]
            n == Decided(t, m, outcome)
<1>1. d.message = m /\ d.outcome = outcome
  OBVIOUS
<1>. HIDE DEF d
<1>2. n = [t EXCEPT !.at = "next", !.todo = Tail(@), !.id = @ + 1, !.log = @ \cup {d}]
  BY DEF Decided, d
<1>3. /\ DOMAIN n = DOMAIN Idle /\ n.at = "next" /\ n.claims = t.claims
      /\ n.log = t.log \cup {d}
  BY <1>2 DEF Idle
<1>. QED
  BY <1>1, <1>3

LEMMA WriteLog ==
    ASSUME NEW t, DOMAIN t = DOMAIN Idle, NEW w, NEW b, NEW row
    PROVE  LET n == Write(t, w, b, row) IN
           DOMAIN n = DOMAIN Idle /\ n.claims = t.claims /\ n.log = t.log
  BY DEF Write, Idle

\* Whatever the judgement, the claims stay and the decision is logged.
LEMMA JudgeLog ==
    ASSUME NEW t, DOMAIN t = DOMAIN Idle, NEW w, NEW b, NEW row, NEW object, NEW m,
           LET order == Compare(Message(m).updated, StoredInstant(object)) IN
           order \in {"older", "newer", "same", "not_provable"}
    PROVE  LET n == Judge(t, w, b, row, object, m) IN
           /\ DOMAIN n = DOMAIN Idle /\ n.at = "next" /\ n.claims = t.claims
           /\ \E d : n.log = t.log \cup {d} /\ d.message = m /\ Decision(d)
<1>. DEFINE Logged(n) ==
              /\ DOMAIN n = DOMAIN Idle /\ n.at = "next" /\ n.claims = t.claims
              /\ \E d : n.log = t.log \cup {d} /\ d.message = m /\ Decision(d)
<1>1. ASSUME NEW new, NEW outcome, outcome \notin {"quarantined", "repeat_of_event"}
      PROVE  LET n == Decided(Write(t, w, b, new), m, outcome) IN
             Logged(n)
  BY <1>1, WriteLog, DecidedLog DEF Decision
<1>2. ASSUME NEW o PROVE Logged(Apply(t, w, b, row, o, m))
  <2>. DEFINE written == Flush(row, o, BookingValues(Message(m), m))
              n == Decided(Write(t, w, b, written), m, "applied")
              owed == ReconcileEntitlement(Owed(w, b), BookingValues(Message(m), m))
  <2>1. Logged(n)
    BY <1>1
  <2>2. Apply(t, w, b, row, o, m) = [n EXCEPT !.owed[b] = owed]
    BY DEF Apply
  <2>. HIDE DEF n, owed
  <2>. QED
    BY <2>1, <2>2 DEF Idle
<1>3. ASSUME NEW reason, NEW outcome, outcome \notin {"quarantined", "repeat_of_event"}
      PROVE  Logged(Hold(t, w, b, row, object, m, reason, outcome))
  <2>. DEFINE written == Flush(row, object, [undecided |-> reason])
              n == Decided(Write(t, w, b, written), m, outcome)
              kept == IF t.asked = b THEN [object EXCEPT !.undecided = reason] ELSE NoRow
  <2>1. Logged(n)
    BY <1>1, <1>3
  <2>2. Hold(t, w, b, row, object, m, reason, outcome) = [n EXCEPT !.object = kept]
    BY DEF Hold
  <2>. HIDE DEF n, kept
  <2>. QED
    BY <2>1, <2>2 DEF Idle
<1>4. ASSUME NEW outcome, outcome \notin {"quarantined", "repeat_of_event"}
      PROVE  Logged(Lock(t, w, b, row, m, outcome))
  BY <1>1, <1>4 DEF Lock
<1>. HIDE DEF Logged
<1>5. Logged(Judge(t, w, b, row, object, m))
  BY <1>2, <1>3, <1>4 DEF Judge
<1>. QED
  BY <1>5 DEF Logged

-----------------------------------------------------------------------------
LEMMA RefuseUsesNone ==
    ASSUME EInv, NEW w \in Workers, Refuse(w)
    PROVE  EInv'
<1>. DEFINE t == tx[w]
            m == Current(w)
            known == SessionObject(t, Message(m).ref, Row(w, Message(m).ref))
            marking == [t EXCEPT !.at = "mark", !.object = known]
            filed == Decided(t, m, "quarantined")
<1>1. t.at = "next" /\ (Step(w, marking) \/ Step(w, filed))
  BY DEF Refuse
<1>2. OneUse(t) /\ DOMAIN t = DOMAIN Idle
  BY DEF EInv, Shaped
<1>. HIDE DEF known
<1>3. /\ marking.claims = t.claims /\ marking.log = t.log
      /\ Pending(marking) = {} /\ Pending(t) = {} /\ DOMAIN marking = DOMAIN Idle
  BY <1>1, <1>2 DEF Pending, Idle
<1>4. /\ filed.claims = t.claims /\ Pending(filed) = {} /\ DOMAIN filed = DOMAIN Idle
      /\ \E d : filed.log = t.log \cup {d} /\ d.outcome = "quarantined"
  BY <1>2, DecidedLog DEF Pending
<1>. HIDE DEF marking, filed, t
<1>5. OneUse(marking) /\ OneUse(filed)
  BY <1>2, <1>3, <1>4, UndecidedUse DEF Decision
<1>. QED
  BY <1>1, <1>2, <1>3, <1>4, <1>5, StepKeepsUse DEF t

LEMMA MarkUsesNone ==
    ASSUME EInv, NEW w \in Workers, Mark(w)
    PROVE  EInv'
<1>. DEFINE t == tx[w]
            m == Current(w)
            b == Message(m).ref
            row == [Row(w, b) EXCEPT !.undecided = Message(m).kind]
            written == Write(t, w, b, row)
            object == IF t.asked = b THEN [t.object EXCEPT !.undecided = Message(m).kind]
                                     ELSE NoRow
            marked == [written EXCEPT !.object = object]
            filed == Decided(marked, m, "quarantined")
<1>1. t.at = "mark" /\ Step(w, filed)
  BY DEF Mark, FlushHold
<1>2. OneUse(t) /\ DOMAIN t = DOMAIN Idle
  BY DEF EInv, Shaped
<1>. HIDE DEF row, object
<1>3. DOMAIN written = DOMAIN Idle /\ written.claims = t.claims /\ written.log = t.log
  BY <1>2, WriteLog
<1>. HIDE DEF written
<1>4. DOMAIN marked = DOMAIN Idle /\ marked.claims = t.claims /\ marked.log = t.log
  BY <1>3 DEF Idle
<1>. HIDE DEF marked
<1>5. /\ filed.claims = t.claims /\ Pending(filed) = {} /\ Pending(t) = {}
      /\ DOMAIN filed = DOMAIN Idle
      /\ \E d : filed.log = t.log \cup {d} /\ d.outcome = "quarantined"
  BY <1>1, <1>4, DecidedLog DEF Pending
<1>. HIDE DEF filed, t
<1>6. OneUse(filed)
  BY <1>2, <1>5, UndecidedUse DEF Decision
<1>. QED
  BY <1>1, <1>5, <1>6, StepKeepsUse DEF t

LEMMA RepeatUsesNone ==
    ASSUME EInv, NEW w \in Workers, RepeatOfEvent(w)
    PROVE  EInv'
<1>. DEFINE t == tx[w]
            repeat == Decided(t, Current(w), "repeat_of_event")
<1>1. /\ t.at = "next" /\ Step(w, repeat)
      /\ Message(Current(w)).event \in processed \cup t.claims
  BY DEF RepeatOfEvent
<1>2. OneUse(t) /\ DOMAIN t = DOMAIN Idle
  BY DEF EInv, Shaped
<1>3. /\ repeat.claims = t.claims /\ Pending(repeat) = {} /\ Pending(t) = {}
      /\ DOMAIN repeat = DOMAIN Idle
      /\ \E d : /\ repeat.log = t.log \cup {d}
                /\ d.message = Current(w) /\ d.outcome = "repeat_of_event"
  BY <1>1, <1>2, DecidedLog DEF Pending
<1>. HIDE DEF repeat, t
<1>4. OneUse(repeat)
  BY <1>1, <1>2, <1>3, UndecidedUse DEF Decision
<1>. QED
  BY <1>1, <1>3, <1>4, StepKeepsUse DEF t

\* The claim is pending until the message is decided.
LEMMA ClaimIsPending ==
    ASSUME EInv, NEW w \in Workers, ClaimEvent(w)
    PROVE  EInv'
<1>. DEFINE t == tx[w]
            event == Message(Current(w)).event
            n == InsertEvent(t, event)
<1>1. t.at = "next" /\ EventIsFree(w, event) /\ Step(w, n)
  BY DEF ClaimEvent
<1>2. OneUse(t) /\ DOMAIN t = DOMAIN Idle /\ Pending(t) = {}
  BY <1>1 DEF EInv, Shaped, Pending
<1>3. /\ n.claims = t.claims \cup {event} /\ n.log = t.log
      /\ Pending(n) = {event} /\ DOMAIN n = DOMAIN Idle
  BY <1>2 DEF InsertEvent, Idle, Pending, Current
<1>4. event \notin processed /\ event \notin t.claims
  BY <1>1 DEF EventIsFree
<1>. HIDE DEF t, event, n
<1>5. Counted(n.log, n.claims, Pending(n))
  BY <1>2, <1>3, <1>4 DEF OneUse, Counted
<1>6. Heard(n.log, processed \cup n.claims)
  BY <1>2, <1>3 DEF OneUse, Heard
<1>7. OneUse(n)
  BY <1>2, <1>3, <1>4, <1>5, <1>6 DEF OneUse
<1>8. \A e \in n.claims : e \in t.claims \/ \A v \in Workers \ {w} : e \notin tx[v].claims
  BY <1>1, <1>3 DEF EventIsFree, t
<1>. QED
  BY <1>1, <1>3, <1>7, <1>8, StepKeepsUse DEF t

LEMMA DecideUsesOnce ==
    ASSUME EInv, NEW w \in Workers, Decide(w)
    PROVE  EInv'
<1>. DEFINE t == tx[w]
            m == Current(w)
            b == Message(m).ref
            row == Row(w, b)
            object == SessionObject(t, b, row)
            n == Judge(t, w, b, row, object, m)
<1>1. /\ Step(w, n)
      /\ \/ t.at = "decide"
         \/ t.at = "next" /\ Message(m).event = NoEvent
  BY DEF Decide
<1>2. OneUse(t) /\ DOMAIN t = DOMAIN Idle
  BY DEF EInv, Shaped
<1>3. \/ Message(m).event = NoEvent /\ Pending(t) = {}
      \/ Pending(t) = {Message(m).event}
  BY <1>1 DEF Pending, Current
<1>4. Compare(Message(m).updated, StoredInstant(object))
         \in {"older", "newer", "same", "not_provable"}
  BY DEF Compare
<1>. HIDE DEF object, row, b, t, m
<1>5. /\ DOMAIN n = DOMAIN Idle /\ n.at = "next" /\ n.claims = t.claims
      /\ \E d : n.log = t.log \cup {d} /\ d.message = m /\ Decision(d)
  BY <1>2, <1>4, JudgeLog
<1>. HIDE DEF n
<1>6. Pending(n) = {}
  BY <1>5 DEF Pending
<1>7. OneUse(n)
  BY <1>2, <1>3, <1>5, <1>6, DecidedUse
<1>. QED
  BY <1>1, <1>5, <1>7, StepKeepsUse DEF t

\* Reading the open items, and answering them, uses no event.
LEMMA AnswerUsesNone ==
    ASSUME EInv, NEW w \in Workers, ReadItems(w) \/ Answer(w)
    PROVE  EInv'
<1>. DEFINE t == tx[w]
<1>1. PICK n : /\ Step(w, n) /\ n.claims = t.claims /\ n.log = t.log
               /\ n.at # "decide" /\ t.at # "decide" /\ DOMAIN n = DOMAIN Idle
  <2>1. DOMAIN t = DOMAIN Idle
    BY DEF EInv, Shaped
  <2>2. CASE ReadItems(w)
    <3>. DEFINE n == [t EXCEPT !.at = "answer", !.seen = {d.id : d \in OpenItems(t.asked)}]
    <3>1. t.at = "items" /\ Step(w, n)
      BY <2>2 DEF ReadItems
    <3>2. /\ n.at = "answer" /\ n.claims = t.claims /\ n.log = t.log
          /\ DOMAIN n = DOMAIN Idle
      BY <2>1 DEF Idle
    <3>. QED
      BY <3>1, <3>2
  <2>3. CASE Answer(w)
    <3>. DEFINE told == [t EXCEPT !.at = "next", !.closed = t.seen]
                row == [Row(w, t.asked) EXCEPT !.undecided = "no"]
                written == Write(told, w, t.asked, row)
                lifted == [written EXCEPT !.object.undecided = "no"]
    <3>1. t.at = "answer" /\ (Step(w, told) \/ Step(w, lifted))
      BY <2>3 DEF Answer, FlushHold
    <3>2. /\ DOMAIN told = DOMAIN Idle
          /\ told.at = "next" /\ told.claims = t.claims /\ told.log = t.log
      BY <2>1 DEF Idle
    <3>. HIDE DEF told, row
    <3>3. /\ lifted.at = "next" /\ lifted.claims = t.claims /\ lifted.log = t.log
          /\ DOMAIN lifted = DOMAIN Idle
      BY <3>2 DEF Write, Idle
    <3>. QED
      BY <3>1, <3>2, <3>3
  <2>. QED
    BY <2>2, <2>3
<1>2. OneUse(t)
  BY DEF EInv
<1>3. Pending(n) = {} /\ Pending(t) = {}
  BY <1>1 DEF Pending
<1>4. OneUse(n)
  BY <1>1, <1>2, <1>3, UndecidedUse
<1>. QED
  BY <1>1, <1>4, StepKeepsUse

\* A transaction that has claimed and logged nothing.
LEMMA FreshUse ==
    ASSUME NEW t, t.claims = {}, t.log = {}, t.at # "decide"
    PROVE  OneUse(t)
  BY DEF OneUse, Pending, Counted, Heard, DecisionsOf

LEMMA RollbackUsesNone ==
    ASSUME EInv, NEW w \in Workers, Step(w, Rollback(w))
    PROVE  EInv'
<1>1. Idle.claims = {} /\ Idle.log = {} /\ Idle.at = "idle"
  BY DEF Idle
<1>. QED
  BY <1>1, FreshUse, StepKeepsUse DEF Rollback

LEMMA BeginUsesNone ==
    ASSUME EInv, NEW w \in Workers, Receive(w) \/ Ask(w)
    PROVE  EInv'
<1>1. PICK t : Begin(w, t) /\ t.claims = {} /\ t.log = {} /\ t.at # "decide"
                  /\ DOMAIN t = DOMAIN Idle
  <2>1. CASE Receive(w)
    <3>1. PICK batch \in Arrivals :
             Begin(w, [Idle EXCEPT !.at = "next", !.todo = batch, !.id = received + 1])
      BY <2>1 DEF Receive
    <3>. DEFINE n == [Idle EXCEPT !.at = "next", !.todo = batch, !.id = received + 1]
    <3>2. n.claims = {} /\ n.log = {} /\ n.at = "next" /\ DOMAIN n = DOMAIN Idle
      BY DEF Idle
    <3>. HIDE DEF n
    <3>. QED
      BY <3>1, <3>2 DEF n
  <2>2. CASE Ask(w)
    <3>1. PICK b, replay :
             Begin(w, [Idle EXCEPT !.at = "items", !.todo = replay, !.id = received + 1,
                                   !.asked = b, !.object = booking[b]])
      BY <2>2 DEF Ask
    <3>. DEFINE n == [Idle EXCEPT !.at = "items", !.todo = replay, !.id = received + 1,
                                  !.asked = b, !.object = booking[b]]
    <3>2. n.claims = {} /\ n.log = {} /\ n.at = "items" /\ DOMAIN n = DOMAIN Idle
      BY DEF Idle
    <3>. HIDE DEF n
    <3>. QED
      BY <3>1, <3>2 DEF n
  <2>. QED
    BY <2>1, <2>2
<1>2. /\ tx'[w] = t /\ \A v \in Workers \ {w} : tx'[v] = tx[v]
      /\ UNCHANGED <<deliveries, processed>> /\ Shaped'
  BY <1>1 DEF Begin, EInv, Shaped
<1>3. (Counted(deliveries, processed, {}) /\ Heard(deliveries, processed))'
  BY <1>2 DEF EInv, Counted, Heard, DecisionsOf, Decision
<1>4. OneClaimant'
  BY <1>1, <1>2 DEF EInv, OneClaimant
<1>5. ASSUME NEW v \in Workers PROVE OneUse(tx[v])'
  <2>1. OneUse(tx'[v])
    BY <1>1, <1>2, FreshUse DEF EInv
  <2>. QED
    BY <1>2, <2>1 DEF OneUse
<1>. QED
  BY <1>2, <1>3, <1>4, <1>5 DEF EInv

\* The claims and the decisions become everyone's together.
LEMMA CommitUsesOnce ==
    ASSUME EInv, NEW w \in Workers, Commit(w)
    PROVE  EInv'
<1>. DEFINE t == tx[w]
<1>1. /\ t.at = "next"
      /\ deliveries' = deliveries \cup t.log
      /\ processed' = processed \cup t.claims
      /\ tx'[w] = Idle /\ \A v \in Workers \ {w} : tx'[v] = tx[v]
      /\ Shaped'
  BY DEF Commit, EInv, Shaped
<1>2. OneUse(t) /\ Pending(t) = {}
  BY <1>1 DEF EInv, Pending
<1>3. Counted(deliveries, processed, {}) /\ Heard(deliveries, processed)
  BY DEF EInv
<1>. HIDE DEF t
<1>4. Counted(deliveries \cup t.log, processed \cup t.claims, {})
  <2>1. ASSUME NEW e, e # NoEvent
        PROVE  IF e \in processed \cup t.claims
               THEN One(DecisionsOf(deliveries, e) \cup DecisionsOf(t.log, e))
               ELSE DecisionsOf(deliveries, e) \cup DecisionsOf(t.log, e) = {}
    <3>1. /\ IF e \in processed THEN One(DecisionsOf(deliveries, e))
                                 ELSE DecisionsOf(deliveries, e) = {}
          /\ IF e \in t.claims THEN One(DecisionsOf(t.log, e)) ELSE DecisionsOf(t.log, e) = {}
          /\ ~(e \in processed /\ e \in t.claims)
      BY <1>2, <1>3, <2>1 DEF OneUse, Counted
    <3>. QED
      BY <3>1 DEF One
  <2>2. \A e : DecisionsOf(deliveries \cup t.log, e)
                 = DecisionsOf(deliveries, e) \cup DecisionsOf(t.log, e)
    BY DecisionsOfUnion
  <2>3. ASSUME NEW e, e # NoEvent
        PROVE  IF e \in processed \cup t.claims
               THEN One(DecisionsOf(deliveries \cup t.log, e))
               ELSE DecisionsOf(deliveries \cup t.log, e) = {}
    BY <2>1, <2>2, <2>3
  <2>. QED
    BY <2>3 DEF Counted
<1>5. Heard(deliveries \cup t.log, processed \cup t.claims)
  BY <1>2, <1>3 DEF OneUse, Heard
<1>6. Idle.claims = {} /\ Idle.log = {} /\ Idle.at = "idle"
  BY DEF Idle
<1>7. (Counted(deliveries, processed, {}) /\ Heard(deliveries, processed))'
  BY <1>1, <1>4, <1>5 DEF Counted, Heard, DecisionsOf, Decision
<1>8. OneClaimant'
  BY <1>1, <1>6 DEF EInv, OneClaimant
<1>9. ASSUME NEW v \in Workers PROVE OneUse(tx[v])'
  <2>1. CASE v = w
    <3>1. OneUse(Idle)'
      BY <1>6 DEF OneUse, Pending, Counted, Heard, DecisionsOf
    <3>. QED
      BY <1>1, <2>1, <3>1
  <2>2. CASE v # w
    <3>1. tx'[v] = tx[v] /\ OneUse(tx[v]) /\ tx[v].claims \cap t.claims = {}
      BY <1>1, <2>2 DEF EInv, OneClaimant, t
    <3>2. Heard(tx[v].log, processed' \cup tx[v].claims)
      BY <1>1, <3>1 DEF OneUse, Heard
    <3>3. tx[v].claims \cap processed' = {}
      BY <1>1, <3>1 DEF OneUse
    <3>. QED
      BY <3>1, <3>2, <3>3 DEF OneUse
  <2>. QED
    BY <2>1, <2>2
<1>. QED
  BY <1>1, <1>7, <1>8, <1>9 DEF EInv

-----------------------------------------------------------------------------
LEMMA EInvAlways == Spec => []EInv
<1>1. Init => EInv
  <2>1. Idle.claims = {} /\ Idle.log = {} /\ Idle.at = "idle"
    BY DEF Idle
  <2>. QED
    BY <2>1, FreshUse DEF Init, EInv, Shaped, Counted, Heard, DecisionsOf, OneClaimant
<1>2. EInv /\ [Next]_vars => EInv'
  <2>1. CASE UNCHANGED vars
    BY <2>1 DEF vars, EInv, Shaped, Counted, Heard, DecisionsOf, Decision, OneClaimant, OneUse
  <2>2. ASSUME EInv, Next PROVE EInv'
    <3>1. PICK w \in Workers : Receive(w) \/ Ask(w) \/ Proceed(w) \/ Crash(w)
      BY <2>2 DEF Next
    <3>2. CASE Proceed(w)
      BY <2>2, <3>2, RefuseUsesNone, MarkUsesNone, RepeatUsesNone, ClaimIsPending,
         DecideUsesOnce, AnswerUsesNone, CommitUsesOnce, RollbackUsesNone
         DEF Proceed, BreakDeadlock
    <3>3. CASE Crash(w)
      BY <2>2, <3>3, RollbackUsesNone DEF Crash
    <3>. QED
      BY <2>2, <3>1, <3>2, <3>3, BeginUsesNone
  <2>. QED
    BY <2>1, <2>2
<1>. QED
  BY <1>1, <1>2, PTL DEF Spec

\* Of the copies of an event that could be read exactly one was decided, and the
\* others are repeats, however many workers race for its id (service.py,
\* ingest_canonical and the unique index on processed_events).
THEOREM EventsAreDecidedOnce == Spec => []EventDecidedOnce
<1>1. EInv => EventDecidedOnce
  <2>1. SUFFICES ASSUME EInv, NEW d \in deliveries, d.outcome # "quarantined",
                        Message(d.message).event # NoEvent
                 PROVE  Cardinality(DecisionsOf(deliveries, Message(d.message).event)) = 1
    BY DEF EventDecidedOnce, DecisionsOf, Decision
  <2>2. Message(d.message).event \in processed
    BY <2>1 DEF EInv, Heard
  <2>3. One(DecisionsOf(deliveries, Message(d.message).event))
    BY <2>1, <2>2 DEF EInv, Counted
  <2>. QED
    BY <2>3, FS_Singleton DEF One
<1>. QED
  BY <1>1, EInvAlways, PTL

=============================================================================
