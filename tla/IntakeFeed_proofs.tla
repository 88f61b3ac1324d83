-------------------------- MODULE IntakeFeed_proofs --------------------------
(***************************************************************************)
(* Billing sees of intake what BookingFeed says: every commit is, for each *)
(* booking, no more than one step of the feed for each message or answer   *)
(* in it (CommitIsFeedSteps), for any number of workers and for windows of *)
(* any length, as long as no message is replayed with an answer.           *)
(***************************************************************************)
EXTENDS Intake_proofs, FiniteSetTheorems

-----------------------------------------------------------------------------
\* 1. Steps of the feed.  What n of them can make of a booking is defined by a
\* recursive function on the numbers up to n.

\* What one more message or answer can make of any of these rows.
OneMore(S) == S \cup UNION {Feed!OneMessage(r) : r \in S}

\* f counts up what the steps can make of row, as far as n of them.
CountsUp(f, row, n) ==
    \A k \in 0 .. n : f[k] = IF k = 0 THEN {row} ELSE OneMore(f[k - 1])

\* A set of numbers that is not empty has a least one.
LEMMA LeastNumber ==
    ASSUME NEW A \in SUBSET Nat, A # {}
    PROVE  \E n \in A : \A m \in A : n =< m
<1>. DEFINE R == {p \in Nat \X Nat : p[1] < p[2]}
<1>1. IsWellFoundedOn(R, Nat)
  <2>1. R = OpToRel(<, Nat)
    BY Zenon DEF OpToRel
  <2>. QED
    BY <2>1, NatLessThanWellFounded, Zenon
<1>2. PICK n \in A : \A m \in A : <<m, n>> \notin R
  <2>. HIDE DEF R
  <2>. QED
    BY <1>1, WFMin
<1>3. \A m \in A : n =< m
  <2>. TAKE m \in A
  <2>1. <<m, n>> \notin R
    BY <1>2
  <2>. QED
    BY <2>1
<1>. QED
  BY <1>3

LEMMA StepsAreUnique ==
    ASSUME NEW row, NEW n \in Nat, NEW f, NEW g, CountsUp(f, row, n), CountsUp(g, row, n)
    PROVE  f[n] = g[n]
<1>. DEFINE A == {k \in 0 .. n : f[k] # g[k]}
<1>1. A = {}
  <2>. SUFFICES ASSUME A # {} PROVE FALSE
    OBVIOUS
  <2>1. PICK k \in A : \A j \in A : k =< j
    <3>1. A \in SUBSET Nat
      OBVIOUS
    <3>. HIDE DEF A
    <3>. QED
      BY <3>1, LeastNumber
  <2>2. CASE k = 0
    BY <2>2 DEF CountsUp
  <2>3. CASE k # 0
    <3>1. k - 1 \in 0 .. n /\ k - 1 \notin A
      BY <2>1, <2>3
    <3>2. f[k - 1] = g[k - 1]
      BY <3>1
    <3>3. f[k] = OneMore(f[k - 1]) /\ g[k] = OneMore(g[k - 1])
      BY <2>3 DEF CountsUp
    <3>4. f[k] = g[k]
      BY <3>2, <3>3, Zenon
    <3>. QED
      BY <3>4
  <2>. QED
    BY <2>2, <2>3
<1>. QED
  BY <1>1

LEMMA StepsExist ==
    ASSUME NEW row
    PROVE  \A n \in Nat : \E f : CountsUp(f, row, n)
<1>. DEFINE A == {n \in Nat : ~ \E f : CountsUp(f, row, n)}
<1>. SUFFICES ASSUME A # {} PROVE FALSE
  OBVIOUS
<1>1. PICK n \in A : \A m \in A : n =< m
  <2>1. A \in SUBSET Nat
    OBVIOUS
  <2>. HIDE DEF A
  <2>. QED
    BY <2>1, LeastNumber
<1>2. n # 0
  <2>. SUFFICES ASSUME n = 0 PROVE FALSE
    OBVIOUS
  <2>. DEFINE f == [k \in {0} |-> {row}]
  <2>1. CountsUp(f, row, 0)
    BY DEF CountsUp
  <2>. QED
    BY <2>1
<1>3. n - 1 \in Nat /\ n - 1 \notin A
  BY <1>1, <1>2
<1>4. PICK f : CountsUp(f, row, n - 1)
  BY <1>3
<1>. DEFINE g == [k \in 0 .. n |-> IF k = n THEN OneMore(f[n - 1]) ELSE f[k]]
<1>5. CountsUp(g, row, n)
  <2>. SUFFICES ASSUME NEW k \in 0 .. n
                PROVE  g[k] = IF k = 0 THEN {row} ELSE OneMore(g[k - 1])
    BY DEF CountsUp
  <2>1. CASE k = n
    <3>1. g[k - 1] = f[n - 1] /\ g[k] = OneMore(f[n - 1])
      BY <1>2, <1>3, <2>1
    <3>. QED
      BY <1>2, <2>1, <3>1, Zenon
  <2>2. CASE k = 0
    BY <1>2, <1>3, <1>4, <2>2 DEF CountsUp
  <2>3. CASE k # n /\ k # 0
    <3>1. k \in 0 .. n - 1 /\ k - 1 \in 0 .. n /\ k - 1 # n
      BY <1>3, <2>3
    <3>2. g[k] = f[k] /\ g[k - 1] = f[k - 1]
      BY <2>3, <3>1
    <3>3. f[k] = OneMore(f[k - 1])
      BY <1>4, <2>3, <3>1 DEF CountsUp
    <3>. QED
      BY <2>3, <3>2, <3>3, Zenon
  <2>. QED
    BY <2>1, <2>2, <2>3
<1>. QED
  BY <1>5

\* However it is chosen, a function that counts up gives the steps.
LEMMA AfterStepsOf ==
    ASSUME NEW row, NEW n \in Nat, NEW f, CountsUp(f, row, n)
    PROVE  AfterSteps(row, n) = f[n]
<1>. DEFINE Up(g) == [k \in 0 .. n |-> IF k = 0 THEN {row} ELSE OneMore(g[k - 1])]
            I == CHOOSE g : g = Up(g)
<1>1. PICK h : CountsUp(h, row, n)
  BY StepsExist
<1>. DEFINE G == [k \in 0 .. n |-> h[k]]
<1>2. G = Up(G)
  <2>1. \A k \in 0 .. n : k # 0 => k - 1 \in 0 .. n
    OBVIOUS
  <2>2. \A k \in 0 .. n : G[k] = IF k = 0 THEN {row} ELSE OneMore(G[k - 1])
    BY <1>1, <2>1 DEF CountsUp
  <2>. QED
    BY <2>2
<1>3. I = Up(I)
  <2>. HIDE DEF Up
  <2>. QED
    BY <1>2
<1>4. CountsUp(I, row, n)
  <2>. HIDE DEF I
  <2>. QED
    BY <1>3 DEF CountsUp
<1>5. AfterSteps(row, n) = I[n]
  BY DEF AfterSteps, OneMore
<1>6. f[n] = I[n]
  <2>. HIDE DEF I
  <2>. QED
    BY <1>4, StepsAreUnique
<1>. QED
  BY <1>5, <1>6

LEMMA AfterNoStep ==
    ASSUME NEW row
    PROVE  AfterSteps(row, 0) = {row}
<1>1. PICK f : CountsUp(f, row, 0)
  BY StepsExist
<1>2. f[0] = {row}
  <2>1. 0 \in 0 .. 0
    OBVIOUS
  <2>. QED
    BY <1>1, <2>1 DEF CountsUp
<1>3. AfterSteps(row, 0) = f[0]
  BY <1>1, AfterStepsOf
<1>. QED
  BY <1>2, <1>3, Zenon

LEMMA AfterOneMore ==
    ASSUME NEW row, NEW n \in Nat
    PROVE  AfterSteps(row, n + 1) = OneMore(AfterSteps(row, n))
<1>1. PICK f : CountsUp(f, row, n + 1)
  BY StepsExist
<1>2. CountsUp(f, row, n)
  <2>1. \A k \in 0 .. n : k \in 0 .. n + 1
    OBVIOUS
  <2>. QED
    BY <1>1, <2>1, Zenon DEF CountsUp
<1>3. AfterSteps(row, n + 1) = f[n + 1] /\ AfterSteps(row, n) = f[n]
  BY <1>1, <1>2, AfterStepsOf
<1>4. f[n + 1] = OneMore(f[n])
  BY <1>1 DEF CountsUp
<1>. QED
  BY <1>3, <1>4, Zenon

\* A step that is taken, or is not, is one more step.
LEMMA OneStepMore ==
    ASSUME NEW row, NEW n \in Nat, NEW r \in AfterSteps(row, n), NEW s,
           s = r \/ s \in Feed!OneMessage(r)
    PROVE  s \in AfterSteps(row, n + 1)
  BY AfterOneMore DEF OneMore

\* Steps need not be taken.
LEMMA StepsNeedNotBeTaken ==
    ASSUME NEW row
    PROVE  \A n \in Nat : row \in AfterSteps(row, n)
<1>. DEFINE A == {n \in Nat : row \notin AfterSteps(row, n)}
<1>. SUFFICES ASSUME A # {} PROVE FALSE
  OBVIOUS
<1>1. PICK n \in A : \A m \in A : n =< m
  <2>1. A \in SUBSET Nat
    OBVIOUS
  <2>. HIDE DEF A
  <2>. QED
    BY <2>1, LeastNumber
<1>2. n # 0
  BY AfterNoStep
<1>3. n - 1 \in Nat /\ n - 1 \notin A
  BY <1>1, <1>2
<1>4. row \in AfterSteps(row, (n - 1) + 1)
  BY <1>3, OneStepMore
<1>. QED
  BY <1>4

-----------------------------------------------------------------------------
\* 2. What billing sees of a booking, and what one message makes of it.

LiveStatus(row) ==
    CASE row.status = "unknown" -> "unknown"
      [] row.status = "cancelled" -> "cancelled"
      [] OTHER -> "live"

\* A row of the feed, put together.
Picture(status, amount, periods, held, asks, owed) ==
    [booking |-> [status |-> status, amount |-> amount, periods |-> periods,
                  undecided |-> held],
     question |-> asks, entitlement |-> owed]

Seen(row, owed, asks) ==
    Picture(LiveStatus(row), row.amount, row.periods, Held(row), asks, owed)

\* Such a row with its question and its hold, or its booking and its
\* obligation, written anew.
Marked(r, asks, held) == [r EXCEPT !.question = asks, !.booking.undecided = held]

Applied(r, new, owed) == [r EXCEPT !.booking = new, !.entitlement = owed]

\* The hold and the question are two of its fields.
LEMMA PictureFields ==
    ASSUME NEW status, NEW amount, NEW periods, NEW held, NEW asks, NEW owed
    PROVE  LET r == Picture(status, amount, periods, held, asks, owed) IN
           /\ r.booking.status = status /\ r.booking.undecided = held
           /\ r.question = asks /\ r.entitlement = owed
  BY DEF Picture

LEMMA PictureMarked ==
    ASSUME NEW status, NEW amount, NEW periods, NEW held, NEW asks, NEW owed,
           NEW held2, NEW asks2
    PROVE  Marked(Picture(status, amount, periods, held, asks, owed), asks2, held2)
               = Picture(status, amount, periods, held2, asks2, owed)
<1>. DEFINE r == Picture(status, amount, periods, held, asks, owed)
            r1 == Picture(status, amount, periods, held, asks2, owed)
            r2 == Picture(status, amount, periods, held2, asks2, owed)
<1>1. [r EXCEPT !.question = asks2] = r1
  BY DEF Picture
<1>2. [r1 EXCEPT !.booking.undecided = held2] = r2
  BY DEF Picture
<1>3. [r EXCEPT !.question = asks2, !.booking.undecided = held2]
         = [[r EXCEPT !.question = asks2] EXCEPT !.booking.undecided = held2]
  <2>. HIDE DEF r
  <2>. QED OBVIOUS
<1>. HIDE DEF r, r1, r2
<1>4. [r EXCEPT !.question = asks2, !.booking.undecided = held2] = r2
  BY <1>1, <1>2, <1>3, Zenon
<1>. QED
  BY <1>4, Zenon DEF r, r2, Marked

LEMMA PictureApplied ==
    ASSUME NEW status, NEW amount, NEW periods, NEW held, NEW asks, NEW owed,
           NEW status2, NEW amount2, NEW periods2, NEW owed2
    PROVE  Applied(Picture(status, amount, periods, held, asks, owed),
                   [status |-> status2, amount |-> amount2, periods |-> periods2,
                    undecided |-> held], owed2)
               = Picture(status2, amount2, periods2, held, asks, owed2)
<1>. DEFINE r == Picture(status, amount, periods, held, asks, owed)
            new == [status |-> status2, amount |-> amount2, periods |-> periods2,
                    undecided |-> held]
            r1 == Picture(status2, amount2, periods2, held, asks, owed)
            r2 == Picture(status2, amount2, periods2, held, asks, owed2)
<1>1. [r EXCEPT !.booking = new] = r1
  BY DEF Picture
<1>2. [r1 EXCEPT !.entitlement = owed2] = r2
  BY DEF Picture
<1>3. [r EXCEPT !.booking = new, !.entitlement = owed2]
         = [[r EXCEPT !.booking = new] EXCEPT !.entitlement = owed2]
  <2>. HIDE DEF r, new
  <2>. QED OBVIOUS
<1>. HIDE DEF r, r1, r2, new
<1>4. [r EXCEPT !.booking = new, !.entitlement = owed2] = r2
  BY <1>1, <1>2, <1>3, Zenon
<1>. QED
  BY <1>4, Zenon DEF r, r2, new, Applied

\* What the feed lists, field by field.
LEMMA FeedHold ==
    ASSUME NEW row, NEW owed, NEW asks, NEW seen
    PROVE  Feed!AfterHold(Seen(row, owed, asks), seen)
               = Picture(LiveStatus(row), row.amount, row.periods,
                         Held(row) \/ (seen /\ LiveStatus(row) # "unknown"), TRUE, owed)
<1>. DEFINE old == Seen(row, owed, asks)
            held == Held(row) \/ (seen /\ LiveStatus(row) # "unknown")
            open == TRUE
<1>1. old.booking.status = LiveStatus(row) /\ old.booking.undecided = Held(row)
  BY PictureFields DEF Seen
<1>2. Feed!AfterHold(old, seen) = Marked(old, open, held)
  <2>. HIDE DEF old
  <2>. QED
    BY <1>1, Zenon DEF Feed!AfterHold, Marked
<1>. HIDE DEF held, open
<1>3. Feed!AfterHold(old, seen)
          = Picture(LiveStatus(row), row.amount, row.periods, held, open, owed)
  BY <1>2, PictureMarked DEF Seen
<1>. QED
  BY <1>3 DEF held, open

LEMMA FeedAnswer ==
    ASSUME NEW row, NEW owed, NEW asks, NEW sawHold, NEW sawItems
    PROVE  Feed!AfterAnswer(Seen(row, owed, asks), sawHold, sawItems)
               = Picture(LiveStatus(row), row.amount, row.periods,
                         Held(row) /\ ~sawHold, asks /\ ~sawItems, owed)
<1>. DEFINE old == Seen(row, owed, asks)
            held == Held(row) /\ ~sawHold
            open == asks /\ ~sawItems
<1>1. old.question = asks /\ old.booking.undecided = Held(row)
  BY PictureFields DEF Seen
<1>2. Feed!AfterAnswer(old, sawHold, sawItems) = Marked(old, open, held)
  <2>. HIDE DEF old
  <2>. QED
    BY <1>1, Zenon DEF Feed!AfterAnswer, Marked
<1>. HIDE DEF held, open
<1>3. Feed!AfterAnswer(old, sawHold, sawItems)
          = Picture(LiveStatus(row), row.amount, row.periods, held, open, owed)
  BY <1>2, PictureMarked DEF Seen
<1>. QED
  BY <1>3 DEF held, open

LEMMA FeedOneMessage ==
    ASSUME NEW r
    PROVE  /\ \A seen \in BOOLEAN : Feed!AfterHold(r, seen) \in Feed!OneMessage(r)
           /\ \A sawHold, sawItems \in BOOLEAN :
                  Feed!AfterAnswer(r, sawHold, sawItems) \in Feed!OneMessage(r)
           /\ \A status \in Feed!Statuses, amount \in Amounts, periods \in Windows :
                  Feed!AfterDelivery(r, status, amount, periods) \in Feed!OneMessage(r)
<1>1. \A seen \in BOOLEAN :
          Feed!AfterHold(r, seen) \in {Feed!AfterHold(r, x) : x \in BOOLEAN}
  BY Zenon
<1>2. \A sawHold, sawItems \in BOOLEAN :
          Feed!AfterAnswer(r, sawHold, sawItems)
              \in {Feed!AfterAnswer(r, x, y) : x \in BOOLEAN, y \in BOOLEAN}
  OBVIOUS
<1>3. \A status \in Feed!Statuses, amount \in Amounts, periods \in Windows :
          Feed!AfterDelivery(r, status, amount, periods)
              \in {Feed!AfterDelivery(r, x, y, z) : x \in Feed!Statuses, y \in Amounts,
                                                    z \in Windows}
  OBVIOUS
<1>. QED
  BY <1>1, <1>2, <1>3 DEF Feed!OneMessage

\* The message is applied.
LEMMA SeenApplied ==
    ASSUME NEW m \in Messages, ~Refused(Message(m)), NEW row, NEW new, NEW owed, NEW asks,
           LET values == BookingValues(Message(m), m) IN
           \A c \in {"status", "amount", "periods"} : new[c] = values[c],
           new["undecided"] = row["undecided"]
    PROVE  LET values == BookingValues(Message(m), m) IN
           Seen(new, ReconcileEntitlement(owed, values), asks)
               \in Feed!OneMessage(Seen(row, owed, asks))
<1>. DEFINE values == BookingValues(Message(m), m)
            old == Seen(row, owed, asks)
            status == LiveStatus(values)
<1>1. /\ values.status \in Status \ {"unknown"} /\ values.amount \in Amounts
      /\ values.periods \in Windows
  BY MessageColumns
<1>. HIDE DEF values
<1>2. /\ new.status = values.status /\ new.amount = values.amount
      /\ new.periods = values.periods /\ new.undecided = row.undecided
  BY DEF values
<1>3. status \in Feed!Statuses /\ LiveStatus(new) = status
  BY <1>1, <1>2 DEF Status, Feed!Statuses, LiveStatus
<1>4. ReconcileEntitlement(owed, values)
          = Feed!ReconcileEntitlement(owed, status, values.periods)
  BY <1>1 DEF ReconcileEntitlement, Feed!ReconcileEntitlement, LiveStatus, Status
<1>. HIDE DEF status
<1>5. Seen(new, ReconcileEntitlement(owed, values), asks)
          = Feed!AfterDelivery(old, status, values.amount, values.periods)
  <2>1. Held(new) = Held(row)
    BY <1>2 DEF Held
  <2>2. Seen(new, ReconcileEntitlement(owed, values), asks)
            = Picture(status, values.amount, values.periods, Held(row), asks,
                      ReconcileEntitlement(owed, values))
    BY <1>2, <1>3, <2>1, Zenon DEF Seen
  <2>3. old.booking.undecided = Held(row) /\ old.entitlement = owed
    BY PictureFields DEF Seen
  <2>4. Feed!AfterDelivery(old, status, values.amount, values.periods)
            = Applied(old, [status |-> status, amount |-> values.amount,
                            periods |-> values.periods, undecided |-> Held(row)],
                      Feed!ReconcileEntitlement(owed, status, values.periods))
    <3>. HIDE DEF old
    <3>. QED
      BY <2>3, Zenon DEF Feed!AfterDelivery, Applied
  <2>. QED
    BY <1>4, <2>2, <2>4, PictureApplied DEF Seen
<1>. QED
  BY <1>1, <1>3, <1>5, FeedOneMessage, Zenon DEF values

\* The message holds a booking that is known.
LEMMA SeenHeld ==
    ASSUME NEW row \in BookingRow, Known(row), NEW reason \in Reasons \ {"no"},
           NEW owed, NEW asks
    PROVE  Seen([row EXCEPT !.undecided = reason], owed, TRUE)
               \in Feed!OneMessage(Seen(row, owed, asks))
<1>1. /\ [row EXCEPT !.undecided = reason].status = row.status
      /\ [row EXCEPT !.undecided = reason].amount = row.amount
      /\ [row EXCEPT !.undecided = reason].periods = row.periods
      /\ [row EXCEPT !.undecided = reason].undecided = reason
  BY DEF BookingRow
<1>2. LiveStatus(row) # "unknown"
  BY DEF LiveStatus, Known, BookingRow, Status
<1>3. Seen([row EXCEPT !.undecided = reason], owed, TRUE)
          = Feed!AfterHold(Seen(row, owed, asks), TRUE)
  <2>1. Seen([row EXCEPT !.undecided = reason], owed, TRUE)
            = Picture(LiveStatus(row), row.amount, row.periods, TRUE, TRUE, owed)
    BY <1>1 DEF Seen, Held, LiveStatus
  <2>2. (Held(row) \/ (TRUE /\ LiveStatus(row) # "unknown")) = TRUE
    BY <1>2
  <2>. QED
    BY <2>1, <2>2, FeedHold, Zenon
<1>. QED
  BY <1>3, FeedOneMessage, Zenon

\* The message only opens a question.
LEMMA SeenAsked ==
    ASSUME NEW row, NEW owed, NEW asks
    PROVE  Seen(row, owed, TRUE) \in Feed!OneMessage(Seen(row, owed, asks))
<1>1. Seen(row, owed, TRUE) = Feed!AfterHold(Seen(row, owed, asks), FALSE)
  <2>1. (Held(row) \/ (FALSE /\ LiveStatus(row) # "unknown")) = Held(row)
    BY DEF Held
  <2>. QED
    BY <2>1, FeedHold, Zenon DEF Seen
<1>. QED
  BY <1>1, FeedOneMessage, Zenon

\* An answer closes the question or not, and lifts the hold or not.
LEMMA SeenAnswered ==
    ASSUME NEW row \in BookingRow, NEW new, NEW owed,
           new = row \/ new = [row EXCEPT !.undecided = "no"],
           NEW before \in BOOLEAN, NEW after \in BOOLEAN, after => before
    PROVE  Seen(new, owed, after) \in Feed!OneMessage(Seen(row, owed, before))
<1>. DEFINE sawHold == ~Held(new)
            sawItems == ~after
<1>1. /\ new.status = row.status /\ new.amount = row.amount /\ new.periods = row.periods
      /\ Held(new) = (Held(row) /\ ~sawHold)
  BY DEF BookingRow, Held
<1>2. sawHold \in BOOLEAN /\ sawItems \in BOOLEAN
  BY DEF Held
<1>3. after = (before /\ ~sawItems)
  OBVIOUS
<1>4. Seen(new, owed, after) = Feed!AfterAnswer(Seen(row, owed, before), sawHold, sawItems)
  <2>. HIDE DEF sawHold, sawItems
  <2>1. Seen(new, owed, after)
            = Picture(LiveStatus(row), row.amount, row.periods, Held(row) /\ ~sawHold,
                      before /\ ~sawItems, owed)
    BY <1>1, <1>3 DEF Seen, LiveStatus
  <2>2. Feed!AfterAnswer(Seen(row, owed, before), sawHold, sawItems)
            = Picture(LiveStatus(row), row.amount, row.periods, Held(row) /\ ~sawHold,
                      before /\ ~sawItems, owed)
    BY FeedAnswer
  <2>. QED
    BY <2>1, <2>2
<1>. QED
  BY <1>2, <1>4, FeedOneMessage, Zenon

-----------------------------------------------------------------------------
\* 3. The invariant.

\* The log names the booking in a question.
Asks(log, b) == \E d \in log : d.outcome \in Questions /\ RefOf(d.message) = b

\* The row and the obligation of b as transaction t would leave them.
Read(t, b) == IF b \in t.locks THEN t.rows[b] ELSE booking[b]

Due(t, b) == IF b \in t.locks THEN t.owed[b] ELSE entitlement[b]

\* What a transaction would leave of a booking is what as many steps of the feed
\* as it has decided messages can make of it.
Follows(t) ==
    \A b \in Bookings : \A before, after \in BOOLEAN :
        (after <=> before \/ Asks(t.log, b)) =>
            Seen(Read(t, b), Due(t, b), after)
                \in AfterSteps(Seen(booking[b], entitlement[b], before), Cardinality(t.log))

\* An answer decides no message, and writes nothing but that a hold is lifted.
OnlyLifts(t) ==
    /\ t.log = {}
    /\ \A b \in t.locks : /\ t.rows[b] = [booking[b] EXCEPT !.undecided = "no"]
                          /\ t.owed[b] = entitlement[b]

Keeping(t) ==
    /\ t.asked = Blank => t.closed = {} /\ Follows(t)
    /\ t.asked # Blank => OnlyLifts(t)
    /\ t.at = "mark" => Known(Read(t, Message(Head(t.todo)).ref))

\* The numbers of the deliveries in a log.
IdsOf(log) == {d.id : d \in log}

\* The numbers a transaction has used, and those it still has for its messages.
Numbers(t) == IdsOf(t.log) \cup (t.id .. (t.id + Len(t.todo) - 1))

\* A transaction numbers its decisions one after the other, and nobody else has
\* used the numbers it has.
Numbered(t) ==
    /\ IsFiniteSet(t.log)
    /\ \A n \in IdsOf(t.log) : n < t.id
    /\ \A n \in Numbers(t) : n =< received /\ n \notin IdsOf(deliveries)
    /\ t.seen \subseteq IdsOf(deliveries) /\ t.closed \subseteq IdsOf(deliveries)

OwnNumbers ==
    \A w \in Workers : \A v \in Workers \ {w} : Numbers(tx[v]) \cap Numbers(tx[w]) = {}

FInv ==
    /\ \A n \in IdsOf(deliveries) : n =< received
    /\ answered \subseteq IdsOf(deliveries)
    /\ OwnNumbers
    /\ \A w \in Workers : Keeping(tx[w]) /\ Numbered(tx[w])

-----------------------------------------------------------------------------
\* A transaction that has not locked a booking has at most asked about it,
\* whoever else has written it meanwhile.
LEMMA UnlockedFollows ==
    ASSUME NEW log, IsFiniteSet(log), NEW row, NEW owed, NEW b,
           NEW before \in BOOLEAN, NEW after \in BOOLEAN, after <=> before \/ Asks(log, b)
    PROVE  Seen(row, owed, after) \in AfterSteps(Seen(row, owed, before), Cardinality(log))
<1>1. Cardinality(log) \in Nat
  BY FS_CardinalityType
<1>2. CASE after = before
  <2>1. Seen(row, owed, before) \in AfterSteps(Seen(row, owed, before), Cardinality(log))
    BY <1>1, StepsNeedNotBeTaken
  <2>. QED
    BY <1>2, <2>1, Zenon
<1>3. CASE after # before
  <2>1. after = TRUE /\ Asks(log, b)
    BY <1>3
  <2>2. log # {}
    BY <2>1 DEF Asks
  <2>3. Cardinality(log) - 1 \in Nat
    BY <1>1, <2>2, FS_EmptySet
  <2>. DEFINE n == Cardinality(log) - 1
  <2>4. Seen(row, owed, before) \in AfterSteps(Seen(row, owed, before), n)
    BY <2>3, StepsNeedNotBeTaken
  <2>5. Seen(row, owed, TRUE) \in Feed!OneMessage(Seen(row, owed, before))
    BY SeenAsked
  <2>6. Seen(row, owed, TRUE) \in AfterSteps(Seen(row, owed, before), n + 1)
    <3>. HIDE DEF n
    <3>. QED
      BY <2>3, <2>4, <2>5, OneStepMore DEF n
  <2>7. n + 1 = Cardinality(log)
    BY <1>1
  <2>. QED
    BY <2>1, <2>6, <2>7, Zenon
<1>. QED
  BY <1>2, <1>3

\* The decision of one message is one step of the feed, or none.
OneStepOf(t, n, d) ==
    \A b \in Bookings : \A before, after \in BOOLEAN :
        (after <=> before \/ Asks({d}, b)) =>
            LET old == Seen(Read(t, b), Due(t, b), before)
                new == Seen(Read(n, b), Due(n, b), after)
            IN  new = old \/ new \in Feed!OneMessage(old)

LEMMA LoggedFollows ==
    ASSUME NEW t, NEW n, NEW d, IsFiniteSet(t.log), d \notin t.log, n.log = t.log \cup {d},
           Follows(t), OneStepOf(t, n, d)
    PROVE  Follows(n)
<1>. SUFFICES ASSUME NEW b \in Bookings, NEW before \in BOOLEAN, NEW after \in BOOLEAN,
                     after <=> before \/ Asks(n.log, b)
              PROVE  Seen(Read(n, b), Due(n, b), after)
                       \in AfterSteps(Seen(booking[b], entitlement[b], before), Cardinality(n.log))
  BY DEF Follows
<1>. DEFINE start == Seen(booking[b], entitlement[b], before)
            count == Cardinality(t.log)
<1>1. Asks(n.log, b) <=> Asks(t.log, b) \/ Asks({d}, b)
  BY DEF Asks
<1>2. PICK mid \in BOOLEAN : mid <=> before \/ Asks(t.log, b)
  <2>1. \E x \in BOOLEAN : x <=> before \/ Asks(t.log, b)
    <3>1. CASE before \/ Asks(t.log, b)
      BY <3>1
    <3>2. CASE ~(before \/ Asks(t.log, b))
      BY <3>2
    <3>. QED
      BY <3>1, <3>2
  <2>. QED
    BY <2>1
<1>. DEFINE old == Seen(Read(t, b), Due(t, b), mid)
            new == Seen(Read(n, b), Due(n, b), after)
<1>3. old \in AfterSteps(start, count)
  BY <1>2 DEF Follows
<1>4. new = old \/ new \in Feed!OneMessage(old)
  <2>1. after <=> mid \/ Asks({d}, b)
    BY <1>1, <1>2
  <2>. QED
    BY <2>1 DEF OneStepOf
<1>5. count \in Nat /\ Cardinality(n.log) = count + 1
  BY FS_CardinalityType, FS_AddElement
<1>. HIDE DEF old, new, start, count
<1>6. new \in AfterSteps(start, count + 1)
  BY <1>3, <1>4, <1>5, OneStepMore
<1>. QED
  BY <1>5, <1>6, Zenon DEF new, start

\* A step of one worker that commits nothing.
LEMMA FStepKeeps ==
    ASSUME IInv, FInv, NEW w \in Workers, NEW n, Step(w, n), Keeping(n), Numbered(n),
           Numbers(n) \subseteq Numbers(tx[w])
    PROVE  FInv'
<1>1. /\ tx'[w] = n /\ \A v \in Workers \ {w} : tx'[v] = tx[v]
      /\ UNCHANGED <<booking, entitlement, deliveries, answered, received>>
  BY DEF Step, IInv, TypeOK
<1>2. \A x : /\ Keeping(x) => Keeping(x)'
             /\ Numbered(x) => Numbered(x)'
  BY <1>1 DEF Keeping, Follows, OnlyLifts, Read, Due, Numbered
<1>3. OwnNumbers'
  <2>1. \A v \in Workers : Numbers(tx'[v]) \subseteq Numbers(tx[v])
    BY <1>1
  <2>2. OwnNumbers
    BY DEF FInv
  <2>3. \A v, x \in Workers : Numbers(tx[v]) \cap Numbers(tx[x]) = {}
                                  => Numbers(tx'[v]) \cap Numbers(tx'[x]) = {}
    BY <2>1
  <2>. QED
    BY <2>2, <2>3 DEF OwnNumbers
<1>4. \A v \in Workers : (Keeping(tx[v]) /\ Numbered(tx[v]))'
  BY <1>1, <1>2 DEF FInv
<1>. QED
  BY <1>1, <1>3, <1>4 DEF FInv, IdsOf


\* A message is decided, or not looked at, and logged.
LEMMA LoggedKeeps ==
    ASSUME IInv, FInv, NEW w \in Workers, tx[w].todo # <<>>, NEW n, NEW d,
           n.at = "next", n.todo = Tail(tx[w].todo), n.id = tx[w].id + 1, n.asked = tx[w].asked,
           n.seen = tx[w].seen, n.closed = tx[w].closed,
           n.log = tx[w].log \cup {d}, d.id = tx[w].id,
           OneStepOf(tx[w], n, d), Step(w, n)
    PROVE  FInv'
<1>. DEFINE t == tx[w]
<1>1. /\ t.asked = Blank /\ t.id \in Nat /\ t.todo \in Seq(Messages)
      /\ Keeping(t) /\ Numbered(t)
  BY CurrentMessage DEF Transaction, FInv
<1>2. /\ Len(t.todo) \in Nat \ {0} /\ Len(Tail(t.todo)) = Len(t.todo) - 1
  BY <1>1
<1>3. IdsOf(n.log) = IdsOf(t.log) \cup {t.id}
  BY DEF IdsOf
<1>4. d \notin t.log
  <2>1. d \in t.log => t.id \in IdsOf(t.log)
    BY DEF IdsOf
  <2>2. t.id \notin IdsOf(t.log)
    BY <1>1 DEF Numbered
  <2>. QED
    BY <2>1, <2>2
<1>. HIDE DEF t
<1>5. Numbers(n) \subseteq Numbers(t)
  <2>1. n.id = t.id + 1 /\ Len(n.todo) = Len(t.todo) - 1
    BY <1>2 DEF t
  <2>2. n.id .. (n.id + Len(n.todo) - 1) \subseteq t.id .. (t.id + Len(t.todo) - 1)
    BY <1>1, <1>2, <2>1
  <2>3. t.id \in t.id .. (t.id + Len(t.todo) - 1)
    BY <1>1, <1>2
  <2>. QED
    BY <1>3, <2>2, <2>3 DEF Numbers
<1>6. Numbered(n)
  <2>1. IsFiniteSet(n.log)
    <3>1. IsFiniteSet(t.log) /\ n.log = t.log \cup {d}
      BY <1>1 DEF Numbered, t
    <3>. QED
      BY <3>1, FS_AddElement
  <2>2. \A k \in IdsOf(n.log) : k < n.id
    <3>1. IdsOf(t.log) \subseteq Int
      BY DEF IInv, TypeOK, Transaction, Delivery, IdsOf, t
    <3>. QED
      BY <1>1, <1>3, <3>1 DEF Numbered, t
  <2>3. /\ n.seen = t.seen /\ n.closed = t.closed
    BY DEF t
  <2>. QED
    BY <1>1, <1>5, <2>1, <2>2, <2>3 DEF Numbered
<1>7. Keeping(n)
  <2>1. Follows(n)
    BY <1>1, <1>4, LoggedFollows DEF Keeping, Numbered, t
  <2>2. n.closed = {} /\ n.asked = Blank /\ n.at = "next"
    BY <1>1 DEF Keeping, t
  <2>. QED
    BY <2>1, <2>2 DEF Keeping
<1>. QED
  BY <1>5, <1>6, <1>7, FStepKeeps DEF t

\* What logging a message does to the numbers.
LEMMA DecidedNumbers ==
    ASSUME NEW t \in Transaction, NEW m, NEW outcome
    PROVE  LET n == Decided(t, m, outcome) IN
           /\ n.at = "next" /\ n.todo = Tail(t.todo) /\ n.id = t.id + 1 /\ n.asked = t.asked
           /\ n.seen = t.seen /\ n.closed = t.closed
           /\ n.locks = t.locks /\ n.rows = t.rows /\ n.owed = t.owed
           /\ \E d : /\ n.log = t.log \cup {d}
                     /\ d.id = t.id /\ d.message = m /\ d.outcome = outcome
<1>. DEFINE d == [id |-> t.id, message |-> m, outcome |-> outcome,
                  channel |-> IF t.asked = Blank THEN "partner" ELSE "replay"]
            n == Decided(t, m, outcome)
<1>1. d.id = t.id /\ d.message = m /\ d.outcome = outcome
  OBVIOUS
<1>. HIDE DEF d
<1>2. n = [t EXCEPT !.at = "next", !.todo = Tail(@), !.id = @ + 1, !.log = @ \cup {d}]
  BY DEF Decided, d
<1>3. /\ n.at = "next" /\ n.todo = Tail(t.todo) /\ n.id = t.id + 1 /\ n.asked = t.asked
      /\ n.seen = t.seen /\ n.closed = t.closed
      /\ n.locks = t.locks /\ n.rows = t.rows /\ n.owed = t.owed
      /\ n.log = t.log \cup {d}
  BY <1>2 DEF Transaction
<1>. QED
  BY <1>1, <1>3

-----------------------------------------------------------------------------
\* 4. The steps of a transaction.

LEMMA RefuseFollows ==
    ASSUME IInv, FInv, NEW w \in Workers, Refuse(w)
    PROVE  FInv'
<1>. DEFINE t == tx[w]
            m == Current(w)
            known == SessionObject(t, Message(m).ref, Row(w, Message(m).ref))
            marking == [t EXCEPT !.at = "mark", !.object = known]
            filed == Decided(t, m, "quarantined")
<1>1. t.todo # <<>> /\ Refused(Message(m)) /\ t.at = "next"
  BY DEF Refuse
<1>2. /\ m \in Messages /\ t.asked = Blank /\ t \in Transaction
      /\ \A b \in Bookings : \A row : SessionObject(t, b, row) = row
      /\ Keeping(t) /\ Numbered(t)
  BY <1>1, CurrentMessage DEF FInv
<1>3. Message(m).ref \in Bookings \cup {Blank}
  BY <1>1, <1>2, MessageFacts
<1>4. CASE Message(m).ref # Blank /\ Known(known) /\ Step(w, marking)
  <2>1. /\ marking.at = "mark" /\ marking.todo = t.todo /\ marking.id = t.id
        /\ marking.asked = t.asked /\ marking.log = t.log /\ marking.closed = t.closed
        /\ marking.seen = t.seen
        /\ marking.locks = t.locks /\ marking.rows = t.rows /\ marking.owed = t.owed
    BY <1>2 DEF Transaction
  <2>2. Known(Read(marking, Message(m).ref))
    BY <1>2, <1>3, <1>4, <2>1 DEF Read, Row
  <2>. HIDE DEF marking, known
  <2>3. Keeping(marking)
    <3>1. \A b : Read(marking, b) = Read(t, b) /\ Due(marking, b) = Due(t, b)
      BY <2>1 DEF Read, Due
    <3>2. Follows(marking)
      BY <1>2, <2>1, <3>1 DEF Keeping, Follows
    <3>. QED
      BY <1>2, <2>1, <2>2, <3>2 DEF Keeping, Current
  <2>4. Numbered(marking) /\ Numbers(marking) \subseteq Numbers(t)
    BY <1>2, <2>1 DEF Numbered, Numbers
  <2>. QED
    BY <1>4, <2>3, <2>4, FStepKeeps
<1>5. CASE Step(w, filed)
  <2>. HIDE DEF t, m
  <2>1. PICK d : /\ filed.log = t.log \cup {d} /\ d.id = t.id
                 /\ d.message = m /\ d.outcome = "quarantined"
    BY <1>2, DecidedNumbers
  <2>2. /\ filed.at = "next" /\ filed.todo = Tail(t.todo) /\ filed.id = t.id + 1
        /\ filed.asked = t.asked /\ filed.seen = t.seen /\ filed.closed = t.closed
        /\ filed.locks = t.locks /\ filed.rows = t.rows /\ filed.owed = t.owed
    BY <1>2, DecidedNumbers
  <2>. HIDE DEF filed
  <2>3. OneStepOf(t, filed, d)
    <3>. SUFFICES ASSUME NEW b \in Bookings, NEW before \in BOOLEAN, NEW after \in BOOLEAN,
                         after <=> before \/ Asks({d}, b)
                  PROVE  LET old == Seen(Read(t, b), Due(t, b), before)
                             new == Seen(Read(filed, b), Due(filed, b), after)
                         IN  new = old \/ new \in Feed!OneMessage(old)
      BY DEF OneStepOf
    <3>1. Read(filed, b) = Read(t, b) /\ Due(filed, b) = Due(t, b)
      BY <2>2 DEF Read, Due
    <3>2. after = before \/ after = TRUE
      OBVIOUS
    <3>3. Seen(Read(t, b), Due(t, b), TRUE)
              \in Feed!OneMessage(Seen(Read(t, b), Due(t, b), before))
      BY SeenAsked
    <3>. QED
      BY <3>1, <3>2, <3>3, Zenon
  <2>. QED
    BY <1>1, <1>5, <2>1, <2>2, <2>3, LoggedKeeps DEF t
<1>. QED
  BY <1>4, <1>5 DEF Refuse

LEMMA RepeatFollows ==
    ASSUME IInv, FInv, NEW w \in Workers, RepeatOfEvent(w)
    PROVE  FInv'
<1>. DEFINE t == tx[w]
            m == Current(w)
            repeat == Decided(t, m, "repeat_of_event")
<1>1. t.todo # <<>> /\ Step(w, repeat)
  BY DEF RepeatOfEvent
<1>2. t \in Transaction
  BY <1>1, CurrentMessage
<1>. HIDE DEF t, m
<1>3. PICK d : /\ repeat.log = t.log \cup {d} /\ d.id = t.id
               /\ d.message = m /\ d.outcome = "repeat_of_event"
  BY <1>2, DecidedNumbers
<1>4. /\ repeat.at = "next" /\ repeat.todo = Tail(t.todo) /\ repeat.id = t.id + 1
      /\ repeat.asked = t.asked /\ repeat.seen = t.seen /\ repeat.closed = t.closed
      /\ repeat.locks = t.locks /\ repeat.rows = t.rows /\ repeat.owed = t.owed
  BY <1>2, DecidedNumbers
<1>. HIDE DEF repeat
<1>5. OneStepOf(t, repeat, d)
  <2>. SUFFICES ASSUME NEW b \in Bookings, NEW before \in BOOLEAN, NEW after \in BOOLEAN,
                       after <=> before \/ Asks({d}, b)
                PROVE  Seen(Read(repeat, b), Due(repeat, b), after)
                           = Seen(Read(t, b), Due(t, b), before)
    BY DEF OneStepOf
  <2>1. Read(repeat, b) = Read(t, b) /\ Due(repeat, b) = Due(t, b)
    BY <1>4 DEF Read, Due
  <2>2. after = before
    BY <1>3 DEF Asks, Questions
  <2>. QED
    BY <2>1, <2>2, Zenon
<1>. QED
  BY <1>1, <1>3, <1>4, <1>5, LoggedKeeps DEF t

LEMMA ClaimFollows ==
    ASSUME IInv, FInv, NEW w \in Workers, ClaimEvent(w)
    PROVE  FInv'
<1>. DEFINE t == tx[w]
            event == Message(Current(w)).event
            claiming == InsertEvent(t, event)
<1>1. t.todo # <<>> /\ Step(w, claiming)
  BY DEF ClaimEvent
<1>2. t \in Transaction /\ t.asked = Blank /\ Keeping(t) /\ Numbered(t)
  BY <1>1, CurrentMessage DEF FInv
<1>. HIDE DEF event
<1>3. /\ claiming.at = "decide" /\ claiming.todo = t.todo /\ claiming.id = t.id
      /\ claiming.asked = t.asked /\ claiming.log = t.log /\ claiming.closed = t.closed
      /\ claiming.seen = t.seen
      /\ claiming.locks = t.locks /\ claiming.rows = t.rows /\ claiming.owed = t.owed
  BY <1>2 DEF InsertEvent, Transaction
<1>. HIDE DEF claiming
<1>4. Keeping(claiming)
  <2>1. \A b : Read(claiming, b) = Read(t, b) /\ Due(claiming, b) = Due(t, b)
    BY <1>3 DEF Read, Due
  <2>. QED
    BY <1>2, <1>3, <2>1 DEF Keeping, Follows
<1>5. Numbered(claiming) /\ Numbers(claiming) \subseteq Numbers(t)
  BY <1>2, <1>3 DEF Numbered, Numbers
<1>. QED
  BY <1>1, <1>4, <1>5, FStepKeeps


\* A message is decided and the row of its booking written: what becomes of the
\* transaction, before the obligation or the session's object is set.
LEMMA DecidedWriteNumbers ==
    ASSUME IInv, NEW w \in Workers, tx[w].todo # <<>>, NEW b \in Bookings,
           NEW row \in BookingRow, NEW outcome \in Outcomes
    PROVE  LET t == tx[w]
               n == Decided(Write(t, w, b, row), Current(w), outcome)
           IN  /\ n.at = "next" /\ n.todo = Tail(t.todo) /\ n.id = t.id + 1
               /\ n.asked = t.asked /\ n.seen = t.seen /\ n.closed = t.closed
               /\ n.locks = t.locks \cup {b}
               /\ n.rows = [t.rows EXCEPT ![b] = row]
               /\ n.owed = [t.owed EXCEPT ![b] = Owed(w, b)]
               /\ \E d : /\ n.log = t.log \cup {d}
                         /\ d.id = t.id /\ d.message = Current(w) /\ d.outcome = outcome
<1>. DEFINE t == tx[w]
            m == Current(w)
            written == Write(t, w, b, row)
            n == Decided(written, m, outcome)
<1>1. t \in Transaction /\ Owed(w, b) \in EntitlementRow
  BY CurrentMessage, RowRead
<1>2. /\ written \in Transaction /\ written.locks = t.locks \cup {b}
      /\ written.rows = [t.rows EXCEPT ![b] = row]
      /\ written.owed = [t.owed EXCEPT ![b] = Owed(w, b)]
      /\ written.todo = t.todo /\ written.id = t.id /\ written.asked = t.asked
      /\ written.seen = t.seen /\ written.log = t.log /\ written.closed = t.closed
  <2>. HIDE DEF t
  <2>. QED
    BY <1>1, WriteFields
<1>. HIDE DEF written, m
<1>3. /\ n.at = "next" /\ n.todo = Tail(written.todo) /\ n.id = written.id + 1
      /\ n.asked = written.asked /\ n.seen = written.seen /\ n.closed = written.closed
      /\ n.locks = written.locks /\ n.rows = written.rows /\ n.owed = written.owed
      /\ \E d : /\ n.log = written.log \cup {d}
                /\ d.id = written.id /\ d.message = m /\ d.outcome = outcome
  BY <1>2, DecidedNumbers
<1>. QED
  BY <1>2, <1>3 DEF written, m

\* What it leaves of the booking is one step of the feed, or nothing new.
OneStepTo(w, b, row, owed, outcome) ==
    \A before, after \in BOOLEAN :
        (after <=> before \/ outcome \in Questions) =>
            LET old == Seen(Row(w, b), Owed(w, b), before)
                new == Seen(row, owed, after)
            IN  new = old \/ new \in Feed!OneMessage(old)

\* A message is decided under the lock of its booking, and what it leaves of the
\* booking is one step of the feed, or nothing new.
LEMMA WrittenFollows ==
    ASSUME IInv, FInv, NEW w \in Workers, tx[w].todo # <<>>, NEW b \in Bookings,
           RefOf(Current(w)) = b, NEW row, NEW owed, NEW outcome, NEW n, Step(w, n),
           n.at = "next", n.todo = Tail(tx[w].todo), n.id = tx[w].id + 1,
           n.asked = tx[w].asked, n.seen = tx[w].seen, n.closed = tx[w].closed,
           n.locks = tx[w].locks \cup {b},
           n.rows = [tx[w].rows EXCEPT ![b] = row],
           n.owed = [tx[w].owed EXCEPT ![b] = owed],
           \E d : /\ n.log = tx[w].log \cup {d}
                  /\ d.id = tx[w].id /\ d.message = Current(w) /\ d.outcome = outcome,
           OneStepTo(w, b, row, owed, outcome)
    PROVE  FInv'
<1>. DEFINE t == tx[w]
            m == Current(w)
<1>1. PICK d : /\ n.log = t.log \cup {d}
               /\ d.id = t.id /\ d.message = m /\ d.outcome = outcome
  OBVIOUS
<1>2. /\ Read(n, b) = row /\ Due(n, b) = owed
      /\ \A c \in Bookings \ {b} : Read(n, c) = Read(t, c) /\ Due(n, c) = Due(t, c)
      /\ Read(t, b) = Row(w, b) /\ Due(t, b) = Owed(w, b)
  <2>1. /\ n.locks = tx[w].locks \cup {b}
        /\ n.rows = [tx[w].rows EXCEPT ![b] = row]
        /\ n.owed = [tx[w].owed EXCEPT ![b] = owed]
    OBVIOUS
  <2>. HIDE DEF t
  <2>2. tx[w].rows \in [Bookings -> BookingRow] /\ tx[w].owed \in [Bookings -> EntitlementRow]
    BY DEF IInv, TypeOK, Transaction
  <2>3. \A c \in Bookings : /\ Read(n, c) = IF c = b THEN row ELSE Read(tx[w], c)
                            /\ Due(n, c) = IF c = b THEN owed ELSE Due(tx[w], c)
    BY <2>1, <2>2 DEF Read, Due
  <2>. QED
    BY <2>3 DEF Read, Due, Row, Owed, t
<1>. HIDE DEF m
<1>3. \A c : Asks({d}, c) <=> outcome \in Questions /\ c = b
  BY <1>1 DEF Asks, m
<1>4. OneStepOf(t, n, d)
  <2>. SUFFICES ASSUME NEW c \in Bookings, NEW before \in BOOLEAN, NEW after \in BOOLEAN,
                       after <=> before \/ Asks({d}, c)
                PROVE  LET old == Seen(Read(t, c), Due(t, c), before)
                           new == Seen(Read(n, c), Due(n, c), after)
                       IN  new = old \/ new \in Feed!OneMessage(old)
    BY DEF OneStepOf
  <2>1. CASE c = b
    <3>1. after <=> before \/ outcome \in Questions
      BY <1>3, <2>1
    <3>2. LET old == Seen(Row(w, b), Owed(w, b), before)
              new == Seen(row, owed, after)
          IN  new = old \/ new \in Feed!OneMessage(old)
      BY <3>1 DEF OneStepTo
    <3>. QED
      BY <1>2, <2>1, <3>2, Zenon
  <2>2. CASE c # b
    <3>1. after = before
      BY <1>3, <2>2
    <3>2. Read(n, c) = Read(t, c) /\ Due(n, c) = Due(t, c)
      BY <1>2, <2>2
    <3>. QED
      BY <3>1, <3>2, Zenon
  <2>. QED
    BY <2>1, <2>2
<1>. QED
  BY <1>1, <1>4, LoggedKeeps DEF t

LEMMA MarkFollows ==
    ASSUME IInv, FInv, NEW w \in Workers, Mark(w)
    PROVE  FInv'
<1>. DEFINE t == tx[w]
            m == Current(w)
            b == Message(m).ref
            row == [Row(w, b) EXCEPT !.undecided = Message(m).kind]
            written == Write(t, w, b, row)
            object == IF t.asked = b THEN [t.object EXCEPT !.undecided = Message(m).kind]
                                     ELSE NoRow
            marked == [written EXCEPT !.object = object]
            filed == Decided(marked, m, "quarantined")
<1>1. t.at = "mark" /\ Step(w, filed)
  BY DEF Mark, FlushHold
<1>2. t.todo # <<>> /\ Refused(Message(m)) /\ b \in Bookings
  BY <1>1 DEF IInv, Placed, Current
<1>3. m \in Messages /\ t.asked = Blank /\ t \in Transaction
  BY <1>2, CurrentMessage
<1>4. Message(m).kind \in Reasons \ {"no"}
  BY <1>2, <1>3, MessageFacts
<1>5. Known(Row(w, b))
  BY <1>1 DEF FInv, Keeping, Current, Read, Row
<1>. HIDE DEF b
<1>6. Row(w, b) \in BookingRow /\ Owed(w, b) \in EntitlementRow
  BY <1>2, RowRead
<1>7. row \in BookingRow
  BY <1>4, <1>6 DEF BookingRow
<1>8. OneStepTo(w, b, row, Owed(w, b), "quarantined")
  <2>. SUFFICES ASSUME NEW before \in BOOLEAN, NEW after \in BOOLEAN,
                       after <=> before \/ "quarantined" \in Questions
                PROVE  Seen(row, Owed(w, b), after)
                           \in Feed!OneMessage(Seen(Row(w, b), Owed(w, b), before))
    BY DEF OneStepTo
  <2>1. after = TRUE
    BY DEF Questions
  <2>2. Seen(row, Owed(w, b), TRUE)
            \in Feed!OneMessage(Seen(Row(w, b), Owed(w, b), before))
    BY <1>4, <1>5, <1>6, SeenHeld
  <2>. QED
    BY <2>1, <2>2, Zenon
<1>9. object = NoRow /\ NoRow \in BookingRow
  BY <1>2, <1>3, AdapterAssumption, IdleIsSound
<1>. HIDE DEF row, object
<1>10. /\ written \in Transaction /\ written.locks = t.locks \cup {b}
       /\ written.rows = [t.rows EXCEPT ![b] = row]
       /\ written.owed = [t.owed EXCEPT ![b] = Owed(w, b)]
       /\ written.todo = t.todo /\ written.id = t.id /\ written.asked = t.asked
       /\ written.seen = t.seen /\ written.log = t.log /\ written.closed = t.closed
  <2>. HIDE DEF t
  <2>1. t \in Transaction /\ b \in Bookings
    BY <1>2, <1>3
  <2>. QED
    BY <1>6, <1>7, <2>1, WriteFields
<1>. HIDE DEF written
<1>11. /\ marked \in Transaction /\ marked.locks = t.locks \cup {b}
       /\ marked.rows = [t.rows EXCEPT ![b] = row]
       /\ marked.owed = [t.owed EXCEPT ![b] = Owed(w, b)]
       /\ marked.todo = t.todo /\ marked.id = t.id /\ marked.asked = t.asked
       /\ marked.seen = t.seen /\ marked.log = t.log /\ marked.closed = t.closed
  BY <1>9, <1>10 DEF Transaction
<1>. HIDE DEF marked, m
<1>12. /\ filed.at = "next" /\ filed.todo = Tail(marked.todo) /\ filed.id = marked.id + 1
       /\ filed.asked = marked.asked /\ filed.seen = marked.seen
       /\ filed.closed = marked.closed
       /\ filed.locks = marked.locks /\ filed.rows = marked.rows /\ filed.owed = marked.owed
       /\ \E d : /\ filed.log = marked.log \cup {d}
                 /\ d.id = marked.id /\ d.message = m /\ d.outcome = "quarantined"
  BY <1>11, DecidedNumbers
<1>. HIDE DEF filed
<1>13. RefOf(m) = b
  BY DEF RefOf, b
<1>. QED
  BY <1>1, <1>2, <1>8, <1>11, <1>12, <1>13, WrittenFollows DEF m


\* Applying a message takes a step of the feed; the hold stays as it was.
LEMMA ApplyFollows ==
    ASSUME IInv, FInv, NEW w \in Workers, tx[w].todo # <<>>,
           NEW b \in Bookings, ~Refused(Message(Current(w))), RefOf(Current(w)) = b,
           NEW object,
           object = Row(w, b) \/ (object = NoRow /\ ~Known(Row(w, b))),
           Step(w, Apply(tx[w], w, b, Row(w, b), object, Current(w)))
    PROVE  FInv'
<1>. DEFINE t == tx[w]
            m == Current(w)
            row == Row(w, b)
            values == BookingValues(Message(m), m)
            new == Flush(row, object, values)
            owed == ReconcileEntitlement(Owed(w, b), values)
            decided == Decided(Write(t, w, b, new), m, "applied")
            n == Apply(t, w, b, row, object, m)
<1>1. m \in Messages
  BY CurrentMessage
<1>2. /\ row \in BookingRow /\ Fresh(row) /\ Owed(w, b) \in EntitlementRow
  BY RowRead
<1>3. new \in BookingRow /\ \A c \in DOMAIN values : new[c] = values[c]
  BY <1>1, <1>2, FlushWritesTheMessage
<1>4. DOMAIN values = Columns
  BY <1>1, MessageColumns
<1>5. new["undecided"] = row["undecided"]
  <2>1. "undecided" \in DOMAIN row /\ "undecided" \notin Columns
    BY <1>2 DEF BookingRow, Columns
  <2>. HIDE DEF row, values
  <2>. QED
    BY <1>4, <2>1 DEF Flush
<1>. HIDE DEF new, row
<1>6. OneStepTo(w, b, new, owed, "applied")
  <2>. SUFFICES ASSUME NEW before \in BOOLEAN, NEW after \in BOOLEAN,
                       after <=> before \/ "applied" \in Questions
                PROVE  Seen(new, owed, after)
                           \in Feed!OneMessage(Seen(Row(w, b), Owed(w, b), before))
    BY DEF OneStepTo
  <2>1. after = before
    BY DEF Questions
  <2>2. \A c \in {"status", "amount", "periods"} : new[c] = values[c]
    <3>. HIDE DEF values
    <3>. QED
      BY <1>3, <1>4 DEF Columns
  <2>3. Seen(new, owed, before) \in Feed!OneMessage(Seen(row, Owed(w, b), before))
    BY <1>1, <1>5, <2>2, SeenApplied
  <2>. QED
    BY <2>1, <2>3, Zenon DEF row
<1>7. /\ decided.at = "next" /\ decided.todo = Tail(t.todo) /\ decided.id = t.id + 1
      /\ decided.asked = t.asked /\ decided.seen = t.seen /\ decided.closed = t.closed
      /\ decided.locks = t.locks \cup {b}
      /\ decided.rows = [t.rows EXCEPT ![b] = new]
      /\ decided.owed = [t.owed EXCEPT ![b] = Owed(w, b)]
      /\ \E d : /\ decided.log = t.log \cup {d}
                /\ d.id = t.id /\ d.message = m /\ d.outcome = "applied"
  <2>1. "applied" \in Outcomes
    BY DEF Outcomes
  <2>. QED
    BY <1>3, <2>1, DecidedWriteNumbers
<1>8. n = [decided EXCEPT !.owed[b] = owed]
  BY DEF Apply, new, row, values
<1>9. decided \in Transaction
  <2>1. "applied" \in Outcomes
    BY DEF Outcomes
  <2>. QED
    BY <1>3, <2>1, DecidedWriteFields
<1>. HIDE DEF decided, n, owed
<1>10. /\ n.at = decided.at /\ n.todo = decided.todo /\ n.id = decided.id
       /\ n.asked = decided.asked /\ n.seen = decided.seen /\ n.closed = decided.closed
       /\ n.locks = decided.locks /\ n.rows = decided.rows /\ n.log = decided.log
       /\ n.owed = [decided.owed EXCEPT ![b] = owed]
  BY <1>8, <1>9 DEF Transaction
<1>11. [decided.owed EXCEPT ![b] = owed] = [t.owed EXCEPT ![b] = owed]
  BY <1>7
<1>12. /\ n.at = "next" /\ n.todo = Tail(t.todo) /\ n.id = t.id + 1
       /\ n.asked = t.asked /\ n.seen = t.seen /\ n.closed = t.closed
       /\ n.locks = t.locks \cup {b}
       /\ n.rows = [t.rows EXCEPT ![b] = new]
       /\ n.owed = [t.owed EXCEPT ![b] = owed]
       /\ \E d : /\ n.log = t.log \cup {d}
                 /\ d.id = t.id /\ d.message = m /\ d.outcome = "applied"
  BY <1>7, <1>10, <1>11, Zenon
<1>. QED
  BY <1>6, <1>12, WrittenFollows DEF n, row

\* Holding a booking for a message takes a step of the feed.
LEMMA HoldFollows ==
    ASSUME IInv, FInv, NEW w \in Workers, tx[w].todo # <<>>,
           NEW b \in Bookings, RefOf(Current(w)) = b, Known(Row(w, b)),
           NEW reason \in Reasons \ {"no"}, NEW outcome \in Questions,
           Step(w, Hold(tx[w], w, b, Row(w, b), Row(w, b), Current(w), reason, outcome))
    PROVE  FInv'
<1>. DEFINE t == tx[w]
            m == Current(w)
            row == Row(w, b)
            new == [row EXCEPT !.undecided = reason]
            decided == Decided(Write(t, w, b, new), m, outcome)
            n == Hold(t, w, b, row, row, m, reason, outcome)
<1>1. t.asked # b
  BY CurrentMessage, AdapterAssumption
<1>2. row \in BookingRow /\ Owed(w, b) \in EntitlementRow
  BY RowRead
<1>3. OneStepTo(w, b, new, Owed(w, b), outcome)
  <2>. SUFFICES ASSUME NEW before \in BOOLEAN, NEW after \in BOOLEAN,
                       after <=> before \/ outcome \in Questions
                PROVE  Seen(new, Owed(w, b), after)
                           \in Feed!OneMessage(Seen(row, Owed(w, b), before))
    BY DEF OneStepTo
  <2>1. after = TRUE
    OBVIOUS
  <2>2. Seen(new, Owed(w, b), TRUE) \in Feed!OneMessage(Seen(row, Owed(w, b), before))
    BY <1>2, SeenHeld
  <2>. QED
    BY <2>1, <2>2, Zenon
<1>. HIDE DEF row
<1>4. new \in BookingRow
  BY <1>2 DEF BookingRow
<1>5. n = [decided EXCEPT !.object = NoRow]
  BY <1>1, <1>2, FlushWritesTheHold DEF Hold
<1>. HIDE DEF new
<1>6. /\ decided.at = "next" /\ decided.todo = Tail(t.todo) /\ decided.id = t.id + 1
      /\ decided.asked = t.asked /\ decided.seen = t.seen /\ decided.closed = t.closed
      /\ decided.locks = t.locks \cup {b}
      /\ decided.rows = [t.rows EXCEPT ![b] = new]
      /\ decided.owed = [t.owed EXCEPT ![b] = Owed(w, b)]
      /\ \E d : /\ decided.log = t.log \cup {d}
                /\ d.id = t.id /\ d.message = m /\ d.outcome = outcome
  BY <1>4, DecidedWriteNumbers DEF Outcomes
<1>7. decided \in Transaction
  BY <1>4, DecidedWriteFields DEF Outcomes
<1>. HIDE DEF decided, n
<1>8. /\ n.at = decided.at /\ n.todo = decided.todo /\ n.id = decided.id
      /\ n.asked = decided.asked /\ n.seen = decided.seen /\ n.closed = decided.closed
      /\ n.locks = decided.locks /\ n.rows = decided.rows /\ n.owed = decided.owed
      /\ n.log = decided.log
  BY <1>5, <1>7 DEF Transaction
<1>9. /\ n.at = "next" /\ n.todo = Tail(t.todo) /\ n.id = t.id + 1
      /\ n.asked = t.asked /\ n.seen = t.seen /\ n.closed = t.closed
      /\ n.locks = t.locks \cup {b}
      /\ n.rows = [t.rows EXCEPT ![b] = new]
      /\ n.owed = [t.owed EXCEPT ![b] = Owed(w, b)]
      /\ \E d : /\ n.log = t.log \cup {d}
                /\ d.id = t.id /\ d.message = m /\ d.outcome = outcome
  BY <1>6, <1>8, Zenon
<1>. QED
  BY <1>3, <1>9, WrittenFollows DEF n, row

\* Leaving a booking as it is changes nothing the feed tells.
LEMMA LockFollows ==
    ASSUME IInv, FInv, NEW w \in Workers, tx[w].todo # <<>>,
           NEW b \in Bookings, RefOf(Current(w)) = b, NEW outcome \in Outcomes \ Questions,
           Step(w, Lock(tx[w], w, b, Row(w, b), Current(w), outcome))
    PROVE  FInv'
<1>. DEFINE row == Row(w, b)
            n == Lock(tx[w], w, b, row, Current(w), outcome)
<1>1. row \in BookingRow
  BY RowRead
<1>2. OneStepTo(w, b, row, Owed(w, b), outcome)
  <2>. SUFFICES ASSUME NEW before \in BOOLEAN, NEW after \in BOOLEAN,
                       after <=> before \/ outcome \in Questions
                PROVE  Seen(row, Owed(w, b), after) = Seen(row, Owed(w, b), before)
    BY DEF OneStepTo
  <2>1. after = before
    OBVIOUS
  <2>. QED
    BY <2>1, Zenon
<1>. HIDE DEF row
<1>3. /\ n.at = "next" /\ n.todo = Tail(tx[w].todo) /\ n.id = tx[w].id + 1
      /\ n.asked = tx[w].asked /\ n.seen = tx[w].seen /\ n.closed = tx[w].closed
      /\ n.locks = tx[w].locks \cup {b}
      /\ n.rows = [tx[w].rows EXCEPT ![b] = row]
      /\ n.owed = [tx[w].owed EXCEPT ![b] = Owed(w, b)]
      /\ \E d : /\ n.log = tx[w].log \cup {d}
                /\ d.id = tx[w].id /\ d.message = Current(w) /\ d.outcome = outcome
  BY <1>1, DecidedWriteNumbers DEF Lock
<1>. HIDE DEF n
<1>. QED
  BY <1>2, <1>3, WrittenFollows DEF n, row

LEMMA DecideFollows ==
    ASSUME IInv, FInv, NEW w \in Workers, Decide(w)
    PROVE  FInv'
<1>. DEFINE t == tx[w]
            m == Current(w)
            b == Message(m).ref
            row == Row(w, b)
            order == Compare(Message(m).updated, StoredInstant(row))
            same == CanonicalFingerprint(Message(m)) = row.fingerprint
<1>1. /\ t.todo # <<>> /\ ~Refused(Message(m))
      /\ Step(w, Judge(t, w, b, row, SessionObject(t, b, row), m))
  BY DEF Decide, IInv, Placed, Current
<1>2. m \in Messages
  BY <1>1, CurrentMessage
<1>3. b \in Bookings /\ RefOf(m) = b /\ Stamp(Message(m).updated)
  BY <1>1, <1>2, MessageFacts DEF RefOf
<1>4. Step(w, Judge(t, w, b, row, row, m))
  <2>1. SessionObject(t, b, row) = row
    BY <1>1, <1>3, CurrentMessage
  <2>. QED
    BY <1>1, <2>1
<1>5. /\ {"order_not_provable", "conflict"} \subseteq Questions
      /\ {"superseded", "duplicate"} \subseteq Outcomes \ Questions
      /\ {"order_not_provable", "conflicting_versions"} \subseteq Reasons \ {"no"}
  BY DEF Outcomes, Questions, Reasons
<1>. HIDE DEF b
<1>6. CASE ~Known(row)
  <2>1. Judge(t, w, b, row, row, m) = Apply(t, w, b, row, NoRow, m)
    BY <1>6 DEF Judge
  <2>. QED
    BY <1>1, <1>3, <1>4, <1>6, <2>1, ApplyFollows DEF b
<1>7. CASE Known(row)
  <2>1. order \in {"newer", "older", "same", "not_provable"}
    <3>1. Whole(b, row, Owed(w, b))
      BY <1>3, RowRead
    <3>. QED
      BY <1>3, <1>7, <3>1, StampOfRow, NewerMeansAfter
  <2>2. CASE order = "older"
    <3>1. Judge(t, w, b, row, row, m) = Lock(t, w, b, row, m, "superseded")
      BY <1>7, <2>2 DEF Judge
    <3>. QED
      BY <1>1, <1>3, <1>4, <1>5, <3>1, LockFollows DEF b
  <2>3. CASE order = "not_provable"
    <3>1. Judge(t, w, b, row, row, m) =
            Hold(t, w, b, row, row, m, "order_not_provable", "order_not_provable")
      BY <1>7, <2>3 DEF Judge
    <3>. QED
      BY <1>1, <1>3, <1>4, <1>5, <1>7, <3>1, HoldFollows DEF b
  <2>4. CASE order = "same" /\ same
    <3>1. Judge(t, w, b, row, row, m) = Lock(t, w, b, row, m, "duplicate")
      BY <1>7, <2>4 DEF Judge
    <3>. QED
      BY <1>1, <1>3, <1>4, <1>5, <3>1, LockFollows DEF b
  <2>5. CASE order = "same" /\ ~same
    <3>1. Judge(t, w, b, row, row, m) =
            Hold(t, w, b, row, row, m, "conflicting_versions", "conflict")
      BY <1>7, <2>5 DEF Judge
    <3>. QED
      BY <1>1, <1>3, <1>4, <1>5, <1>7, <3>1, HoldFollows DEF b
  <2>6. CASE order = "newer"
    <3>1. Judge(t, w, b, row, row, m) = Apply(t, w, b, row, row, m)
      BY <1>7, <2>6 DEF Judge
    <3>. QED
      BY <1>1, <1>3, <1>4, <3>1, ApplyFollows DEF b
  <2>. QED
    BY <2>1, <2>2, <2>3, <2>4, <2>5, <2>6
<1>. QED
  BY <1>6, <1>7


-----------------------------------------------------------------------------
\* 5. Answers, beginnings and ends.

LEMMA ReadItemsFollows ==
    ASSUME IInv, FInv, NEW w \in Workers, ReadItems(w)
    PROVE  FInv'
<1>. DEFINE t == tx[w]
            seen == {d.id : d \in OpenItems(t.asked)}
            n == [t EXCEPT !.at = "answer", !.seen = seen]
<1>1. t.at = "items" /\ Step(w, n)
  BY DEF ReadItems
<1>2. t \in Transaction /\ t.asked # Blank /\ Keeping(t) /\ Numbered(t)
  BY <1>1, AdapterAssumption DEF IInv, Placed, FInv
<1>3. seen \subseteq IdsOf(deliveries)
  BY DEF OpenItems, IdsOf
<1>. HIDE DEF seen
<1>4. /\ n.at = "answer" /\ n.asked = t.asked /\ n.todo = t.todo /\ n.id = t.id
      /\ n.log = t.log /\ n.locks = t.locks /\ n.rows = t.rows /\ n.owed = t.owed
      /\ n.closed = t.closed /\ n.seen = seen
  BY <1>2 DEF Transaction
<1>. HIDE DEF n
<1>5. Keeping(n)
  BY <1>2, <1>4 DEF Keeping, OnlyLifts
<1>6. Numbered(n) /\ Numbers(n) \subseteq Numbers(t)
  BY <1>2, <1>3, <1>4 DEF Numbered, Numbers
<1>. QED
  BY <1>1, <1>5, <1>6, FStepKeeps

LEMMA AnswerFollows ==
    ASSUME IInv, FInv, NEW w \in Workers, Answer(w)
    PROVE  FInv'
<1>. DEFINE t == tx[w]
            b == t.asked
            told == [t EXCEPT !.at = "next", !.closed = t.seen]
            row == [Row(w, b) EXCEPT !.undecided = "no"]
            written == Write(told, w, b, row)
            n == [written EXCEPT !.object.undecided = "no"]
<1>1. t.at = "answer" /\ (Step(w, told) \/ Step(w, n))
  BY DEF Answer, FlushHold
<1>2. /\ t \in Transaction /\ b \in Bookings /\ b # Blank
      /\ Keeping(t) /\ Numbered(t)
  BY <1>1, AdapterAssumption DEF IInv, Placed, FInv
<1>3. /\ told \in Transaction /\ told.at = "next" /\ told.asked = b /\ told.todo = t.todo
      /\ told.id = t.id /\ told.seen = t.seen /\ told.closed = t.seen
      /\ told.log = t.log /\ told.locks = t.locks /\ told.rows = t.rows /\ told.owed = t.owed
  BY <1>2 DEF Transaction
<1>. HIDE DEF told
<1>4. ASSUME NEW x, x.log = t.log, x.todo = t.todo, x.id = t.id, x.seen = t.seen,
             x.closed = t.seen
      PROVE  Numbered(x) /\ Numbers(x) \subseteq Numbers(t)
  BY <1>2, <1>4 DEF Numbered, Numbers
<1>5. CASE Step(w, told)
  <2>1. Keeping(told)
    BY <1>2, <1>3 DEF Keeping, OnlyLifts
  <2>. QED
    BY <1>3, <1>4, <1>5, <2>1, FStepKeeps
<1>6. CASE Step(w, n)
  <2>. HIDE DEF t, b
  <2>1. /\ Row(w, b) \in BookingRow /\ Owed(w, b) \in EntitlementRow
    BY <1>2, RowRead
  <2>2. /\ row = [booking[b] EXCEPT !.undecided = "no"] /\ Owed(w, b) = entitlement[b]
    <3>1. booking[b] \in BookingRow
      BY <1>2 DEF IInv, TypeOK
    <3>2. OnlyLifts(t)
      BY <1>2 DEF Keeping, b
    <3>. QED
      BY <3>1, <3>2 DEF OnlyLifts, Row, Owed, t, BookingRow
  <2>3. row \in BookingRow
    BY <2>1 DEF BookingRow, Reasons
  <2>. HIDE DEF row
  <2>4. /\ written \in Transaction /\ written.locks = told.locks \cup {b}
        /\ written.rows = [told.rows EXCEPT ![b] = row]
        /\ written.owed = [told.owed EXCEPT ![b] = Owed(w, b)]
        /\ written.at = told.at /\ written.todo = told.todo /\ written.asked = told.asked
        /\ written.id = told.id /\ written.seen = told.seen /\ written.closed = told.closed
        /\ written.log = told.log
    BY <1>2, <1>3, <2>1, <2>3, WriteFields
  <2>. HIDE DEF written
  <2>5. /\ n.at = "next" /\ n.asked = b /\ n.todo = t.todo /\ n.id = t.id
        /\ n.seen = t.seen /\ n.closed = t.seen
        /\ n.locks = t.locks \cup {b}
        /\ n.rows = [t.rows EXCEPT ![b] = row]
        /\ n.owed = [t.owed EXCEPT ![b] = Owed(w, b)]
        /\ n.log = t.log
    BY <1>3, <2>4 DEF Transaction
  <2>. HIDE DEF n
  <2>6. OnlyLifts(n)
    <3>1. OnlyLifts(t) /\ t.locks \subseteq Bookings
      BY <1>2 DEF Keeping, b, Transaction
    <3>2. t.rows \in [Bookings -> BookingRow] /\ t.owed \in [Bookings -> EntitlementRow]
      BY <1>2 DEF Transaction
    <3>. QED
      BY <1>2, <2>2, <2>5, <3>1, <3>2 DEF OnlyLifts
  <2>7. Keeping(n)
    BY <1>2, <2>5, <2>6 DEF Keeping
  <2>. QED
    BY <1>4, <1>6, <2>5, <2>7, FStepKeeps DEF t
<1>. QED
  BY <1>1, <1>5, <1>6

\* Whoever has decided and written nothing leaves every booking as it is.
LEMMA NothingFollows ==
    ASSUME NEW t, t.log = {}, t.locks = {}, t.closed = {}, t.at # "mark"
    PROVE  Keeping(t)
<1>1. Cardinality(t.log) = 0
  BY FS_EmptySet
<1>2. ASSUME NEW b \in Bookings, NEW before \in BOOLEAN, NEW after \in BOOLEAN,
             after <=> before \/ Asks(t.log, b)
      PROVE  Seen(Read(t, b), Due(t, b), after)
               \in AfterSteps(Seen(booking[b], entitlement[b], before), Cardinality(t.log))
  <2>1. after = before
    BY <1>2 DEF Asks
  <2>2. Read(t, b) = booking[b] /\ Due(t, b) = entitlement[b]
    BY DEF Read, Due
  <2>. QED
    BY <1>1, <2>1, <2>2, AfterNoStep, Zenon
<1>3. Follows(t)
  BY <1>2 DEF Follows
<1>. QED
  BY <1>3 DEF Keeping, OnlyLifts

LEMMA BeginFollows ==
    ASSUME IInv, FInv, NEW w \in Workers, NEW t, Begin(w, t), t.todo \in Seq(Messages),
           t.id = received + 1, t.at # "mark", t.locks = {}, t.log = {}, t.seen = {},
           t.closed = {}
    PROVE  FInv'
<1>. DEFINE count == Len(t.todo)
<1>1. /\ tx'[w] = t /\ \A v \in Workers \ {w} : tx'[v] = tx[v]
      /\ UNCHANGED <<booking, entitlement, deliveries, processed, answered>>
      /\ received' = received + count /\ count \in Nat /\ received \in Nat
  BY DEF Begin, IInv, TypeOK
<1>2. Numbers(t) = received + 1 .. received + count
  BY <1>1 DEF Numbers, IdsOf
<1>. HIDE DEF count
<1>3. \A n \in IdsOf(deliveries) : n \in Nat /\ n =< received
  BY DEF FInv, IInv, TypeOK, Delivery, IdsOf
<1>4. \A x : Keeping(x) => Keeping(x)'
  BY <1>1 DEF Keeping, Follows, OnlyLifts, Read, Due
<1>5. Keeping(t)
  BY NothingFollows
<1>6. Numbered(t)'
  <2>1. IsFiniteSet(t.log)
    BY FS_EmptySet
  <2>2. \A n \in Numbers(t) : n =< received' /\ n \notin IdsOf(deliveries)
    BY <1>1, <1>2, <1>3
  <2>. QED
    BY <1>1, <2>1, <2>2 DEF Numbered, IdsOf
<1>7. ASSUME NEW v \in Workers
      PROVE  \A n \in Numbers(tx[v]) : n \in Int /\ n =< received
  <2>1. Numbered(tx[v]) /\ tx[v].log \subseteq Delivery /\ tx[v].id \in Nat
          /\ tx[v].todo \in Seq(Messages)
    BY DEF FInv, IInv, TypeOK, Transaction
  <2>2. IdsOf(tx[v].log) \subseteq Int
    BY <2>1 DEF IdsOf, Delivery
  <2>. QED
    BY <2>1, <2>2 DEF Numbered, Numbers
<1>8. ASSUME NEW v \in Workers \ {w}
      PROVE  Numbered(tx[v])'
  <2>1. Numbered(tx[v]) /\ tx'[v] = tx[v]
    BY <1>1 DEF FInv
  <2>2. \A n \in Numbers(tx[v]) : n =< received'
    BY <1>1, <1>7
  <2>. QED
    BY <1>1, <2>1, <2>2 DEF Numbered
<1>9. OwnNumbers'
  <2>1. ASSUME NEW v \in Workers \ {w}
        PROVE  Numbers(tx[v]) \cap Numbers(t) = {}
    BY <1>1, <1>2, <1>7
  <2>2. OwnNumbers
    BY DEF FInv
  <2>. QED
    BY <1>1, <2>1, <2>2 DEF OwnNumbers
<1>10. \A v \in Workers : (Keeping(tx[v]) /\ Numbered(tx[v]))'
  BY <1>1, <1>4, <1>5, <1>6, <1>8 DEF FInv
<1>. QED
  BY <1>1, <1>3, <1>9, <1>10 DEF FInv

LEMMA ReceiveFollows ==
    ASSUME IInv, FInv, NEW w \in Workers, Receive(w)
    PROVE  FInv'
<1>1. PICK batch \in Arrivals :
         Begin(w, [Idle EXCEPT !.at = "next", !.todo = batch, !.id = received + 1])
  BY DEF Receive
<1>. DEFINE t == [Idle EXCEPT !.at = "next", !.todo = batch, !.id = received + 1]
<1>2. batch \in Seq(Messages)
  BY IntakeAssumption
<1>3. /\ t.at = "next" /\ t.todo = batch /\ t.id = received + 1
      /\ t.locks = {} /\ t.log = {} /\ t.seen = {} /\ t.closed = {}
  BY DEF Idle
<1>. HIDE DEF t
<1>. QED
  BY <1>1, <1>2, <1>3, BeginFollows DEF t

LEMMA AskFollows ==
    ASSUME IInv, FInv, "replay" \notin Operations, NEW w \in Workers, Ask(w)
    PROVE  FInv'
<1>1. PICK b \in Bookings :
         Begin(w, [Idle EXCEPT !.at = "items", !.todo = <<>>, !.id = received + 1,
                               !.asked = b, !.object = booking[b]])
  BY DEF Ask
<1>. DEFINE t == [Idle EXCEPT !.at = "items", !.todo = <<>>, !.id = received + 1,
                              !.asked = b, !.object = booking[b]]
<1>2. <<>> \in Seq(Messages)
  OBVIOUS
<1>3. /\ t.at = "items" /\ t.todo = <<>> /\ t.id = received + 1
      /\ t.locks = {} /\ t.log = {} /\ t.seen = {} /\ t.closed = {}
  BY DEF Idle
<1>. HIDE DEF t
<1>. QED
  BY <1>1, <1>2, <1>3, BeginFollows DEF t

\* A worker that is idle has no numbers.
LEMMA IdleFollows ==
    Keeping(Idle) /\ Numbered(Idle) /\ Numbers(Idle) = {}
<1>1. /\ Idle.log = {} /\ Idle.locks = {} /\ Idle.closed = {} /\ Idle.at = "idle"
      /\ Idle.seen = {} /\ Idle.todo = <<>> /\ Idle.id = 0
  BY DEF Idle
<1>2. Keeping(Idle)
  BY <1>1, NothingFollows
<1>3. Numbers(Idle) = {}
  BY <1>1 DEF Numbers, IdsOf
<1>4. Numbered(Idle)
  BY <1>1, <1>3, FS_EmptySet DEF Numbered, IdsOf
<1>. QED
  BY <1>2, <1>3, <1>4

LEMMA RollbackFollows ==
    ASSUME IInv, FInv, NEW w \in Workers, Step(w, Rollback(w))
    PROVE  FInv'
  BY IdleFollows, FStepKeeps DEF Rollback


LEMMA CommitFollows ==
    ASSUME IInv, FInv, NEW w \in Workers, Commit(w)
    PROVE  FInv'
<1>. DEFINE t == tx[w]
<1>1. /\ booking' = [b \in Bookings |-> Row(w, b)]
      /\ entitlement' = [b \in Bookings |-> Owed(w, b)]
      /\ deliveries' = deliveries \cup t.log
      /\ answered' = answered \cup t.closed
      /\ received' = received
      /\ tx'[w] = Idle /\ \A v \in Workers \ {w} : tx'[v] = tx[v]
  BY DEF Commit, IInv, TypeOK
<1>2. Numbered(t) /\ IdsOf(t.log) \subseteq Numbers(t)
  BY DEF FInv, Numbers
<1>3. IdsOf(deliveries') = IdsOf(deliveries) \cup IdsOf(t.log)
  BY <1>1 DEF IdsOf
<1>4. \A n \in IdsOf(deliveries') : n =< received'
  BY <1>1, <1>2, <1>3 DEF FInv, Numbered
<1>5. answered' \subseteq IdsOf(deliveries')
  BY <1>1, <1>2, <1>3 DEF FInv, Numbered
<1>6. OwnNumbers'
  BY <1>1, IdleFollows DEF FInv, OwnNumbers
<1>7. (Keeping(tx[w]) /\ Numbered(tx[w]))'
  <2>1. Keeping(Idle)'
    <3>1. /\ Idle.log = {} /\ Idle.locks = {} /\ Idle.closed = {} /\ Idle.at = "idle"
      BY DEF Idle
    <3>2. ASSUME NEW b \in Bookings, NEW before \in BOOLEAN, NEW after \in BOOLEAN,
                 after <=> before \/ Asks(Idle.log, b)
          PROVE  Seen(booking'[b], entitlement'[b], after)
                   \in AfterSteps(Seen(booking'[b], entitlement'[b], before),
                                  Cardinality(Idle.log))
      BY <3>1, <3>2, FS_EmptySet, UnlockedFollows
    <3>3. \A b : Read(Idle, b)' = booking'[b] /\ Due(Idle, b)' = entitlement'[b]
      BY <3>1 DEF Read, Due
    <3>4. Follows(Idle)'
      BY <3>2, <3>3 DEF Follows
    <3>. QED
      BY <3>1, <3>4 DEF Keeping, OnlyLifts
  <2>2. Numbered(Idle)'
    <3>1. Idle.log = {} /\ Idle.seen = {} /\ Idle.closed = {}
      BY DEF Idle
    <3>. QED
      BY <3>1, IdleFollows, FS_EmptySet DEF Numbered, IdsOf
  <2>. QED
    BY <1>1, <2>1, <2>2
<1>8. ASSUME NEW v \in Workers \ {w}
      PROVE  (Keeping(tx[v]) /\ Numbered(tx[v]))'
  <2>. PICK u : u = tx[v]
    OBVIOUS
  <2>1. /\ u \in Transaction /\ tx'[v] = u /\ Keeping(u) /\ Numbered(u) /\ Placed(u)
    BY <1>1 DEF FInv, IInv, TypeOK
  <2>2. u.locks \subseteq Bookings /\ u.locks \cap t.locks = {}
    BY <2>1 DEF Transaction, IInv, OneWriter
  <2>. HIDE DEF t
  <2>3. \A b \in u.locks : booking'[b] = booking[b] /\ entitlement'[b] = entitlement[b]
    BY <1>1, <2>2 DEF Row, Owed, t
  <2>4. ASSUME NEW b \in Bookings, NEW before \in BOOLEAN, NEW after \in BOOLEAN,
               after <=> before \/ Asks(u.log, b), u.asked = Blank
        PROVE  Seen(Read(u, b)', Due(u, b)', after)
                 \in AfterSteps(Seen(booking'[b], entitlement'[b], before), Cardinality(u.log))
    <3>1. CASE b \in u.locks
      <4>1. /\ Read(u, b)' = Read(u, b) /\ Due(u, b)' = Due(u, b)
            /\ booking'[b] = booking[b] /\ entitlement'[b] = entitlement[b]
        BY <2>3, <3>1 DEF Read, Due
      <4>2. Seen(Read(u, b), Due(u, b), after)
              \in AfterSteps(Seen(booking[b], entitlement[b], before), Cardinality(u.log))
        BY <2>1, <2>4 DEF Keeping, Follows
      <4>. QED
        BY <4>1, <4>2, Zenon
    <3>2. CASE b \notin u.locks
      <4>1. Read(u, b)' = booking'[b] /\ Due(u, b)' = entitlement'[b]
        BY <3>2 DEF Read, Due
      <4>2. IsFiniteSet(u.log)
        BY <2>1 DEF Numbered
      <4>3. Seen(booking'[b], entitlement'[b], after)
              \in AfterSteps(Seen(booking'[b], entitlement'[b], before), Cardinality(u.log))
        BY <2>4, <4>2, UnlockedFollows
      <4>. QED
        BY <4>1, <4>3, Zenon
    <3>. QED
      BY <3>1, <3>2
  <2>5. u.asked = Blank => u.closed = {} /\ Follows(u)'
    BY <2>1, <2>4 DEF Keeping, Follows
  <2>6. u.asked # Blank => OnlyLifts(u)'
    BY <2>1, <2>2, <2>3 DEF Keeping, OnlyLifts
  <2>7. u.at = "mark" => Known(Read(u, Message(Head(u.todo)).ref))'
    <3>. DEFINE b == Message(Head(u.todo)).ref
    <3>. SUFFICES ASSUME u.at = "mark" PROVE Known(Read(u, b)')
      BY DEF Known
    <3>1. b \in Bookings /\ Known(Read(u, b))
      BY <2>1 DEF Placed, Keeping
    <3>. HIDE DEF b
    <3>2. CASE b \in u.locks
      BY <3>1, <3>2 DEF Read
    <3>3. CASE b \notin u.locks
      <4>1. Known(booking[b]) /\ Ahead(Row(w, b), booking[b])
        BY <3>1, <3>3, RowRead DEF Read
      <4>2. Read(u, b)' = Row(w, b)
        BY <1>1, <3>1, <3>3 DEF Read
      <4>. QED
        BY <4>1, <4>2 DEF Ahead
    <3>. QED
      BY <3>2, <3>3
  <2>8. Numbered(u)'
    <3>1. Numbers(u) \cap IdsOf(t.log) = {}
      BY <1>2 DEF FInv, OwnNumbers, t
    <3>2. \A n \in Numbers(u) : n =< received' /\ n \notin IdsOf(deliveries')
      BY <1>1, <1>3, <2>1, <3>1 DEF Numbered
    <3>. QED
      BY <1>3, <2>1, <3>2 DEF Numbered
  <2>9. Keeping(u)'
    BY <2>5, <2>6, <2>7 DEF Keeping
  <2>. QED
    BY <2>1, <2>8, <2>9
<1>. QED
  BY <1>4, <1>5, <1>6, <1>7, <1>8 DEF FInv

LEMMA FInvInitially == Init => FInv
<1>. SUFFICES ASSUME Init PROVE FInv
  OBVIOUS
<1>1. deliveries = {} /\ answered = {} /\ \A w \in Workers : tx[w] = Idle
  BY DEF Init
<1>. QED
  BY <1>1, IdleFollows DEF FInv, OwnNumbers, IdsOf

LEMMA FInvKept ==
    ASSUME "replay" \notin Operations, IInv, FInv, [Next]_vars
    PROVE  FInv'
<1>1. CASE UNCHANGED vars
  BY <1>1 DEF vars, FInv, OwnNumbers, Keeping, Follows, OnlyLifts, Read, Due, Numbered, Numbers
<1>2. CASE Next
  <2>1. PICK w \in Workers : Receive(w) \/ Ask(w) \/ Proceed(w) \/ Crash(w)
    BY <1>2 DEF Next
  <2>2. CASE Proceed(w)
    BY <2>2, RefuseFollows, MarkFollows, RepeatFollows, ClaimFollows, DecideFollows,
       ReadItemsFollows, AnswerFollows, CommitFollows, RollbackFollows
       DEF Proceed, BreakDeadlock
  <2>3. CASE Crash(w)
    BY <2>3, RollbackFollows DEF Crash
  <2>. QED
    BY <2>1, <2>2, <2>3, ReceiveFollows, AskFollows
<1>. QED
  BY <1>1, <1>2

-----------------------------------------------------------------------------
\* 6. What billing sees.

\* The row of the feed, as the tables have it and as a step leaves them.
LEMMA FeedRowIsSeen ==
    ASSUME NEW b \in Bookings, NEW asks \in BOOLEAN, asks <=> OpenItems(b) # {}
    PROVE  Feed!FeedRow(b) = Seen(booking[b], entitlement[b], asks)
<1>1. (OpenItems(b) # {}) = asks
  OBVIOUS
<1>. HIDE DEF OpenItems
<1>. QED
  BY <1>1 DEF Feed!FeedRow, FeedBooking, Seen, Picture, LiveStatus

LEMMA FeedRowBecomesSeen ==
    ASSUME NEW b \in Bookings, NEW asks \in BOOLEAN, asks <=> OpenItems(b)' # {}
    PROVE  Feed!FeedRow(b)' = Seen(booking'[b], entitlement'[b], asks)
<1>1. (OpenItems(b)' # {}) = asks
  OBVIOUS
<1>. QED
  BY <1>1 DEF Feed!FeedRow, FeedBooking, Seen, Picture, LiveStatus, Held


FeedSteps(b) ==
    Feed!FeedRow(b)' = Feed!FeedRow(b)
      \/ Feed!FeedRow(b)' \in AfterSteps(Feed!FeedRow(b), NewDecisions)

\* A commit of messages is as many steps of the feed as it has messages.
LEMMA MessagesAreFeedSteps ==
    ASSUME IInv, FInv, NEW w \in Workers, Commit(w), tx[w].asked = Blank, NEW b \in Bookings
    PROVE  FeedSteps(b)
<1>. DEFINE t == tx[w]
<1>1. /\ booking'[b] = Row(w, b) /\ entitlement'[b] = Owed(w, b)
      /\ deliveries' = deliveries \cup t.log
      /\ answered' = answered \cup t.closed
      /\ tx'[w] = Idle /\ \A v \in Workers \ {w} : tx'[v] = tx[v]
  BY DEF Commit, IInv, TypeOK
<1>2. Follows(t) /\ t.closed = {} /\ Numbered(t)
  BY DEF FInv, Keeping
<1>3. \A d \in t.log : d.id \notin IdsOf(deliveries)
  BY <1>2 DEF Numbered, Numbers, IdsOf
<1>4. \A d \in t.log : d \notin deliveries /\ d.id \notin answered
  BY <1>3 DEF FInv, IdsOf
<1>5. NewDecisions = Cardinality(t.log)
  <2>1. deliveries' \ deliveries = t.log
    BY <1>1, <1>4
  <2>2. {v \in Workers : tx[v].asked # Blank /\ tx'[v].asked = Blank} = {}
    BY <1>1
  <2>3. Cardinality({}) = 0
    BY FS_EmptySet
  <2>4. NewDecisions = Cardinality(t.log) + 0
    BY <2>1, <2>2, <2>3, Zenon DEF NewDecisions
  <2>5. Cardinality(t.log) \in Nat
    BY <1>2, FS_CardinalityType DEF Numbered
  <2>. QED
    BY <2>4, <2>5
<1>6. (OpenItems(b) # {} \/ Asks(t.log, b)) <=> OpenItems(b)' # {}
  <2>1. OpenItems(b)' = OpenItems(b) \cup {d \in t.log : d.outcome \in Questions
                                                          /\ RefOf(d.message) = b}
    BY <1>1, <1>2, <1>4 DEF OpenItems, RefOf, Message
  <2>. QED
    BY <2>1 DEF Asks
<1>7. PICK before \in BOOLEAN : before <=> OpenItems(b) # {}
  <2>1. CASE OpenItems(b) # {}
    BY <2>1
  <2>2. CASE OpenItems(b) = {}
    BY <2>2
  <2>. QED
    BY <2>1, <2>2
<1>8. PICK after \in BOOLEAN : after <=> OpenItems(b)' # {}
  <2>1. CASE OpenItems(b)' # {}
    BY <2>1
  <2>2. CASE OpenItems(b)' = {}
    BY <2>2
  <2>. QED
    BY <2>1, <2>2
<1>. HIDE DEF t
<1>9. after <=> before \/ Asks(t.log, b)
  BY <1>6, <1>7, <1>8
<1>10. Seen(Read(t, b), Due(t, b), after)
           \in AfterSteps(Seen(booking[b], entitlement[b], before), Cardinality(t.log))
  BY <1>2, <1>9 DEF Follows
<1>11. Read(t, b) = booking'[b] /\ Due(t, b) = entitlement'[b]
  BY <1>1 DEF Read, Due, Row, Owed, t
<1>12. Feed!FeedRow(b) = Seen(booking[b], entitlement[b], before)
  BY <1>7, FeedRowIsSeen
<1>13. Feed!FeedRow(b)' = Seen(booking'[b], entitlement'[b], after)
  BY <1>8, FeedRowBecomesSeen
<1>14. Feed!FeedRow(b)' \in AfterSteps(Feed!FeedRow(b), NewDecisions)
  BY <1>5, <1>10, <1>11, <1>12, <1>13, Zenon DEF t
<1>. QED
  BY <1>14, Zenon DEF FeedSteps

\* A commit of an answer is one step of the feed.
LEMMA AnswerIsOneFeedStep ==
    ASSUME IInv, FInv, NEW w \in Workers, Commit(w), tx[w].asked # Blank, NEW b \in Bookings
    PROVE  FeedSteps(b)
<1>. DEFINE t == tx[w]
<1>1. /\ booking'[b] = Row(w, b) /\ entitlement'[b] = Owed(w, b)
      /\ deliveries' = deliveries \cup t.log
      /\ answered' = answered \cup t.closed
      /\ tx'[w] = Idle /\ \A v \in Workers \ {w} : tx'[v] = tx[v]
  BY DEF Commit, IInv, TypeOK
<1>2. OnlyLifts(t)
  BY DEF FInv, Keeping
<1>3. deliveries' = deliveries
  BY <1>1, <1>2 DEF OnlyLifts
<1>4. NewDecisions = 1
  <2>1. deliveries' \ deliveries = {}
    BY <1>3
  <2>2. {v \in Workers : tx[v].asked # Blank /\ tx'[v].asked = Blank} = {w}
    <3>1. Idle.asked = Blank
      BY DEF Idle
    <3>. QED
      BY <1>1, <3>1
  <2>3. Cardinality({}) = 0 /\ Cardinality({w}) = 1
    BY FS_EmptySet, FS_Singleton
  <2>4. NewDecisions = 0 + 1
    BY <2>1, <2>2, <2>3, Zenon DEF NewDecisions
  <2>. QED
    BY <2>4
<1>5. OpenItems(b)' # {} => OpenItems(b) # {}
  BY <1>1, <1>3 DEF OpenItems, RefOf, Message
<1>6. PICK before \in BOOLEAN : before <=> OpenItems(b) # {}
  <2>1. CASE OpenItems(b) # {}
    BY <2>1
  <2>2. CASE OpenItems(b) = {}
    BY <2>2
  <2>. QED
    BY <2>1, <2>2
<1>7. PICK after \in BOOLEAN : after <=> OpenItems(b)' # {}
  <2>1. CASE OpenItems(b)' # {}
    BY <2>1
  <2>2. CASE OpenItems(b)' = {}
    BY <2>2
  <2>. QED
    BY <2>1, <2>2
<1>8. after => before
  BY <1>5, <1>6, <1>7
<1>9. /\ booking'[b] = booking[b] \/ booking'[b] = [booking[b] EXCEPT !.undecided = "no"]
      /\ entitlement'[b] = entitlement[b] /\ booking[b] \in BookingRow
  BY <1>1, <1>2 DEF OnlyLifts, Row, Owed, IInv, TypeOK
<1>. DEFINE old == Seen(booking[b], entitlement[b], before)
            new == Seen(booking'[b], entitlement'[b], after)
<1>10. new \in Feed!OneMessage(old)
  <2>1. Seen(booking'[b], entitlement[b], after) \in Feed!OneMessage(old)
    BY <1>8, <1>9, SeenAnswered
  <2>. QED
    BY <1>9, <2>1, Zenon
<1>11. Feed!FeedRow(b) = old /\ Feed!FeedRow(b)' = new
  BY <1>6, <1>7, FeedRowIsSeen, FeedRowBecomesSeen
<1>. HIDE DEF old, new
<1>12. new \in AfterSteps(old, 0 + 1)
  <2>1. old \in AfterSteps(old, 0)
    BY AfterNoStep
  <2>. QED
    BY <1>10, <2>1, OneStepMore
<1>13. Feed!FeedRow(b)' \in AfterSteps(Feed!FeedRow(b), NewDecisions)
  <2>1. NewDecisions = 0 + 1
    BY <1>4
  <2>. QED
    BY <1>11, <1>12, <2>1, Zenon
<1>. QED
  BY <1>13, Zenon DEF FeedSteps

\* Nothing but a commit shows.
LEMMA OnlyCommitShows ==
    ASSUME NEW w \in Workers, Receive(w) \/ Ask(w) \/ Proceed(w) \/ Crash(w), ~Commit(w),
           NEW b \in Bookings
    PROVE  FeedSteps(b)
<1>1. UNCHANGED <<booking, entitlement, deliveries, answered>>
  BY DEF Receive, Ask, Proceed, Crash, Begin, Step, Refuse, Mark, RepeatOfEvent, ClaimEvent,
         Decide, ReadItems, Answer, BreakDeadlock
<1>2. Feed!FeedRow(b)' = Feed!FeedRow(b)
  BY <1>1 DEF Feed!FeedRow, FeedBooking, OpenItems, Held, RefOf, Message
<1>. QED
  BY <1>2, Zenon DEF FeedSteps

\* What billing sees of intake is the feed it is specified against: whatever the
\* workers' transactions do to each other, every commit changes each booking, its
\* question and its obligation in no more than one step of BookingFeed for each
\* message or answer it decides (service.py, receive_push to the commit, and
\* resolve_quarantine; billing/run.py reads what they leave).
THEOREM BillingSeesTheFeed ==
    ASSUME "replay" \notin Operations
    PROVE  Spec => CommitIsFeedSteps
<1>. DEFINE Steps == \A b \in Bookings : FeedSteps(b)
<1>1. IInv /\ FInv /\ [Next]_vars => [Steps]_vars
  <2>1. SUFFICES ASSUME IInv, FInv, Next PROVE Steps
    OBVIOUS
  <2>2. PICK w \in Workers : Receive(w) \/ Ask(w) \/ Proceed(w) \/ Crash(w)
    BY <2>1 DEF Next
  <2>3. CASE Commit(w)
    BY <2>1, <2>3, MessagesAreFeedSteps, AnswerIsOneFeedStep
  <2>4. CASE ~Commit(w)
    BY <2>2, <2>4, OnlyCommitShows
  <2>. QED
    BY <2>3, <2>4
<1>2. Spec => [](IInv /\ FInv)
  <2>1. Init => IInv /\ FInv
    BY IInvInitially, FInvInitially
  <2>2. IInv /\ FInv /\ [Next]_vars => IInv' /\ FInv'
    BY IInvKept, FInvKept
  <2>. QED
    BY <2>1, <2>2, PTL DEF Spec
<1>3. Spec => [][Steps]_vars
  BY <1>1, <1>2, PTL DEF Spec
<1>. QED
  BY <1>3 DEF CommitIsFeedSteps, FeedSteps

=============================================================================
