------------------------ MODULE PartnerClock_proofs ------------------------
(***************************************************************************)
(* What PartnerClock promises, for every zone whose clock goes forward     *)
(* once and back once.                                                     *)
(***************************************************************************)
EXTENDS PartnerClock, TLAPS

\* What may come out of parsing a timestamp that can be used.
Ordered(instant) ==
    /\ instant \in Instant
    /\ Usable(instant) => instant.lo =< instant.hi

\* The instant t is inside the window.
Holds(instant, t) == instant.lo =< t /\ t =< instant.hi

\* A reading under each fold.
LEMMA FoldedReadings ==
    ASSUME NEW reading \in Int
    PROVE  /\ ToUTC(reading, 0) =
                 reading - (IF reading < Spring + Summer \/ reading >= Autumn + Summer
                            THEN Winter ELSE Summer)
           /\ ToUTC(reading, 1) =
                 reading - (IF reading < Spring + Winter \/ reading >= Autumn + Winter
                            THEN Winter ELSE Summer)
           /\ ToUTC(reading, 0) \in Int
           /\ ToUTC(reading, 1) \in Int
<1>. USE ZoneAssumption DEF Summer
<1>1. OffsetOfReading(reading, 0) =
        IF reading < Spring + Summer \/ reading >= Autumn + Summer THEN Winter ELSE Summer
  BY DEF OffsetOfReading
<1>2. OffsetOfReading(reading, 1) =
        IF reading < Spring + Winter \/ reading >= Autumn + Winter THEN Winter ELSE Summer
  BY DEF OffsetOfReading
<1>. QED
  BY <1>1, <1>2 DEF ToUTC

\* A wall clock reading survives the round trip through UTC exactly when the
\* clock did not jump over it.
LEMMA RoundTrip ==
    ASSUME NEW reading \in Int
    PROVE  /\ Local(ToUTC(reading, 0)) = reading <=> reading \notin Skipped
           /\ reading \notin Skipped => Local(ToUTC(reading, 1)) = reading
  BY ZoneAssumption, FoldedReadings DEF Local, OffsetAt, Summer, Skipped

\* The two folds are the only instants a reading can mean.
LEMMA NoThirdMeaning ==
    ASSUME NEW reading \in Int, NEW t \in Int, Local(t) = reading
    PROVE  /\ reading \notin Skipped
           /\ t = ToUTC(reading, 0) \/ t = ToUTC(reading, 1)
<1>. USE ZoneAssumption DEF Summer
<1>1. reading = t + (IF Spring =< t /\ t < Autumn THEN Summer ELSE Winter)
  BY DEF Local, OffsetAt
<1>2. reading \notin Skipped
  BY <1>1 DEF Skipped
<1>3. CASE Spring =< t /\ t < Autumn
  BY <1>1, <1>2, <1>3, FoldedReadings
<1>4. CASE t < Spring
  BY <1>1, <1>2, <1>4, FoldedReadings
<1>5. CASE t >= Autumn
  BY <1>1, <1>2, <1>5, FoldedReadings
<1>. QED
  BY <1>2, <1>3, <1>4, <1>5

\* The kernel rejects a reading as one that never happened exactly when no
\* instant shows it: neither a real hour nor the repeated one is ever refused,
\* and the missing one always is (clock.py, the round trip through UTC).
THEOREM MissingHourIsRefused ==
    ASSUME NEW reading \in Int
    PROVE  /\ ReadNaive(reading).problem = "nonexistent_local_time" <=> reading \in Skipped
           /\ Meanings(reading) = {} <=> reading \in Skipped
<1>1. ReadNaive(reading).problem = "nonexistent_local_time" <=> reading \in Skipped
  BY RoundTrip DEF ReadNaive, Window, Problem
<1>2. Meanings(reading) = {} <=> reading \in Skipped
  BY RoundTrip, NoThirdMeaning, FoldedReadings DEF Meanings
<1>. QED
  BY <1>1, <1>2

\* The window of a reading is the narrowest that certainly holds the instant
\* meant: both ends are instants that show the reading, and no instant that
\* shows it is outside; it is marked ambiguous exactly when there are two.
THEOREM WindowIsTight ==
    ASSUME NEW reading \in Int, reading \notin Skipped
    PROVE  LET window == ReadNaive(reading) IN
           /\ Usable(window)
           /\ window.lo \in Meanings(reading) /\ window.hi \in Meanings(reading)
           /\ \A t \in Meanings(reading) : Holds(window, t)
           /\ window.ambiguous <=> \E t, s \in Meanings(reading) : t # s
<1>. DEFINE first == ToUTC(reading, 0)
            second == ToUTC(reading, 1)
            window == ReadNaive(reading)
<1>1. /\ first \in Int /\ second \in Int
      /\ Local(first) = reading /\ Local(second) = reading
  BY FoldedReadings, RoundTrip
<1>2. window = IF first =< second THEN Window(first, second) ELSE Window(second, first)
  BY <1>1 DEF ReadNaive
<1>3. \A t \in Meanings(reading) : t \in Int /\ (t = first \/ t = second)
  BY NoThirdMeaning DEF Meanings
<1>4. first \in Meanings(reading) /\ second \in Meanings(reading)
  BY <1>1 DEF Meanings
<1>. HIDE DEF first, second, window
<1>5. PICK lo \in {first, second}, hi \in {first, second} :
         /\ lo =< hi /\ window = Window(lo, hi)
         /\ lo # hi <=> first # second
         /\ {first, second} = {lo, hi}
  BY <1>1, <1>2
<1>6. /\ window.lo = lo /\ window.hi = hi /\ window.problem = "none"
      /\ window.ambiguous = (lo # hi)
  BY <1>5 DEF Window
<1>7. \A t \in Meanings(reading) : Holds(window, t)
  BY <1>1, <1>3, <1>5, <1>6 DEF Holds
<1>8. window.ambiguous <=> \E t, s \in Meanings(reading) : t # s
  BY <1>3, <1>4, <1>5, <1>6
<1>9. Usable(window) /\ window.lo \in Meanings(reading) /\ window.hi \in Meanings(reading)
  BY <1>4, <1>5, <1>6 DEF Usable
<1>. QED
  BY <1>7, <1>8, <1>9 DEF window

\* Parsing what was honestly written, with or without an offset, gives a window
\* that holds the instant meant.
THEOREM WindowHoldsTheInstant ==
    ASSUME NEW t \in Int
    PROVE  /\ \A zone \in BOOLEAN : Holds(ParsePartnerTimestamp(WithOffset(t), zone), t)
           /\ Usable(ParsePartnerTimestamp(Naive(Local(t)), TRUE))
           /\ Holds(ParsePartnerTimestamp(Naive(Local(t)), TRUE), t)
<1>1. \A zone \in BOOLEAN : ParsePartnerTimestamp(WithOffset(t), zone) = Window(t, t)
  BY DEF ParsePartnerTimestamp, WithOffset
<1>2. ParsePartnerTimestamp(Naive(Local(t)), TRUE) = ReadNaive(Local(t))
  BY DEF ParsePartnerTimestamp, Naive
<1>3. Local(t) \in Int /\ t \in Meanings(Local(t))
  BY ZoneAssumption DEF Local, OffsetAt, Summer, Meanings
<1>4. Local(t) \notin Skipped
  BY <1>3, NoThirdMeaning DEF Meanings
<1>5. Holds(Window(t, t), t)
  BY DEF Window, Holds
<1>6. Usable(ReadNaive(Local(t))) /\ Holds(ReadNaive(Local(t)), t)
  BY <1>3, <1>4, WindowIsTight
<1>. QED
  BY <1>1, <1>2, <1>5, <1>6

\* Whatever is received, the window that can be used has its ends in order.
LEMMA ParsedIsOrdered ==
    ASSUME NEW raw \in [form : {"unreadable", "offset", "naive"}, at : Int],
           NEW zone \in BOOLEAN
    PROVE  Ordered(ParsePartnerTimestamp(raw, zone))
<1>1. ASSUME NEW lo \in Int, NEW hi \in Int, lo =< hi
      PROVE  Ordered(Window(lo, hi))
  BY <1>1 DEF Ordered, Window, Instant
<1>2. ASSUME NEW kind \in {"not_parseable", "nonexistent_local_time", "no_zone_declared"}
      PROVE  Ordered(Problem(kind))
  BY DEF Ordered, Problem, Instant, Usable
<1>3. Ordered(ReadNaive(raw.at))
  BY <1>1, <1>2, FoldedReadings DEF ReadNaive
<1>. QED
  BY <1>1, <1>2, <1>3 DEF ParsePartnerTimestamp

-----------------------------------------------------------------------------
\* An order is claimed only when it is certain, and refused only when it must
\* be: newer (or older) means that every instant the candidate may mean is
\* after (or before) every one the stored timestamp may; if neither is the
\* answer, there is a pair of meanings that denies each.
THEOREM OrderIsCertain ==
    ASSUME NEW candidate, NEW stored, Ordered(candidate), Ordered(stored),
           Usable(candidate), Usable(stored)
    PROVE  /\ Compare(candidate, stored) = "newer" <=>
                 \A t, s \in Int : Holds(candidate, t) /\ Holds(stored, s) => t > s
           /\ Compare(candidate, stored) = "older" <=>
                 \A t, s \in Int : Holds(candidate, t) /\ Holds(stored, s) => t < s
<1>1. /\ candidate.lo \in Int /\ candidate.hi \in Int /\ candidate.lo =< candidate.hi
      /\ stored.lo \in Int /\ stored.hi \in Int /\ stored.lo =< stored.hi
  BY DEF Ordered, Instant
<1>2. /\ Compare(candidate, stored) = "newer" <=> candidate.lo > stored.hi
      /\ Compare(candidate, stored) = "older" <=> candidate.hi < stored.lo
  BY <1>1 DEF Compare
<1>3. /\ candidate.lo > stored.hi =>
            \A t, s \in Int : Holds(candidate, t) /\ Holds(stored, s) => t > s
      /\ candidate.hi < stored.lo =>
            \A t, s \in Int : Holds(candidate, t) /\ Holds(stored, s) => t < s
  BY <1>1 DEF Holds
<1>4. /\ Holds(candidate, candidate.lo) /\ Holds(candidate, candidate.hi)
      /\ Holds(stored, stored.lo) /\ Holds(stored, stored.hi)
  BY <1>1 DEF Holds
<1>. QED
  BY <1>1, <1>2, <1>3, <1>4

\* The order of two timestamps does not depend on which of them is held, and
\* newer is transitive: a booking that only moves to newer timestamps never
\* comes back to one it has left (service.py applies nothing else).
THEOREM OrderIsStrict ==
    ASSUME NEW a, NEW b, NEW c, Ordered(a), Ordered(b), Ordered(c)
    PROVE  /\ Compare(a, b) = "newer" <=> Compare(b, a) = "older"
           /\ Compare(a, b) = "same" <=> Compare(b, a) = "same"
           /\ Compare(a, b) = "newer" /\ Compare(b, c) = "newer" => Compare(a, c) = "newer"
<1>. DEFINE Newer(x, y) == Usable(x) /\ Usable(y) /\ x.lo > y.hi
<1>1. ASSUME NEW x, Ordered(x), Usable(x)
      PROVE  x.lo \in Int /\ x.hi \in Int /\ x.lo =< x.hi
  BY <1>1 DEF Ordered, Instant
<1>2. ASSUME NEW x, NEW y, Ordered(x), Ordered(y)
      PROVE  /\ Compare(x, y) = "newer" <=> Newer(x, y)
             /\ Compare(x, y) = "older" <=> Newer(y, x)
             /\ Compare(x, y) = "same" <=>
                   Usable(x) /\ Usable(y) /\ x.lo = y.lo /\ x.hi = y.hi
  <2>1. CASE Usable(x) /\ Usable(y)
    <3>1. /\ x.lo \in Int /\ x.hi \in Int /\ x.lo =< x.hi
          /\ y.lo \in Int /\ y.hi \in Int /\ y.lo =< y.hi
      BY <1>1, <1>2, <2>1
    <3>. QED
      BY <2>1, <3>1 DEF Compare
  <2>2. CASE ~(Usable(x) /\ Usable(y))
    <3>1. Compare(x, y) = "not_provable"
      BY <2>2 DEF Compare
    <3>. QED
      BY <2>2, <3>1
  <2>. QED
    BY <2>1, <2>2
<1>3. Newer(a, b) /\ Newer(b, c) => Newer(a, c)
  BY <1>1
<1>. QED
  BY <1>2, <1>3

=============================================================================
