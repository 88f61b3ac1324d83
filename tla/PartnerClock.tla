---------------------------- MODULE PartnerClock ----------------------------
(***************************************************************************)
(* Partner timestamps (clock.py).  A timestamp is a claim about an         *)
(* instant: either written with an offset, or a wall clock reading in a    *)
(* zone whose clock goes forward once and back once.  It is turned into    *)
(* the narrowest window that certainly holds the instant meant, and two    *)
(* windows are ordered only when they do not overlap.                      *)
(***************************************************************************)
EXTENDS Integers

CONSTANTS
    Spring, Autumn,   \* the instants at which summer time starts and ends
    Winter,           \* the zone's offset from UTC outside summer time
    Shift             \* what summer time adds to it

ASSUME ZoneAssumption ==
    /\ Spring \in Int /\ Autumn \in Int /\ Winter \in Int
    /\ Shift \in Nat \ {0}
    /\ Spring + Shift =< Autumn

Summer == Winter + Shift

\* What the wall clock in the zone shows at instant t.
OffsetAt(t) == IF Spring =< t /\ t < Autumn THEN Summer ELSE Winter

Local(t) == t + OffsetAt(t)

\* The instants a wall clock reading may mean.
Meanings(reading) == {t \in Int : Local(t) = reading}

\* The readings the clock jumps over when it goes forward.
Skipped == Spring + Winter .. Spring + Summer - 1

\* The zone database's answer for a naive reading: with fold 0 the offset in
\* force before the transition is used for the readings around it, with fold 1
\* the one after.
OffsetOfReading(reading, fold) ==
    LET before(transition) ==
            reading < transition + (IF fold = 0 THEN Summer ELSE Winter)
    IN  IF before(Spring) \/ ~before(Autumn) THEN Winter ELSE Summer

ToUTC(reading, fold) == reading - OffsetOfReading(reading, fold)

-----------------------------------------------------------------------------
\* A timestamp as received: text nobody can read, an instant with an offset, or
\* a naive reading.
Unreadable == [form |-> "unreadable", at |-> 0]
WithOffset(t) == [form |-> "offset", at |-> t]
Naive(reading) == [form |-> "naive", at |-> reading]

Instant == [lo : Int, hi : Int, ambiguous : BOOLEAN,
            problem : {"none", "not_parseable", "nonexistent_local_time", "no_zone_declared"}]

Window(lo, hi) ==
    [lo |-> lo, hi |-> hi, ambiguous |-> lo # hi, problem |-> "none"]

Problem(kind) == [lo |-> 0, hi |-> 0, ambiguous |-> FALSE, problem |-> kind]

Usable(instant) == instant.problem = "none"

\* Variant: a reading is taken to mean the first instant it can.
ReadNaivelyOnce(reading) == Window(ToUTC(reading, 0), ToUTC(reading, 0))

\* A reading that does not survive the round trip never happened; one with two
\* images happened twice, and which of the folds came first is not assumed.
ReadNaive(reading) ==
    LET first == ToUTC(reading, 0)
        second == ToUTC(reading, 1)
    IN  IF Local(first) # reading THEN Problem("nonexistent_local_time")
        ELSE IF first =< second THEN Window(first, second)
        ELSE Window(second, first)

ParsePartnerTimestamp(raw, zoneDeclared) ==
    CASE raw.form = "unreadable" -> Problem("not_parseable")
      [] raw.form = "offset"     -> Window(raw.at, raw.at)
      [] raw.form = "naive" /\ ~zoneDeclared -> Problem("no_zone_declared")
      [] OTHER -> ReadNaive(raw.at)

-----------------------------------------------------------------------------
Compare(candidate, stored) ==
    IF ~Usable(candidate) \/ ~Usable(stored) THEN "not_provable"
    ELSE IF candidate.lo = stored.lo /\ candidate.hi = stored.hi THEN "same"
    ELSE IF candidate.lo > stored.hi THEN "newer"
    ELSE IF candidate.hi < stored.lo THEN "older"
    ELSE "not_provable"

=============================================================================
