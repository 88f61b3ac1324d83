----------------------------- MODULE FileImport -----------------------------
(***************************************************************************)
(* The nightly file (import_file and expected_minimum_rows in              *)
(* intake/service.py): what the partner sent, what the download left of    *)
(* it, and whether it is applied.  A file is a header, some rows and       *)
(* perhaps a trailer that counts them; a download may stop after any byte. *)
(* What is applied goes through Intake, row by row in one transaction;     *)
(* here it is the number of its rows.                                      *)
(***************************************************************************)
EXTENDS Integers, Sequences, FiniteSets

CONSTANTS
    MaxRows,      \* the largest number of rows
    RowCounts,    \* how many rows the partner may have to send in a file
    Powers,       \* 10, 100 and so on, as far as row counts go
    Lookback,     \* how many earlier files the floor is taken from
    MaxFiles      \* bound on the files applied

ASSUME FileAssumption ==
    /\ MaxRows \in Nat
    /\ RowCounts \subseteq 0 .. MaxRows
    /\ Powers \subseteq Nat \ {0, 1}
    /\ Lookback \in Nat \ {0}
    /\ MaxFiles \in Nat

VARIABLES
    file,       \* the file at hand: as the partner sent it, and what was downloaded
    outcome,    \* the last import's state in import_batches; "pending" before it is run
    applied     \* the row counts of the applied import_batches, oldest first

vars == <<file, outcome, applied>>

Shapes == {"declared", "padded", "unknown"}

NoTrailer == -1
BadTrailer == -2      \* "#rows=" and no number

\* shape: whether the columns are spelt in a way the partner has declared, or
\* would be if there were no blanks around their names.
SentFile == [shape : Shapes, rows : RowCounts, trailer : BOOLEAN]

\* A download: how much of the header there is; the complete lines after it and
\* a last one that has all its fields; whether a line has too few fields,
\* whether the last line has its terminator, and what the trailer declares.
\* What is left of a trailer counts as a line with too few fields until its
\* "#rows=" is complete.
Download(header, rows, ragged, terminated, trailer) ==
    [header |-> header, rows |-> rows, ragged |-> ragged, terminated |-> terminated,
     trailer |-> trailer]

NoDownload == Download("none", 0, FALSE, FALSE, NoTrailer)

Complete(f) ==
    Download("whole", f.rows, FALSE, TRUE, IF f.trailer THEN f.rows ELSE NoTrailer)

\* The numbers that are left of one whose last digits are cut off.
ShorterNumbers(n) == {n \div power : power \in Powers} \ {0}

CutInHeader(f) ==
    {NoDownload, Download("part", 0, FALSE, FALSE, NoTrailer),
     Download("whole", 0, FALSE, FALSE, NoTrailer)}

CutBetweenLines(f) == {Download("whole", n, FALSE, TRUE, NoTrailer) : n \in 0 .. f.rows}

CutInRow(f) ==
    {Download("whole", n, TRUE, FALSE, NoTrailer) : n \in 0 .. f.rows - 1}
      \cup {Download("whole", n, FALSE, FALSE, NoTrailer) : n \in 1 .. f.rows}

CutInTrailer(f) ==
    IF ~f.trailer THEN {}
    ELSE {Download("whole", f.rows, TRUE, FALSE, NoTrailer),
          Download("whole", f.rows, FALSE, TRUE, BadTrailer)}
           \cup {Download("whole", f.rows, FALSE, TRUE, n) : n \in ShorterNumbers(f.rows)}

Downloads(f) ==
    {Complete(f)} \cup CutInHeader(f) \cup CutBetweenLines(f) \cup CutInRow(f) \cup CutInTrailer(f)

-----------------------------------------------------------------------------
\* The most recent applied files of this feed, oldest first.
RecentCounts ==
    SubSeq(applied, IF Len(applied) > Lookback THEN Len(applied) - Lookback + 1 ELSE 1,
           Len(applied))

\* Variant: the count in the middle of the files as they came.
MiddleOfArrivals(counts) == counts[Len(counts) \div 2 + 1]

\* The count in the middle of them sorted: half of them, rounded down, stand
\* before it, so no more than that are smaller and more than that are no larger.
Median(counts) ==
    LET before == Len(counts) \div 2 IN
    CHOOSE n \in {counts[i] : i \in DOMAIN counts} :
        /\ Cardinality({i \in DOMAIN counts : counts[i] < n}) =< before
        /\ before < Cardinality({i \in DOMAIN counts : counts[i] =< n})

\* Variant: the fraction is taken for a percentage.
PercentOfMedian == IF RecentCounts = <<>> THEN 0 ELSE Median(RecentCounts) * 20

\* A fifth of the median, rounded down; no floor for a feed without history.
ExpectedMinimumRows ==
    IF RecentCounts = <<>> THEN 0 ELSE Median(RecentCounts) \div 5

\* Variant: what there is of a trailer is not compared with the rows.
IncompleteByShape(shape, d) ==
    \/ d.header # "whole" \/ shape = "unknown"
    \/ d.ragged \/ ~d.terminated

\* Variant: the header is counted among the rows the trailer declares.
IncompleteCountingHeader(shape, d) ==
    \/ d.header # "whole" \/ shape = "unknown"
    \/ d.ragged \/ ~d.terminated
    \/ d.trailer # NoTrailer /\ d.trailer # d.rows + 1

\* The structural checks.
Incomplete(shape, d) ==
    \/ d.header # "whole" \/ shape = "unknown"
    \/ d.ragged \/ ~d.terminated
    \/ d.trailer # NoTrailer /\ d.trailer # d.rows

\* The trailer is read before all else, and one without a number is an exception
\* nobody catches.  So is a row under padded names: the names are stripped when
\* the columns are looked for, and not when the row is read by them.
Decision(shape, d, floor) ==
    IF d.trailer = BadTrailer THEN "error"
    ELSE IF Incomplete(shape, d) THEN "rejected_incomplete"
    ELSE IF floor > 0 /\ d.rows < floor THEN "held_for_review"
    ELSE IF shape = "padded" /\ d.rows > 0 THEN "error"
    ELSE "applied"

-----------------------------------------------------------------------------
NoFile == [sent |-> [shape |-> "declared", rows |-> 0, trailer |-> FALSE], got |-> NoDownload]

Init ==
    /\ file = NoFile
    /\ outcome = "none"
    /\ applied = <<>>

\* The partner sends a file and it is downloaded, as far as it gets.
Fetch ==
    /\ outcome # "pending"
    /\ Len(applied) < MaxFiles
    /\ \E f \in SentFile : \E d \in Downloads(f) : file' = [sent |-> f, got |-> d]
    /\ outcome' = "pending"
    /\ UNCHANGED applied

\* The file is imported, by a caller that passes the floor of this feed's
\* history or, by default, none.  An exception rolls the transaction back.
ImportFile ==
    /\ outcome = "pending"
    /\ \E floor \in {0, ExpectedMinimumRows} :
           outcome' = Decision(file.sent.shape, file.got, floor)
    /\ applied' = IF outcome' = "applied" THEN Append(applied, file.got.rows) ELSE applied
    /\ file' = NoFile

Next == Fetch \/ ImportFile

Spec == Init /\ [][Next]_vars

-----------------------------------------------------------------------------
Count == 0 .. MaxRows

TypeOK ==
    /\ file \in [sent : [shape : Shapes, rows : Count, trailer : BOOLEAN],
                 got : [header : {"none", "part", "whole"}, rows : Count, ragged : BOOLEAN,
                        terminated : BOOLEAN, trailer : Count \cup {NoTrailer, BadTrailer}]]
    /\ outcome \in {"none", "pending", "applied", "rejected_incomplete", "held_for_review", "error"}
    /\ applied \in Seq(Count)
    /\ ExpectedMinimumRows \in 0 .. MaxRows \div 5

\* A trailer that has arrived, even in part, proves that what is applied is
\* whole: no number with its last digits cut off passes for a smaller file.
TrailerMeansWhole ==
    [][outcome = "pending" /\ outcome' = "applied" /\ file.got.trailer # NoTrailer =>
          file.got = Complete(file.sent)]_vars

\* No false alarm: a file in a declared shape that arrives complete is never
\* refused as incomplete, and it is held only if at least half of this feed's
\* recent files had more than five times its rows.
WholeFileIsNotRefused ==
    [][outcome = "pending" /\ file.got = Complete(file.sent) /\ file.sent.shape = "declared"
         => \/ outcome' = "applied"
            \/ /\ outcome' = "held_for_review"
               /\ 2 * Cardinality({i \in DOMAIN RecentCounts : RecentCounts[i] > 5 * file.got.rows})
                      >= Len(RecentCounts)]_vars

\* Truncated files that slipped through do not talk the floor down while they
\* are a minority: if at least half of the recent files had n rows, fewer than a
\* fifth of n is held.
MinorityCannotLowerTheFloor ==
    \A i \in DOMAIN RecentCounts :
        LET n == RecentCounts[i] IN
        2 * Cardinality({j \in DOMAIN RecentCounts : RecentCounts[j] >= n}) >= Len(RecentCounts)
            => ExpectedMinimumRows >= n \div 5

-----------------------------------------------------------------------------
\* What the repository says of an import, and a download can make it do otherwise.

\* A file is applied with every row the partner sent or not at all, and a
\* truncated download stops it (import_file in intake/service.py, "as a whole or
\* not at all", and docs/partner-lindhoff.md, "a file is applied as a whole or
\* not at all").
AppliedAsAWhole ==
    [][outcome = "pending" /\ outcome' = "applied" => file.got.rows = file.sent.rows]_vars

=============================================================================
