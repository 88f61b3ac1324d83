------------------------- MODULE FileImport_proofs -------------------------
(***************************************************************************)
(* What FileImport promises, for files of any length, any history and any  *)
(* place at which a download may stop.                                     *)
(***************************************************************************)
EXTENDS FileImport, FiniteSetTheorems, TLAPS

-----------------------------------------------------------------------------
\* 1. The floor.

\* A set of numbers that is not empty has a least one.
LEMMA LeastNumber ==
    ASSUME NEW A \in SUBSET Nat, A # {}
    PROVE  \E n \in A : \A m \in A : n =< m
<1>. DEFINE R == {p \in Nat \X Nat : p[1] < p[2]}
<1>1. IsWellFoundedOn(R, Nat)
  <2>1. R = OpToRel(<, Nat)
    BY Zenon DEF OpToRel
  <2>. QED
    BY <2>1, NatLessThanWellFounded, Zenon
<1>2. PICK n \in A : \A m \in A : <<m, n>> \notin R
  <2>. HIDE DEF R
  <2>. QED
    BY <1>1, WFMin
<1>3. \A m \in A : n =< m
  <2>. TAKE m \in A
  <2>1. <<m, n>> \notin R
    BY <1>2
  <2>. QED
    BY <2>1
<1>. QED
  BY <1>3

Below(counts, n) == {i \in DOMAIN counts : counts[i] < n}

UpTo(counts, n) == {i \in DOMAIN counts : counts[i] =< n}

AtLeast(counts, n) == {i \in DOMAIN counts : counts[i] >= n}

\* Counts are numbered from 1, and any of them can be counted.
LEMMA CountsAreFinite ==
    ASSUME NEW counts \in Seq(Count)
    PROVE  /\ DOMAIN counts = 1 .. Len(counts) /\ Len(counts) \in Nat
           /\ \A i \in DOMAIN counts : counts[i] \in Nat /\ counts[i] =< MaxRows
           /\ Cardinality(DOMAIN counts) = Len(counts)
           /\ \A S \in SUBSET DOMAIN counts :
                  IsFiniteSet(S) /\ Cardinality(S) \in Nat /\ Cardinality(S) =< Len(counts)
<1>1. DOMAIN counts = 1 .. Len(counts) /\ Len(counts) \in Nat
  OBVIOUS
<1>2. \A i \in DOMAIN counts : counts[i] \in Nat /\ counts[i] =< MaxRows
  BY FileAssumption DEF Count
<1>3. IsFiniteSet(DOMAIN counts) /\ Cardinality(DOMAIN counts) = Len(counts)
  BY <1>1, FS_Interval
<1>. QED
  BY <1>1, <1>2, <1>3, FS_Subset, FS_CardinalityType

\* Whatever is not below n is at least n.
LEMMA BelowOrAtLeast ==
    ASSUME NEW counts \in Seq(Count), NEW n \in Nat
    PROVE  Cardinality(AtLeast(counts, n)) = Len(counts) - Cardinality(Below(counts, n))
<1>1. AtLeast(counts, n) = DOMAIN counts \ Below(counts, n)
  BY CountsAreFinite DEF AtLeast, Below
<1>2. DOMAIN counts \cap Below(counts, n) = Below(counts, n)
  BY DEF Below
<1>3. IsFiniteSet(DOMAIN counts) /\ Cardinality(DOMAIN counts) = Len(counts)
  BY CountsAreFinite
<1>. QED
  BY <1>1, <1>2, <1>3, FS_Difference

\* Counts have a middle one: at most half of them are smaller, and more than
\* half are no larger.
LEMMA MedianIsInTheMiddle ==
    ASSUME NEW counts \in Seq(Count), counts # <<>>
    PROVE  /\ \E i \in DOMAIN counts : Median(counts) = counts[i]
           /\ Cardinality(Below(counts, Median(counts))) =< Len(counts) \div 2
           /\ Len(counts) \div 2 < Cardinality(UpTo(counts, Median(counts)))
<1>. DEFINE before == Len(counts) \div 2
            A == {n \in Nat : before < Cardinality(UpTo(counts, n))}
<1>1. /\ DOMAIN counts = 1 .. Len(counts) /\ Len(counts) \in Nat \ {0}
      /\ \A i \in DOMAIN counts : counts[i] \in Nat
      /\ Cardinality(DOMAIN counts) = Len(counts)
  BY CountsAreFinite
<1>2. before \in Nat /\ before < Len(counts)
  BY <1>1
<1>3. A # {}
  <2>1. MaxRows \in Nat
    BY FileAssumption
  <2>2. UpTo(counts, MaxRows) = DOMAIN counts
    BY CountsAreFinite DEF UpTo
  <2>. QED
    BY <1>1, <1>2, <2>1, <2>2
<1>4. PICK n \in A : \A m \in A : n =< m
  BY <1>3, LeastNumber
<1>5. n \in Nat /\ before < Cardinality(UpTo(counts, n))
  OBVIOUS
<1>6. Cardinality(Below(counts, n)) \in Nat
  BY CountsAreFinite DEF Below
<1>7. Cardinality(Below(counts, n)) =< before
  <2>1. CASE n = 0
    <3>1. Below(counts, n) = {}
      BY <1>1, <2>1 DEF Below
    <3>. QED
      BY <3>1, <1>2, FS_EmptySet
  <2>2. CASE n # 0
    <3>1. n - 1 \in Nat /\ n - 1 \notin A
      BY <1>4, <1>5, <2>2
    <3>2. ~(before < Cardinality(UpTo(counts, n - 1)))
      BY <3>1
    <3>3. UpTo(counts, n - 1) = Below(counts, n)
      BY <1>1, <1>5 DEF Below, UpTo
    <3>. QED
      BY <3>2, <3>3, <1>6, <1>2
  <2>. QED
    BY <2>1, <2>2
<1>8. \E i \in DOMAIN counts : n = counts[i]
  <2>1. Below(counts, n) # UpTo(counts, n)
    BY <1>2, <1>5, <1>6, <1>7
  <2>. QED
    BY <1>1, <1>5, <2>1 DEF Below, UpTo
<1>9. \E k \in {counts[i] : i \in DOMAIN counts} :
          Cardinality(Below(counts, k)) =< before /\ before < Cardinality(UpTo(counts, k))
  BY <1>5, <1>7, <1>8
<1>. QED
  BY <1>9 DEF Median, Below, UpTo

LEMMA RecentCountsAreCounts ==
    ASSUME applied \in Seq(Count)
    PROVE  RecentCounts \in Seq(Count)
  BY FileAssumption DEF RecentCounts

\* The floor of a feed with a history, as a number.
LEMMA TheFloor ==
    ASSUME applied \in Seq(Count)
    PROVE  /\ ExpectedMinimumRows \in 0 .. MaxRows \div 5
           /\ RecentCounts = <<>> => ExpectedMinimumRows = 0
           /\ RecentCounts # <<>> =>
                  /\ Median(RecentCounts) \in Nat
                  /\ ExpectedMinimumRows = Median(RecentCounts) \div 5
<1>1. RecentCounts \in Seq(Count)
  BY RecentCountsAreCounts
<1>2. MaxRows \in Nat
  BY FileAssumption
<1>3. CASE RecentCounts = <<>>
  BY <1>2, <1>3 DEF ExpectedMinimumRows
<1>4. CASE RecentCounts # <<>>
  <2>1. Median(RecentCounts) \in 0 .. MaxRows
    BY <1>1, <1>4, MedianIsInTheMiddle, CountsAreFinite
  <2>2. ExpectedMinimumRows = Median(RecentCounts) \div 5
    BY <1>4 DEF ExpectedMinimumRows
  <2>. QED
    BY <1>2, <1>4, <2>1, <2>2
<1>. QED
  BY <1>3, <1>4

-----------------------------------------------------------------------------
\* 2. The files a download leaves.

Got == [header : {"none", "part", "whole"}, rows : Count, ragged : BOOLEAN,
        terminated : BOOLEAN, trailer : Count \cup {NoTrailer, BadTrailer}]

\* A number without its last digits is smaller.
LEMMA ShorterIsSmaller ==
    ASSUME NEW n \in Nat, NEW m \in ShorterNumbers(n)
    PROVE  m \in Nat \ {0} /\ m < n
<1>1. PICK power \in Powers : m = n \div power /\ m # 0
  BY DEF ShorterNumbers
<1>2. power \in Nat /\ power > 1
  BY FileAssumption
<1>3. m \in Nat
  BY <1>1, <1>2
<1>4. n >= power * m
  BY <1>1, <1>2, <1>3
<1>5. power * m >= 2 * m
  BY <1>2, <1>3
<1>6. m > 0
  BY <1>1, <1>3
<1>. QED
  BY <1>2, <1>3, <1>4, <1>5, <1>6

\* The partner counts its rows.
LEMMA SentFileType ==
    ASSUME NEW f \in SentFile
    PROVE  /\ f.shape \in Shapes /\ f.trailer \in BOOLEAN
           /\ f.rows \in Count /\ f.rows \in Nat /\ f.rows =< MaxRows
           /\ f = [shape |-> f.shape, rows |-> f.rows, trailer |-> f.trailer]
<1>1. f.rows \in RowCounts /\ f.shape \in Shapes /\ f.trailer \in BOOLEAN
  BY DEF SentFile
<1>2. f = [shape |-> f.shape, rows |-> f.rows, trailer |-> f.trailer]
  BY DEF SentFile
<1>3. f.rows \in Count
  BY <1>1, FileAssumption, Zenon DEF Count
<1>4. f.rows \in Nat /\ f.rows =< MaxRows
  BY <1>3, FileAssumption DEF Count
<1>. QED
  BY <1>1, <1>2, <1>3, <1>4

LEMMA DownloadsAreFiles ==
    ASSUME NEW f \in SentFile, NEW d \in Downloads(f)
    PROVE  d \in Got
<1>1. f.rows \in Count /\ f.rows \in Nat /\ f.rows =< MaxRows
  BY SentFileType
<1>2. ASSUME NEW header \in {"none", "part", "whole"}, NEW n \in 0 .. f.rows,
             NEW ragged \in BOOLEAN, NEW terminated \in BOOLEAN,
             NEW trailer \in Count \cup {NoTrailer, BadTrailer}
      PROVE  Download(header, n, ragged, terminated, trailer) \in Got
  <2>1. n \in Count
    BY <1>1, FileAssumption DEF Count
  <2>. QED
    BY <2>1, Zenon DEF Download, Got
<1>3. CASE d = Complete(f)
  <2>1. f.rows \in 0 .. f.rows
    BY <1>1
  <2>2. (IF f.trailer THEN f.rows ELSE NoTrailer) \in Count \cup {NoTrailer, BadTrailer}
    BY <1>1, Zenon
  <2>. QED
    BY <1>2, <1>3, <2>1, <2>2, Zenon DEF Complete
<1>4. CASE d \in CutInHeader(f)
  <2>1. 0 \in 0 .. f.rows
    BY <1>1
  <2>. QED
    BY <1>2, <1>4, <2>1, Zenon DEF CutInHeader, NoDownload
<1>5. CASE d \in CutBetweenLines(f)
  BY <1>1, <1>2, <1>5 DEF CutBetweenLines
<1>6. CASE d \in CutInRow(f)
  <2>1. (0 .. f.rows - 1) \cup (1 .. f.rows) \subseteq 0 .. f.rows
    BY <1>1
  <2>. QED
    BY <1>2, <1>6, <2>1, Zenon DEF CutInRow
<1>7. CASE d \in CutInTrailer(f)
  <2>1. \A n \in ShorterNumbers(f.rows) : n \in Count
    BY <1>1, FileAssumption, ShorterIsSmaller DEF Count
  <2>2. \/ d = Download("whole", f.rows, TRUE, FALSE, NoTrailer)
        \/ d = Download("whole", f.rows, FALSE, TRUE, BadTrailer)
        \/ \E n \in ShorterNumbers(f.rows) : d = Download("whole", f.rows, FALSE, TRUE, n)
    BY <1>7, Zenon DEF CutInTrailer
  <2>3. f.rows \in 0 .. f.rows
    BY <1>1
  <2>. QED
    BY <1>2, <2>1, <2>2, <2>3, Zenon
<1>. QED
  BY <1>3, <1>4, <1>5, <1>6, <1>7 DEF Downloads

\* What passes for a whole file is one, or was cut between two lines; with any
\* of the trailer left it is one.
LEMMA CompleteByItsLooks ==
    ASSUME NEW f \in SentFile, NEW d \in Downloads(f),
           d.trailer # BadTrailer, ~Incomplete(f.shape, d)
    PROVE  /\ d = Complete(f) \/ d \in CutBetweenLines(f)
           /\ d.trailer # NoTrailer => d = Complete(f)
<1>1. /\ ~d.ragged /\ d.terminated
      /\ d.trailer = NoTrailer \/ d.trailer = d.rows
  BY DEF Incomplete
<1>2. f.rows \in Nat
  BY SentFileType
<1>3. CASE d = Complete(f)
  BY <1>3
<1>4. CASE d \in CutInHeader(f)
  BY <1>1, <1>4 DEF CutInHeader, NoDownload, Download
<1>5. CASE d \in CutBetweenLines(f)
  BY <1>5 DEF CutBetweenLines, Download
<1>6. CASE d \in CutInRow(f)
  BY <1>1, <1>6 DEF CutInRow, Download
<1>7. CASE d \in CutInTrailer(f)
  <2>1. ASSUME NEW n \in ShorterNumbers(f.rows),
               d = Download("whole", f.rows, FALSE, TRUE, n)
        PROVE  FALSE
    BY <1>1, <1>2, <2>1, ShorterIsSmaller DEF Download, NoTrailer
  <2>. QED
    BY <1>1, <1>7, <2>1 DEF CutInTrailer, Download
<1>. QED
  BY <1>3, <1>4, <1>5, <1>6, <1>7 DEF Downloads

-----------------------------------------------------------------------------
\* 3. The invariant.

\* A file that waits for its import is what a download left of one that was sent.
FileIsADownload ==
    outcome = "pending" => file.sent \in SentFile /\ file.got \in Downloads(file.sent)

FInv == TypeOK /\ FileIsADownload

LEMMA InitFInv == Init => FInv
<1>. SUFFICES ASSUME Init PROVE FInv
  OBVIOUS
<1>1. MaxRows \in Nat
  BY FileAssumption
<1>2. applied \in Seq(Count)
  BY DEF Init
<1>3. ExpectedMinimumRows \in 0 .. MaxRows \div 5
  BY <1>2, TheFloor
<1>4. 0 \in Count
  BY <1>1 DEF Count
<1>. QED
  BY <1>2, <1>3, <1>4
  DEF Init, FInv, TypeOK, FileIsADownload, NoFile, NoDownload, Download, Shapes

LEMMA FetchKeepsFInv == FInv /\ Fetch => FInv'
<1>. SUFFICES ASSUME FInv, Fetch PROVE FInv'
  OBVIOUS
<1>1. PICK f \in SentFile : \E d \in Downloads(f) : file' = [sent |-> f, got |-> d]
  BY DEF Fetch
<1>2. PICK d \in Downloads(f) : file' = [sent |-> f, got |-> d]
  BY <1>1
<1>3. d \in Got
  BY DownloadsAreFiles
<1>4. f \in [shape : Shapes, rows : Count, trailer : BOOLEAN]
  BY FileAssumption DEF SentFile, Count
<1>5. outcome' = "pending" /\ applied' = applied
  BY DEF Fetch
<1>6. (ExpectedMinimumRows \in 0 .. MaxRows \div 5)'
  BY <1>5 DEF FInv, TypeOK, ExpectedMinimumRows, RecentCounts
<1>. QED
  BY <1>2, <1>3, <1>4, <1>5, <1>6 DEF FInv, TypeOK, FileIsADownload, Got

LEMMA ImportFileKeepsFInv == FInv /\ ImportFile => FInv'
<1>. SUFFICES ASSUME FInv, ImportFile PROVE FInv'
  OBVIOUS
<1>1. outcome' \in {"applied", "rejected_incomplete", "held_for_review", "error"}
  BY DEF ImportFile, Decision
<1>2. applied' \in Seq(Count)
  BY DEF ImportFile, FInv, TypeOK
<1>3. (ExpectedMinimumRows \in 0 .. MaxRows \div 5)'
  <2>1. (applied \in Seq(Count) => ExpectedMinimumRows \in 0 .. MaxRows \div 5)'
    BY TheFloor, PTL
  <2>. QED
    BY <1>2, <2>1
<1>4. 0 \in Count
  BY FileAssumption DEF Count
<1>. QED
  BY <1>1, <1>2, <1>3, <1>4
  DEF ImportFile, FInv, TypeOK, FileIsADownload, NoFile, NoDownload, Download, Shapes

LEMMA FInvIsInvariant == Spec => []FInv
<1>1. FInv /\ UNCHANGED vars => FInv'
  BY DEF FInv, TypeOK, FileIsADownload, ExpectedMinimumRows, RecentCounts, vars
<1>2. FInv /\ [Next]_vars => FInv'
  BY <1>1, FetchKeepsFInv, ImportFileKeepsFInv DEF Next
<1>. QED
  BY InitFInv, <1>2, PTL DEF Spec

-----------------------------------------------------------------------------
\* 4. The theorems.

\* The type invariant of the file import, with the bounds of the floor
\* (import_file and expected_minimum_rows in intake/service.py).
THEOREM FileTypes == Spec => []TypeOK
  BY FInvIsInvariant, PTL DEF FInv

\* An import that is applied was of a file that looked complete.
LEMMA AppliedLookedComplete ==
    ASSUME FInv, [Next]_vars, outcome = "pending", outcome' = "applied"
    PROVE  /\ file.sent \in SentFile /\ file.got \in Downloads(file.sent)
           /\ file.got.trailer # BadTrailer /\ ~Incomplete(file.sent.shape, file.got)
<1>1. ImportFile
  BY DEF Next, Fetch, vars
<1>2. PICK floor \in {0, ExpectedMinimumRows} :
          outcome' = Decision(file.sent.shape, file.got, floor)
  BY <1>1 DEF ImportFile
<1>. QED
  BY <1>2 DEF Decision, FInv, FileIsADownload

\* A trailer that has arrived, even in part, proves that what is applied is
\* whole (_split_trailer and the comparison with the rows in import_file).
THEOREM TheTrailerProvesTheFile == Spec => TrailerMeansWhole
<1>. DEFINE Proved == outcome = "pending" /\ outcome' = "applied"
                        /\ file.got.trailer # NoTrailer => file.got = Complete(file.sent)
<1>1. FInv /\ [Next]_vars => [Proved]_vars
  BY AppliedLookedComplete, CompleteByItsLooks
<1>2. Spec => [][Proved]_vars
  BY <1>1, FInvIsInvariant, PTL DEF Spec
<1>. QED
  BY <1>2 DEF TrailerMeansWhole

\* A floor above n rows means that at least half of the recent files had more
\* than five times as many.
LEMMA FloorIsFarBelowHalf ==
    ASSUME applied \in Seq(Count), NEW n \in Nat, n < ExpectedMinimumRows
    PROVE  2 * Cardinality({i \in DOMAIN RecentCounts : RecentCounts[i] > 5 * n})
               >= Len(RecentCounts)
<1>. DEFINE middle == Median(RecentCounts)
<1>1. RecentCounts \in Seq(Count)
  BY RecentCountsAreCounts
<1>2. RecentCounts # <<>> /\ middle \in Nat /\ ExpectedMinimumRows = middle \div 5
  BY TheFloor
<1>3. middle > 5 * n
  BY <1>2
<1>4. Cardinality(AtLeast(RecentCounts, middle))
          = Len(RecentCounts) - Cardinality(Below(RecentCounts, middle))
  BY <1>1, <1>2, BelowOrAtLeast
<1>5. Cardinality(Below(RecentCounts, middle)) =< Len(RecentCounts) \div 2
  BY <1>1, <1>2, MedianIsInTheMiddle
<1>6. AtLeast(RecentCounts, middle) \subseteq {i \in DOMAIN RecentCounts : RecentCounts[i] > 5 * n}
  BY <1>1, <1>2, <1>3, CountsAreFinite DEF AtLeast
<1>7. Cardinality(AtLeast(RecentCounts, middle))
          =< Cardinality({i \in DOMAIN RecentCounts : RecentCounts[i] > 5 * n})
  BY <1>1, <1>6, CountsAreFinite, FS_Subset
<1>8. /\ Cardinality(Below(RecentCounts, middle)) \in Nat
      /\ Cardinality({i \in DOMAIN RecentCounts : RecentCounts[i] > 5 * n}) \in Nat
      /\ Len(RecentCounts) \in Nat
  BY <1>1, CountsAreFinite DEF Below
<1>. QED
  BY <1>4, <1>5, <1>7, <1>8

\* No false alarm: a file in a declared shape that arrives complete is applied,
\* or held because at least half of the recent files had more than five times
\* its rows (import_file with the floor of expected_minimum_rows).
THEOREM NoFalseAlarm == Spec => WholeFileIsNotRefused
<1>. DEFINE Heard ==
       outcome = "pending" /\ file.got = Complete(file.sent) /\ file.sent.shape = "declared"
         => \/ outcome' = "applied"
            \/ /\ outcome' = "held_for_review"
               /\ 2 * Cardinality({i \in DOMAIN RecentCounts : RecentCounts[i] > 5 * file.got.rows})
                      >= Len(RecentCounts)
<1>1. FInv /\ [Next]_vars => [Heard]_vars
  <2>. SUFFICES ASSUME FInv, Next, outcome = "pending", file.got = Complete(file.sent),
                       file.sent.shape = "declared"
                PROVE  Heard
    OBVIOUS
  <2>1. ImportFile
    BY DEF Next, Fetch
  <2>2. PICK floor \in {0, ExpectedMinimumRows} :
            outcome' = Decision(file.sent.shape, file.got, floor)
    BY <2>1 DEF ImportFile
  <2>3. file.sent \in SentFile
    BY DEF FInv, FileIsADownload
  <2>4. file.sent.rows \in Nat
    BY <2>3, SentFileType
  <2>5. /\ file.got.trailer \in {NoTrailer, file.got.rows} /\ file.got.rows = file.sent.rows
        /\ file.got.header = "whole" /\ ~file.got.ragged /\ file.got.terminated
    BY <2>3, SentFileType DEF Complete, Download
  <2>6. file.got.trailer # BadTrailer /\ ~Incomplete(file.sent.shape, file.got)
    BY <2>4, <2>5 DEF Incomplete, BadTrailer, NoTrailer
  <2>7. CASE outcome' = "applied"
    BY <2>7
  <2>8. CASE outcome' # "applied"
    <3>1. outcome' = "held_for_review" /\ floor > 0 /\ file.got.rows < floor
      BY <2>2, <2>6, <2>8 DEF Decision
    <3>2. floor = ExpectedMinimumRows
      BY <3>1
    <3>. QED
      BY <2>4, <2>5, <3>1, <3>2, FloorIsFarBelowHalf DEF FInv, TypeOK
  <2>. QED
    BY <2>7, <2>8
<1>2. Spec => [][Heard]_vars
  BY <1>1, FInvIsInvariant, PTL DEF Spec
<1>. QED
  BY <1>2, PTL DEF WholeFileIsNotRefused

\* Truncated files that slipped through do not talk the floor down while they
\* are a minority (the median in expected_minimum_rows).
THEOREM MinorityIsHarmless == Spec => []MinorityCannotLowerTheFloor
<1>1. FInv => MinorityCannotLowerTheFloor
  <2>. SUFFICES ASSUME FInv, NEW i \in DOMAIN RecentCounts,
                       2 * Cardinality(AtLeast(RecentCounts, RecentCounts[i]))
                           >= Len(RecentCounts)
                PROVE  ExpectedMinimumRows >= RecentCounts[i] \div 5
    BY DEF MinorityCannotLowerTheFloor, AtLeast
  <2>. DEFINE n == RecentCounts[i]
              middle == Median(RecentCounts)
  <2>1. applied \in Seq(Count) /\ RecentCounts \in Seq(Count)
    BY RecentCountsAreCounts DEF FInv, TypeOK
  <2>2. RecentCounts # <<>> /\ n \in Nat
    BY <2>1, CountsAreFinite
  <2>3. middle \in Nat /\ ExpectedMinimumRows = middle \div 5
    BY <2>1, <2>2, TheFloor
  <2>4. middle >= n
    <3>. SUFFICES ASSUME middle < n PROVE FALSE
      BY <2>2, <2>3
    <3>1. UpTo(RecentCounts, middle) \subseteq Below(RecentCounts, n)
      BY <2>1, <2>2, <2>3, CountsAreFinite DEF UpTo, Below
    <3>2. Cardinality(UpTo(RecentCounts, middle)) =< Cardinality(Below(RecentCounts, n))
      BY <2>1, <3>1, CountsAreFinite, FS_Subset DEF Below
    <3>3. Len(RecentCounts) \div 2 < Cardinality(UpTo(RecentCounts, middle))
      BY <2>1, <2>2, MedianIsInTheMiddle
    <3>4. Cardinality(AtLeast(RecentCounts, n))
              = Len(RecentCounts) - Cardinality(Below(RecentCounts, n))
      BY <2>1, <2>2, BelowOrAtLeast
    <3>5. /\ Cardinality(UpTo(RecentCounts, middle)) \in Nat
          /\ Cardinality(Below(RecentCounts, n)) \in Nat
          /\ Len(RecentCounts) \in Nat
      BY <2>1, CountsAreFinite DEF UpTo, Below
    <3>. QED
      BY <3>2, <3>3, <3>4, <3>5
  <2>. QED
    BY <2>2, <2>3, <2>4
<1>. QED
  BY <1>1, FInvIsInvariant, PTL

=============================================================================
