---------------------------- MODULE Report_proofs ----------------------------
(***************************************************************************)
(* The report reconciles with the provider (ReportBoundsWhatMoved), for    *)
(* any number of bookings, months and amounts, by one worker at a time or  *)
(* by any number of workers of whom none corrects lines.                   *)
(***************************************************************************)
EXTENDS Report, BillingRecords_proofs

-----------------------------------------------------------------------------
\* 1. Sums.  The sum over a set is defined by a recursive function on its
\* subsets, which takes away one element after the other.

One(T) == CHOOSE x \in T : TRUE

\* F is the recursive function by which a sum of f over S is defined.
SumsUp(F, f, S) ==
    F = [T \in SUBSET S |-> IF T = {} THEN 0 ELSE f[One(T)] + F[T \ {One(T)}]]

\* F adds up f over the subsets of T, one element after the other.
AddsUp(F, f, T) ==
    \A U \in SUBSET T : F[U] = IF U = {} THEN 0 ELSE f[One(U)] + F[U \ {One(U)}]

LEMMA MinimalSet ==
    ASSUME NEW S, IsFiniteSet(S), NEW A \in SUBSET (SUBSET S), A # {}
    PROVE  \E T \in A : \A U \in A : U \subseteq T => U = T
<1>. DEFINE R == StrictSubsetOrdering(S)
<1>1. IsWellFoundedOn(R, SUBSET S)
  BY FS_StrictSubsetOrderingWellFounded, FS_FiniteSubsetsOfFinite
<1>2. PICK T \in A : \A U \in A : <<U, T>> \notin R
  <2>. HIDE DEF R
  <2>. QED BY <1>1, WFMin
<1>3. \A U \in A : U \subseteq T => U = T
  BY <1>2 DEF StrictSubsetOrdering
<1>. QED
  BY <1>3

LEMMA SumIsUnique ==
    ASSUME NEW S, IsFiniteSet(S), NEW f, NEW F, NEW G, AddsUp(F, f, S), AddsUp(G, f, S)
    PROVE  \A T \in SUBSET S : F[T] = G[T]
<1>. DEFINE A == {U \in SUBSET S : F[U] # G[U]}
<1>. SUFFICES ASSUME A # {} PROVE FALSE
  OBVIOUS
<1>1. A \in SUBSET (SUBSET S)
  OBVIOUS
<1>2. PICK U \in A : \A V \in A : V \subseteq U => V = U
  <2>. HIDE DEF A
  <2>. QED
    BY <1>1, MinimalSet
<1>3. U # {}
  BY DEF AddsUp
<1>4. One(U) \in U
  BY <1>3 DEF One
<1>5. U \ {One(U)} \notin A
  BY <1>2, <1>4
<1>. QED
  BY <1>3, <1>4, <1>5 DEF AddsUp

LEMMA SumExists ==
    ASSUME NEW S, IsFiniteSet(S), NEW f
    PROVE  \E F : SumsUp(F, f, S)
<1>. DEFINE B == {T \in SUBSET S : ~ \E F : AddsUp(F, f, T)}
<1>1. B = {}
  <2>. SUFFICES ASSUME B # {} PROVE FALSE
    OBVIOUS
  <2>1. PICK T \in B : \A U \in B : U \subseteq T => U = T
    <3>1. B \in SUBSET (SUBSET S)
      OBVIOUS
    <3>. HIDE DEF B
    <3>. QED
      BY <3>1, MinimalSet
  <2>. DEFINE Of(U) == CHOOSE F : AddsUp(F, f, U)
              H == [U \in SUBSET T |-> IF U = {} THEN 0 ELSE f[One(U)] + Of(U \ {One(U)})[U \ {One(U)}]]
  <2>2. \A U \in SUBSET T : U # T => AddsUp(Of(U), f, U)
    BY <2>1
  <2>3. ASSUME NEW U \in SUBSET T
        PROVE  H[U] = IF U = {} THEN 0 ELSE f[One(U)] + H[U \ {One(U)}]
    <3>. DEFINE V == U \ {One(U)}
    <3>1. CASE U = {}
      BY <3>1
    <3>2. CASE U # {}
      <4>1. One(U) \in U
        BY <3>2 DEF One
      <4>2. V \in SUBSET T /\ V # T
        BY <4>1
      <4>3. AddsUp(Of(V), f, V)
        BY <2>2, <4>2
      <4>4. H[V] = Of(V)[V]
        <5>1. CASE V = {}
          BY <4>2, <4>3, <5>1 DEF AddsUp
        <5>2. CASE V # {}
          <6>. DEFINE W == V \ {One(V)}
          <6>1. One(V) \in V
            BY <5>2 DEF One
          <6>2. W \in SUBSET T /\ W # T /\ W \subseteq V
            BY <4>2, <6>1
          <6>3. AddsUp(Of(W), f, W)
            BY <2>2, <6>2
          <6>4. AddsUp(Of(V), f, W)
            BY <4>3, <6>2 DEF AddsUp
          <6>5. Of(W)[W] = Of(V)[W]
            <7>1. IsFiniteSet(W) /\ W \in SUBSET W
              BY <6>2, FS_Subset
            <7>2. \A P, Q : AddsUp(P, f, W) /\ AddsUp(Q, f, W) => P[W] = Q[W]
              <8>. HIDE DEF W
              <8>. QED
                BY <7>1, SumIsUnique
            <7>. QED
              BY <6>3, <6>4, <7>2, Zenon
          <6>. QED
            BY <4>2, <4>3, <5>2, <6>5 DEF AddsUp
        <5>. QED
          BY <5>1, <5>2
      <4>. QED
        BY <3>2, <4>4
    <3>. QED
      BY <3>1, <3>2
  <2>4. AddsUp(H, f, T)
    BY <2>3 DEF AddsUp
  <2>. QED
    BY <2>4
<1>2. PICK F : AddsUp(F, f, S)
  BY <1>1
<1>. DEFINE G == [T \in SUBSET S |-> F[T]]
<1>3. SumsUp(G, f, S)
  <2>1. \A T \in SUBSET S : G[T] = IF T = {} THEN 0 ELSE f[One(T)] + G[T \ {One(T)}]
    BY <1>2 DEF AddsUp
  <2>. QED
    BY <2>1 DEF SumsUp
<1>. QED
  BY <1>3

\* The sum of f over S.
Total(f, S) == (CHOOSE F : SumsUp(F, f, S))[S]

\* However it is chosen, a function that adds up f gives the sum.
LEMMA TotalOf ==
    ASSUME NEW S, IsFiniteSet(S), NEW f, NEW F, AddsUp(F, f, S)
    PROVE  \A T \in SUBSET S : Total(f, T) = F[T]
<1>. SUFFICES ASSUME NEW T \in SUBSET S PROVE Total(f, T) = F[T]
  OBVIOUS
<1>1. IsFiniteSet(T) /\ T \in SUBSET T
  BY FS_Subset
<1>. DEFINE G == CHOOSE H : SumsUp(H, f, T)
<1>2. SumsUp(G, f, T)
  BY <1>1, SumExists
<1>3. AddsUp(G, f, T)
  <2>. HIDE DEF G
  <2>. QED
    BY <1>2 DEF SumsUp, AddsUp
<1>4. AddsUp(F, f, T)
  BY DEF AddsUp
<1>5. \A P, Q : AddsUp(P, f, T) /\ AddsUp(Q, f, T) => P[T] = Q[T]
  BY <1>1, SumIsUnique
<1>. QED
  BY <1>3, <1>4, <1>5, Zenon DEF Total

\* The sum over a set is one of its elements and the sum over the others.
LEMMA TotalByChoice ==
    ASSUME NEW S, IsFiniteSet(S), NEW f, \A x \in S : f[x] \in Nat
    PROVE  \A T \in SUBSET S :
              /\ Total(f, T) \in Nat
              /\ Total(f, T) = IF T = {} THEN 0 ELSE f[One(T)] + Total(f, T \ {One(T)})
<1>1. PICK F : SumsUp(F, f, S)
  BY SumExists
<1>2. AddsUp(F, f, S)
  BY <1>1 DEF SumsUp, AddsUp
<1>3. \A T \in SUBSET S : Total(f, T) = F[T]
  BY <1>2, TotalOf
<1>4. \A T \in SUBSET S :
          Total(f, T) = IF T = {} THEN 0 ELSE f[One(T)] + Total(f, T \ {One(T)})
  BY <1>2, <1>3 DEF AddsUp
<1>. DEFINE A == {T \in SUBSET S : Total(f, T) \notin Nat}
<1>5. A = {}
  <2>. SUFFICES ASSUME A # {} PROVE FALSE
    OBVIOUS
  <2>1. PICK T \in A : \A U \in A : U \subseteq T => U = T
    <3>1. A \in SUBSET (SUBSET S)
      OBVIOUS
    <3>. HIDE DEF A
    <3>. QED
      BY <3>1, MinimalSet
  <2>2. T # {}
    <3>1. Total(f, {}) \in Nat
      <4>1. Total(f, {}) = 0
        BY <1>4
      <4>. QED
        BY <4>1
    <3>. QED
      BY <3>1, Zenon
  <2>3. One(T) \in T
    BY <2>2 DEF One
  <2>4. Total(f, T \ {One(T)}) \in Nat
    BY <2>1, <2>3
  <2>5. f[One(T)] \in Nat
    BY <2>3
  <2>. QED
    BY <1>4, <2>2, <2>4, <2>5
<1>. QED
  BY <1>4, <1>5

\* It does not matter which element is taken first.
AnyFirst(f, S) ==
    \A T \in SUBSET S : \A x \in T : Total(f, T) = f[x] + Total(f, T \ {x})

LEMMA TotalWithout ==
    ASSUME NEW S, IsFiniteSet(S), NEW f, \A x \in S : f[x] \in Nat
    PROVE  AnyFirst(f, S)
<1>. DEFINE A == {T \in SUBSET S : ~ \A x \in T : Total(f, T) = f[x] + Total(f, T \ {x})}
<1>. SUFFICES ASSUME A # {} PROVE FALSE
  BY DEF AnyFirst
<1>1. PICK T \in A : \A U \in A : U \subseteq T => U = T
  <2>1. A \in SUBSET (SUBSET S)
    OBVIOUS
  <2>. HIDE DEF A
  <2>. QED
    BY <2>1, MinimalSet
<1>2. PICK x \in T : Total(f, T) # f[x] + Total(f, T \ {x})
  OBVIOUS
<1>. DEFINE y == One(T)
<1>3. y \in T
  BY DEF One
<1>4. Total(f, T) = f[y] + Total(f, T \ {y})
  BY TotalByChoice
<1>5. x # y
  BY <1>2, <1>4
<1>. HIDE DEF y
<1>6. T \ {x} \in SUBSET S /\ T \ {y} \in SUBSET S /\ T \ {x} \notin A /\ T \ {y} \notin A
  BY <1>1, <1>3
<1>7. Total(f, T \ {y}) = f[x] + Total(f, (T \ {y}) \ {x})
  BY <1>5, <1>6
<1>8. Total(f, T \ {x}) = f[y] + Total(f, (T \ {x}) \ {y})
  BY <1>3, <1>5, <1>6
<1>9. (T \ {y}) \ {x} = (T \ {x}) \ {y} /\ (T \ {y}) \ {x} \in SUBSET S
  OBVIOUS
<1>10. Total(f, (T \ {y}) \ {x}) \in Nat /\ f[x] \in Nat /\ f[y] \in Nat
  BY <1>3, <1>9, TotalByChoice
<1>. QED
  BY <1>2, <1>4, <1>7, <1>8, <1>9, <1>10

\* A part is no more than the whole: if every term of one sum is a term of the
\* other, and no two are the same one, the first is at most the second.
LEMMA TotalOfPart ==
    ASSUME NEW S, IsFiniteSet(S), NEW f, \A x \in S : f[x] \in Nat,
           NEW T, IsFiniteSet(T), NEW h, \A x \in T : h[x] \in Nat,
           NEW g, \A x \in S : g[x] \in T /\ f[x] = h[g[x]],
           \A x, y \in S : g[x] = g[y] => x = y
    PROVE  Total(f, S) =< Total(h, T)
<1>a. /\ \A U \in SUBSET S : Total(f, U) \in Nat
      /\ \A U \in SUBSET S : \A x \in U : Total(f, U) = f[x] + Total(f, U \ {x})
  <2>1. \A U \in SUBSET S : Total(f, U) \in Nat
    BY TotalByChoice
  <2>2. AnyFirst(f, S)
    BY TotalWithout
  <2>. QED
    BY <2>1, <2>2 DEF AnyFirst
<1>b. /\ \A V \in SUBSET T : Total(h, V) \in Nat
      /\ \A V \in SUBSET T : \A z \in V : Total(h, V) = h[z] + Total(h, V \ {z})
  <2>1. \A V \in SUBSET T : Total(h, V) \in Nat
    BY TotalByChoice
  <2>2. AnyFirst(h, T)
    BY TotalWithout
  <2>. QED
    BY <2>1, <2>2 DEF AnyFirst
<1>. DEFINE Image(U) == {g[x] : x \in U}
            A == {U \in SUBSET S : \E V \in SUBSET T :
                      Image(U) \subseteq V /\ ~(Total(f, U) =< Total(h, V))}
<1>1. A = {}
  <2>. SUFFICES ASSUME A # {} PROVE FALSE
    OBVIOUS
  <2>1. PICK U \in A : \A W \in A : W \subseteq U => W = U
    <3>1. A \in SUBSET (SUBSET S)
      OBVIOUS
    <3>. HIDE DEF A
    <3>. QED
      BY <3>1, MinimalSet
  <2>2. PICK V \in SUBSET T : Image(U) \subseteq V /\ ~(Total(f, U) =< Total(h, V))
    OBVIOUS
  <2>3. Total(f, U) \in Nat /\ Total(h, V) \in Nat
    BY TotalByChoice
  <2>4. PICK x : x \in U
    <3>1. Total(f, {}) = 0
      BY TotalByChoice
    <3>. QED
      BY <2>2, <2>3, <3>1
  <2>5. g[x] \in V /\ f[x] = h[g[x]] /\ f[x] \in Nat
    BY <2>2, <2>4
  <2>6. Total(f, U) = f[x] + Total(f, U \ {x}) /\ Total(f, U \ {x}) \in Nat
    BY <1>a, <2>4
  <2>7. Total(h, V) = h[g[x]] + Total(h, V \ {g[x]}) /\ Total(h, V \ {g[x]}) \in Nat
    BY <1>b, <2>5
  <2>8. Image(U \ {x}) \subseteq V \ {g[x]}
    BY <2>2, <2>4
  <2>9. Total(f, U \ {x}) =< Total(h, V \ {g[x]})
    BY <2>1, <2>4, <2>8
  <2>. QED
    BY <2>2, <2>3, <2>5, <2>6, <2>7, <2>9
<1>2. Image(S) \subseteq T
  OBVIOUS
<1>. QED
  BY <1>1, <1>2

\* The sum over two sets that have nothing in common.
LEMMA TotalOfTwo ==
    ASSUME NEW S, IsFiniteSet(S), NEW T, IsFiniteSet(T), S \cap T = {},
           NEW f, \A x \in S \cup T : f[x] \in Nat
    PROVE  Total(f, S \cup T) = Total(f, S) + Total(f, T)
<1>1. IsFiniteSet(S \cup T)
  BY FS_Union
<1>a. /\ \A U \in SUBSET (S \cup T) : Total(f, U) \in Nat
      /\ \A U \in SUBSET (S \cup T) : \A x \in U : Total(f, U) = f[x] + Total(f, U \ {x})
      /\ Total(f, {}) = 0
  <2>1. \A U \in SUBSET (S \cup T) : Total(f, U) \in Nat
    BY <1>1, TotalByChoice
  <2>2. Total(f, {}) = 0
    BY <1>1, TotalByChoice
  <2>3. AnyFirst(f, S \cup T)
    BY <1>1, TotalWithout
  <2>. QED
    BY <2>1, <2>2, <2>3 DEF AnyFirst
<1>. DEFINE A == {U \in SUBSET S : Total(f, U \cup T) # Total(f, U) + Total(f, T)}
<1>2. A = {}
  <2>. SUFFICES ASSUME A # {} PROVE FALSE
    OBVIOUS
  <2>1. PICK U \in A : \A W \in A : W \subseteq U => W = U
    <3>1. A \in SUBSET (SUBSET S)
      OBVIOUS
    <3>. HIDE DEF A
    <3>. QED
      BY <3>1, MinimalSet
  <2>2. Total(f, T) \in Nat /\ Total(f, {}) = 0
    BY <1>a
  <2>3. PICK x : x \in U
    <3>1. {} \cup T = T
      OBVIOUS
    <3>. QED
      BY <2>2, <3>1
  <2>4. Total(f, U) = f[x] + Total(f, U \ {x}) /\ Total(f, U \ {x}) \in Nat
    BY <1>a, <2>3
  <2>5. /\ Total(f, U \cup T) = f[x] + Total(f, (U \cup T) \ {x})
        /\ Total(f, (U \cup T) \ {x}) \in Nat
    BY <1>a, <2>3
  <2>6. (U \cup T) \ {x} = (U \ {x}) \cup T
    BY <2>3
  <2>7. Total(f, (U \ {x}) \cup T) = Total(f, U \ {x}) + Total(f, T)
    BY <2>1, <2>3
  <2>8. f[x] \in Nat
    BY <2>3
  <2>9. Total(f, U \cup T) # Total(f, U) + Total(f, T)
    OBVIOUS
  <2>10. Total(f, (U \cup T) \ {x}) = Total(f, U \ {x}) + Total(f, T)
    BY <2>6, <2>7, Zenon
  <2>. QED
    BY <2>2, <2>4, <2>5, <2>8, <2>9, <2>10
<1>. QED
  BY <1>2


-----------------------------------------------------------------------------
\* 2. The sums of the report.

Finite == IsFiniteSet(Bookings)

LineAmount == [o \in Obligations |-> lines[o].amount]

ChargeAmount == [c \in charges |-> c.amount]

ChargesIn(period) == {c \in charges : c.key[2] = period}

LEMMA ReportOfLines ==
    ASSUME TypeOK, NEW S \in SUBSET Obligations, IsFiniteSet(S)
    PROVE  MapThenSumSet(LAMBDA o : lines[o].amount, S) = Total(LineAmount, S)
<1>. DEFINE Step(F) == [T \in SUBSET S |-> IF T = {} THEN 0
                                           ELSE lines[One(T)].amount + F[T \ {One(T)}]]
            I == CHOOSE F : F = Step(F)
<1>1. \A T \in SUBSET S : T # {} => One(T) \in T /\ LineAmount[One(T)] = lines[One(T)].amount
  BY DEF One, LineAmount
<1>2. \E F : F = Step(F)
  <2>1. PICK F : SumsUp(F, LineAmount, S)
    BY SumExists
  <2>2. F = Step(F)
    BY <1>1, <2>1 DEF SumsUp
  <2>. QED
    BY <2>2
<1>3. I = Step(I)
  BY <1>2
<1>4. AddsUp(I, LineAmount, S)
  <2>. HIDE DEF I
  <2>. QED
    BY <1>1, <1>3 DEF AddsUp
<1>5. Total(LineAmount, S) = I[S]
  <2>. HIDE DEF I
  <2>. QED
    BY <1>4, TotalOf
<1>6. MapThenSumSet(LAMBDA o : lines[o].amount, S) = I[S]
  BY DEF MapThenSumSet, MapThenFoldSet, One
<1>. QED
  BY <1>5, <1>6

LEMMA ReportOfCharges ==
    ASSUME TypeOK, NEW S \in SUBSET charges, IsFiniteSet(S)
    PROVE  MapThenSumSet(LAMBDA c : c.amount, S) = Total(ChargeAmount, S)
<1>. DEFINE Step(F) == [T \in SUBSET S |-> IF T = {} THEN 0
                                           ELSE One(T).amount + F[T \ {One(T)}]]
            I == CHOOSE F : F = Step(F)
<1>1. \A T \in SUBSET S : T # {} => One(T) \in T /\ ChargeAmount[One(T)] = One(T).amount
  BY DEF One, ChargeAmount
<1>2. \E F : F = Step(F)
  <2>1. PICK F : SumsUp(F, ChargeAmount, S)
    BY SumExists
  <2>2. F = Step(F)
    BY <1>1, <2>1 DEF SumsUp
  <2>. QED
    BY <2>2
<1>3. I = Step(I)
  BY <1>2
<1>4. AddsUp(I, ChargeAmount, S)
  <2>. HIDE DEF I
  <2>. QED
    BY <1>1, <1>3 DEF AddsUp
<1>5. Total(ChargeAmount, S) = I[S]
  <2>. HIDE DEF I
  <2>. QED
    BY <1>4, TotalOf
<1>6. MapThenSumSet(LAMBDA c : c.amount, S) = I[S]
  BY DEF MapThenSumSet, MapThenFoldSet, One
<1>. QED
  BY <1>5, <1>6

LEMMA ReportIsTheTotals ==
    ASSUME Finite, TypeOK, NEW period \in Periods
    PROVE  /\ Moved(period) = Total(ChargeAmount, ChargesIn(period))
           /\ IsFiniteSet(ChargesIn(period))
           /\ \A state \in LineStates :
                  /\ IsFiniteSet(LinesIn(period, state))
                  /\ ByState(period)[state].amount = Total(LineAmount, LinesIn(period, state))
<1>1. IsFiniteSet(ChargesIn(period)) /\ ChargesIn(period) \in SUBSET charges
  BY FS_Subset DEF TypeOK, ChargesIn
<1>2. Moved(period) = Total(ChargeAmount, ChargesIn(period))
  BY <1>1, ReportOfCharges DEF Moved, ChargesIn
<1>3. IsFiniteSet(Bookings \X {period})
  BY FS_Product, FS_Singleton DEF Finite
<1>4. ASSUME NEW state \in LineStates
      PROVE  /\ IsFiniteSet(LinesIn(period, state))
             /\ ByState(period)[state].amount = Total(LineAmount, LinesIn(period, state))
  <2>1. LinesIn(period, state) \in SUBSET Obligations
        /\ LinesIn(period, state) \subseteq Bookings \X {period}
    BY DEF LinesIn, Obligations
  <2>2. IsFiniteSet(LinesIn(period, state))
    BY <1>3, <2>1, FS_Subset
  <2>3. ByState(period)[state].amount
            = MapThenSumSet(LAMBDA o : lines[o].amount, LinesIn(period, state))
    BY DEF ByState
  <2>. QED
    BY <2>1, <2>2, <2>3, ReportOfLines
<1>. QED
  BY <1>1, <1>2, <1>4

\* What is charged has moved, and what has moved is charged, submitted or
\* unresolved: an operation and its line have the same amount, no two
\* operations have the same line, and every operation has one.
LEMMA ReportIsBound ==
    ASSUME Finite, NothingFrozenMoves, AttemptIsOnRecord
    PROVE  ReportBoundsWhatMoved
<1>. SUFFICES ASSUME NEW period \in Periods
              PROVE  /\ ByState(period)["charged"].amount =< Moved(period)
                     /\ Moved(period) =< ByState(period)["charged"].amount
                                         + ByState(period)["submitted"].amount
                                         + ByState(period)["unresolved"].amount
  BY DEF ReportBoundsWhatMoved
<1>. DEFINE C == LinesIn(period, "charged")
            S == LinesIn(period, "submitted")
            U == LinesIn(period, "unresolved")
            M == ChargesIn(period)
            all == (C \cup S) \cup U
<1>1. TypeOK /\ TablesIntact
  BY DEF NothingFrozenMoves
<1>2. /\ IsFiniteSet(C) /\ IsFiniteSet(S) /\ IsFiniteSet(U) /\ IsFiniteSet(M)
      /\ ByState(period)["charged"].amount = Total(LineAmount, C)
      /\ ByState(period)["submitted"].amount = Total(LineAmount, S)
      /\ ByState(period)["unresolved"].amount = Total(LineAmount, U)
      /\ Moved(period) = Total(ChargeAmount, M)
  BY <1>1, ReportIsTheTotals DEF LineStates
<1>3. /\ C \cap S = {} /\ (C \cup S) \cap U = {}
      /\ IsFiniteSet(C \cup S) /\ IsFiniteSet(all)
  BY <1>2, FS_Union DEF LinesIn
<1>a. \A x \in Amounts \cup {0} : x \in Nat
  BY FeedAssumption
<1>4. /\ \A o \in all : o \in Obligations /\ LineAmount[o] \in Nat /\ LineAmount[o] = lines[o].amount
      /\ \A c \in M : /\ c \in charges /\ c.key \in Obligations /\ c.key[2] = period
                      /\ ChargeAmount[c] \in Nat /\ ChargeAmount[c] = c.amount
  <2>1. \A o \in Obligations : lines[o].amount \in Nat
    <3>. SUFFICES ASSUME NEW o \in Obligations PROVE lines[o].amount \in Nat
      OBVIOUS
    <3>1. lines[o] \in Line
      BY <1>1 DEF TypeOK
    <3>2. lines[o].amount \in Amounts \cup {0}
      BY <3>1 DEF Line
    <3>. QED
      BY <1>a, <3>2
  <2>2. \A c \in charges : c.amount \in Nat /\ c.key \in Obligations
    <3>. SUFFICES ASSUME NEW c \in charges PROVE c.amount \in Nat /\ c.key \in Obligations
      OBVIOUS
    <3>1. c \in Charge
      BY <1>1 DEF TypeOK
    <3>2. c.amount \in Amounts \cup {0} /\ c.key \in Obligations
      BY <3>1 DEF Charge
    <3>. QED
      BY <1>a, <3>2
  <2>. QED
    BY <2>1, <2>2 DEF LinesIn, LineAmount, ChargeAmount, ChargesIn
<1>5. Total(LineAmount, C) =< Total(ChargeAmount, M)
  <2>. DEFINE g == [o \in C |-> CHOOSE c \in charges : c.key = o]
  <2>1. ASSUME NEW o \in C
        PROVE  g[o] \in M /\ g[o].key = o /\ LineAmount[o] = ChargeAmount[g[o]]
    <3>1. o \in Obligations /\ o[2] = period /\ lines[o].state = "charged"
      BY DEF LinesIn
    <3>2. Exists(o) /\ lines[o].chargeRef # NoRef
      BY <1>1, <3>1 DEF TablesIntact, Exists, Intact
    <3>3. \E c \in charges : c.key = o
      BY <1>1, <3>1, <3>2 DEF TablesIntact
    <3>4. g[o] \in charges /\ g[o].key = o
      BY <3>3
    <3>. QED
      BY <1>1, <1>4, <3>1, <3>4 DEF TablesIntact, ChargesIn
  <2>2. ASSUME NEW o \in C, NEW q \in C, g[o] = g[q] PROVE o = q
    <3>1. g[o].key = o /\ g[q].key = q
      BY <2>1
    <3>. HIDE DEF g
    <3>. QED
      BY <2>2, <3>1
  <2>3. \A o \in C : LineAmount[o] \in Nat
    BY <1>4
  <2>4. \A c \in M : ChargeAmount[c] \in Nat
    BY <1>4
  <2>. HIDE DEF g, C, M
  <2>. QED
    BY <1>2, <2>1, <2>2, <2>3, <2>4, TotalOfPart
<1>6. Total(ChargeAmount, M) =< Total(LineAmount, all)
  <2>. DEFINE g == [c \in M |-> c.key]
  <2>1. ASSUME NEW c \in M
        PROVE  g[c] \in all /\ g[c] = c.key /\ ChargeAmount[c] = LineAmount[g[c]]
    <3>1. c \in charges /\ c.key \in Obligations /\ c.key[2] = period
      BY <1>4
    <3>2. lines[c.key].state \in {"submitted", "charged", "unresolved"}
      BY <3>1 DEF AttemptIsOnRecord, SameObligation
    <3>3. c.key \in all
      BY <3>1, <3>2 DEF LinesIn
    <3>. QED
      BY <1>1, <1>4, <3>1, <3>3 DEF TablesIntact
  <2>2. \A c, d \in M : g[c] = g[d] => c = d
    BY <1>1, <1>4, <2>1 DEF TablesIntact
  <2>3. \A c \in M : ChargeAmount[c] \in Nat
    BY <1>4
  <2>4. \A o \in all : LineAmount[o] \in Nat
    BY <1>4
  <2>. HIDE DEF g, all, M
  <2>. QED
    BY <1>2, <1>3, <2>1, <2>2, <2>3, <2>4, TotalOfPart
<1>7. Total(LineAmount, all) = Total(LineAmount, C \cup S) + Total(LineAmount, U)
  <2>1. \A o \in all : LineAmount[o] \in Nat
    BY <1>4
  <2>. HIDE DEF C, S, U
  <2>. QED
    BY <1>2, <1>3, <2>1, TotalOfTwo
<1>8. Total(LineAmount, C \cup S) = Total(LineAmount, C) + Total(LineAmount, S)
  <2>1. \A o \in C \cup S : LineAmount[o] \in Nat
    BY <1>4
  <2>. HIDE DEF C, S
  <2>. QED
    BY <1>2, <1>3, <2>1, TotalOfTwo
<1>. HIDE DEF C, S, U, M, all
<1>. QED
  BY <1>2, <1>5, <1>6, <1>7, <1>8

-----------------------------------------------------------------------------
\* With one worker at a time, whatever operations it runs and wherever it dies,
\* what the report shows as charged has moved, and no more has moved than what
\* it shows as charged, submitted or unresolved (billing/reconciliation.py).  A
\* database holds finitely many bookings.
THEOREM OneWorkersReportBoundsWhatMoved ==
    ASSUME OneWorker, IsFiniteSet(Bookings)
    PROVE  Spec => []ReportBoundsWhatMoved
<1>1. NothingFrozenMoves /\ AttemptIsOnRecord => ReportBoundsWhatMoved
  BY ReportIsBound DEF Finite
<1>. QED
  BY <1>1, FrozenInvariant, OneWorkersAttemptsAreOnRecord, PTL

\* The same for any number of workers at once, while no person cancels a line or
\* establishes its outcome.
THEOREM WorkersReportBoundsWhatMoved ==
    ASSUME {"cancel", "establish"} \cap Operations = {}, IsFiniteSet(Bookings)
    PROVE  Spec => []ReportBoundsWhatMoved
<1>1. NothingFrozenMoves /\ AttemptIsOnRecord => ReportBoundsWhatMoved
  BY ReportIsBound DEF Finite
<1>. QED
  BY <1>1, FrozenInvariant, EveryAttemptIsOnRecord, PTL

=============================================================================
