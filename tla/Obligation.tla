----------------------------- MODULE Obligation -----------------------------
(***************************************************************************)
(* What billing promises, without saying how.  For each obligation, an     *)
(* amount is intended once; money moves at most once, only after it was    *)
(* intended and for exactly that amount; and what is booked against it is  *)
(* the reference of the operation that moved the money.  Nothing is ever   *)
(* taken back.                                                             *)
(***************************************************************************)
CONSTANTS
    Obligations,    \* what may be owed
    Amounts         \* what it may be worth

VARIABLES
    intent,    \* {} or the one amount recorded for an obligation
    moved,     \* {} or the one operation carried out for it
    booked     \* {} or the one reference the books hold for it

vars == <<intent, moved, booked>>

Init ==
    /\ intent = [o \in Obligations |-> {}]
    /\ moved = [o \in Obligations |-> {}]
    /\ booked = [o \in Obligations |-> {}]

\* One run records the intent for any number of obligations that have none.
Intend(S) ==
    /\ \A o \in S : intent[o] = {}
    /\ \E amount \in [S -> Amounts] :
           intent' = [o \in Obligations |-> IF o \in S THEN {amount[o]} ELSE intent[o]]
    /\ UNCHANGED <<moved, booked>>

\* The reference is the provider's to choose, the amount is not.
Move(o) ==
    /\ moved[o] = {}
    /\ \E operation \in moved'[o] :
           /\ operation.amount \in intent[o]
           /\ moved' = [moved EXCEPT ![o] = {operation}]
    /\ UNCHANGED <<intent, booked>>

Book(o) ==
    /\ booked[o] = {}
    /\ \E operation \in moved[o] : booked' = [booked EXCEPT ![o] = {operation.ref}]
    /\ UNCHANGED <<intent, moved>>

Next ==
    \/ \E S \in SUBSET Obligations : Intend(S)
    \/ \E o \in Obligations : Move(o) \/ Book(o)

Spec == Init /\ [][Next]_vars

=============================================================================
