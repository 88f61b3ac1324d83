------------------------------ MODULE Provider ------------------------------
(***************************************************************************)
(* The payment provider the billing run talks to, as simulated in          *)
(* billing/payments.py: an idempotent create over its own table, whose     *)
(* unique index is the only thing that orders two creates for one key.     *)
(* The caller's side of a create is two database statements, so callers    *)
(* take it in two steps: look for the key, then carry the operation out.   *)
(***************************************************************************)
EXTENDS Integers, FiniteSets

CONSTANTS
    Retention,   \* how long a key is remembered, in ticks
    MaxTime      \* bound on the clock

ASSUME ProviderAssumption == Retention \in Nat /\ MaxTime \in Nat

VARIABLES
    charges,     \* the provider's table of operations carried out
    clock        \* wall-clock time, shared by provider and workers

\* The frozen parameters of a request.  The digest of them is injective for
\* what is compared, and the currency is the same on every attempt.
RequestFingerprint(amount) == [amount |-> amount]

\* Rows a select by key returns: at most one, by uq_simulated_charge_key.
ChargesFor(key) == {c \in charges : c.key = key}

KeyNoLongerRetained(c) == clock - c.createdAt > Retention

IdempotencyConflict(c, request) == c.fingerprint # request.fingerprint

\* Variant: the rows are counted without the one being added.
ChargeRefFromZero == Cardinality(charges)

\* References are numbered by counting the rows already there.
NextChargeRef == Cardinality(charges) + 1

ChargeRecord(request, ref) ==
    [key |-> request.key, fingerprint |-> request.fingerprint,
     amount |-> request.amount, ref |-> ref, createdAt |-> clock]

\* The row is inserted and committed before the caller hears anything.
CarryOut(request, ref) ==
    /\ ChargesFor(request.key) = {}
    /\ charges' = charges \cup {ChargeRecord(request, ref)}

=============================================================================
