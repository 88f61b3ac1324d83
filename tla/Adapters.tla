------------------------------ MODULE Adapters ------------------------------
(***************************************************************************)
(* What the two partner adapters make of a payload (partners/): a booking  *)
(* in the kernel's own words, or a refusal that names what is wrong.  The  *)
(* checks are made in the order of the code, because the first that fails  *)
(* decides what is asked of the partner.                                   *)
(***************************************************************************)
EXTENDS PartnerClock

CONSTANTS
    Bookings,    \* bookings as the kernel knows them: a partner and a reference
    NamedNone,   \* the booking whose reference is the text "None"
    Blank,       \* a reference that is missing or empty
    Events,      \* event ids
    NoEvent,     \* a payload without one
    Amounts,     \* what a booking may be worth
    Windows      \* the billing periods its dates may overlap

ASSUME AdapterAssumption ==
    /\ NamedNone \in Bookings
    /\ Blank \notin Bookings
    /\ NoEvent \notin Events

\* The words each partner has declared, and what they mean.
Vocabulary ==
    [coralbay |-> [confirmed |-> "confirmed", amended |-> "amended", cancelled |-> "cancelled"],
     lindhoff |-> [OK |-> "confirmed", CHG |-> "amended", VOID |-> "cancelled"]]

\* Only Lindhoff has told the zone its naive timestamps are written in.
ZoneDeclared(feed) == feed = "lindhoff"

\* A payload: complete says that the other required fields are filled in, typed
\* that dates and numbers can be read, dated that the dates carry an offset.
Payload == [feed : DOMAIN Vocabulary, ref : Bookings \cup {Blank}, event : Events \cup {NoEvent},
            word : STRING, stamp : [form : {"unreadable", "offset", "naive"}, at : Int],
            complete : BOOLEAN, typed : BOOLEAN, dated : BOOLEAN,
            amount : Amounts, periods : Windows]

Updated(raw) == ParsePartnerTimestamp(raw.stamp, ZoneDeclared(raw.feed))

KnownWord(raw) == raw.word \in DOMAIN Vocabulary[raw.feed]

Refusal(raw, kind, event) == [kind |-> kind, ref |-> raw.ref, event |-> event]

Canonical(raw, ref, event) ==
    [kind |-> "none", ref |-> ref, event |-> event,
     status |-> Vocabulary[raw.feed][raw.word], amount |-> raw.amount,
     periods |-> raw.periods, updated |-> Updated(raw)]

\* Coralbay: every field is required, the reference and the event id included.
NormaliseCoralbay(raw) ==
    IF raw.ref = Blank \/ raw.event = NoEvent \/ ~raw.complete
      THEN Refusal(raw, "missing_field", raw.event)
    ELSE IF ~KnownWord(raw) THEN Refusal(raw, "unknown_status_value", raw.event)
    ELSE IF ~Usable(Updated(raw)) THEN Refusal(raw, Updated(raw).problem, raw.event)
    ELSE IF ~raw.typed THEN Refusal(raw, "unreadable_field", raw.event)
    ELSE IF ~raw.dated THEN Refusal(raw, "no_zone_declared", raw.event)
    ELSE Canonical(raw, raw.ref, raw.event)

\* Lindhoff: no event ids, naive dates are days in its zone, and nothing is
\* asked of the reference: an empty one is passed on as the text "None".
NormaliseLindhoff(raw) ==
    IF ~KnownWord(raw) THEN Refusal(raw, "unknown_status_value", NoEvent)
    ELSE IF ~Usable(Updated(raw)) THEN Refusal(raw, Updated(raw).problem, NoEvent)
    ELSE IF ~raw.typed THEN Refusal(raw, "unreadable_field", NoEvent)
    ELSE Canonical(raw, IF raw.ref = Blank THEN NamedNone ELSE raw.ref, NoEvent)

Normalise(raw) ==
    IF raw.feed = "coralbay" THEN NormaliseCoralbay(raw) ELSE NormaliseLindhoff(raw)

Refused(message) == message.kind # "none"

=============================================================================
