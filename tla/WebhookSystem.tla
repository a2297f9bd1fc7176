---------------------------- MODULE WebhookSystem ----------------------------
(***************************************************************************)
(* The crate in its world: a sender that signs each attempt anew and       *)
(* retries until it is acknowledged, a network that loses, delays and      *)
(* duplicates, a receiver that calls verify_any() with the active secrets, *)
(* and an operator who rotates the key without stopping either.  The crate *)
(* remembers nothing between two calls; how long a captured delivery can   *)
(* be replayed and whether a rotation loses one is decided here.           *)
(*                                                                         *)
(* Time is kept relative to now: a copy of a delivery has an age, negative *)
(* when the sender's clock is ahead, and a second passes for all of them.  *)
(***************************************************************************)
EXTENDS Authenticity, VerifyOptions

CONSTANTS
    Events,         \* what the sender has to deliver
    Plans,          \* the rotations: [provider, stages], a stage being
                    \* [signing, secrets, quiet], the keys the sender signs
                    \* with, the receiver's slice of secrets, and whether the
                    \* operator waits before it
    Leads,          \* how far the sender's clock may be ahead
    Window,         \* max_age
    Overlap,        \* how long an operator waits before a quiet stage
    MaxInFlight,    \* bound: the copies the network holds
    Wall            \* the wall clock, which Window is small against

ASSUME SystemAssumption ==
    /\ Window \in Nat /\ Overlap \in Nat /\ MaxInFlight \in Nat
    /\ Leads \subseteq Int
    /\ \A lead \in Leads : Overlap > Window + lead
    /\ Wall \in Nat /\ Wall > 2 * Window + 1 /\ Wall + Window <= U64Max
    /\ \A lead \in Leads : Wall + lead > Window

\* The schemes with a timestamp header of their own, keyed with the secret.
InHeader == Timestamped \ (PublicKey \cup {"Stripe"})

\* A stage of a rotation: one key to sign with, unless the provider's header
\* lists signatures, and a slice of secrets.
StageOf(p, s) ==
    /\ IsFiniteSet(s.signing) /\ s.signing # {}
    /\ p \notin Listing => \E key \in s.signing : s.signing = {key}
    /\ s.secrets \in Seq(Range(s.secrets))
    /\ s.quiet \in BOOLEAN

\* What makes a plan a rotation: the receiver has a key to every stage from
\* which copies are still fresh.  Those of a stage before the last one are not
\* once a quiet stage has begun.
QuietSince(stages, i, j) == \E q \in i + 2 .. j : stages[q].quiet
KeepsAKey(stages) ==
    \A j \in DOMAIN stages : \A i \in 1 .. j :
        \/ QuietSince(stages, i, j)
        \/ (stages[i].signing \cap Range(stages[j].secrets)) \ Garbled # {}

ASSUME PlanAssumption ==
    \A p \in Plans :
        /\ p.provider \in InHeader
        /\ p.stages \in Seq(Range(p.stages)) /\ p.stages # <<>>
        /\ \A i \in DOMAIN p.stages : StageOf(p.provider, p.stages[i])
        /\ KeepsAKey(p.stages)

VARIABLES
    plan, lead,     \* fixed in each behaviour
    clock,          \* the clock injected into the receiver's options (an Option)
    stage,          \* how far the rotation is
    since,          \* seconds since it got there, up to Overlap
    net,            \* copies in flight: [event, age, keys]
    acked           \* events whose sender saw them accepted

vars == <<plan, lead, clock, stage, since, net, acked>>

Signing == plan.stages[stage].signing
Secrets == plan.stages[stage].secrets
Options == WithClock(WithMaxAge(Default, {Window}), clock)

Init ==
    /\ plan \in Plans
    /\ lead \in Leads
    /\ clock \in {{}, {0}}
    /\ stage = 1
    /\ since = 0
    /\ net = {}
    /\ acked = {}

(***************************************************************************)
(* What the sender puts on the wire: a signature under each key it signs   *)
(* with, over the timestamp of this attempt and the body.                  *)
(***************************************************************************)

\* Wrong: every key of the rotation signs, whether it is in use or not.
AttemptAllKeys(event, keys) ==
    [event |-> event, age |-> -lead,
     keys |-> UNION {plan.stages[i].signing : i \in DOMAIN plan.stages}]

Attempt(event, keys) == [event |-> event, age |-> -lead, keys |-> keys]

Signature(key, msg) == [form |-> "signature", key |-> key, msg |-> msg]
Elements(copy) ==
    {[tag |-> "v1", value |-> Signature(key, <<"id", "stamp", copy.event>>)] : key \in copy.keys}

HeadersOf(copy) ==
    [ts |-> <<[form |-> "digits", raw |-> "stamp", secs |-> Wall - copy.age]>>,
     id |-> <<[form |-> "text", raw |-> "id"]>>,
     sig |-> IF plan.provider \in Listing
             THEN <<[form |-> "list", elems |-> SetToSeq(Elements(copy))]>>
             ELSE <<Signature(The(copy.keys), <<"stamp", copy.event>>)>>]

(***************************************************************************)
(* verify_any() at one reading of the clock, which is all its loop comes   *)
(* to (SecretRotation).                                                    *)
(***************************************************************************)

\* Wrong: only the first of the active secrets is tried.
VerifyAnyFirst(p, headers, body, secrets, options, now) ==
    Verify(p, headers, body, secrets[1], options, now)

\* Wrong: a mismatch is not remembered, and the loop that met nothing else ends in Ok.
VerifyAnyForgetsMismatch(p, headers, body, secrets, options, now) ==
    LET verdict == [i \in DOMAIN secrets |-> Verify(p, headers, body, secrets[i], options, now)]
        Where(kinds) == {i \in DOMAIN secrets : verdict[i].kind \in kinds}
        other == DOMAIN secrets \ Where({"SignatureMismatch"})
    IN  IF other # {} THEN verdict[Min(other)] ELSE Ok

VerifyAny(p, headers, body, secrets, options, now) ==
    LET verdict == [i \in DOMAIN secrets |-> Verify(p, headers, body, secrets[i], options, now)]
        Where(kinds) == {i \in DOMAIN secrets : verdict[i].kind \in kinds}
        final == DOMAIN secrets \ Where({"SignatureMismatch", "InvalidSecret"})
    IN  CASE final # {} -> verdict[Min(final)]
          [] final = {} /\ secrets # <<>> /\ Where({"SignatureMismatch"}) = {} -> verdict[1]
          [] OTHER -> Mismatch

\* What the receiver says of a copy that arrives now.
Answer(copy) ==
    VerifyAny(plan.provider, HeadersOf(copy), copy.event, Secrets, Options, Now(Options, Wall))

\* An attempt leaves the sender; copies may get lost at any time.
Send(event) ==
    /\ event \notin acked
    /\ \E kept \in SUBSET net :
        /\ Cardinality(kept) < MaxInFlight
        /\ net' = kept \cup {Attempt(event, Signing)}
    /\ UNCHANGED <<plan, lead, clock, stage, since, acked>>

\* A copy arrives and is accepted, and the sender learns of it; the network may
\* deliver it again.  Of an arrival whose answer is lost nothing is left.
Accepted(copy) ==
    /\ Answer(copy) = Ok
    /\ acked' = acked \cup {copy.event}
    /\ net' \in {net, net \ {copy}}
    /\ UNCHANGED <<plan, lead, clock, stage, since>>

\* The one that ends the retries of an event.
Acknowledged(event) ==
    event \notin acked /\ \E copy \in net : copy.event = event /\ Accepted(copy)

Lost(copy) ==
    /\ net' = net \ {copy}
    /\ UNCHANGED <<plan, lead, clock, stage, since, acked>>

\* The operator's next step, when the one before has been quiet for long enough.
Advance ==
    /\ stage < Len(plan.stages)
    /\ plan.stages[stage + 1].quiet => since = Overlap
    /\ stage' = stage + 1
    /\ since' = 0
    /\ UNCHANGED <<plan, lead, clock, net, acked>>

Older(age) == IF age > Window THEN age ELSE age + 1
Tick ==
    /\ net' = {[copy EXCEPT !.age = Older(@)] : copy \in net}
    /\ since' = IF since = Overlap THEN since ELSE since + 1
    /\ UNCHANGED <<plan, lead, clock, stage, acked>>

Next ==
    \/ Advance
    \/ Tick
    \/ \E event \in Events : Send(event)
    \/ \E copy \in net : Accepted(copy) \/ Lost(copy)

Spec == Init /\ [][Next]_vars

\* The sender retries, time passes, and the network does not for ever hold an
\* acceptable copy of an event, or its answer, back until it is stale.
FairSpec ==
    /\ Spec
    /\ WF_vars(Tick)
    /\ \A event \in Events :
        /\ WF_vars(Send(event))
        /\ SF_vars(Acknowledged(event))
-----------------------------------------------------------------------------
(***************************************************************************)
(* Properties.                                                             *)
(***************************************************************************)

\* The types of the system's state.
TypeOK ==
    /\ plan \in Plans /\ lead \in Leads /\ clock \in {{}, {0}}
    /\ stage \in 1 .. Len(plan.stages) /\ since \in 0 .. Overlap
    /\ net \subseteq [event : Events, age : Int,
                      keys : {plan.stages[i].signing : i \in DOMAIN plan.stages}]
    /\ acked \subseteq Events

HasClock == Std \/ clock # {}
InWindow(copy) == -Window <= copy.age /\ copy.age <= Window

\* A rotation loses nothing: at every stage of either way to rotate, a copy
\* that arrives within the window is accepted, whenever it was signed.
RotationLosesNothing ==
    HasClock => \A copy \in net : InWindow(copy) => Answer(copy) = Ok

\* Without a clock nothing is accepted that claims to be recent: check_replay
\* says that a reading of 0 fails closed.
FailsClosedWithoutClock ==
    ~HasClock => acked = {} /\ \A copy \in net : Answer(copy) # Ok

\* An acknowledgement has a cause in the present: the sender learns of an event
\* only by a copy in flight that is within the window and was signed with a key
\* the receiver has at this stage, never by one of a key it has given up.
AcknowledgedForAnActiveKey ==
    [][\A event \in acked' \ acked : \E copy \in net :
           copy.event = event /\ InWindow(copy) /\ copy.keys \cap Range(Secrets) # {}]_vars

\* Retries get through: every event is accepted and acknowledged, across the
\* rotation and whatever is lost on the way.
EveryEventIsAcknowledged ==
    HasClock => \A event \in Events : <>(event \in acked)

\* Replays end: the crate keeps no record of what it accepted, but there is a
\* time after which no copy in existence is accepted again.
ReplaysEnd == HasClock => <>[](\A copy \in net : Answer(copy) # Ok)
=============================================================================
