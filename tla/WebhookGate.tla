----------------------------- MODULE WebhookGate -----------------------------
(***************************************************************************)
(* What a framework adapter promises, whatever the framework: a gate in    *)
(* front of the handler.  A request is delivered only as the whole body    *)
(* its sender signed, only if every reading of its headers is genuine, and *)
(* only while its timestamp is within the window; a request that is all of *)
(* this, in form and at a route that is set up, is never refused, and      *)
(* every adapter refuses a request with the same status.  A request may be *)
(* lost on the way, before or after delivery, and its fate is settled      *)
(* once.  What makes a request acceptable is a parameter.                  *)
(***************************************************************************)
CONSTANTS Acceptable(_, _, _, _, _, _), Faultless(_, _, _, _), Ambiguous(_, _),
          Verify(_, _, _, _, _, _), RejectionStatus(_),
          Reqs,     \* the requests
          Provider, Secret, Options,   \* the configuration of the adapter
          Times     \* the readings the clock may give

VARIABLES
    wire,   \* what each request is on the wire: [headers, body]
    barred, \* the requests at routes without a configuration
    fate,   \* of each request: "pending", "delivered", "refused" or "lost"
    given,  \* the bytes the handler was given, for each request (an Option)
    status, \* the status of each request that was refused (an Option)
    now     \* the wall clock

vars == <<wire, barred, fate, given, status, now>>

Deserves(r, t) ==
    /\ r \notin barred
    /\ Acceptable(Provider, wire[r].headers, wire[r].body, Secret, Options, t)

\* An operator who configured nothing, then a request that says two things,
\* then whatever verification says of the only thing the request says.
StatusOf(r, t) ==
    IF r \in barred THEN 500
    ELSE IF Ambiguous(Provider, wire[r].headers) THEN 400
    ELSE RejectionStatus(Verify(Provider, wire[r].headers, wire[r].body, Secret, Options, t))

Init ==
    /\ fate = [r \in Reqs |-> "pending"]
    /\ given = [r \in Reqs |-> {}]
    /\ status = [r \in Reqs |-> {}]
    /\ now \in Times

Settle(r, outcome) == fate' = [fate EXCEPT ![r] = outcome]

Deliver(r) ==
    /\ fate[r] = "pending"
    /\ Deserves(r, now)
    /\ Settle(r, "delivered")
    /\ given' = [given EXCEPT ![r] = {wire[r].body}]
    /\ UNCHANGED <<wire, barred, status, now>>

Refuse(r) ==
    /\ fate[r] = "pending"
    /\ \/ ~Deserves(r, now)
       \/ ~Faultless(Provider, wire[r].headers, Secret, Options)
       \/ Ambiguous(Provider, wire[r].headers)
    /\ Settle(r, "refused")
    /\ status' = [status EXCEPT ![r] = {StatusOf(r, now)}]
    /\ UNCHANGED <<wire, barred, given, now>>

Lose(r) ==
    /\ fate[r] \in {"pending", "delivered"}
    /\ Settle(r, "lost")
    /\ UNCHANGED <<wire, barred, given, status, now>>

Tick == now' \in Times /\ UNCHANGED <<wire, barred, fate, given, status>>

Next == Tick \/ \E r \in Reqs : Deliver(r) \/ Refuse(r) \/ Lose(r)

Spec == Init /\ [][Next]_vars
=============================================================================
