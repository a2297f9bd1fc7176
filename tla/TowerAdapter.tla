----------------------------- MODULE TowerAdapter -----------------------------
(***************************************************************************)
(* The tower middleware: VerifyMiddleware::poll_ready and ::call, and the  *)
(* future call() returns, for requests served concurrently.  The runner    *)
(* gives each request a clone of the middleware, which shares nothing with *)
(* the others but the configuration.  Body frames arrive one by one while  *)
(* the clock moves; the transport may fail, and the caller may drop the    *)
(* future at any await.                                                    *)
(***************************************************************************)
EXTENDS Authenticity

CONSTANTS
    Reqs,           \* the requests
    Wires,          \* what a request may be: [headers, frames]
    Provider, Secret, Options,  \* struct Config
    Times           \* the readings the clock may give

\* A request is a header map with every header the provider signs, possibly
\* with no value, and a sequence of frames; lists in a header are numbered.
ASSUME TowerAssumption ==
    /\ Provider \in Providers
    /\ Times \subseteq Nat /\ Options.max_age \subseteq Nat
    /\ \A w \in Wires :
        /\ ArrivesInOrder(Provider, w.headers)
        /\ w.frames \in Seq(Range(w.frames))
        /\ Provider \in Listing /\ Has(w.headers, "sig") =>
               DOMAIN Get(w.headers, "sig").elems \subseteq Nat

VARIABLES
    phase,      \* where each request is
    wire,       \* what each request is
    frames,     \* the body frames collected so far
    served,     \* the call made to the inner service: [body, at] (an Option)
    response,   \* the status the middleware itself answers (an Option)
    now         \* the wall clock

vars == <<phase, wire, frames, served, response, now>>

Phases == {"idle", "ready", "collecting", "serving", "answered", "failed", "dropped"}

Init ==
    /\ phase = [r \in Reqs |-> "idle"]
    /\ wire \in [Reqs -> Wires]
    /\ frames = [r \in Reqs |-> <<>>]
    /\ served = [r \in Reqs |-> {}]
    /\ response = [r \in Reqs |-> {}]
    /\ now \in Times

Move(r, from, to) == phase[r] = from /\ phase' = [phase EXCEPT ![r] = to]

\* The first header that arrived more than once with differing values, as the
\* set of the header names that did.
ConflictingSignatureHeader(headers, names) ==
    {names[i] : i \in {k \in DOMAIN names :
        \E j \in DOMAIN headers[names[k]] : headers[names[k]][j] # headers[names[k]][1]}}

Conflict(headers) ==
    ConflictingSignatureHeader(headers, SignatureHeaderNames(Provider)) # {}

\* rejection_response: an empty body and the status of the error's class.
Reject(r, from, error) ==
    /\ Move(r, from, "answered")
    /\ response' = [response EXCEPT ![r] = {RejectionStatus(error)}]

\* poll_ready polls the middleware's own copy of the inner service.
PollReady(r) ==
    /\ Move(r, "idle", "ready")
    /\ UNCHANGED <<wire, frames, served, response, now>>

PollReadyFails(r) ==
    /\ Move(r, "idle", "failed")
    /\ UNCHANGED <<wire, frames, served, response, now>>

\* call() answers an ambiguous request at once; otherwise it clones the inner
\* service and starts the future that collects the body.
Call(r) ==
    /\ IF Conflict(wire[r].headers)
       THEN Reject(r, "ready", Error("MalformedHeader", "sig"))
       ELSE Move(r, "ready", "collecting") /\ UNCHANGED response
    /\ UNCHANGED <<wire, frames, served, now>>

\* Wrong: an empty frame is taken for a pending one.
FrameArrivesUnlessEmpty(r) ==
    /\ phase[r] = "collecting"
    /\ Len(frames[r]) < Len(wire[r].frames)
    /\ wire[r].frames[Len(frames[r]) + 1] # <<>>
    /\ frames' = [frames EXCEPT ![r] = Append(@, wire[r].frames[Len(@) + 1])]
    /\ UNCHANGED <<phase, wire, served, response, now>>

FrameArrives(r) ==
    /\ phase[r] = "collecting"
    /\ Len(frames[r]) < Len(wire[r].frames)
    /\ frames' = [frames EXCEPT ![r] = Append(@, wire[r].frames[Len(@) + 1])]
    /\ UNCHANGED <<phase, wire, served, response, now>>

\* BodyExt::collect errs: the future resolves to Err, not to a response.
TransportFails(r) ==
    /\ Move(r, "collecting", "failed")
    /\ UNCHANGED <<wire, frames, served, response, now>>

\* Wrong: a body that broke off after some frames is taken for the whole.
BodyEndsEarly(r) ==
    LET raw_body == FlattenSeq(frames[r])
        verdict == Verify(Provider, wire[r].headers, raw_body, Secret, Options, now)
    IN  /\ frames[r] # <<>>
        /\ IF verdict = Ok
           THEN /\ Move(r, "collecting", "serving")
                /\ served' = [served EXCEPT ![r] =
                                 {[body |-> raw_body, at |-> now]}]
                /\ UNCHANGED response
           ELSE Reject(r, "collecting", verdict) /\ UNCHANGED served
        /\ UNCHANGED <<wire, frames, now>>

\* Wrong: the outcome of verify() is dropped.
BodyEndsUnchecked(r) ==
    /\ Len(frames[r]) = Len(wire[r].frames)
    /\ Move(r, "collecting", "serving")
    /\ served' = [served EXCEPT ![r] = {[body |-> FlattenSeq(frames[r]), at |-> now]}]
    /\ UNCHANGED <<wire, frames, response, now>>

\* The last frame is in: the bytes collected are verified, and either the
\* middleware rejects or the same bytes go to the clone of the inner service.
BodyEnds(r) ==
    LET raw_body == FlattenSeq(frames[r])
        verdict == Verify(Provider, wire[r].headers, raw_body, Secret, Options, now)
    IN  /\ Len(frames[r]) = Len(wire[r].frames)
        /\ IF verdict = Ok
           THEN /\ Move(r, "collecting", "serving")
                /\ served' = [served EXCEPT ![r] =
                                 {[body |-> raw_body, at |-> now]}]
                /\ UNCHANGED response
           ELSE Reject(r, "collecting", verdict) /\ UNCHANGED served
        /\ UNCHANGED <<wire, frames, now>>

InnerAnswers(r) ==
    /\ Move(r, "serving", "answered")
    /\ UNCHANGED <<wire, frames, served, response, now>>

InnerFails(r) ==
    /\ Move(r, "serving", "failed")
    /\ UNCHANGED <<wire, frames, served, response, now>>

\* The caller drops the future: a timeout, or the client hung up.
Drop(r) ==
    /\ phase[r] \in {"collecting", "serving"}
    /\ phase' = [phase EXCEPT ![r] = "dropped"]
    /\ UNCHANGED <<wire, frames, served, response, now>>

ClockMoves ==
    /\ now' \in Times \ {now}
    /\ UNCHANGED <<phase, wire, frames, served, response>>

Step(r) == PollReady(r) \/ Call(r) \/ FrameArrives(r) \/ BodyEnds(r) \/ InnerAnswers(r)
Fault(r) == PollReadyFails(r) \/ TransportFails(r) \/ InnerFails(r) \/ Drop(r)

Next == ClockMoves \/ \E r \in Reqs : Step(r) \/ Fault(r)

Spec == Init /\ [][Next]_vars

-----------------------------------------------------------------------------
(***************************************************************************)
(* Properties.                                                             *)
(***************************************************************************)

Body(r) == FlattenSeq(wire[r].frames)

\* The types of the adapter's state.
TypeOK ==
    /\ phase \in [Reqs -> Phases]
    /\ wire \in [Reqs -> Wires]
    /\ \A r \in Reqs : \A status \in response[r] : status \in {400, 401, 500}
    /\ \A r \in Reqs : \A call \in served[r] : call.at \in Times
    /\ now \in Times

\* The handler is given the whole body the client sent, as one value however
\* it was framed, never a prefix of it.
HandlerSeesWholeBody ==
    \A r \in Reqs : \A call \in served[r] : call.body = Body(r)

\* Whatever value of a duplicated header a component behind the middleware
\* reads, a request that reached the handler is signed by the configured key
\* over the bytes the handler got, and its signed timestamp was within the
\* window when the handler was called, however long the body took to arrive.
EveryReadingIsGenuine ==
    \A r \in Reqs : \A call \in served[r] :
        Acceptable(Provider, wire[r].headers, call.body, Secret, Options, call.at)

\* The middleware implements the gate: which requests reach the handler, with
\* which bytes, and which are refused with which status.
Fate(r) ==
    CASE phase[r] \in {"idle", "ready", "collecting"} -> "pending"
      [] phase[r] \in {"failed", "dropped"} -> "lost"
      [] phase[r] \in {"serving", "answered"} ->
             IF response[r] = {} THEN "delivered" ELSE "refused"
Received == [r \in Reqs |-> [headers |-> wire[r].headers, body |-> Body(r)]]
Fates == [r \in Reqs |-> Fate(r)]
Given == [r \in Reqs |-> {call.body : call \in served[r]}]

Gate == INSTANCE WebhookGate WITH
    wire <- Received, barred <- {}, fate <- Fates, given <- Given, status <- response
ImplementsGate == Gate!Spec

\* Every request is answered, or fails, or is dropped: none is left pending.
EveryRequestSettles ==
    \A r \in Reqs : <>(phase[r] \in {"answered", "failed", "dropped"})
=============================================================================
