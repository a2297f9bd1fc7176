----------------------------- MODULE ActixAdapter -----------------------------
(***************************************************************************)
(* The actix-web extractor: VerifiedBody::from_request and the future it   *)
(* returns.  The framework runs the extractors of a handler from left to   *)
(* right; each may take the request's payload, which leaves an empty one   *)
(* behind, and VerifiedBody buffers whatever payload it finds.  Unlike the *)
(* tower middleware it answers a broken body with a status of its own, and *)
(* its configuration is looked up for each request and may be missing.     *)
(***************************************************************************)
EXTENDS Authenticity

CONSTANTS
    Reqs,           \* the requests
    Wires,          \* what a request may be: [headers, frames]
    Provider, Secret, Options,  \* struct WebhookConfig
    Times           \* the readings the clock may give

\* A request is a header map with every header the provider signs, possibly
\* with no value, and a sequence of frames; lists in a header are numbered.
ASSUME ActixAssumption ==
    /\ Provider \in Providers
    /\ Times \subseteq Nat /\ Options.max_age \subseteq Nat
    /\ \A w \in Wires :
        /\ ArrivesInOrder(Provider, w.headers)
        /\ w.frames \in Seq(Range(w.frames))
        /\ Provider \in Listing /\ Has(w.headers, "sig") =>
               DOMAIN Get(w.headers, "sig").elems \subseteq Nat

VARIABLES
    phase,      \* where each request is
    wire,       \* what each request is
    registered, \* the requests at routes with a WebhookConfig
    preceded,   \* those whose handler has an extractor that runs earlier and takes the payload
    payload,    \* the frames no extractor has taken yet
    frames,     \* the body frames the extractor has collected
    served,     \* the bytes given to the handler, and when (an Option)
    response,   \* the status the extractor itself answers (an Option)
    broken,     \* history: the requests answered because their body broke off
    now         \* the wall clock

routes == <<wire, registered, preceded>>
vars == <<phase, routes, payload, frames, served, response, broken, now>>

Phases == {"routed", "collecting", "serving", "answered", "dropped"}

Init ==
    /\ phase = [r \in Reqs |-> "routed"]
    /\ wire \in [Reqs -> Wires]
    /\ registered \in SUBSET Reqs
    /\ preceded \in SUBSET Reqs
    /\ payload = [r \in Reqs |-> IF r \in preceded THEN <<>> ELSE wire[r].frames]
    /\ frames = [r \in Reqs |-> <<>>]
    /\ served = [r \in Reqs |-> {}]
    /\ response = [r \in Reqs |-> {}]
    /\ broken = {}
    /\ now \in Times

Move(r, from, to) == phase[r] = from /\ phase' = [phase EXCEPT ![r] = to]

\* Wrong: only the signature header is compared, not the timestamp's.
ConflictingSignatureHeaderSigOnly(headers, names) ==
    {h \in {"sig"} : \E j \in DOMAIN headers[h] : headers[h][j] # headers[h][1]}

\* The headers that arrived more than once with differing values.
ConflictingSignatureHeader(headers, names) ==
    {names[i] : i \in {k \in DOMAIN names :
        \E j \in DOMAIN headers[names[k]] : headers[names[k]][j] # headers[names[k]][1]}}

Conflict(headers) ==
    ConflictingSignatureHeader(headers, SignatureHeaderNames(Provider)) # {}

\* WebhookVerificationError: BodyRead is 400, an error has its class's status.
Answer(r, from, status) ==
    /\ Move(r, from, "answered")
    /\ response' = [response EXCEPT ![r] = {status}]

Reject(r, from, error) == Answer(r, from, RejectionStatus(error))

\* Wrong: a request with ambiguous headers is buffered like any other.
FromRequestBuffersFirst(r) ==
    /\ \/ /\ r \notin registered
          /\ Reject(r, "routed", Error("MissingContext", "none"))
       \/ /\ r \in registered
          /\ Move(r, "routed", "collecting")
          /\ UNCHANGED response
    /\ UNCHANGED <<routes, payload, frames, served, broken, now>>

\* from_request: no configuration, then ambiguous headers, then the payload is
\* taken and the future that buffers it starts.
FromRequest(r) ==
    /\ \/ /\ r \notin registered
          /\ Reject(r, "routed", Error("MissingContext", "none"))
       \/ /\ r \in registered
          /\ Conflict(wire[r].headers)
          /\ Reject(r, "routed", Error("MalformedHeader", "sig"))
       \/ /\ r \in registered
          /\ ~Conflict(wire[r].headers)
          /\ Move(r, "routed", "collecting")
          /\ UNCHANGED response
    /\ UNCHANGED <<routes, payload, frames, served, broken, now>>

FrameArrives(r) ==
    /\ phase[r] = "collecting"
    /\ payload[r] # <<>>
    /\ frames' = [frames EXCEPT ![r] = Append(@, Head(payload[r]))]
    /\ payload' = [payload EXCEPT ![r] = Tail(@)]
    /\ UNCHANGED <<phase, routes, served, response, broken, now>>

\* Wrong: a payload that errs in its middle is verified as far as it came.
BodyReadFailsSoftly(r) ==
    /\ Move(r, "collecting", "serving")
    /\ Verify(Provider, wire[r].headers, FlattenSeq(frames[r]), Secret, Options, now) = Ok
    /\ served' = [served EXCEPT ![r] = {[body |-> FlattenSeq(frames[r]), at |-> now]}]
    /\ UNCHANGED <<routes, payload, frames, response, broken, now>>

\* The payload errs, or is longer than the framework's limit.
BodyReadFails(r) ==
    /\ Answer(r, "collecting", 400)
    /\ broken' = broken \cup {r}
    /\ UNCHANGED <<routes, payload, frames, served, now>>

\* Wrong: only the errors of malformed requests keep the handler from running.
BodyEndsRejects400(r) ==
    LET raw_body == FlattenSeq(frames[r])
        verdict == Verify(Provider, wire[r].headers, raw_body, Secret, Options, now)
    IN  /\ payload[r] = <<>>
        /\ IF verdict = Ok \/ RejectionStatus(verdict) # 400
           THEN /\ Move(r, "collecting", "serving")
                /\ served' = [served EXCEPT ![r] = {[body |-> raw_body, at |-> now]}]
                /\ UNCHANGED response
           ELSE Reject(r, "collecting", verdict) /\ UNCHANGED served
        /\ UNCHANGED <<routes, payload, frames, broken, now>>

\* Wrong: waits for a first frame, also of a payload that holds none.
BodyEndsAfterFrame(r) ==
    LET raw_body == FlattenSeq(frames[r])
        verdict == Verify(Provider, wire[r].headers, raw_body, Secret, Options, now)
    IN  /\ payload[r] = <<>> /\ frames[r] # <<>>
        /\ IF verdict = Ok
           THEN /\ Move(r, "collecting", "serving")
                /\ served' = [served EXCEPT ![r] = {[body |-> raw_body, at |-> now]}]
                /\ UNCHANGED response
           ELSE Reject(r, "collecting", verdict) /\ UNCHANGED served
        /\ UNCHANGED <<routes, payload, frames, broken, now>>

\* The payload is exhausted: the bytes buffered are verified, and the same
\* bytes are what the handler gets.
BodyEnds(r) ==
    LET raw_body == FlattenSeq(frames[r])
        verdict == Verify(Provider, wire[r].headers, raw_body, Secret, Options, now)
    IN  /\ payload[r] = <<>>
        /\ IF verdict = Ok
           THEN /\ Move(r, "collecting", "serving")
                /\ served' = [served EXCEPT ![r] = {[body |-> raw_body, at |-> now]}]
                /\ UNCHANGED response
           ELSE Reject(r, "collecting", verdict) /\ UNCHANGED served
        /\ UNCHANGED <<routes, payload, frames, broken, now>>

HandlerAnswers(r) ==
    /\ Move(r, "serving", "answered")
    /\ UNCHANGED <<routes, payload, frames, served, response, broken, now>>

\* The client hangs up and the framework drops the future.
Drop(r) ==
    /\ phase[r] \in {"collecting", "serving"}
    /\ phase' = [phase EXCEPT ![r] = "dropped"]
    /\ UNCHANGED <<routes, payload, frames, served, response, broken, now>>

ClockMoves ==
    /\ now' \in Times \ {now}
    /\ UNCHANGED <<phase, routes, payload, frames, served, response, broken>>

Step(r) == FromRequest(r) \/ FrameArrives(r) \/ BodyEnds(r) \/ HandlerAnswers(r)
Other(r) == BodyReadFails(r) \/ Drop(r)

Next == ClockMoves \/ \E r \in Reqs : Step(r) \/ Other(r)
Spec == Init /\ [][Next]_vars

\* The server polls every future that can progress, the client keeps sending
\* its body, and the handler returns.
FairSpec == Spec /\ \A r \in Reqs : WF_vars(Step(r))
-----------------------------------------------------------------------------
(***************************************************************************)
(* Properties.                                                             *)
(***************************************************************************)

\* The bytes the extractor can still find: none behind one that took them.
Body(r) == IF r \in preceded THEN <<>> ELSE FlattenSeq(wire[r].frames)

\* The types of the extractor's state.
TypeOK ==
    /\ phase \in [Reqs -> Phases]
    /\ wire \in [Reqs -> Wires]
    /\ \A r \in Reqs : \A status \in response[r] : status \in {400, 401, 500}
    /\ \A r \in Reqs : \A call \in served[r] : call.at \in Times
    /\ now \in Times

\* The handler is given the whole body as received, or, behind an extractor
\* that took the payload first, no byte at all: never a prefix of the body.
HandlerSeesExactBody ==
    \A r \in Reqs : \A call \in served[r] : call.body = Body(r)

\* A request that reached the handler came by a configured route and, however
\* its duplicated headers are read, is signed by the configured key over the
\* bytes the handler got, with a timestamp within the window at that moment.
EveryReadingIsGenuine ==
    \A r \in Reqs : \A call \in served[r] :
        /\ r \in registered
        /\ Acceptable(Provider, wire[r].headers, call.body, Secret, Options, call.at)

\* The extractor implements the same gate as the tower middleware, refusing
\* the same requests with the same statuses; a body that breaks off is
\* answered, but settles the request as lost.
Fate(r) ==
    CASE phase[r] \in {"routed", "collecting"} -> "pending"
      [] phase[r] = "dropped" -> "lost"
      [] phase[r] \in {"serving", "answered"} ->
             IF response[r] = {} THEN "delivered"
             ELSE IF r \in broken THEN "lost" ELSE "refused"
Received == [r \in Reqs |-> [headers |-> wire[r].headers, body |-> Body(r)]]
Fates == [r \in Reqs |-> Fate(r)]
Given == [r \in Reqs |-> {call.body : call \in served[r]}]
Refusals == [r \in Reqs |-> IF r \in broken THEN {} ELSE response[r]]

Gate == INSTANCE WebhookGate WITH
    wire <- Received, barred <- Reqs \ registered, fate <- Fates, given <- Given,
    status <- Refusals
ImplementsGate == Gate!Spec

\* Every request is answered or its future is dropped, on whichever route it
\* came and whatever an extractor before this one left of its payload.
EveryRequestSettles ==
    \A r \in Reqs : <>(phase[r] \in {"answered", "dropped"})

\* "Rejected without buffering or signature work" (actix.rs): a request that its
\* route or its ambiguous headers condemn keeps its payload as it was found, so
\* that nothing of it was buffered, and is never answered for its body.
RefusedUnread ==
    \A r \in Reqs : r \notin registered \/ Ambiguous(Provider, wire[r].headers) =>
        /\ payload[r] = (IF r \in preceded THEN <<>> ELSE wire[r].frames)
        /\ frames[r] = <<>>
        /\ r \notin broken

\* The documentation of the extractor, "handler logic never sees unverified
\* bytes": no other bytes would have been let through in the place of those
\* the handler got.
HandlerNeverSeesUnverifiedBytes ==
    \A r \in Reqs : \A call \in served[r] : \A other \in Wires :
        LET bytes == FlattenSeq(other.frames)
        IN  Verify(Provider, wire[r].headers, bytes, Secret, Options, call.at) = Ok
                => bytes = call.body
=============================================================================
