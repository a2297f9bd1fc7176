------------------------- MODULE TowerAdapterProofs -------------------------
(***************************************************************************)
(* Theorems about the tower middleware, for any number of requests, any    *)
(* framing of their bodies, any headers and any readings of the clock, and *)
(* about the stack it makes with an inner service of any capacity, for any *)
(* number of connections.                                                  *)
(***************************************************************************)
EXTENDS TowerStack, GateSoundness, FiniteSetTheorems

\* The frames collected are the first frames of the body.
Collected(r) ==
    /\ frames[r] \in Seq(Range(wire[r].frames))
    /\ Len(frames[r]) <= Len(wire[r].frames)
    /\ \A i \in 1 .. Len(frames[r]) : frames[r][i] = wire[r].frames[i]

\* A request whose body is awaited has passed the check for conflicts.
Admitted(r) == phase[r] = "collecting" => NoConflict(Provider, wire[r].headers)

\* What went to the handler was the whole body, admitted and verified then.
Judged(r) ==
    \A call \in served[r] :
        /\ call.body = Body(r)
        /\ NoConflict(Provider, wire[r].headers)
        /\ Verify(Provider, wire[r].headers, call.body, Secret, Options, call.at) = Ok

\* None of the three properties is inductive: what a handler was given rests on
\* the frames collected before and on the check made before those.
IInv ==
    /\ TypeOK
    /\ DOMAIN frames = Reqs /\ DOMAIN served = Reqs /\ DOMAIN response = Reqs
    /\ \A r \in Reqs : Collected(r) /\ Admitted(r) /\ Judged(r)

\* The code looks for the name of a header in conflict and goes on if none is.
LEMMA ConflictFree == \A headers : ~Conflict(headers) => NoConflict(Provider, headers)
<1> SUFFICES ASSUME NEW headers, ~Conflict(headers) PROVE NoConflict(Provider, headers)
  OBVIOUS
<1> DEFINE names == SignatureHeaderNames(Provider)
<1> SUFFICES ASSUME NEW k \in DOMAIN names, NEW j \in DOMAIN headers[names[k]]
             PROVE  headers[names[k]][j] = headers[names[k]][1]
  BY DEF NoConflict
<1> HIDE DEF names
<1>1. ConflictingSignatureHeader(headers, names) = {} BY DEF Conflict, names
<1> QED BY <1>1 DEF ConflictingSignatureHeader

LEMMA FreeOfConflict == \A headers : NoConflict(Provider, headers) => ~Conflict(headers)
BY DEF NoConflict, Conflict, ConflictingSignatureHeader

\* A rejection is answered with the status of one of the three classes.
LEMMA StatusOfError ==
    ASSUME NEW o, NEW s, Outcome(o, s), o # Ok
    PROVE  RejectionStatus(o) \in {400, 401, 500}
BY DEF Outcome, RejectionStatus, ErrorKinds

LEMMA StatusOfVerdict ==
    ASSUME NEW w \in Wires, NEW body, NEW t,
           Verify(Provider, w.headers, body, Secret, Options, t) # Ok
    PROVE  RejectionStatus(Verify(Provider, w.headers, body, Secret, Options, t))
               \in {400, 401, 500}
<1>1. ListsElements(Provider, w.headers) BY TowerAssumption DEF ListsElements
<1> QED BY <1>1, VerifyOutcome, StatusOfError

\* Once as many frames are in as the body has, the bytes are those of the body.
LEMMA WholeBody ==
    ASSUME NEW r \in Reqs, wire[r] \in Wires, Collected(r),
           Len(frames[r]) = Len(wire[r].frames)
    PROVE  FlattenSeq(frames[r]) = Body(r)
<1>1. wire[r].frames \in Seq(Range(wire[r].frames)) BY TowerAssumption
<1>2. frames[r] = wire[r].frames BY <1>1 DEF Collected
<1> QED BY <1>2 DEF Body

LEMMA InitInv == Init => IInv
<1> SUFFICES ASSUME Init PROVE IInv OBVIOUS
<1>1. TypeOK BY DEF Init, TypeOK, Phases
<1>2. ASSUME NEW r \in Reqs PROVE Collected(r) /\ Admitted(r) /\ Judged(r)
  <2>1. frames[r] = <<>> /\ wire[r] \in Wires /\ phase[r] = "idle" /\ served[r] = {}
    BY DEF Init
  <2>2. wire[r].frames \in Seq(Range(wire[r].frames)) BY <2>1, TowerAssumption
  <2>3. Collected(r) BY <2>1, <2>2 DEF Collected
  <2> QED BY <2>1, <2>3 DEF Admitted, Judged
<1> QED BY <1>1, <1>2 DEF Init, IInv

\* A step that is not about a request leaves what is known of it as it was.
LEMMA Untouched ==
    ASSUME NEW q \in Reqs, Collected(q), Admitted(q), Judged(q),
           wire' = wire, frames'[q] = frames[q], served'[q] = served[q],
           phase'[q] = phase[q] \/ phase'[q] # "collecting"
    PROVE  Collected(q)' /\ Admitted(q)' /\ Judged(q)'
BY DEF Collected, Admitted, Judged, Body

\* Answering with a status: the types of the phase and of the response.
LEMMA RejectTypes ==
    ASSUME IInv, NEW r \in Reqs, NEW from, NEW error, Reject(r, from, error),
           RejectionStatus(error) \in {400, 401, 500}
    PROVE  /\ phase' \in [Reqs -> Phases] /\ DOMAIN response' = Reqs
           /\ \A q \in Reqs : \A status \in response'[q] : status \in {400, 401, 500}
BY DEF IInv, TypeOK, Reject, Move, Phases

LEMMA StepInv == IInv /\ [Next]_vars => IInv'
<1> SUFFICES ASSUME IInv, [Next]_vars PROVE IInv' OBVIOUS
<1>0. /\ TypeOK
      /\ DOMAIN frames = Reqs /\ DOMAIN served = Reqs /\ DOMAIN response = Reqs
      /\ \A r \in Reqs : Collected(r) /\ Admitted(r) /\ Judged(r)
  BY DEF IInv
\* Every step but the arrival of a frame, the call and the end of the body.
<1>1. ASSUME NEW r \in Reqs, NEW to \in Phases \ {"collecting"},
             phase' = [phase EXCEPT ![r] = to],
             UNCHANGED <<wire, frames, served, response, now>>
      PROVE  IInv'
  <2>1. TypeOK' BY <1>0, <1>1 DEF TypeOK
  <2>2. \A q \in Reqs : Collected(q)' /\ Admitted(q)' /\ Judged(q)'
    <3> SUFFICES ASSUME NEW q \in Reqs PROVE Collected(q)' /\ Admitted(q)' /\ Judged(q)'
      OBVIOUS
    <3>1. phase'[q] = phase[q] \/ phase'[q] # "collecting" BY <1>0, <1>1 DEF TypeOK
    <3> QED BY <1>0, <1>1, <3>1, Untouched
  <2> QED BY <1>0, <1>1, <2>1, <2>2 DEF IInv
<1>2. ASSUME NEW r \in Reqs, Call(r)
      PROVE  IInv'
  <2>1. CASE Conflict(wire[r].headers)
    <3>1. /\ Reject(r, "ready", Error("MalformedHeader", "sig"))
          /\ UNCHANGED <<wire, frames, served, now>>
      BY <1>2, <2>1 DEF Call
    <3>2. RejectionStatus(Error("MalformedHeader", "sig")) \in {400, 401, 500}
      BY DEF RejectionStatus, Error
    <3>3. TypeOK' /\ DOMAIN response' = Reqs BY <1>0, <3>1, <3>2, RejectTypes DEF TypeOK
    <3>4. \A q \in Reqs : phase'[q] = phase[q] \/ phase'[q] # "collecting"
      BY <1>0, <3>1 DEF TypeOK, Reject, Move
    <3>5. \A q \in Reqs : Collected(q)' /\ Admitted(q)' /\ Judged(q)'
      BY <1>0, <3>1, <3>4, Untouched
    <3> QED BY <1>0, <3>1, <3>3, <3>5 DEF IInv
  <2>2. CASE ~Conflict(wire[r].headers)
    <3>1. /\ phase' = [phase EXCEPT ![r] = "collecting"]
          /\ UNCHANGED <<wire, frames, served, response, now>>
      BY <1>2, <2>2 DEF Call, Move
    <3>2. TypeOK' BY <1>0, <3>1 DEF TypeOK, Phases
    <3>3. ASSUME NEW q \in Reqs PROVE Collected(q)' /\ Admitted(q)' /\ Judged(q)'
      <4>1. CASE q = r
        <5>1. NoConflict(Provider, wire[r].headers) BY <2>2, ConflictFree
        <5> QED BY <1>0, <3>1, <4>1, <5>1 DEF Collected, Admitted, Judged, Body
      <4>2. CASE q # r
        <5>1. phase'[q] = phase[q] BY <1>0, <3>1, <4>2 DEF TypeOK
        <5> QED BY <1>0, <3>1, <5>1, Untouched
      <4> QED BY <4>1, <4>2
    <3> QED BY <1>0, <3>1, <3>2, <3>3 DEF IInv
  <2> QED BY <2>1, <2>2
<1>3. ASSUME NEW r \in Reqs, FrameArrives(r)
      PROVE  IInv'
  <2> DEFINE frame == wire[r].frames[Len(frames[r]) + 1]
  <2>1. /\ Len(frames[r]) < Len(wire[r].frames)
        /\ frames' = [frames EXCEPT ![r] = Append(frames[r], frame)]
        /\ UNCHANGED <<phase, wire, served, response, now>>
    BY <1>0, <1>3 DEF FrameArrives
  <2>2. TypeOK' BY <1>0, <2>1 DEF TypeOK
  <2>3. Collected(r)'
    <3>1. wire[r] \in Wires BY <1>0 DEF TypeOK
    <3>2. wire[r].frames \in Seq(Range(wire[r].frames)) BY <3>1, TowerAssumption
    <3>3. frames[r] \in Seq(Range(wire[r].frames)) BY <1>0 DEF Collected
    <3>4. frame \in Range(wire[r].frames) BY <2>1, <3>2, <3>3 DEF Range
    <3>5. frames'[r] = Append(frames[r], frame) BY <1>0, <2>1
    <3> HIDE DEF frame
    <3>6. /\ frames'[r] \in Seq(Range(wire[r].frames))
          /\ Len(frames'[r]) = Len(frames[r]) + 1
          /\ frames'[r][Len(frames[r]) + 1] = frame
          /\ \A i \in 1 .. Len(frames[r]) : frames'[r][i] = frames[r][i]
      BY <3>3, <3>4, <3>5
    <3>7. \A i \in 1 .. Len(frames'[r]) : frames'[r][i] = wire[r].frames[i]
      BY <1>0, <3>3, <3>6 DEF Collected, frame
    <3>8. Len(frames'[r]) <= Len(wire[r].frames) BY <2>1, <3>2, <3>3, <3>6
    <3> QED BY <2>1, <3>6, <3>7, <3>8 DEF Collected
  <2>4. ASSUME NEW q \in Reqs PROVE Collected(q)' /\ Admitted(q)' /\ Judged(q)'
    <3>1. CASE q = r BY <1>0, <2>1, <2>3, <3>1 DEF Admitted, Judged, Body
    <3>2. CASE q # r
      <4>1. frames'[q] = frames[q] BY <1>0, <2>1, <3>2
      <4> QED BY <1>0, <2>1, <4>1, Untouched
    <3> QED BY <3>1, <3>2
  <2> QED BY <1>0, <2>1, <2>2, <2>4 DEF IInv
<1>4. ASSUME NEW r \in Reqs, BodyEnds(r)
      PROVE  IInv'
  <2> DEFINE raw_body == FlattenSeq(frames[r])
             verdict == Verify(Provider, wire[r].headers, raw_body, Secret, Options, now)
             call == [body |-> raw_body, at |-> now]
  <2>1. /\ Len(frames[r]) = Len(wire[r].frames)
        /\ UNCHANGED <<wire, frames, now>>
    BY <1>4 DEF BodyEnds
  <2>2. wire[r] \in Wires BY <1>0 DEF TypeOK
  <2>3. CASE verdict = Ok
    <3>1. /\ phase[r] = "collecting" /\ phase' = [phase EXCEPT ![r] = "serving"]
          /\ served' = [served EXCEPT ![r] = {call}]
          /\ UNCHANGED response
      BY <1>4, <2>3 DEF BodyEnds, Move
    <3>2. TypeOK' BY <1>0, <2>1, <3>1 DEF TypeOK, Phases
    <3>3. raw_body = Body(r) BY <1>0, <2>1, <2>2, WholeBody
    <3>4. NoConflict(Provider, wire[r].headers) BY <1>0, <3>1 DEF Admitted
    <3>5. Judged(r)'
      <4>1. served'[r] = {call} BY <1>0, <3>1
      <4> QED BY <2>1, <2>3, <3>3, <3>4, <4>1 DEF Judged, Body
    <3>6. ASSUME NEW q \in Reqs PROVE Collected(q)' /\ Admitted(q)' /\ Judged(q)'
      <4>1. phase'[q] = phase[q] \/ phase'[q] # "collecting" BY <1>0, <3>1 DEF TypeOK
      <4>2. CASE q = r BY <1>0, <2>1, <3>5, <4>1, <4>2 DEF Collected, Admitted
      <4>3. CASE q # r
        <5>1. served'[q] = served[q] BY <1>0, <3>1, <4>3
        <5> QED BY <1>0, <2>1, <4>1, <5>1, Untouched
      <4> QED BY <4>2, <4>3
    <3> QED BY <1>0, <2>1, <3>1, <3>2, <3>6 DEF IInv
  <2>4. CASE verdict # Ok
    <3>1. Reject(r, "collecting", verdict) /\ UNCHANGED served
      BY <1>4, <2>4 DEF BodyEnds
    <3>2. RejectionStatus(verdict) \in {400, 401, 500} BY <2>2, <2>4, StatusOfVerdict
    <3> HIDE DEF verdict
    <3>3. TypeOK' /\ DOMAIN response' = Reqs BY <1>0, <2>1, <3>1, <3>2, RejectTypes DEF TypeOK
    <3>4. \A q \in Reqs : phase'[q] = phase[q] \/ phase'[q] # "collecting"
      BY <1>0, <3>1 DEF TypeOK, Reject, Move
    <3>5. \A q \in Reqs : Collected(q)' /\ Admitted(q)' /\ Judged(q)'
      BY <1>0, <2>1, <3>1, <3>4, Untouched
    <3> QED BY <1>0, <2>1, <3>1, <3>3, <3>5 DEF IInv
  <2> QED BY <2>3, <2>4
<1>5. CASE ClockMoves
  <2>1. UNCHANGED <<phase, wire, frames, served, response>> /\ now' \in Times
    BY <1>5 DEF ClockMoves
  <2>2. \A q \in Reqs : Collected(q)' /\ Admitted(q)' /\ Judged(q)' BY <1>0, <2>1, Untouched
  <2> QED BY <1>0, <2>1, <2>2 DEF IInv, TypeOK
<1>6. CASE UNCHANGED vars
  <2>1. UNCHANGED <<phase, wire, frames, served, response, now>> BY <1>6 DEF vars
  <2>2. \A q \in Reqs : Collected(q)' /\ Admitted(q)' /\ Judged(q)' BY <1>0, <2>1, Untouched
  <2> QED BY <1>0, <2>1, <2>2 DEF IInv, TypeOK
<1>7. ASSUME NEW r \in Reqs, PollReady(r) PROVE IInv'
  BY <1>1, <1>7 DEF PollReady, Move, Phases
<1>8. ASSUME NEW r \in Reqs, InnerAnswers(r) PROVE IInv'
  BY <1>1, <1>8 DEF InnerAnswers, Move, Phases
<1>9. ASSUME NEW r \in Reqs, Fault(r) PROVE IInv'
  BY <1>1, <1>9 DEF Fault, PollReadyFails, TransportFails, InnerFails, Drop, Move, Phases
<1> QED
  BY <1>2, <1>3, <1>4, <1>5, <1>6, <1>7, <1>8, <1>9 DEF Next, Step

LEMMA InvHolds == Spec => []IInv
BY InitInv, StepInv, PTL DEF Spec

\* The types of the middleware's state are invariant; in particular it answers
\* a request itself only with a status of one of the three classes.
THEOREM TypeCorrect == Spec => []TypeOK
<1>1. IInv => TypeOK BY DEF IInv
<1> QED BY <1>1, InvHolds, PTL

\* However a body is framed, and wherever it breaks off, what the handler is
\* given is the whole body.
THEOREM WholeBodyOnly == Spec => []HandlerSeesWholeBody
<1>1. IInv => HandlerSeesWholeBody BY DEF IInv, Judged, HandlerSeesWholeBody
<1> QED BY <1>1, InvHolds, PTL

\* Whatever provider, key and headers, a request that reached the handler is
\* genuine and was fresh then, under every reading of its duplicated headers.
THEOREM GenuineOnly == Spec => []EveryReadingIsGenuine
<1>1. IInv => EveryReadingIsGenuine
  <2> SUFFICES ASSUME IInv, NEW r \in Reqs, NEW call \in served[r]
               PROVE  Acceptable(Provider, wire[r].headers, call.body, Secret, Options, call.at)
    BY DEF EveryReadingIsGenuine
  <2>1. /\ NoConflict(Provider, wire[r].headers)
        /\ Verify(Provider, wire[r].headers, call.body, Secret, Options, call.at) = Ok
    BY DEF IInv, Judged
  <2>2. wire[r] \in Wires /\ call.at \in Nat
    <3>1. wire[r] \in Wires BY DEF IInv, TypeOK
    <3>2. call.at \in Times BY DEF IInv, TypeOK
    <3> QED BY <3>1, <3>2, TowerAssumption
  <2>3. SigningRoles(Provider) \subseteq DOMAIN wire[r].headers /\ Options.max_age \subseteq Nat
    BY <2>2, TowerAssumption DEF ArrivesInOrder
  <2> QED BY <2>1, <2>2, <2>3, EveryReading
<1> QED BY <1>1, InvHolds, PTL
(***************************************************************************)
(* The refinement: the middleware implements the gate.                     *)
(***************************************************************************)

\* A request the middleware answers itself is never served: the gate's fates
\* rest on it, and no single step shows it.
Answered == \A r \in Reqs : response[r] # {} => phase[r] = "answered"

LEMMA AnsweredStep == IInv /\ Answered /\ [Next]_vars => Answered'
<1> SUFFICES ASSUME IInv, Answered, [Next]_vars PROVE Answered' OBVIOUS
<1>0. phase \in [Reqs -> Phases] /\ DOMAIN response = Reqs BY DEF IInv, TypeOK
<1>1. ASSUME NEW r \in Reqs, NEW to, phase[r] # "answered",
             phase' = [phase EXCEPT ![r] = to], UNCHANGED response
      PROVE  Answered'
  BY <1>0, <1>1 DEF Answered
<1>2. ASSUME NEW r \in Reqs, NEW from, NEW error, Reject(r, from, error) PROVE Answered'
  BY <1>0, <1>2 DEF Answered, Reject, Move
<1>3. ASSUME UNCHANGED <<phase, response>> PROVE Answered' BY <1>3 DEF Answered
<1>4. ASSUME NEW r \in Reqs, Call(r) \/ BodyEnds(r) PROVE Answered'
  <2>1. ASSUME NEW from \in Phases \ {"answered"}, NEW to, Move(r, from, to), UNCHANGED response
        PROVE  Answered'
    BY <1>1, <2>1 DEF Move
  <2> QED BY <1>2, <1>4, <2>1 DEF Call, BodyEnds, Phases
<1>5. ASSUME NEW r \in Reqs, PollReady(r) \/ InnerAnswers(r) \/ Fault(r) PROVE Answered'
  BY <1>1, <1>5 DEF PollReady, InnerAnswers, Fault, PollReadyFails, TransportFails, InnerFails,
                    Drop, Move
<1>6. ASSUME NEW r \in Reqs, FrameArrives(r) PROVE Answered' BY <1>3, <1>6 DEF FrameArrives
<1> QED BY <1>3, <1>4, <1>5, <1>6 DEF Next, Step, ClockMoves, vars

\* A step of one request leaves the fates of the others.
LEMMA FateMoves ==
    ASSUME phase \in [Reqs -> Phases], NEW r \in Reqs, NEW to, phase' = [phase EXCEPT ![r] = to],
           \A q \in Reqs \ {r} : response'[q] = response[q]
    PROVE  Fates' = [Fates EXCEPT ![r] = Fate(r)']
<1>1. \A q \in Reqs \ {r} : Fate(q)' = Fate(q) BY DEF Fate
<1> QED BY <1>1 DEF Fates

\* A step that changes nothing but the phase of a request, and not its fate.
LEMMA GateStutters ==
    ASSUME phase \in [Reqs -> Phases], NEW r \in Reqs, NEW to, phase' = [phase EXCEPT ![r] = to],
           UNCHANGED <<wire, served, response, now>>, Fate(r)' = Fate(r)
    PROVE  UNCHANGED Gate!vars
<1>1. Fates' = [Fates EXCEPT ![r] = Fate(r)] BY FateMoves
<1>2. Fates' = Fates BY <1>1 DEF Fates
<1>3. Received' = Received /\ Given' = Given BY DEF Received, Body, Given
<1> QED BY <1>2, <1>3 DEF Gate!vars

\* A request that fails or is dropped is lost, unless it was answered before.
LEMMA GateLoses ==
    ASSUME phase \in [Reqs -> Phases], NEW r \in Reqs, NEW to \in {"failed", "dropped"},
           phase' = [phase EXCEPT ![r] = to], Fate(r) \in {"pending", "delivered"},
           UNCHANGED <<wire, served, response, now>>
    PROVE  Gate!Next
<1>1. Fate(r)' = "lost" BY DEF Fate
<1>2. Fates' = [Fates EXCEPT ![r] = "lost"] BY <1>1, FateMoves
<1>3. Received' = Received /\ Given' = Given BY DEF Received, Body, Given
<1>4. Fates[r] = Fate(r) BY DEF Fates
<1>5. Gate!Lose(r) BY <1>2, <1>3, <1>4 DEF Gate!Lose, Gate!Settle
<1> QED BY <1>5 DEF Gate!Next

\* A rejection refuses the request, if the gate may refuse it with that status.
LEMMA GateRefuses ==
    ASSUME IInv, NEW r \in Reqs, NEW from \in {"ready", "collecting"}, NEW error,
           Reject(r, from, error), UNCHANGED <<wire, served, now>>,
           ~Gate!Deserves(r, now) \/ ~Faultless(Provider, wire[r].headers, Secret, Options)
               \/ Ambiguous(Provider, wire[r].headers),
           Gate!StatusOf(r, now) = RejectionStatus(error)
    PROVE  Gate!Next
<1>0. phase \in [Reqs -> Phases] /\ DOMAIN response = Reqs BY DEF IInv, TypeOK
<1>1. /\ phase[r] = from /\ phase' = [phase EXCEPT ![r] = "answered"]
      /\ response' = [response EXCEPT ![r] = {RejectionStatus(error)}]
  BY DEF Reject, Move
<1>2. Fate(r) = "pending" /\ Fate(r)' = "refused" BY <1>0, <1>1 DEF Fate
<1>3. Fates' = [Fates EXCEPT ![r] = "refused"] BY <1>0, <1>1, <1>2, FateMoves
<1>4. Received' = Received /\ Given' = Given BY DEF Received, Body, Given
<1>5. Fates[r] = "pending" /\ Received[r].headers = wire[r].headers
  BY <1>2 DEF Fates, Received
<1>6. Gate!Refuse(r) BY <1>1, <1>3, <1>4, <1>5 DEF Gate!Refuse, Gate!Settle
<1> QED BY <1>6 DEF Gate!Next

\* When the body is in, the verdict of verify() decides as the gate does.
LEMMA GateJudges ==
    ASSUME IInv, Answered, NEW r \in Reqs, BodyEnds(r)
    PROVE  Gate!Next
<1> DEFINE raw_body == FlattenSeq(frames[r])
           headers == wire[r].headers
           verdict == Verify(Provider, headers, raw_body, Secret, Options, now)
           call == [body |-> raw_body, at |-> now]
<1>0. /\ phase \in [Reqs -> Phases] /\ DOMAIN response = Reqs /\ DOMAIN served = Reqs
      /\ wire[r] \in Wires /\ now \in Nat
  BY TowerAssumption DEF IInv, TypeOK
<1>1. /\ phase[r] = "collecting" /\ Len(frames[r]) = Len(wire[r].frames)
      /\ UNCHANGED <<wire, frames, now>>
  BY DEF BodyEnds, Reject, Move
<1>2. raw_body = Body(r) BY <1>0, <1>1, WholeBody DEF IInv
<1>3. NoConflict(Provider, headers) BY <1>1 DEF IInv, Admitted
<1>4. /\ ArrivesInOrder(Provider, headers) /\ Provider \in Providers
      /\ Options.max_age \subseteq Nat
  BY <1>0, TowerAssumption
<1>5. ~Ambiguous(Provider, headers) BY <1>3, <1>4, ConflictIsAmbiguity
<1>6. /\ Received[r].headers = headers /\ Received[r].body = raw_body
      /\ Received' = Received /\ Fates[r] = "pending"
  BY <1>1, <1>2 DEF Received, Body, Fates, Fate
<1>7. Gate!Deserves(r, now) <=> Acceptable(Provider, headers, raw_body, Secret, Options, now)
  BY <1>6 DEF Gate!Deserves
<1>8. CASE verdict = Ok
  <2>1. /\ phase' = [phase EXCEPT ![r] = "serving"] /\ UNCHANGED response
        /\ served' = [served EXCEPT ![r] = {call}]
    BY <1>8 DEF BodyEnds, Move
  <2>2. Gate!Deserves(r, now)
    <3>1. SigningRoles(Provider) \subseteq DOMAIN headers BY <1>4 DEF ArrivesInOrder
    <3> QED BY <1>0, <1>3, <1>4, <1>7, <1>8, <3>1, EveryReading
  <2>3. Fate(r)' = "delivered" BY <1>0, <1>1, <2>1 DEF Answered, Fate
  <2>4. Fates' = [Fates EXCEPT ![r] = "delivered"] BY <1>0, <2>1, <2>3, FateMoves
  <2>5. Given' = [Given EXCEPT ![r] = {Received[r].body}]
    <3>1. Given'[r] = {raw_body}
      <4>1. served'[r] = {call} BY <1>0, <2>1
      <4>2. Given'[r] = {c.body : c \in served'[r]} BY DEF Given
      <4>3. {c.body : c \in {call}} = {raw_body} OBVIOUS
      <4> QED BY <4>1, <4>2, <4>3
    <3>2. \A q \in Reqs \ {r} : Given'[q] = Given[q] BY <1>0, <2>1 DEF Given
    <3> QED BY <1>6, <3>1, <3>2 DEF Given
  <2>6. Gate!Deliver(r) BY <1>1, <1>6, <2>1, <2>2, <2>4, <2>5 DEF Gate!Deliver, Gate!Settle
  <2> QED BY <2>6 DEF Gate!Next
<1>9. CASE verdict # Ok
  <2>1. Reject(r, "collecting", verdict) /\ UNCHANGED served BY <1>9 DEF BodyEnds
  <2>2. ~Gate!Deserves(r, now) \/ ~Faultless(Provider, headers, Secret, Options)
    BY <1>0, <1>4, <1>7, <1>9, AcceptableIsAccepted
  <2>3. Gate!StatusOf(r, now) = RejectionStatus(verdict) BY <1>5, <1>6 DEF Gate!StatusOf
  <2> HIDE DEF verdict
  <2> QED BY <1>1, <2>1, <2>2, <2>3, GateRefuses
<1> QED BY <1>8, <1>9

\* A request in conflict is refused at once, as an ambiguous one.
LEMMA GateAdmits ==
    ASSUME IInv, Answered, NEW r \in Reqs, Call(r)
    PROVE  [Gate!Next]_(Gate!vars)
<1>0. phase \in [Reqs -> Phases] /\ wire[r] \in Wires BY DEF IInv, TypeOK
<1>1. CASE Conflict(wire[r].headers)
  <2> DEFINE error == Error("MalformedHeader", "sig")
  <2>1. Reject(r, "ready", error) /\ UNCHANGED <<wire, served, now>> BY <1>1 DEF Call
  <2>2. Ambiguous(Provider, wire[r].headers)
    <3>1. ArrivesInOrder(Provider, wire[r].headers) /\ Provider \in Providers
      BY <1>0, TowerAssumption
    <3>2. ~NoConflict(Provider, wire[r].headers) BY <1>1, FreeOfConflict
    <3> QED BY <3>1, <3>2, ConflictIsAmbiguity
  <2>3. RejectionStatus(error) = 400 BY DEF RejectionStatus, Error
  <2>4. Gate!StatusOf(r, now) = RejectionStatus(error)
    BY <2>2, <2>3 DEF Gate!StatusOf, Received
  <2> QED BY <2>1, <2>2, <2>4, GateRefuses
<1>2. CASE ~Conflict(wire[r].headers)
  <2>1. /\ phase[r] = "ready" /\ phase' = [phase EXCEPT ![r] = "collecting"]
        /\ UNCHANGED <<wire, served, response, now>>
    BY <1>2 DEF Call, Move
  <2>2. Fate(r)' = Fate(r) BY <1>0, <2>1 DEF Fate
  <2> QED BY <1>0, <2>1, <2>2, GateStutters
<1> QED BY <1>1, <1>2

LEMMA GateStep == IInv /\ Answered /\ [Next]_vars => [Gate!Next]_(Gate!vars)
<1> SUFFICES ASSUME IInv, Answered, [Next]_vars PROVE [Gate!Next]_(Gate!vars) OBVIOUS
<1>0. phase \in [Reqs -> Phases] BY DEF IInv, TypeOK
<1>1. ASSUME UNCHANGED <<phase, wire, served, response>>
      PROVE  UNCHANGED <<Received, Fates, Given, response>>
  BY <1>1 DEF Received, Body, Fates, Fate, Given
<1>2. CASE ClockMoves
  <2>1. now' \in Times /\ UNCHANGED <<Received, Fates, Given, response>>
    BY <1>1, <1>2 DEF ClockMoves
  <2>2. Gate!Tick BY <2>1 DEF Gate!Tick
  <2> QED BY <2>2 DEF Gate!Next
<1>3. CASE UNCHANGED vars BY <1>1, <1>3 DEF vars, Gate!vars
<1>4. ASSUME NEW r \in Reqs, FrameArrives(r) PROVE UNCHANGED Gate!vars
  BY <1>1, <1>4 DEF FrameArrives, Gate!vars
<1>5. ASSUME NEW r \in Reqs, PollReady(r) PROVE UNCHANGED Gate!vars
  <2>1. Fate(r)' = Fate(r) BY <1>0, <1>5 DEF PollReady, Move, Fate
  <2> QED BY <1>0, <1>5, <2>1, GateStutters DEF PollReady, Move
<1>6. ASSUME NEW r \in Reqs, InnerAnswers(r) PROVE UNCHANGED Gate!vars
  <2>1. Fate(r)' = Fate(r) BY <1>0, <1>6 DEF InnerAnswers, Move, Fate
  <2> QED BY <1>0, <1>6, <2>1, GateStutters DEF InnerAnswers, Move
<1>7. ASSUME NEW r \in Reqs, Fault(r) PROVE Gate!Next
  <2>1. PICK to \in {"failed", "dropped"} :
            /\ phase[r] \in {"idle", "collecting", "serving"}
            /\ phase' = [phase EXCEPT ![r] = to]
            /\ UNCHANGED <<wire, served, response, now>>
    BY <1>7 DEF Fault, PollReadyFails, TransportFails, InnerFails, Drop, Move
  <2>2. Fate(r) \in {"pending", "delivered"} BY <2>1 DEF Answered, Fate
  <2> QED BY <1>0, <2>1, <2>2, GateLoses
<1> QED BY <1>2, <1>3, <1>4, <1>5, <1>6, <1>7, GateJudges, GateAdmits DEF Next, Step

\* The middleware implements the gate, for every provider, configuration, header
\* and framing: what reaches the handler is acceptable and whole, a request that
\* is acceptable and in form is never refused by a middleware that is set up,
\* and a refusal has the status the gate gives it.
THEOREM Refinement == Spec => ImplementsGate
<1>1. Init => Answered BY DEF Init, Answered
<1>2. Init => Gate!Init
  <2> SUFFICES ASSUME Init PROVE Gate!Init OBVIOUS
  <2>1. Fates = [r \in Reqs |-> "pending"] BY DEF Init, Fates, Fate
  <2>2. Given = [r \in Reqs |-> {}] BY DEF Init, Given
  <2> QED BY <2>1, <2>2 DEF Init, Gate!Init
<1> QED
  BY <1>1, <1>2, InvHolds, AnsweredStep, GateStep, PTL DEF Spec, ImplementsGate, Gate!Spec

(***************************************************************************)
(* The stack.                                                              *)
(***************************************************************************)

\* A step of the stack is a step of the middleware or leaves it as it was.
LEMMA StackStepIsStep == [StackNext]_<<vars, stack>> => [Next]_vars
<1> SUFFICES ASSUME StackNext PROVE [Next]_vars BY DEF vars
<1>1. ASSUME NEW r \in Reqs, StackStep(r) \/ Fault(r) PROVE Next
  BY <1>1 DEF StackStep, StackPollReady, StackCall, StackBodyEnds, Next, Step
<1>2. ASSUME NEW c \in Conns, Close(c) PROVE UNCHANGED vars BY <1>2 DEF Close
<1> QED BY <1>1, <1>2 DEF StackNext, Next

\* Permits and connections only narrow what the middleware does: whatever holds
\* of it, the gate included, holds of it in the stack.
THEOREM StackImplementsAdapter == StackSpec => Spec
<1>1. StackInit => Init BY DEF StackInit
<1> QED BY <1>1, StackStepIsStep, PTL DEF StackSpec, Spec

\* So the stack implements the gate, whatever the capacity of what is behind it.
COROLLARY StackRefinement == StackSpec => ImplementsGate
BY StackImplementsAdapter, Refinement, PTL

\* The permits given out, and who has been told of one: back-pressure itself is
\* not inductive, since what bounds the callers are the permits of their
\* connections, and a connection holds one only for a single caller at a time.
Permits ==
    /\ IsFiniteSet(reserved) /\ Cardinality(reserved) <= Limit
    /\ \A r \in Reqs : phase[r] = "ready" =>
        /\ ConnOf[r] \in reserved
        /\ \A q \in Reqs : phase[q] = "ready" /\ ConnOf[q] = ConnOf[r] => q = r

\* Only poll_ready makes a request ready.
AfterPollReady(r) == Call(r) \/ FrameArrives(r) \/ BodyEnds(r) \/ InnerAnswers(r)

LEMMA ReadyAgain ==
    ASSUME ClockMoves \/ \E r \in Reqs : AfterPollReady(r) \/ Fault(r),
           phase \in [Reqs -> Phases],
           NEW q \in Reqs, phase'[q] = "ready"
    PROVE  phase[q] = "ready"
<1>1. ASSUME NEW r \in Reqs, NEW from, NEW to \in Phases \ {"ready"}, Move(r, from, to)
      PROVE  phase[q] = "ready"
  BY <1>1 DEF Move
<1>2. ASSUME NEW r \in Reqs, NEW from, NEW error, Reject(r, from, error)
      PROVE  phase[q] = "ready"
  BY <1>1, <1>2 DEF Reject, Phases
<1>3. ASSUME NEW r \in Reqs, Call(r) \/ BodyEnds(r) PROVE phase[q] = "ready"
  BY <1>1, <1>2, <1>3 DEF Call, BodyEnds, Phases
<1>4. ASSUME NEW r \in Reqs,
             InnerAnswers(r) \/ PollReadyFails(r) \/ TransportFails(r) \/ InnerFails(r)
      PROVE  phase[q] = "ready"
  BY <1>1, <1>4 DEF InnerAnswers, PollReadyFails, TransportFails, InnerFails, Phases
<1>5. ASSUME NEW r \in Reqs, Drop(r) \/ FrameArrives(r) PROVE phase[q] = "ready"
  BY <1>5 DEF Drop, FrameArrives
<1> QED BY <1>3, <1>4, <1>5 DEF AfterPollReady, Fault, ClockMoves

LEMMA PermitsStep == TypeOK /\ Permits /\ [StackNext]_<<vars, stack>> => Permits'
<1> SUFFICES ASSUME TypeOK, Permits, [StackNext]_<<vars, stack>> PROVE Permits' OBVIOUS
<1>0. phase \in [Reqs -> Phases] BY DEF TypeOK
<1>1. CASE UNCHANGED <<vars, stack>> BY <1>1 DEF vars, stack, Permits
<1>2. ASSUME NEW r \in Reqs, StackPollReady(r) PROVE Permits'
  <2>1. /\ phase' = [phase EXCEPT ![r] = "ready"]
        /\ reserved' = reserved \cup {ConnOf[r]}
        /\ ConnOf[r] \in reserved \/ Cardinality(reserved) < Limit
        /\ \A q \in Reqs : ConnOf[q] = ConnOf[r] => phase[q] # "ready"
    BY <1>2 DEF StackPollReady, PollReady, Move, On
  <2>2. IsFiniteSet(reserved') /\ Cardinality(reserved') <= Limit
    <3>1. /\ IsFiniteSet(reserved')
          /\ Cardinality(reserved') =
                IF ConnOf[r] \in reserved THEN Cardinality(reserved) ELSE Cardinality(reserved) + 1
      BY <2>1, FS_AddElement DEF Permits
    <3>2. Cardinality(reserved) \in Nat BY FS_CardinalityType DEF Permits
    <3> QED BY <2>1, <3>1, <3>2, StackAssumption DEF Permits
  <2>3. \A q \in Reqs : phase'[q] = "ready" <=> phase[q] = "ready" \/ q = r BY <1>0, <2>1
  <2> QED BY <2>1, <2>2, <2>3 DEF Permits
<1>3. ASSUME NEW c \in Conns, Close(c) PROVE Permits'
  <2>1. /\ UNCHANGED phase /\ reserved' = reserved \ {c}
        /\ \A q \in Reqs : ConnOf[q] = c => phase[q] # "ready"
    BY <1>3 DEF Close, On, vars
  <2>2. IsFiniteSet(reserved') /\ Cardinality(reserved') <= Cardinality(reserved)
    BY <2>1, FS_Subset DEF Permits
  <2>3. Cardinality(reserved') \in Nat /\ Cardinality(reserved) \in Nat
    BY <2>2, FS_CardinalityType DEF Permits
  <2>4. Cardinality(reserved') <= Limit BY <2>2, <2>3, StackAssumption DEF Permits
  <2> QED BY <2>1, <2>2, <2>4 DEF Permits
<1>4. ASSUME ClockMoves \/ \E r \in Reqs : AfterPollReady(r) \/ Fault(r), UNCHANGED reserved
      PROVE  Permits'
  <2>1. \A q \in Reqs : phase'[q] = "ready" => phase[q] = "ready" BY <1>0, <1>4, ReadyAgain
  <2> QED BY <1>4, <2>1 DEF Permits
<1> QED
  BY <1>1, <1>2, <1>3, <1>4
     DEF StackNext, StackStep, StackCall, StackBodyEnds, AfterPollReady, stack

\* The ready requests are as many as their connections, which hold permits.
LEMMA Backpressure == Permits => BackpressureReachesTheCaller
<1> SUFFICES ASSUME Permits PROVE BackpressureReachesTheCaller OBVIOUS
<1> DEFINE ready == {r \in Reqs : phase[r] = "ready"}
           connection == [r \in ready |-> ConnOf[r]]
<1>1. connection \in Injection(ready, reserved)
  BY DEF Permits, Injection, IsInjective
<1>2. IsFiniteSet(reserved) /\ Cardinality(reserved) <= Limit BY DEF Permits
<1> HIDE DEF ready, connection
<1>3. IsFiniteSet(ready) /\ Cardinality(ready) <= Cardinality(reserved)
  BY <1>1, <1>2, FS_Injection
<1>4. Cardinality(ready) \in Nat /\ Cardinality(reserved) \in Nat
  BY <1>2, <1>3, FS_CardinalityType
<1>5. Cardinality(ready) <= Limit BY <1>2, <1>3, <1>4, StackAssumption
<1> QED BY <1>5 DEF BackpressureReachesTheCaller, ready

\* Whatever the number of requests and connections and the capacity of the inner
\* service, the middleware is never ready for more callers than the inner service
\* has permits for, although it never calls the copy it reserved them with.
THEOREM BackpressureHolds == StackSpec => []BackpressureReachesTheCaller
<1>1. StackInit => Permits
  <2> SUFFICES ASSUME StackInit PROVE Permits OBVIOUS
  <2>1. reserved = {} /\ \A r \in Reqs : phase[r] = "idle" BY DEF StackInit, Init
  <2>2. IsFiniteSet({}) /\ Cardinality({}) = 0 BY FS_EmptySet
  <2> QED BY <2>1, <2>2, StackAssumption DEF Permits
<1>2. StackSpec => []TypeOK BY StackImplementsAdapter, TypeCorrect, PTL
<1> QED BY <1>1, <1>2, PermitsStep, Backpressure, PTL DEF StackSpec
=============================================================================
