------------------------- MODULE ActixAdapterProofs -------------------------
(***************************************************************************)
(* Theorems about the actix extractor, for any number of requests, any     *)
(* routes, any framing of bodies, any headers and any clock readings.      *)
(***************************************************************************)
EXTENDS ActixAdapter, GateSoundness

\* The frames the extractors of a request find between them, behind one that
\* took the payload none.
Total(r) == IF r \in preceded THEN <<>> ELSE wire[r].frames

\* What was collected and what is left of the payload make up the body.
Collected(r) ==
    /\ frames[r] \in Seq(Range(Total(r))) /\ payload[r] \in Seq(Range(Total(r)))
    /\ Len(frames[r]) + Len(payload[r]) = Len(Total(r))
    /\ \A i \in 1 .. Len(frames[r]) : frames[r][i] = Total(r)[i]
    /\ \A i \in 1 .. Len(payload[r]) : payload[r][i] = Total(r)[Len(frames[r]) + i]

\* A request whose body is awaited has a configuration and no conflict.
Admitted(r) ==
    phase[r] = "collecting" => r \in registered /\ NoConflict(Provider, wire[r].headers)

\* What went to the handler was the whole body, admitted and verified then.
Judged(r) ==
    \A call \in served[r] :
        /\ call.body = Body(r)
        /\ r \in registered
        /\ NoConflict(Provider, wire[r].headers)
        /\ Verify(Provider, wire[r].headers, call.body, Secret, Options, call.at) = Ok

\* As for the tower middleware, what a handler was given rests on what was
\* collected and checked in earlier steps.
IInv ==
    /\ TypeOK
    /\ DOMAIN frames = Reqs /\ DOMAIN payload = Reqs
    /\ DOMAIN served = Reqs /\ DOMAIN response = Reqs
    /\ \A r \in Reqs : Collected(r) /\ Admitted(r) /\ Judged(r)

\* The code looks for the name of a header in conflict and goes on if none is.
LEMMA ConflictFree == \A headers : ~Conflict(headers) => NoConflict(Provider, headers)
<1> SUFFICES ASSUME NEW headers, ~Conflict(headers) PROVE NoConflict(Provider, headers)
  OBVIOUS
<1> DEFINE names == SignatureHeaderNames(Provider)
<1> SUFFICES ASSUME NEW k \in DOMAIN names, NEW j \in DOMAIN headers[names[k]]
             PROVE  headers[names[k]][j] = headers[names[k]][1]
  BY DEF NoConflict
<1> HIDE DEF names
<1>1. ConflictingSignatureHeader(headers, names) = {} BY DEF Conflict, names
<1> QED BY <1>1 DEF ConflictingSignatureHeader

LEMMA FreeOfConflict == \A headers : NoConflict(Provider, headers) => ~Conflict(headers)
BY DEF NoConflict, Conflict, ConflictingSignatureHeader

\* A rejection is answered with the status of one of the three classes.
LEMMA StatusOfError ==
    ASSUME NEW o, NEW s, Outcome(o, s), o # Ok
    PROVE  RejectionStatus(o) \in {400, 401, 500}
BY DEF Outcome, RejectionStatus, ErrorKinds

LEMMA StatusOfVerdict ==
    ASSUME NEW w \in Wires, NEW body, NEW t,
           Verify(Provider, w.headers, body, Secret, Options, t) # Ok
    PROVE  RejectionStatus(Verify(Provider, w.headers, body, Secret, Options, t))
               \in {400, 401, 500}
<1>1. ListsElements(Provider, w.headers) BY ActixAssumption DEF ListsElements
<1> QED BY <1>1, VerifyOutcome, StatusOfError

\* Total is a sequence of frames whose bytes are the body.
LEMMA TotalIsBody ==
    ASSUME NEW r \in Reqs, wire[r] \in Wires
    PROVE  Total(r) \in Seq(Range(Total(r))) /\ FlattenSeq(Total(r)) = Body(r)
<1>1. CASE r \in preceded
  <2>1. Total(r) = <<>> /\ Body(r) = <<>> BY <1>1 DEF Total, Body
  <2>2. FlattenSeq(<<>>) = <<>> BY DEF FlattenSeq
  <2> QED BY <2>1, <2>2
<1>2. CASE r \notin preceded
  <2>1. Total(r) = wire[r].frames /\ Body(r) = FlattenSeq(wire[r].frames)
    BY <1>2 DEF Total, Body
  <2>2. wire[r].frames \in Seq(Range(wire[r].frames)) BY ActixAssumption
  <2> QED BY <2>1, <2>2
<1> QED BY <1>1, <1>2

\* Once the payload is exhausted, the bytes collected are those of the body.
LEMMA WholeBody ==
    ASSUME NEW r \in Reqs, wire[r] \in Wires, Collected(r), payload[r] = <<>>
    PROVE  FlattenSeq(frames[r]) = Body(r)
<1>1. Total(r) \in Seq(Range(Total(r))) BY TotalIsBody
<1>2. Len(frames[r]) = Len(Total(r)) BY <1>1 DEF Collected
<1>3. frames[r] = Total(r) BY <1>1, <1>2 DEF Collected
<1> QED BY <1>3, TotalIsBody

LEMMA InitInv == Init => IInv
<1> SUFFICES ASSUME Init PROVE IInv OBVIOUS
<1>1. TypeOK BY DEF Init, TypeOK, Phases
<1>2. ASSUME NEW r \in Reqs PROVE Collected(r) /\ Admitted(r) /\ Judged(r)
  <2>1. /\ frames[r] = <<>> /\ payload[r] = Total(r)
        /\ wire[r] \in Wires /\ phase[r] = "routed" /\ served[r] = {}
    BY DEF Init, Total
  <2>2. Total(r) \in Seq(Range(Total(r))) BY <2>1, TotalIsBody
  <2>3. Collected(r)
    <3> DEFINE total == Total(r)
    <3> HIDE DEF total
    <3>1. <<>> \in Seq(Range(total)) /\ Len(<<>>) = 0 OBVIOUS
    <3>2. Len(total) \in Nat BY <2>2 DEF total
    <3> QED BY <2>1, <2>2, <3>1, <3>2 DEF Collected, total
  <2> QED BY <2>1, <2>3 DEF Admitted, Judged
<1> QED BY <1>1, <1>2 DEF Init, IInv

\* A step that is not about a request leaves what is known of it as it was.
LEMMA Untouched ==
    ASSUME NEW q \in Reqs, Collected(q), Admitted(q), Judged(q),
           UNCHANGED routes, frames'[q] = frames[q], payload'[q] = payload[q],
           served'[q] = served[q],
           phase'[q] = phase[q] \/ phase'[q] # "collecting"
    PROVE  Collected(q)' /\ Admitted(q)' /\ Judged(q)'
<1>1. Total(q)' = Total(q) BY DEF Total, routes
<1> QED BY <1>1 DEF Collected, Admitted, Judged, Body, routes

\* Answering with a status keeps the types, and ends what was being collected.
LEMMA AnswerInv ==
    ASSUME IInv, NEW r \in Reqs, NEW from, NEW status \in {400, 401, 500},
           Answer(r, from, status),
           UNCHANGED <<routes, payload, frames, served, now>>
    PROVE  IInv'
<1>0. /\ TypeOK
      /\ DOMAIN response = Reqs
      /\ \A q \in Reqs : Collected(q) /\ Admitted(q) /\ Judged(q)
  BY DEF IInv
<1>1. /\ phase' \in [Reqs -> Phases] /\ DOMAIN response' = Reqs
      /\ \A q \in Reqs : \A code \in response'[q] : code \in {400, 401, 500}
      /\ \A q \in Reqs : phase'[q] = phase[q] \/ phase'[q] # "collecting"
  BY <1>0 DEF TypeOK, Answer, Move, Phases
<1>2. TypeOK' BY <1>0, <1>1 DEF TypeOK, routes
<1>3. \A q \in Reqs : Collected(q)' /\ Admitted(q)' /\ Judged(q)' BY <1>0, <1>1, Untouched
<1> QED BY <1>1, <1>2, <1>3 DEF IInv

LEMMA StepInv == IInv /\ [Next]_vars => IInv'
<1> SUFFICES ASSUME IInv, [Next]_vars PROVE IInv' OBVIOUS
<1>0. /\ TypeOK
      /\ DOMAIN frames = Reqs /\ DOMAIN payload = Reqs
      /\ DOMAIN served = Reqs /\ DOMAIN response = Reqs
      /\ \A r \in Reqs : Collected(r) /\ Admitted(r) /\ Judged(r)
  BY DEF IInv
\* The steps after the answer, and a dropped future.
<1>1. ASSUME NEW r \in Reqs, NEW to \in Phases \ {"collecting"},
             phase' = [phase EXCEPT ![r] = to],
             UNCHANGED <<routes, payload, frames, served, response, now>>
      PROVE  IInv'
  <2>1. TypeOK' BY <1>0, <1>1 DEF TypeOK, routes
  <2>2. \A q \in Reqs : phase'[q] = phase[q] \/ phase'[q] # "collecting"
    BY <1>0, <1>1 DEF TypeOK
  <2>3. \A q \in Reqs : Collected(q)' /\ Admitted(q)' /\ Judged(q)'
    BY <1>0, <1>1, <2>2, Untouched
  <2> QED BY <1>0, <1>1, <2>1, <2>3 DEF IInv
<1>2. ASSUME NEW r \in Reqs, FromRequest(r)
      PROVE  IInv'
  <2>1. UNCHANGED <<routes, payload, frames, served, now>> BY <1>2 DEF FromRequest
  <2>2. CASE r \notin registered
    <3>1. Answer(r, "routed", RejectionStatus(Error("MissingContext", "none")))
      BY <1>2, <2>2 DEF FromRequest, Reject
    <3>2. RejectionStatus(Error("MissingContext", "none")) \in {400, 401, 500}
      BY DEF RejectionStatus, Error
    <3> QED BY <2>1, <3>1, <3>2, AnswerInv
  <2>3. CASE r \in registered /\ Conflict(wire[r].headers)
    <3>1. Answer(r, "routed", RejectionStatus(Error("MalformedHeader", "sig")))
      BY <1>2, <2>3 DEF FromRequest, Reject
    <3>2. RejectionStatus(Error("MalformedHeader", "sig")) \in {400, 401, 500}
      BY DEF RejectionStatus, Error
    <3> QED BY <2>1, <3>1, <3>2, AnswerInv
  <2>4. CASE r \in registered /\ ~Conflict(wire[r].headers)
    <3>1. phase' = [phase EXCEPT ![r] = "collecting"] /\ UNCHANGED response
      BY <1>2, <2>4 DEF FromRequest, Move
    <3>2. TypeOK' BY <1>0, <2>1, <3>1 DEF TypeOK, Phases, routes
    <3>3. ASSUME NEW q \in Reqs PROVE Collected(q)' /\ Admitted(q)' /\ Judged(q)'
      <4>1. CASE q = r
        <5>1. NoConflict(Provider, wire[r].headers) BY <2>4, ConflictFree
        <5>2. Total(q)' = Total(q) BY <2>1 DEF Total, routes
        <5> QED BY <1>0, <2>1, <2>4, <4>1, <5>1, <5>2 DEF Collected, Admitted, Judged, Body, routes
      <4>2. CASE q # r
        <5>1. phase'[q] = phase[q] BY <1>0, <3>1, <4>2 DEF TypeOK
        <5> QED BY <1>0, <2>1, <5>1, Untouched
      <4> QED BY <4>1, <4>2
    <3> QED BY <1>0, <2>1, <3>1, <3>2, <3>3 DEF IInv
  <2> QED BY <2>2, <2>3, <2>4
<1>3. ASSUME NEW r \in Reqs, FrameArrives(r)
      PROVE  IInv'
  <2>1. /\ payload[r] # <<>>
        /\ frames' = [frames EXCEPT ![r] = Append(frames[r], Head(payload[r]))]
        /\ payload' = [payload EXCEPT ![r] = Tail(payload[r])]
        /\ UNCHANGED <<phase, routes, served, response, now>>
    BY <1>0, <1>3 DEF FrameArrives
  <2>2. TypeOK' BY <1>0, <2>1 DEF TypeOK, routes
  <2>3. Collected(r)'
    <3> DEFINE F == frames[r]
               P == payload[r]
               T == Total(r)
               S == Range(Total(r))
    <3>1. /\ F \in Seq(S) /\ P \in Seq(S) /\ P # <<>> /\ Len(F) + Len(P) = Len(T)
          /\ \A i \in 1 .. Len(F) : F[i] = T[i]
          /\ \A i \in 1 .. Len(P) : P[i] = T[Len(F) + i]
      BY <1>0, <2>1 DEF Collected
    <3>2. frames'[r] = Append(F, Head(P)) /\ payload'[r] = Tail(P) BY <1>0, <2>1
    <3>3. Total(r)' = T BY <2>1 DEF Total, routes
    <3> HIDE DEF F, P, T, S
    <3>4. /\ Head(P) \in S /\ Head(P) = P[1] /\ Len(P) \in Nat /\ Len(P) >= 1 /\ Len(F) \in Nat
          /\ Tail(P) \in Seq(S) /\ Len(Tail(P)) = Len(P) - 1
          /\ \A i \in 1 .. Len(P) - 1 : Tail(P)[i] = P[i + 1]
      BY <3>1
    <3>5. /\ Append(F, Head(P)) \in Seq(S) /\ Len(Append(F, Head(P))) = Len(F) + 1
          /\ Append(F, Head(P))[Len(F) + 1] = Head(P)
          /\ \A i \in 1 .. Len(F) : Append(F, Head(P))[i] = F[i]
      BY <3>1, <3>4
    <3>6. \A i \in 1 .. Len(F) + 1 : Append(F, Head(P))[i] = T[i]
      <4>1. Head(P) = T[Len(F) + 1] BY <3>1, <3>4
      <4> QED BY <3>1, <3>4, <3>5, <4>1
    <3>7. \A i \in 1 .. Len(P) - 1 : Tail(P)[i] = T[Len(F) + 1 + i]
      <4> SUFFICES ASSUME NEW i \in 1 .. Len(P) - 1 PROVE Tail(P)[i] = T[Len(F) + 1 + i]
        OBVIOUS
      <4>1. i + 1 \in 1 .. Len(P) /\ Len(F) + (i + 1) = Len(F) + 1 + i BY <3>4
      <4> QED BY <3>1, <3>4, <4>1
    <3>8. (Len(F) + 1) + (Len(P) - 1) = Len(T)
      <4>1. Len(F) + Len(P) = Len(T) BY <3>1
      <4>2. Len(F) \in Nat /\ Len(P) \in Nat BY <3>4
      <4>3. (Len(F) + 1) + (Len(P) - 1) = Len(F) + Len(P) BY <4>2
      <4> QED BY <4>1, <4>3
    <3>9. /\ Append(F, Head(P)) \in Seq(S) /\ Tail(P) \in Seq(S)
          /\ Len(Append(F, Head(P))) + Len(Tail(P)) = Len(T)
          /\ \A i \in 1 .. Len(Append(F, Head(P))) : Append(F, Head(P))[i] = T[i]
          /\ \A i \in 1 .. Len(Tail(P)) : Tail(P)[i] = T[Len(Append(F, Head(P))) + i]
      BY <3>4, <3>5, <3>6, <3>7, <3>8
    <3> DEFINE f == Append(F, Head(P))
               t == Tail(P)
    <3> HIDE DEF f, t
    <3>10. /\ f \in Seq(S) /\ t \in Seq(S) /\ Len(f) + Len(t) = Len(T)
           /\ \A i \in 1 .. Len(f) : f[i] = T[i]
           /\ \A i \in 1 .. Len(t) : t[i] = T[Len(f) + i]
      BY <3>9 DEF f, t
    <3>11. frames'[r] = f /\ payload'[r] = t /\ Range(Total(r)') = S
      BY <3>2, <3>3 DEF f, t, S, T
    <3> QED BY <3>3, <3>10, <3>11 DEF Collected
  <2>4. ASSUME NEW q \in Reqs PROVE Collected(q)' /\ Admitted(q)' /\ Judged(q)'
    <3>1. CASE q = r BY <1>0, <2>1, <2>3, <3>1 DEF Admitted, Judged, Body, routes
    <3>2. CASE q # r
      <4>1. frames'[q] = frames[q] /\ payload'[q] = payload[q] BY <1>0, <2>1, <3>2
      <4> QED BY <1>0, <2>1, <4>1, Untouched
    <3> QED BY <3>1, <3>2
  <2> QED BY <1>0, <2>1, <2>2, <2>4 DEF IInv
<1>4. ASSUME NEW r \in Reqs, BodyEnds(r)
      PROVE  IInv'
  <2> DEFINE raw_body == FlattenSeq(frames[r])
             verdict == Verify(Provider, wire[r].headers, raw_body, Secret, Options, now)
             call == [body |-> raw_body, at |-> now]
  <2>1. payload[r] = <<>> /\ UNCHANGED <<routes, payload, frames, now>>
    BY <1>4 DEF BodyEnds
  <2>2. wire[r] \in Wires BY <1>0 DEF TypeOK
  <2>3. CASE verdict = Ok
    <3>1. /\ phase[r] = "collecting" /\ phase' = [phase EXCEPT ![r] = "serving"]
          /\ served' = [served EXCEPT ![r] = {call}]
          /\ UNCHANGED response
      BY <1>4, <2>3 DEF BodyEnds, Move
    <3>2. TypeOK' BY <1>0, <2>1, <3>1 DEF TypeOK, Phases, routes
    <3>3. raw_body = Body(r) BY <1>0, <2>1, <2>2, WholeBody
    <3>4. r \in registered /\ NoConflict(Provider, wire[r].headers) BY <1>0, <3>1 DEF Admitted
    <3>5. Judged(r)'
      <4>1. served'[r] = {call} BY <1>0, <3>1
      <4> QED BY <2>1, <2>3, <3>3, <3>4, <4>1 DEF Judged, Body, routes
    <3>6. ASSUME NEW q \in Reqs PROVE Collected(q)' /\ Admitted(q)' /\ Judged(q)'
      <4>1. phase'[q] = phase[q] \/ phase'[q] # "collecting" BY <1>0, <3>1 DEF TypeOK
      <4>2. CASE q = r
        <5>1. phase'[r] = "serving" BY <1>0, <3>1 DEF TypeOK
        <5>2. Total(r)' = Total(r) BY <2>1 DEF Total, routes
        <5> QED BY <1>0, <2>1, <3>5, <4>2, <5>1, <5>2 DEF Collected, Admitted
      <4>3. CASE q # r
        <5>1. served'[q] = served[q] BY <1>0, <3>1, <4>3
        <5> QED BY <1>0, <2>1, <4>1, <5>1, Untouched
      <4> QED BY <4>2, <4>3
    <3> QED BY <1>0, <2>1, <3>1, <3>2, <3>6 DEF IInv
  <2>4. CASE verdict # Ok
    <3>1. Answer(r, "collecting", RejectionStatus(verdict)) /\ UNCHANGED served
      BY <1>4, <2>4 DEF BodyEnds, Reject
    <3>2. RejectionStatus(verdict) \in {400, 401, 500} BY <2>2, <2>4, StatusOfVerdict
    <3> HIDE DEF verdict
    <3> QED BY <2>1, <3>1, <3>2, AnswerInv
  <2> QED BY <2>3, <2>4
<1>5. ASSUME NEW r \in Reqs, BodyReadFails(r) PROVE IInv'
  <2>1. Answer(r, "collecting", 400) /\ UNCHANGED <<routes, payload, frames, served, now>>
    BY <1>5 DEF BodyReadFails
  <2> QED BY <2>1, AnswerInv
<1>6. CASE ClockMoves
  <2>1. UNCHANGED <<phase, routes, payload, frames, served, response>> /\ now' \in Times
    BY <1>6 DEF ClockMoves
  <2>2. \A q \in Reqs : Collected(q)' /\ Admitted(q)' /\ Judged(q)' BY <1>0, <2>1, Untouched
  <2> QED BY <1>0, <2>1, <2>2 DEF IInv, TypeOK, routes
<1>7. CASE UNCHANGED vars
  <2>1. UNCHANGED <<phase, routes, payload, frames, served, response, now>> BY <1>7 DEF vars
  <2>2. \A q \in Reqs : Collected(q)' /\ Admitted(q)' /\ Judged(q)' BY <1>0, <2>1, Untouched
  <2> QED BY <1>0, <2>1, <2>2 DEF IInv, TypeOK, routes
<1>8. ASSUME NEW r \in Reqs, HandlerAnswers(r) \/ Drop(r) PROVE IInv'
  BY <1>1, <1>8 DEF HandlerAnswers, Drop, Move, Phases
<1> QED
  BY <1>2, <1>3, <1>4, <1>5, <1>6, <1>7, <1>8 DEF Next, Step, Other

LEMMA InvHolds == Spec => []IInv
BY InitInv, StepInv, PTL DEF Spec

\* The types of the extractor's state are invariant; in particular it answers
\* a request itself only with a status of one of the three classes.
THEOREM TypeCorrect == Spec => []TypeOK
<1>1. IInv => TypeOK BY DEF IInv
<1> QED BY <1>1, InvHolds, PTL

\* Wherever a payload breaks off, and whoever took it before, what the handler
\* is given is the whole of what the extractors can find.
THEOREM ExactBodyOnly == Spec => []HandlerSeesExactBody
<1>1. IInv => HandlerSeesExactBody BY DEF IInv, Judged, HandlerSeesExactBody
<1> QED BY <1>1, InvHolds, PTL

\* Whatever provider, key, routes and headers, a request that reached the
\* handler came by a configured route and is genuine and was fresh then,
\* under every reading of its duplicated headers.
THEOREM GenuineOnly == Spec => []EveryReadingIsGenuine
<1>1. IInv => EveryReadingIsGenuine
  <2> SUFFICES ASSUME IInv, NEW r \in Reqs, NEW call \in served[r]
               PROVE  /\ r \in registered
                      /\ Acceptable(Provider, wire[r].headers, call.body, Secret, Options, call.at)
    BY DEF EveryReadingIsGenuine
  <2>1. /\ r \in registered /\ NoConflict(Provider, wire[r].headers)
        /\ Verify(Provider, wire[r].headers, call.body, Secret, Options, call.at) = Ok
    BY DEF IInv, Judged
  <2>2. wire[r] \in Wires /\ call.at \in Nat
    <3>1. wire[r] \in Wires BY DEF IInv, TypeOK
    <3>2. call.at \in Times BY DEF IInv, TypeOK
    <3> QED BY <3>1, <3>2, ActixAssumption
  <2>3. SigningRoles(Provider) \subseteq DOMAIN wire[r].headers /\ Options.max_age \subseteq Nat
    BY <2>2, ActixAssumption DEF ArrivesInOrder
  <2> QED BY <2>1, <2>2, <2>3, EveryReading
<1> QED BY <1>1, InvHolds, PTL

\* What the body of a request cannot save is refused before its body is
\* touched, whatever the framing and whichever extractor ran earlier: a payload
\* is taken only of a request that has a configuration and no conflict.
THEOREM RefusedBeforeReading == Spec => []RefusedUnread
<1> DEFINE Condemned(r) == r \notin registered \/ Ambiguous(Provider, wire[r].headers)
           Unread(r) == payload[r] = Total(r) /\ frames[r] = <<>> /\ r \notin broken
<1>1. Init => RefusedUnread BY DEF Init, RefusedUnread
<1>2. ASSUME IInv, RefusedUnread, [Next]_vars PROVE RefusedUnread'
  <2> SUFFICES ASSUME NEW r \in Reqs, Condemned(r)' PROVE Unread(r)'
    BY DEF RefusedUnread, Total
  <2>1. UNCHANGED routes
    BY <1>2 DEF Next, Step, Other, FromRequest, FrameArrives, BodyEnds, HandlerAnswers,
                BodyReadFails, Drop, ClockMoves, vars
  <2>2. Condemned(r) BY <2>1 DEF routes
  <2>3. Unread(r) BY <1>2, <2>2 DEF RefusedUnread, Total
  <2>4. phase[r] # "collecting"
    <3>1. wire[r] \in Wires BY <1>2 DEF IInv, TypeOK
    <3>2. ArrivesInOrder(Provider, wire[r].headers) /\ Provider \in Providers
      BY <3>1, ActixAssumption
    <3>3. NoConflict(Provider, wire[r].headers) <=> ~Ambiguous(Provider, wire[r].headers)
      BY <3>2, ConflictIsAmbiguity
    <3> QED BY <1>2, <2>2, <3>3 DEF IInv, Admitted
  <2>5. \A q : FrameArrives(q) \/ BodyReadFails(q) => q # r
    BY <2>4 DEF FrameArrives, BodyReadFails, Answer, Move
  <2>6. UNCHANGED <<payload[r], frames[r]>> /\ (r \in broken' => r \in broken)
    <3>1. CASE \E q \in Reqs : FrameArrives(q)
      BY <1>2, <2>5, <3>1 DEF FrameArrives, IInv
    <3>2. CASE \E q \in Reqs : BodyReadFails(q)
      BY <2>5, <3>2 DEF BodyReadFails
    <3>3. CASE ClockMoves \/ UNCHANGED vars
      BY <3>3 DEF ClockMoves, vars
    <3>4. CASE \E q \in Reqs : FromRequest(q) \/ BodyEnds(q) \/ HandlerAnswers(q) \/ Drop(q)
      BY <3>4 DEF FromRequest, BodyEnds, HandlerAnswers, Drop
    <3> QED BY <1>2, <3>1, <3>2, <3>3, <3>4 DEF Next, Step, Other
  <2> QED BY <2>1, <2>3, <2>6 DEF Total, routes
<1> QED BY <1>1, <1>2, InvHolds, PTL DEF Spec

\* The documentation's promise, for the providers it holds of: where the one
\* signature of a request is over its body, no other bytes would have been let
\* through in the place of those the handler got.
THEOREM NoUnverifiedBytes ==
    ASSUME Provider \notin Listing \cup {"Twilio", "PayPal"}
    PROVE  Spec => []HandlerNeverSeesUnverifiedBytes
<1>1. IInv => HandlerNeverSeesUnverifiedBytes
  <2> SUFFICES ASSUME IInv, NEW r \in Reqs, NEW call \in served[r], NEW bytes,
                      Verify(Provider, wire[r].headers, bytes, Secret, Options, call.at) = Ok
               PROVE  bytes = call.body
    BY DEF HandlerNeverSeesUnverifiedBytes
  <2>1. Verify(Provider, wire[r].headers, call.body, Secret, Options, call.at) = Ok
    BY DEF IInv, Judged
  <2>2. call.at \in Times BY DEF IInv, TypeOK
  <2>3. call.at \in Nat /\ Options.max_age \subseteq Nat BY <2>2, ActixAssumption
  <2> QED BY <2>1, <2>3, HeadersBindTheBody
<1> QED BY <1>1, InvHolds, PTL

(***************************************************************************)
(* The refinement: the extractor implements the gate.                      *)
(***************************************************************************)

\* A request the extractor answers itself is never served, and one answered
\* because its body broke off is among them.
Answered ==
    \A r \in Reqs :
        /\ response[r] # {} => phase[r] = "answered"
        /\ r \in broken => response[r] # {}

LEMMA AnsweredStep == IInv /\ Answered /\ [Next]_vars => Answered'
<1> SUFFICES ASSUME IInv, Answered, [Next]_vars PROVE Answered' OBVIOUS
<1>0. phase \in [Reqs -> Phases] /\ DOMAIN response = Reqs BY DEF IInv, TypeOK
<1>1. ASSUME NEW r \in Reqs, NEW to, phase[r] # "answered",
             phase' = [phase EXCEPT ![r] = to], UNCHANGED <<response, broken>>
      PROVE  Answered'
  BY <1>0, <1>1 DEF Answered
<1>2. ASSUME NEW r \in Reqs, NEW from, NEW status, Answer(r, from, status),
             broken' \in {broken, broken \cup {r}}
      PROVE  Answered'
  BY <1>0, <1>2 DEF Answered, Answer, Move
<1>3. ASSUME UNCHANGED <<phase, response, broken>> PROVE Answered' BY <1>3 DEF Answered
<1>4. ASSUME NEW r \in Reqs, FromRequest(r) \/ BodyEnds(r) PROVE Answered'
  <2>1. ASSUME NEW from \in Phases \ {"answered"}, NEW to, Move(r, from, to),
               UNCHANGED <<response, broken>>
        PROVE  Answered'
    BY <1>1, <2>1 DEF Move
  <2>2. UNCHANGED broken BY <1>4 DEF FromRequest, BodyEnds
  <2> QED BY <1>2, <1>4, <2>1, <2>2 DEF FromRequest, BodyEnds, Reject, Phases
<1>5. ASSUME NEW r \in Reqs, HandlerAnswers(r) \/ Drop(r) PROVE Answered'
  BY <1>1, <1>5 DEF HandlerAnswers, Drop, Move
<1>6. ASSUME NEW r \in Reqs, FrameArrives(r) PROVE Answered' BY <1>3, <1>6 DEF FrameArrives
<1>7. ASSUME NEW r \in Reqs, BodyReadFails(r) PROVE Answered' BY <1>2, <1>7 DEF BodyReadFails
<1> QED BY <1>3, <1>4, <1>5, <1>6, <1>7 DEF Next, Step, Other, ClockMoves, vars

\* A step of one request leaves the fates of the others.
LEMMA FateMoves ==
    ASSUME phase \in [Reqs -> Phases], NEW r \in Reqs, NEW to, phase' = [phase EXCEPT ![r] = to],
           \A q \in Reqs \ {r} : response'[q] = response[q] /\ (q \in broken' <=> q \in broken)
    PROVE  Fates' = [Fates EXCEPT ![r] = Fate(r)']
<1>1. \A q \in Reqs \ {r} : Fate(q)' = Fate(q) BY DEF Fate
<1> QED BY <1>1 DEF Fates

\* What the gate sees beside the fates changes only with what it is made of.
LEMMA GateKeeps ==
    /\ UNCHANGED routes => UNCHANGED Received /\ UNCHANGED (Reqs \ registered)
    /\ UNCHANGED served => UNCHANGED Given
    /\ UNCHANGED <<response, broken>> => UNCHANGED Refusals
BY DEF routes, Received, Body, Given, Refusals

\* A step that changes nothing but the phase of a request, and not its fate.
LEMMA GateStutters ==
    ASSUME phase \in [Reqs -> Phases], NEW r \in Reqs, NEW to, phase' = [phase EXCEPT ![r] = to],
           UNCHANGED <<routes, served, response, broken, now>>, Fate(r)' = Fate(r)
    PROVE  UNCHANGED Gate!vars
<1>1. Fates' = [Fates EXCEPT ![r] = Fate(r)] BY FateMoves
<1>2. Fates' = Fates BY <1>1 DEF Fates
<1> QED BY <1>2, GateKeeps DEF Gate!vars

\* A request whose body breaks off, or whose future is dropped, is lost.
LEMMA GateLoses ==
    ASSUME phase \in [Reqs -> Phases], NEW r \in Reqs, Fate(r) \in {"pending", "delivered"},
           Fates' = [Fates EXCEPT ![r] = "lost"],
           UNCHANGED <<routes, served, Refusals, now>>
    PROVE  Gate!Next
<1>1. Fates[r] = Fate(r) BY DEF Fates
<1>2. Gate!Lose(r) BY <1>1, GateKeeps DEF Gate!Lose, Gate!Settle
<1> QED BY <1>2 DEF Gate!Next

\* A rejection refuses the request, if the gate may refuse it with that status.
LEMMA GateRefuses ==
    ASSUME IInv, Answered, NEW r \in Reqs, NEW from \in {"routed", "collecting"}, NEW error,
           Reject(r, from, error), UNCHANGED <<routes, served, broken, now>>,
           ~Gate!Deserves(r, now) \/ ~Faultless(Provider, wire[r].headers, Secret, Options)
               \/ Ambiguous(Provider, wire[r].headers),
           Gate!StatusOf(r, now) = RejectionStatus(error)
    PROVE  Gate!Next
<1>0. phase \in [Reqs -> Phases] /\ DOMAIN response = Reqs BY DEF IInv, TypeOK
<1>1. /\ phase[r] = from /\ phase' = [phase EXCEPT ![r] = "answered"]
      /\ response' = [response EXCEPT ![r] = {RejectionStatus(error)}]
  BY DEF Reject, Answer, Move
<1>2. r \notin broken BY <1>1 DEF Answered
<1>3. Fate(r) = "pending" /\ Fate(r)' = "refused" BY <1>0, <1>1, <1>2 DEF Fate
<1>4. Fates' = [Fates EXCEPT ![r] = "refused"] BY <1>0, <1>1, <1>3, FateMoves
<1>5. Refusals' = [Refusals EXCEPT ![r] = {RejectionStatus(error)}]
  BY <1>0, <1>1, <1>2 DEF Refusals
<1>6. Fates[r] = "pending" /\ Received[r].headers = wire[r].headers
  BY <1>3 DEF Fates, Received
<1>7. Gate!Refuse(r) BY <1>4, <1>5, <1>6, GateKeeps DEF Gate!Refuse, Gate!Settle
<1> QED BY <1>7 DEF Gate!Next

\* When the payload is exhausted, the verdict of verify() decides as the gate does.
LEMMA GateJudges ==
    ASSUME IInv, Answered, NEW r \in Reqs, BodyEnds(r)
    PROVE  Gate!Next
<1> DEFINE raw_body == FlattenSeq(frames[r])
           headers == wire[r].headers
           verdict == Verify(Provider, headers, raw_body, Secret, Options, now)
           call == [body |-> raw_body, at |-> now]
<1>0. /\ phase \in [Reqs -> Phases] /\ DOMAIN response = Reqs /\ DOMAIN served = Reqs
      /\ wire[r] \in Wires /\ now \in Nat
  BY ActixAssumption DEF IInv, TypeOK
<1>1. /\ phase[r] = "collecting" /\ payload[r] = <<>>
      /\ UNCHANGED <<routes, broken, now>>
  BY DEF BodyEnds, Reject, Answer, Move
<1>2. raw_body = Body(r) BY <1>0, <1>1, WholeBody DEF IInv
<1>3. NoConflict(Provider, headers) /\ r \in registered BY <1>1 DEF IInv, Admitted
<1>4. /\ ArrivesInOrder(Provider, headers) /\ Provider \in Providers
      /\ Options.max_age \subseteq Nat
  BY <1>0, ActixAssumption
<1>5. ~Ambiguous(Provider, headers) BY <1>3, <1>4, ConflictIsAmbiguity
<1>6. Received[r].headers = headers /\ Received[r].body = raw_body /\ Fates[r] = "pending"
  BY <1>1, <1>2 DEF Received, Fates, Fate
<1>7. Gate!Deserves(r, now) <=> Acceptable(Provider, headers, raw_body, Secret, Options, now)
  BY <1>3, <1>6 DEF Gate!Deserves
<1>8. CASE verdict = Ok
  <2>1. /\ phase' = [phase EXCEPT ![r] = "serving"] /\ UNCHANGED response
        /\ served' = [served EXCEPT ![r] = {call}]
    BY <1>8 DEF BodyEnds, Move
  <2>2. Gate!Deserves(r, now)
    <3>1. SigningRoles(Provider) \subseteq DOMAIN headers BY <1>4 DEF ArrivesInOrder
    <3> QED BY <1>0, <1>3, <1>4, <1>7, <1>8, <3>1, EveryReading
  <2>3. Fate(r)' = "delivered" BY <1>0, <1>1, <2>1 DEF Answered, Fate
  <2>4. Fates' = [Fates EXCEPT ![r] = "delivered"] BY <1>0, <1>1, <2>1, <2>3, FateMoves
  <2>5. Given' = [Given EXCEPT ![r] = {Received[r].body}]
    <3>1. Given'[r] = {raw_body}
      <4>1. served'[r] = {call} BY <1>0, <2>1
      <4>2. Given'[r] = {c.body : c \in served'[r]} BY DEF Given
      <4>3. {c.body : c \in {call}} = {raw_body} OBVIOUS
      <4> QED BY <4>1, <4>2, <4>3
    <3>2. \A q \in Reqs \ {r} : Given'[q] = Given[q] BY <1>0, <2>1 DEF Given
    <3> QED BY <1>6, <3>1, <3>2 DEF Given
  <2>6. Gate!Deliver(r)
    BY <1>1, <1>6, <2>1, <2>2, <2>4, <2>5, GateKeeps DEF Gate!Deliver, Gate!Settle
  <2> QED BY <2>6 DEF Gate!Next
<1>9. CASE verdict # Ok
  <2>1. Reject(r, "collecting", verdict) /\ UNCHANGED served BY <1>9 DEF BodyEnds
  <2>2. ~Gate!Deserves(r, now) \/ ~Faultless(Provider, headers, Secret, Options)
    BY <1>0, <1>4, <1>7, <1>9, AcceptableIsAccepted
  <2>3. Gate!StatusOf(r, now) = RejectionStatus(verdict) BY <1>3, <1>5, <1>6 DEF Gate!StatusOf
  <2> HIDE DEF verdict
  <2> QED BY <1>1, <2>1, <2>2, <2>3, GateRefuses
<1> QED BY <1>8, <1>9

\* A request at a route without a configuration, or in conflict, is refused at
\* once, with the status the gate has for it.
LEMMA GateAdmits ==
    ASSUME IInv, Answered, NEW r \in Reqs, FromRequest(r)
    PROVE  [Gate!Next]_(Gate!vars)
<1>0. phase \in [Reqs -> Phases] /\ wire[r] \in Wires BY DEF IInv, TypeOK
<1>1. UNCHANGED <<routes, served, broken, now>> BY DEF FromRequest
<1>2. CASE r \notin registered
  <2> DEFINE error == Error("MissingContext", "none")
  <2>1. Reject(r, "routed", error) BY <1>2 DEF FromRequest
  <2>2. RejectionStatus(error) = 500 BY DEF RejectionStatus, Error
  <2>3. Gate!StatusOf(r, now) = RejectionStatus(error) BY <1>2, <2>2 DEF Gate!StatusOf
  <2>4. ~Gate!Deserves(r, now) BY <1>2 DEF Gate!Deserves
  <2> QED BY <1>1, <2>1, <2>3, <2>4, GateRefuses
<1>3. CASE r \in registered /\ Conflict(wire[r].headers)
  <2> DEFINE error == Error("MalformedHeader", "sig")
  <2>1. Reject(r, "routed", error) BY <1>3 DEF FromRequest
  <2>2. Ambiguous(Provider, wire[r].headers)
    <3>1. ArrivesInOrder(Provider, wire[r].headers) /\ Provider \in Providers
      BY <1>0, ActixAssumption
    <3>2. ~NoConflict(Provider, wire[r].headers) BY <1>3, FreeOfConflict
    <3> QED BY <3>1, <3>2, ConflictIsAmbiguity
  <2>3. RejectionStatus(error) = 400 BY DEF RejectionStatus, Error
  <2>4. Gate!StatusOf(r, now) = RejectionStatus(error)
    BY <1>3, <2>2, <2>3 DEF Gate!StatusOf, Received
  <2> QED BY <1>1, <2>1, <2>2, <2>4, GateRefuses
<1>4. CASE r \in registered /\ ~Conflict(wire[r].headers)
  <2>1. /\ phase[r] = "routed" /\ phase' = [phase EXCEPT ![r] = "collecting"]
        /\ UNCHANGED response
    BY <1>4 DEF FromRequest, Move
  <2>2. Fate(r)' = Fate(r) BY <1>0, <2>1 DEF Fate
  <2> QED BY <1>0, <1>1, <2>1, <2>2, GateStutters
<1> QED BY <1>2, <1>3, <1>4

LEMMA GateStep == IInv /\ Answered /\ [Next]_vars => [Gate!Next]_(Gate!vars)
<1> SUFFICES ASSUME IInv, Answered, [Next]_vars PROVE [Gate!Next]_(Gate!vars) OBVIOUS
<1>0. phase \in [Reqs -> Phases] /\ DOMAIN response = Reqs BY DEF IInv, TypeOK
<1>1. ASSUME UNCHANGED <<phase, routes, served, response, broken>>
      PROVE  UNCHANGED <<Received, Reqs \ registered, Fates, Given, Refusals>>
  <2>1. \A r \in Reqs : Fate(r)' = Fate(r) BY <1>1 DEF Fate
  <2> QED BY <1>1, <2>1, GateKeeps DEF Fates
<1>2. CASE ClockMoves
  <2>1. now' \in Times /\ UNCHANGED <<Received, Reqs \ registered, Fates, Given, Refusals>>
    BY <1>1, <1>2 DEF ClockMoves
  <2>2. Gate!Tick BY <2>1 DEF Gate!Tick
  <2> QED BY <2>2 DEF Gate!Next
<1>3. CASE UNCHANGED vars BY <1>1, <1>3 DEF vars, Gate!vars
<1>4. ASSUME NEW r \in Reqs, FrameArrives(r) PROVE UNCHANGED Gate!vars
  BY <1>1, <1>4 DEF FrameArrives, Gate!vars
<1>5. ASSUME NEW r \in Reqs, HandlerAnswers(r) PROVE UNCHANGED Gate!vars
  <2>1. Fate(r)' = Fate(r) BY <1>0, <1>5 DEF HandlerAnswers, Move, Fate, Answered
  <2> QED BY <1>0, <1>5, <2>1, GateStutters DEF HandlerAnswers, Move
<1>6. ASSUME NEW r \in Reqs, Drop(r) PROVE Gate!Next
  <2>1. /\ phase[r] \in {"collecting", "serving"} /\ phase' = [phase EXCEPT ![r] = "dropped"]
        /\ UNCHANGED <<routes, served, response, broken, now>>
    BY <1>6 DEF Drop
  <2>2. Fate(r) \in {"pending", "delivered"} /\ Fate(r)' = "lost"
    BY <1>0, <2>1 DEF Answered, Fate
  <2>3. Fates' = [Fates EXCEPT ![r] = "lost"] BY <1>0, <2>1, <2>2, FateMoves
  <2> QED BY <1>0, <2>1, <2>2, <2>3, GateKeeps, GateLoses
<1>7. ASSUME NEW r \in Reqs, BodyReadFails(r) PROVE Gate!Next
  <2>1. /\ phase[r] = "collecting" /\ phase' = [phase EXCEPT ![r] = "answered"]
        /\ response' = [response EXCEPT ![r] = {400}] /\ broken' = broken \cup {r}
        /\ UNCHANGED <<routes, served, now>>
    BY <1>7 DEF BodyReadFails, Answer, Move
  <2>2. Fate(r) = "pending" /\ Fate(r)' = "lost" BY <1>0, <2>1 DEF Fate
  <2>3. Fates' = [Fates EXCEPT ![r] = "lost"] BY <1>0, <2>1, <2>2, FateMoves
  <2>4. Refusals' = Refusals BY <1>0, <2>1 DEF Refusals, Answered
  <2> QED BY <1>0, <2>1, <2>2, <2>3, <2>4, GateLoses
<1> QED BY <1>2, <1>3, <1>4, <1>5, <1>6, <1>7, GateJudges, GateAdmits DEF Next, Step, Other

\* The extractor implements the gate the middleware implements, for every
\* provider, set of configured routes, header and framing, and whatever took
\* the payload before it.
THEOREM Refinement == Spec => ImplementsGate
<1>1. Init => Answered BY DEF Init, Answered
<1>2. Init => Gate!Init
  <2> SUFFICES ASSUME Init PROVE Gate!Init OBVIOUS
  <2>1. Fates = [r \in Reqs |-> "pending"] BY DEF Init, Fates, Fate
  <2>2. Given = [r \in Reqs |-> {}] BY DEF Init, Given
  <2>3. Refusals = [r \in Reqs |-> {}] BY DEF Init, Refusals
  <2> QED BY <2>1, <2>2, <2>3 DEF Init, Gate!Init
<1> QED
  BY <1>1, <1>2, InvHolds, AnsweredStep, GateStep, PTL DEF Spec, ImplementsGate, Gate!Spec
=============================================================================
