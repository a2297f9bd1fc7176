------------------------- MODULE SecretRotationProofs -------------------------
(***************************************************************************)
(* Theorems about the loop of verify_any(), for any set of requests, any   *)
(* slices of any length and any readings of the clock.                     *)
(***************************************************************************)
EXTENDS SecretRotation, VerifyOrder

(***************************************************************************)
(* The inductive invariant.  What verify() says of a key it says whatever  *)
(* the clock reads, so that the loop's two locals tell what every secret   *)
(* it has passed would be given at any instant.                            *)
(***************************************************************************)
Says(i, kind) == \A t \in Times : Verdict(i, t).kind = kind

Passed(kind) == \E i \in DOMAIN secrets : i < next /\ Says(i, kind)

Tried ==
    /\ \A i \in DOMAIN secrets : i < next =>
           Says(i, "SignatureMismatch") \/ Says(i, "InvalidSecret")
    /\ any_well_formed_mismatch <=> Passed("SignatureMismatch")
    /\ first_invalid_secret # {} <=> Passed("InvalidSecret")

\* Where a result comes from: one secret of the slice, at the reading of the
\* clock the loop took last, or all of them.
Explained ==
    \A r \in result :
        /\ ~KeyError(r) => \E i \in DOMAIN secrets : Verdict(i, asked) = r
        /\ KeyError(r) => \A i \in DOMAIN secrets :
                              Says(i, "SignatureMismatch") \/ Says(i, "InvalidSecret")
        /\ r.kind = "InvalidSecret" => \A i \in DOMAIN secrets : Says(i, "InvalidSecret")
        /\ r.kind = "SignatureMismatch" /\ secrets # <<>> =>
               \E i \in DOMAIN secrets : Says(i, "SignatureMismatch")

IInv == TypeOK /\ request \in Requests /\ Tried /\ Explained

\* The requests are such that the lemmas about verify() apply.
LEMMA RequestFacts ==
    ASSUME request \in Requests
    PROVE  /\ ListsElements(request.p, request.headers)
           /\ request.options.max_age \subseteq Nat
BY RotationAssumption DEF ListsElements

\* What verify() says in a round is one of its outcomes for that round's key,
\* and if it blames the key, it does so at any time.
LEMMA VerdictOutcome ==
    ASSUME request \in Requests, NEW i, NEW t
    PROVE  /\ Outcome(Verdict(i, t), secrets[i])
           /\ KeyError(Verdict(i, t)) => Says(i, Verdict(i, t).kind)
<1>1. Outcome(Verdict(i, t), secrets[i])
  BY RequestFacts, VerifyOutcome DEF Verdict
<1>2. ASSUME KeyError(Verdict(i, t)), NEW u \in Times
      PROVE  Verdict(i, u) = Verdict(i, t)
  BY <1>2, RequestFacts, KeyErrorsStay DEF Verdict
<1> QED BY <1>1, <1>2 DEF Says

\* Verdicts change only with the call.
LEMMA VerdictUnchanged ==
    ASSUME UNCHANGED <<request, secrets>>
    PROVE  /\ \A i, t : Verdict(i, t)' = Verdict(i, t)
           /\ \A i, kind : Says(i, kind)' = Says(i, kind)
<1>1. \A i, t : Verdict(i, t)' = Verdict(i, t) BY DEF Verdict
<1> QED BY <1>1 DEF Says

LEMMA InitInv == Init => IInv
<1> SUFFICES ASSUME Init PROVE IInv OBVIOUS
<1>1. secrets \in Seq(Secrets) BY RotationAssumption DEF Init
<1>2. next \in 1 .. Len(secrets) + 1 /\ ~\E i \in DOMAIN secrets : i < next
  BY <1>1 DEF Init
<1>3. TypeOK BY <1>1, <1>2 DEF Init, TypeOK
<1>4. Tried BY <1>2 DEF Init, Tried, Passed
<1> QED BY <1>3, <1>4 DEF Init, IInv, Explained

\* The loop goes on to the next secret and remembers what the one before it got.
LEMMA TriedNext ==
    ASSUME IInv, UNCHANGED <<request, secrets>>, next \in DOMAIN secrets, next' = next + 1,
           NEW kind \in {"SignatureMismatch", "InvalidSecret"}, Verdict(next, now).kind = kind
    PROVE  /\ Says(next, kind)
           /\ \A i \in DOMAIN secrets : i < next' =>
                  Says(i, "SignatureMismatch") \/ Says(i, "InvalidSecret")
           /\ \A k : Passed(k)' <=> Passed(k) \/ Says(next, k)
<1>1. Says(next, kind) BY VerdictOutcome DEF IInv, KeyError
<1>2. \A i \in DOMAIN secrets : i < next' <=> i < next \/ i = next BY DEF IInv, TypeOK
<1>3. \A k : Passed(k)' <=> Passed(k) \/ Says(next, k)
  BY <1>2, VerdictUnchanged DEF Passed
<1> QED BY <1>1, <1>2, <1>3 DEF IInv, Tried

LEMMA StepInv == IInv /\ [Next]_vars => IInv'
<1> SUFFICES ASSUME IInv, [Next]_vars PROVE IInv' OBVIOUS
<1> USE DEF IInv, loop
<1>a. now \in Times BY DEF TypeOK
<1>b. UNCHANGED <<request, secrets>> BY DEF Next, Rotate, Accept, RememberMismatch,
          RememberInvalid, ReturnOther, Exhausted, ClockMoves, Round, vars
<1>c. ASSUME UNCHANGED loop PROVE Tried'
  <2>1. \A k : Passed(k)' <=> Passed(k) BY <1>b, <1>c, VerdictUnchanged DEF Passed
  <2> QED BY <1>b, <1>c, <2>1, VerdictUnchanged DEF Tried
<1>d. ASSUME UNCHANGED result, UNCHANGED asked \/ result = {} PROVE Explained'
  BY <1>b, <1>d, VerdictUnchanged DEF Explained
<1>1. CASE Accept
  <2>1. UNCHANGED <<request, secrets, now>> /\ UNCHANGED loop
    BY <1>1 DEF Accept, Round
  <2>2. next \in DOMAIN secrets /\ asked' = now /\ result' = {Ok} /\ Verdict(next, now) = Ok
    BY <1>1 DEF Accept, Round
  <2>3. TypeOK' BY <2>1, <2>2 DEF TypeOK
  <2>4. Explained' BY <2>1, <2>2, VerdictUnchanged DEF Explained, KeyError, Ok
  <2> QED BY <1>b, <1>c, <2>1, <2>3, <2>4
<1>2. CASE RememberMismatch
  <2>1. /\ UNCHANGED <<now, first_invalid_secret, result>>
        /\ next \in DOMAIN secrets /\ asked' = now /\ result = {}
        /\ next' = next + 1 /\ any_well_formed_mismatch' = TRUE
        /\ Verdict(next, now).kind = "SignatureMismatch"
    BY <1>2 DEF RememberMismatch, Round
  <2>2. TypeOK' BY <1>b, <2>1 DEF TypeOK
  <2>3. Tried'
    <3>1. ~Says(next, "InvalidSecret") BY <1>a, <2>1 DEF Says
    <3> QED BY <1>b, <2>1, <3>1, TriedNext, VerdictUnchanged DEF Tried
  <2> QED BY <1>b, <1>d, <2>1, <2>2, <2>3
<1>3. CASE RememberInvalid
  <2>1. /\ UNCHANGED <<now, any_well_formed_mismatch, result>>
        /\ next \in DOMAIN secrets /\ asked' = now /\ result = {}
        /\ next' = next + 1
        /\ Verdict(next, now).kind = "InvalidSecret"
        /\ first_invalid_secret' \in {first_invalid_secret, {Verdict(next, now)}}
        /\ first_invalid_secret' # {}
    BY <1>3 DEF RememberInvalid, Round
  <2>2. TypeOK'
    <3>1. Verdict(next, now) \in
              {Error("InvalidSecret", secrets[next]), Error("InvalidSecret", "material")}
      BY <2>1, VerdictOutcome DEF Outcome, Ok
    <3>2. secrets[next] \in Secrets BY <2>1 DEF TypeOK
    <3> QED BY <1>b, <2>1, <3>1, <3>2 DEF TypeOK
  <2>3. Tried'
    <3>1. ~Says(next, "SignatureMismatch") BY <1>a, <2>1 DEF Says
    <3> QED BY <1>b, <2>1, <3>1, TriedNext, VerdictUnchanged DEF Tried
  <2> QED BY <1>b, <1>d, <2>1, <2>2, <2>3
<1>4. CASE ReturnOther
  <2>1. UNCHANGED <<request, secrets, now>> /\ UNCHANGED loop
    BY <1>4 DEF ReturnOther, Round
  <2>2. /\ next \in DOMAIN secrets /\ asked' = now /\ result' = {Verdict(next, now)}
        /\ ~KeyError(Verdict(next, now)) /\ Verdict(next, now).kind # "Ok"
    BY <1>4 DEF ReturnOther, Round, KeyError
  <2>3. Verdict(next, now).kind \in ErrorKinds BY <2>2, VerdictOutcome DEF Outcome, Ok
  <2>4. TypeOK' BY <2>1, <2>2, <2>3 DEF TypeOK
  <2>5. Explained' BY <2>1, <2>2, VerdictUnchanged DEF Explained, KeyError
  <2> QED BY <1>b, <1>c, <2>1, <2>4, <2>5
<1>5. CASE Exhausted
  <2>1. UNCHANGED <<now, asked>> /\ UNCHANGED loop /\ next = Len(secrets) + 1
    BY <1>5 DEF Exhausted
  <2>2. result' = IF ~any_well_formed_mismatch /\ first_invalid_secret # {}
                  THEN first_invalid_secret ELSE {Mismatch}
    BY <1>5 DEF Exhausted
  <2>3. \A r \in first_invalid_secret : r.kind = "InvalidSecret" BY DEF TypeOK, Error
  <2>4. Mismatch.kind = "SignatureMismatch" BY DEF Mismatch, Error
  <2>5. TypeOK' BY <1>b, <2>1, <2>2, <2>3, <2>4 DEF TypeOK, ErrorKinds
  <2>6. \A i \in DOMAIN secrets : i < next BY <2>1 DEF TypeOK
  <2>7. \A i \in DOMAIN secrets : Says(i, "SignatureMismatch") \/ Says(i, "InvalidSecret")
    BY <2>6 DEF Tried
  <2>8. ~any_well_formed_mismatch => \A i \in DOMAIN secrets : Says(i, "InvalidSecret")
    BY <2>6, <2>7 DEF Tried, Passed
  <2>9. (first_invalid_secret = {} \/ any_well_formed_mismatch) /\ secrets # <<>> =>
            \E i \in DOMAIN secrets : Says(i, "SignatureMismatch")
    <3>1. secrets # <<>> => 1 \in DOMAIN secrets
      <4>1. secrets \in Seq(Secrets) BY DEF TypeOK
      <4>2. Len(secrets) = 0 => secrets = <<>> BY <4>1
      <4>3. Len(secrets) \in Nat /\ DOMAIN secrets = 1 .. Len(secrets) BY <4>1
      <4> QED BY <4>2, <4>3
    <3> QED BY <2>6, <2>7, <3>1 DEF Tried, Passed
  <2>10. Explained'
    BY <1>b, <2>2, <2>3, <2>4, <2>7, <2>8, <2>9, VerdictUnchanged DEF Explained, KeyError
  <2> QED BY <1>b, <1>c, <2>1, <2>5, <2>10
<1>6. CASE ClockMoves
  <2>1. now' \in Times /\ UNCHANGED <<asked, result>> /\ UNCHANGED loop BY <1>6 DEF ClockMoves
  <2>2. TypeOK' BY <1>b, <2>1 DEF TypeOK
  <2> QED BY <1>b, <1>c, <1>d, <2>1, <2>2
<1>7. CASE UNCHANGED vars
  <2>1. UNCHANGED <<now, asked, result>> /\ UNCHANGED loop BY <1>7 DEF vars
  <2>2. TypeOK' BY <1>b, <2>1 DEF TypeOK
  <2> QED BY <1>b, <1>c, <1>d, <2>1, <2>2
<1> QED BY <1>1, <1>2, <1>3, <1>4, <1>5, <1>6, <1>7 DEF Next, Rotate

LEMMA InvHolds == Spec => []IInv
BY InitInv, StepInv, PTL DEF Spec

\* The loop's state keeps its types: in particular its index never runs past
\* the slice by more than one, and what it remembers of unusable secrets is
\* an error about one of the slice's own secrets or about the material.
THEOREM TypeCorrect == Spec => []TypeOK
<1>1. IInv => TypeOK BY DEF IInv
<1> QED BY <1>1, InvHolds, PTL

\* Whatever the slice of secrets and however the clock moves while the loop
\* runs, a call that returns Ok was given a request one of the active keys
\* signed, with a timestamp within the window.
THEOREM Soundness == Spec => []AcceptsOnlyGenuine
<1>1. IInv => AcceptsOnlyGenuine
  <2> SUFFICES ASSUME IInv, Ok \in result
               PROVE  /\ \E i \in DOMAIN secrets : GenuineUnder(secrets[i])
                      /\ Fresh(request.p, request.headers, request.options, asked)
    BY DEF AcceptsOnlyGenuine
  <2>1. PICK i \in DOMAIN secrets : Verdict(i, asked) = Ok BY DEF IInv, Explained, KeyError, Ok
  <2>2. asked \in Nat BY RotationAssumption DEF IInv, TypeOK
  <2>3. GenuineUnder(secrets[i]) /\ Fresh(request.p, request.headers, request.options, asked)
    BY <2>1, <2>2, RequestFacts, VerifySound DEF Verdict, GenuineUnder, IInv
  <2> QED BY <2>3
<1> QED BY <1>1, InvHolds, PTL

\* Whoever sees TimestampOutOfTolerance is told the truth about a request that
\* an active key signed: an unauthenticated timestamp is not compared with the
\* clock, for any provider and any slice, and the skew is its distance from the
\* reading that was taken, of either sign.
THEOREM StaleSoundness == Spec => []StaleOnlyIfGenuine
<1>1. IInv => StaleOnlyIfGenuine
  <2> DEFINE secs == Stamp(request.p, request.headers).secs
             fresh == Fresh(request.p, request.headers, request.options, asked)
  <2> SUFFICES ASSUME IInv, NEW r \in result, r.kind = "TimestampOutOfTolerance"
               PROVE  /\ \E i \in DOMAIN secrets : GenuineUnder(secrets[i])
                      /\ ~fresh
                      /\ r.skew \in {asked - secs, secs - asked} \cap Nat
    BY DEF StaleOnlyIfGenuine
  <2>1. PICK i \in DOMAIN secrets : Verdict(i, asked) = r BY DEF IInv, Explained, KeyError
  <2>2. asked \in Nat BY RotationAssumption DEF IInv, TypeOK
  <2>3. ~\E o : Clockless(o) /\ \A t \in Nat : Verdict(i, t) = o
    BY <2>1, <2>2 DEF Clockless
  <2>4. \/ \E o : /\ Clockless(o) /\ (request.p \in Timestamped => o # Ok)
                 /\ \A t \in Nat : Verdict(i, t) = o
        \/ /\ request.p \in Timestamped /\ secs \in Nat
           /\ GenuineUnder(secrets[i])
           /\ \A t \in Nat :
                  Verdict(i, t) =
                      IF Fresh(request.p, request.headers, request.options, t) THEN Ok
                      ELSE [kind |-> "TimestampOutOfTolerance", at |-> "none",
                            skew |-> AbsDiff(t, secs)]
    <3>1. request \in Requests BY DEF IInv
    <3>2. ListsElements(request.p, request.headers) /\ request.options.max_age \subseteq Nat
      BY <3>1, RequestFacts
    <3> QED BY ONLY <3>2, ClockDecidesFreshness DEF Verdict, GenuineUnder
  <2>5. secs \in Nat /\ GenuineUnder(secrets[i]) BY <2>3, <2>4
  <2>6. ~fresh /\ r.skew = AbsDiff(asked, secs) BY <2>1, <2>2, <2>3, <2>4 DEF Ok
  <2> HIDE DEF secs
  <2> QED BY <2>2, <2>5, <2>6 DEF AbsDiff
<1> QED BY <1>1, InvHolds, PTL

\* Zero-downtime rotation, for every provider, every slice of secrets and every
\* movement of the clock during the loop: the loop cannot have stopped at
\* another secret, because what stops it is the same for all of them.
THEOREM Rotation == Spec => []RotationSucceeds
<1>1. IInv => RotationSucceeds
  <2> SUFFICES ASSUME IInv, result # {}, NEW i \in DOMAIN secrets,
                      \A t \in Times : Verdict(i, t) = Ok
               PROVE  result = {Ok}
    BY DEF RotationSucceeds
  <2>1. Verdict(i, asked) = Ok /\ asked \in Times BY DEF IInv, TypeOK
  <2>2. ASSUME NEW r \in result PROVE r = Ok
    <3>1. ~KeyError(r) BY <2>1 DEF IInv, Explained, Says, Ok
    <3>2. PICK j \in DOMAIN secrets : Verdict(j, asked) = r BY <3>1 DEF IInv, Explained
    <3>3. KeyDependent(r) BY <2>1, <3>2, OnlyTheKey DEF Verdict
    <3>4. r = Ok \/ r.kind \in ErrorKinds BY DEF IInv, TypeOK
    <3> QED BY <3>1, <3>3, <3>4 DEF KeyDependent, KeyError, ErrorKinds
  <2> QED BY <2>2
<1> QED BY <1>1, InvHolds, PTL

\* The status tells who must act, for every configuration, slice and request:
\* what is answered with 500 is the fault of the configuration or of all the
\* secrets, and what is answered with 400 no secret could have saved.
THEOREM StatusTells == Spec => []StatusBlamesTheRightParty
<1>1. IInv => StatusBlamesTheRightParty
  <2> SUFFICES ASSUME IInv, NEW r \in result \ {Ok}
               PROVE  /\ RejectionStatus(r) = 500 =>
                          \A other \in Alike[<<request.p, request.options>>],
                            s \in Range(secrets) : ~AcceptedUnder(other, s, asked)
                      /\ RejectionStatus(r) = 400 =>
                          \A s \in Secrets : ~AcceptedUnder(request, s, asked)
    BY DEF StatusBlamesTheRightParty
  <2>0. r.kind \in ErrorKinds BY DEF IInv, TypeOK
  <2>1. ASSUME RejectionStatus(r) = 500,
               NEW other \in Alike[<<request.p, request.options>>], NEW s \in Range(secrets)
        PROVE  ~AcceptedUnder(other, s, asked)
    <3>1. r.kind \in {"UnsupportedProvider", "InvalidSecret", "MissingContext"}
      BY <2>0, <2>1 DEF RejectionStatus, ErrorKinds
    <3>2. other.p = request.p /\ other.options = request.options
      BY DEF IInv, Alike
    <3>3. PICK j \in DOMAIN secrets : secrets[j] = s BY DEF Range
    <3>4. \E i \in DOMAIN secrets :
              /\ Verdict(i, asked).kind = r.kind
              /\ r.kind = "InvalidSecret" => i = j
      BY <3>1 DEF IInv, Explained, KeyError, Says, TypeOK
    <3>5. PICK i \in DOMAIN secrets :
              /\ Verdict(i, asked).kind = r.kind
              /\ r.kind = "InvalidSecret" => secrets[i] = s
      BY <3>3, <3>4
    <3>6. Blames(Verdict(i, asked), secrets[i],
                 Verify(request.p, other.headers, other.body, s, request.options, asked), s)
      BY RequestFacts, ConfigurationErrors DEF Verdict, IInv
    <3> QED BY <3>1, <3>2, <3>5, <3>6 DEF Blames, AcceptedUnder
  <2>2. ASSUME RejectionStatus(r) = 400, NEW s \in Secrets, AcceptedUnder(request, s, asked)
        PROVE  FALSE
    <3>1. r.kind \in {"MissingHeader", "MalformedHeader", "BadEncoding"}
      BY <2>0, <2>2 DEF RejectionStatus, ErrorKinds
    <3>2. PICK i \in DOMAIN secrets : Verdict(i, asked) = r
      BY <3>1 DEF IInv, Explained, KeyError
    <3>3. KeyDependent(r) BY <2>2, <3>2, OnlyTheKey DEF AcceptedUnder, Verdict
    <3> QED BY <3>1, <3>3 DEF KeyDependent
  <2> QED BY <2>1, <2>2
<1> QED BY <1>1, InvHolds, PTL

\* The comment of verify_any() as it is true: whichever secret was asked, an error
\* of the request's form or of the configuration is what every other secret would
\* have got at any other time, unless its scheme rejects that secret unseen.
THEOREM FormErrors == Spec => []FormErrorsAreDeterministic
<1>1. IInv => FormErrorsAreDeterministic
  <2> SUFFICES ASSUME IInv, NEW r \in result, ~Plain(r), NEW s \in Secrets, NEW t \in Times
               PROVE  LET verdict == Verify(request.p, request.headers, request.body, s,
                                            request.options, t)
                      IN  verdict = r \/ verdict.kind = "InvalidSecret"
    BY DEF FormErrorsAreDeterministic, Plain
  <2>1. PICK i \in DOMAIN secrets : Verdict(i, asked) = r
    BY DEF IInv, Explained, KeyError, Plain
  <2>2. SameForm(r, Verify(request.p, request.headers, request.body, s, request.options, t))
    BY <2>1, FormUpToKey DEF Verdict
  <2> QED BY <2>2 DEF SameForm, Same, Plain
<1> QED BY <1>1, InvHolds, PTL

\* The testing bar of spec.md as it is true: whatever the slice, a signature,
\* timestamp or algorithm that arrives empty is neither accepted nor reported
\* as a mismatch, of all the elements of a list or of none.
THEOREM EmptyHeaders == Spec => []EmptyHeaderIsNoMismatch
<1>1. IInv => EmptyHeaderIsNoMismatch
  <2> SUFFICES ASSUME IInv, secrets # <<>>,
                      NEW h \in SigningRoles(request.p) \ {"id", "cert"},
                      ArrivesEmpty(request.p, request.headers, h),
                      NEW r \in result, r.kind \in {"Ok", "SignatureMismatch"}
               PROVE  FALSE
    BY DEF EmptyHeaderIsNoMismatch
  <2>1. \A i : Refused(Verdict(i, asked)) BY RequestFacts, EmptyRefused DEF IInv, Verdict
  <2>2. asked \in Times BY DEF IInv, TypeOK
  <2>3. CASE r.kind = "SignatureMismatch"
    BY <2>1, <2>2, <2>3 DEF IInv, Explained, Says, Refused
  <2>4. CASE r.kind = "Ok"
    <3>1. r = Ok BY <2>4 DEF IInv, TypeOK, ErrorKinds
    <3>2. PICK i \in DOMAIN secrets : Verdict(i, asked) = r
      BY <3>1 DEF IInv, Explained, KeyError, Ok
    <3> QED BY <2>1, <3>1, <3>2 DEF Refused
  <2> QED BY <2>3, <2>4
<1> QED BY <1>1, InvHolds, PTL

\* One good sibling does not mask a malformed one: whatever the provider, the
\* slice and the movements of the clock, a request with a signature or timestamp
\* that cannot be read, in a list of any length, is neither accepted nor refused
\* for a signature that does not match or a timestamp that is stale.
THEOREM BrokenRequests == Spec => []BrokenIsNeverJudged
<1>1. IInv => BrokenIsNeverJudged
  <2> SUFFICES ASSUME IInv, secrets # <<>>, NEW r \in result, Judged(r)
               PROVE  Readable(request.p, request.headers)
    BY DEF BrokenIsNeverJudged, Judged
  <2>1. \A i : Judged(Verdict(i, asked)) => Readable(request.p, request.headers)
    BY RequestFacts, JudgedIsReadable DEF IInv, Verdict
  <2>2. asked \in Times BY DEF IInv, TypeOK
  <2>3. CASE r.kind = "SignatureMismatch"
    BY <2>1, <2>2, <2>3 DEF IInv, Explained, Says, Judged
  <2>4. CASE r.kind # "SignatureMismatch"
    <3>1. PICK i \in DOMAIN secrets : Verdict(i, asked) = r
      BY <2>4 DEF IInv, Explained, KeyError, Judged
    <3> QED BY <2>1, <3>1
  <2> QED BY <2>3, <2>4
<1> QED BY <1>1, InvHolds, PTL

(***************************************************************************)
(* The refinement: the loop keeps the promise that does not mention it.    *)
(***************************************************************************)

\* The kinds at a reading of the clock are those of the verdicts.
LEMMA Kinds == \A t : Promise!KindsAt(t) = {Verdict(i, t).kind : i \in DOMAIN secrets}
BY DEF Promise!KindsAt, Verdict

\* When verify() says anything that is not about a key, it is what the promise
\* decides: no other key succeeds, or fails for another such reason.
LEMMA OtherDecides ==
    ASSUME NEW i \in DOMAIN secrets, NEW t, ~KeyDependent(Verdict(i, t))
    PROVE  Promise!Decision(Promise!KindsAt(t)) = Verdict(i, t).kind
<1> DEFINE kinds == Promise!KindsAt(t)
           final == kinds \ {"Ok", "SignatureMismatch", "InvalidSecret"}
           kind == Verdict(i, t).kind
<1>1. \A j : Agree(Verdict(i, t), Verdict(j, t)) BY AgreeUpToKey DEF Verdict
<1>2. \A j : Verdict(j, t).kind \in {kind, "SignatureMismatch", "InvalidSecret"}
  BY <1>1 DEF Agree, KeyError, KeyDependent
<1>3. kind \in kinds /\ kind \notin {"Ok", "SignatureMismatch", "InvalidSecret"}
  BY Kinds DEF KeyDependent
<1>4. kinds \subseteq {kind, "SignatureMismatch", "InvalidSecret"} BY <1>2, Kinds
<1>5. final = {kind} /\ "Ok" \notin kinds BY <1>3, <1>4
<1>6. kinds # {"InvalidSecret"} BY <1>3
<1>7. (CHOOSE k \in {kind} : TRUE) = kind OBVIOUS
<1> HIDE DEF kinds, kind
<1>8. Promise!Decision(kinds) = kind BY <1>5, <1>6, <1>7 DEF Promise!Decision
<1> QED BY <1>8 DEF kinds, kind

LEMMA PromiseStep == IInv /\ [Next]_vars => [Promise!Answer]_(Promise!vars)
<1> SUFFICES ASSUME IInv, Next PROVE [Promise!Answer]_(Promise!vars)
  BY DEF vars, Promise!vars
<1>1. CASE Accept
  <2>1. /\ UNCHANGED <<request, secrets>> /\ result = {} /\ result' = {Ok}
        /\ next \in DOMAIN secrets /\ Verdict(next, now) = Ok
    BY <1>1 DEF Accept, Round
  <2>2. "Ok" \in Promise!KindsAt(now) BY <2>1, Kinds DEF Ok
  <2>3. Promise!Decision(Promise!KindsAt(now)) = "Ok" BY <2>2 DEF Promise!Decision
  <2>4. now \in Times BY DEF IInv, TypeOK
  <2> QED BY <2>1, <2>3, <2>4 DEF Promise!Answer, Ok
<1>2. CASE ReturnOther
  <2>1. /\ UNCHANGED <<request, secrets>> /\ result = {} /\ result' = {Verdict(next, now)}
        /\ next \in DOMAIN secrets /\ ~KeyDependent(Verdict(next, now))
    BY <1>2 DEF ReturnOther, Round, KeyDependent
  <2>2. Promise!Decision(Promise!KindsAt(now)) = Verdict(next, now).kind BY <2>1, OtherDecides
  <2>3. now \in Times BY DEF IInv, TypeOK
  <2> QED BY <2>1, <2>2, <2>3 DEF Promise!Answer
<1>3. CASE Exhausted
  <2> DEFINE kinds == Promise!KindsAt(now)
  <2>1. /\ UNCHANGED <<request, secrets>> /\ result = {} /\ next = Len(secrets) + 1
        /\ result' = IF ~any_well_formed_mismatch /\ first_invalid_secret # {}
                     THEN first_invalid_secret ELSE {Mismatch}
    BY <1>3 DEF Exhausted
  <2>2. now \in Times BY DEF IInv, TypeOK
  <2>3. \A i \in DOMAIN secrets : i < next BY <2>1 DEF IInv, TypeOK
  <2>4. kinds \subseteq {"SignatureMismatch", "InvalidSecret"}
    BY <2>2, <2>3, Kinds DEF IInv, Tried, Says
  <2>5. any_well_formed_mismatch <=> "SignatureMismatch" \in kinds
    BY <2>2, <2>3, Kinds DEF IInv, Tried, Passed, Says
  <2>6. first_invalid_secret # {} <=> "InvalidSecret" \in kinds
    BY <2>2, <2>3, Kinds DEF IInv, Tried, Passed, Says
  <2>7. \A r \in first_invalid_secret : r.kind = "InvalidSecret"
    BY DEF IInv, TypeOK, Error
  <2>8. {r.kind : r \in result'} = {IF kinds = {"InvalidSecret"} THEN "InvalidSecret"
                                    ELSE "SignatureMismatch"}
    <3>1. CASE ~any_well_formed_mismatch /\ first_invalid_secret # {}
      <4> HIDE DEF kinds
      <4>1. kinds = {"InvalidSecret"} BY <2>4, <2>5, <2>6, <3>1
      <4> QED BY <2>1, <2>7, <3>1, <4>1
    <3>2. CASE ~(~any_well_formed_mismatch /\ first_invalid_secret # {})
      <4> HIDE DEF kinds
      <4>1. kinds # {"InvalidSecret"} BY <2>5, <2>6, <3>2
      <4>2. result' = {Mismatch} BY <2>1, <3>2
      <4> QED BY <4>1, <4>2 DEF Mismatch, Error
    <3> QED BY <3>1, <3>2
  <2>9. Promise!Decision(kinds) = IF kinds = {"InvalidSecret"} THEN "InvalidSecret"
                                  ELSE "SignatureMismatch"
    <3> HIDE DEF kinds
    <3> QED BY <2>4 DEF Promise!Decision
  <2> QED BY <2>1, <2>2, <2>8, <2>9 DEF Promise!Answer
<1>4. CASE RememberMismatch \/ RememberInvalid \/ ClockMoves
  BY <1>4 DEF RememberMismatch, RememberInvalid, ClockMoves, Round, Promise!vars
<1> QED BY <1>1, <1>2, <1>3, <1>4 DEF Next, Rotate

\* verify_any() keeps its promise: whatever the slice and the movements of the
\* clock, the loop answers what the set of active secrets determines at one
\* reading of the clock, so that neither the order of the secrets nor the
\* rounds of the loop can be seen from outside.
THEOREM Refinement == Spec => KeepsPromise
<1>1. Init => Promise!Init BY DEF Init, Promise!Init
<1> QED BY <1>1, InvHolds, PromiseStep, PTL DEF Spec, KeepsPromise, Promise!Spec
=============================================================================
