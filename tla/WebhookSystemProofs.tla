-------------------------- MODULE WebhookSystemProofs --------------------------
(***************************************************************************)
(* The crate in its world, for every rotation that keeps a key to what is  *)
(* still fresh, every window, and any number of events and copies: what    *)
(* arrives within the window is accepted, and nothing else is.             *)
(***************************************************************************)
EXTENDS WebhookSystem, VerifyOrder, FiniteSetTheorems

(***************************************************************************)
(* The inductive invariant.  A copy was signed at some stage of the        *)
(* rotation, no later than now; if that stage is over, it is at least as   *)
(* old as the present stage, and if a quiet stage has begun after the end  *)
(* of its own, it is stale.                                                *)
(***************************************************************************)
Stale(copy) == copy.age > Window

SignedAt(copy, i) ==
    /\ copy.keys = plan.stages[i].signing
    /\ i < stage => Stale(copy) \/ copy.age + lead >= since
    /\ QuietSince(plan.stages, i, stage) => Stale(copy)

CopyInv(copy) ==
    /\ copy.age >= -lead
    /\ copy.age <= Window + 1 \/ copy.age = -lead
    /\ \E i \in 1 .. stage : SignedAt(copy, i)

IInv ==
    /\ TypeOK
    /\ \A copy \in net : CopyInv(copy)
    /\ ~HasClock => acked = {}

\* What the assumptions say of the plan that is being followed.
LEMMA PlanFacts ==
    ASSUME plan \in Plans
    PROVE  /\ plan.provider \in InHeader
           /\ Len(plan.stages) \in Nat /\ Len(plan.stages) >= 1
           /\ DOMAIN plan.stages = 1 .. Len(plan.stages)
           /\ \A i \in DOMAIN plan.stages : StageOf(plan.provider, plan.stages[i])
           /\ KeepsAKey(plan.stages)
<1>1. plan.stages \in Seq(Range(plan.stages)) /\ plan.stages # <<>> BY PlanAssumption
<1>2. Len(plan.stages) \in Nat /\ DOMAIN plan.stages = 1 .. Len(plan.stages) BY <1>1
<1>3. Len(plan.stages) # 0 BY <1>1
<1> QED BY <1>2, <1>3, PlanAssumption

LEMMA InitInv == Init => IInv
<1> SUFFICES ASSUME Init PROVE IInv OBVIOUS
<1>1. Len(plan.stages) \in Nat /\ Len(plan.stages) >= 1 BY PlanFacts DEF Init
<1>2. TypeOK BY <1>1, SystemAssumption DEF Init, TypeOK
<1> QED BY <1>2 DEF Init, IInv

\* A new copy is as young as a copy can be, and signed at the present stage.
LEMMA AttemptInv ==
    ASSUME IInv, NEW event \in Events
    PROVE  /\ Attempt(event, Signing) \in
                  [event : Events, age : Int,
                   keys : {plan.stages[i].signing : i \in DOMAIN plan.stages}]
           /\ CopyInv(Attempt(event, Signing))
<1> DEFINE copy == Attempt(event, Signing)
<1>1. /\ plan \in Plans /\ lead \in Int /\ stage \in 1 .. Len(plan.stages)
      /\ Len(plan.stages) \in Nat /\ DOMAIN plan.stages = 1 .. Len(plan.stages)
  BY PlanFacts, SystemAssumption DEF IInv, TypeOK
<1>2. copy.event = event /\ copy.age = -lead /\ copy.keys = plan.stages[stage].signing
  BY DEF Attempt, Signing
<1>3. ~QuietSince(plan.stages, stage, stage) BY <1>1 DEF QuietSince
<1>4. SignedAt(copy, stage) BY <1>1, <1>2, <1>3 DEF SignedAt
<1>5. stage \in 1 .. stage BY <1>1
<1>6. CopyInv(copy) BY <1>1, <1>2, <1>4, <1>5 DEF CopyInv
<1>7. copy \in [event : Events, age : Int,
                keys : {plan.stages[i].signing : i \in DOMAIN plan.stages}]
  BY <1>1 DEF Attempt, Signing
<1> QED BY <1>6, <1>7

(***************************************************************************)
(* What the receiver says.  The loop succeeds exactly when one of its      *)
(* secrets does, since a request that one key verifies fails under the     *)
(* others only because of the key.                                         *)
(***************************************************************************)
LEMMA AnyOfThem ==
    ASSUME NEW p, NEW headers, NEW body, NEW secrets, NEW options, NEW now,
           DOMAIN secrets \subseteq Nat, secrets # <<>> => 1 \in DOMAIN secrets
    PROVE  VerifyAny(p, headers, body, secrets, options, now) = Ok
               <=> \E i \in DOMAIN secrets :
                       Verify(p, headers, body, secrets[i], options, now) = Ok
<1> DEFINE verdict == [i \in DOMAIN secrets |->
                           Verify(p, headers, body, secrets[i], options, now)]
           where(kinds) == {i \in DOMAIN secrets : verdict[i].kind \in kinds}
           final == DOMAIN secrets \ where({"SignatureMismatch", "InvalidSecret"})
           answer == VerifyAny(p, headers, body, secrets, options, now)
<1>1. \A i \in DOMAIN secrets : verdict[i] = Verify(p, headers, body, secrets[i], options, now)
  OBVIOUS
<1>2. final # {} => Min(final) \in final BY MinIsIn
<1>3. \A i \in DOMAIN secrets : i \in final <=> ~KeyError(verdict[i]) BY DEF KeyError
<1>4. /\ final # {} => answer = verdict[Min(final)]
      /\ final = {} => \/ secrets # <<>> /\ answer = verdict[1]
                       \/ answer = Mismatch
  BY DEF VerifyAny
<1>5. \A i, j \in DOMAIN secrets : Agree(verdict[i], verdict[j]) BY AgreeUpToKey
<1>6. \A i \in final : i \in DOMAIN secrets OBVIOUS
<1>7. Mismatch # Ok /\ ~KeyError(Ok) BY DEF Mismatch, Error, Ok, KeyError
<1> HIDE DEF verdict, final, answer
<1>8. ASSUME answer = Ok PROVE \E i \in DOMAIN secrets : verdict[i] = Ok
  BY <1>2, <1>4, <1>6, <1>7, <1>8
<1>9. ASSUME NEW i \in DOMAIN secrets, verdict[i] = Ok PROVE answer = Ok
  <2>1. i \in final BY <1>3, <1>7, <1>9
  <2>2. Min(final) \in final BY <1>2, <2>1
  <2>3. Min(final) \in DOMAIN secrets /\ ~KeyError(verdict[Min(final)])
    BY <1>3, <1>6, <2>2
  <2>4. verdict[Min(final)] = Ok BY <1>5, <1>7, <1>9, <2>3 DEF Agree
  <2> QED BY <1>4, <2>1, <2>4
<1>10. answer = Ok <=> \E i \in DOMAIN secrets : verdict[i] = Ok BY <1>8, <1>9
<1> QED BY <1>1, <1>10 DEF answer

\* What verify_any() promises of a copy, at the one reading of the clock that
\* the receiver takes of it.
Promised(copy) ==
    INSTANCE RotationPromise WITH
        Times <- {0, Wall},
        request <- [p |-> plan.provider, headers |-> HeadersOf(copy), body |-> copy.event,
                    options |-> Options],
        secrets <- Secrets,
        answer <- {Answer(copy).kind}

\* The receiver's options, and what its clock reads.
LEMMA OptionFacts ==
    ASSUME TypeOK
    PROVE  /\ Options.max_age = {Window}
           /\ Now(Options, Wall) = IF HasClock THEN Wall ELSE 0
<1>1. Options.max_age = {Window} /\ Options.clock = clock
  BY DEF Options, WithClock, WithMaxAge, Default
<1>2. clock = {} \/ clock = {0} BY DEF TypeOK
<1>3. Wall \in Nat BY SystemAssumption
<1>4. \A drift \in {0} : SinceEpoch(Wall + drift) = Wall BY <1>3 DEF SinceEpoch
<1>5. CASE clock = {0}
  <2>1. (CHOOSE drift \in {0} : TRUE) = 0 OBVIOUS
  <2> QED BY <1>1, <1>4, <1>5, <2>1 DEF Now, HasClock
<1>6. CASE clock = {}
  BY <1>1, <1>3, <1>6 DEF Now, HasClock, SystemClock, SinceEpoch
<1> QED BY <1>1, <1>2, <1>5, <1>6

\* The slice of secrets of the present stage.
LEMMA SecretsFacts ==
    ASSUME TypeOK
    PROVE  /\ DOMAIN Secrets \subseteq Nat
           /\ Secrets # <<>> => 1 \in DOMAIN Secrets
           /\ Range(Secrets) = {Secrets[i] : i \in DOMAIN Secrets}
<1>1. StageOf(plan.provider, plan.stages[stage]) BY PlanFacts DEF TypeOK
<1>2. Secrets \in Seq(Range(Secrets)) BY <1>1 DEF StageOf, Secrets
<1>3. Secrets # <<>> => Len(Secrets) # 0 BY <1>2
<1>4. DOMAIN Secrets = 1 .. Len(Secrets) /\ Len(Secrets) \in Nat BY <1>2
<1> QED BY <1>3, <1>4 DEF Range

\* What the promise decides of a set of kinds of answers.
Decided(kinds) ==
    LET others == kinds \ {"Ok", "SignatureMismatch", "InvalidSecret"}
    IN  CASE "Ok" \in kinds -> "Ok"
          [] "Ok" \notin kinds /\ others # {} -> CHOOSE kind \in others : TRUE
          [] kinds = {"InvalidSecret"} -> "InvalidSecret"
          [] OTHER -> "SignatureMismatch"

\* The answer to a slice of secrets depends on what each of them gets by itself.
LEMMA AnyDecides ==
    ASSUME NEW p, NEW headers, NEW body, NEW secrets, NEW options, NEW now,
           DOMAIN secrets \subseteq Nat, secrets # <<>> => 1 \in DOMAIN secrets
    PROVE  VerifyAny(p, headers, body, secrets, options, now).kind =
               Decided({Verify(p, headers, body, secrets[i], options, now).kind :
                            i \in DOMAIN secrets})
<1> DEFINE verdict == [i \in DOMAIN secrets |->
                           Verify(p, headers, body, secrets[i], options, now)]
           final == DOMAIN secrets \ {i \in DOMAIN secrets :
                        verdict[i].kind \in {"SignatureMismatch", "InvalidSecret"}}
           mismatched == {i \in DOMAIN secrets : verdict[i].kind \in {"SignatureMismatch"}}
           kinds == {verdict[i].kind : i \in DOMAIN secrets}
           others == kinds \ {"Ok", "SignatureMismatch", "InvalidSecret"}
           answer == VerifyAny(p, headers, body, secrets, options, now)
<1>1. answer = CASE final # {} -> verdict[Min(final)]
                 [] final = {} /\ secrets # <<>> /\ mismatched = {} -> verdict[1]
                 [] OTHER -> Mismatch
  BY DEF VerifyAny
<1>2. {Verify(p, headers, body, secrets[i], options, now).kind : i \in DOMAIN secrets} = kinds
  OBVIOUS
<1>3. Decided(kinds) =
          CASE "Ok" \in kinds -> "Ok"
            [] "Ok" \notin kinds /\ others # {} -> CHOOSE kind \in others : TRUE
            [] kinds = {"InvalidSecret"} -> "InvalidSecret"
            [] OTHER -> "SignatureMismatch"
  BY DEF Decided
<1>4. final # {} => Min(final) \in final BY MinIsIn
<1>5. \A i, j \in DOMAIN secrets : Agree(verdict[i], verdict[j]) BY AgreeUpToKey
<1>6. \A i \in DOMAIN secrets : i \in final <=> ~KeyError(verdict[i]) BY DEF KeyError
<1>7. \A i \in DOMAIN secrets : i \in mismatched <=> verdict[i].kind = "SignatureMismatch" OBVIOUS
<1>8. final \subseteq DOMAIN secrets /\ mismatched \subseteq DOMAIN secrets OBVIOUS
<1>9. Mismatch.kind = "SignatureMismatch" BY DEF Mismatch, Error
<1> SUFFICES answer.kind = Decided(kinds) BY <1>2
<1> HIDE DEF verdict, final, mismatched, answer
<1>10. CASE final # {}
  <2> DEFINE first == verdict[Min(final)]
  <2>1. answer = first /\ Min(final) \in DOMAIN secrets /\ ~KeyError(first)
    BY <1>1, <1>4, <1>6, <1>8, <1>10
  <2>2. \A i \in DOMAIN secrets : verdict[i] = first \/ KeyError(verdict[i])
    BY <1>5, <2>1 DEF Agree
  <2>3. first.kind \in kinds BY <2>1
  <2> HIDE DEF first
  <2>4. \A kind \in kinds : kind = first.kind \/ kind \in {"SignatureMismatch", "InvalidSecret"}
    BY <2>2 DEF KeyError
  <2>5. CASE first.kind = "Ok"
    <3>1. "Ok" \in kinds BY <2>3, <2>5
    <3> HIDE DEF kinds, others
    <3> QED BY <1>3, <2>1, <2>5, <3>1
  <2>6. CASE first.kind # "Ok"
    <3>1. "Ok" \notin kinds BY <2>4, <2>6
    <3>2. first.kind \in others BY <2>1, <2>3, <2>6 DEF KeyError
    <3>3. \A kind \in others : kind = first.kind BY <2>4
    <3>4. kinds # {"InvalidSecret"} BY <2>1, <2>3 DEF KeyError
    <3> HIDE DEF kinds, others
    <3>5. (CHOOSE kind \in others : TRUE) = first.kind BY <3>2, <3>3
    <3>6. others # {} BY <3>2
    <3> QED BY <1>3, <2>1, <3>1, <3>4, <3>5, <3>6
  <2> QED BY <2>5, <2>6
<1>11. CASE final = {}
  <2>1. kinds \subseteq {"SignatureMismatch", "InvalidSecret"} BY <1>6, <1>11 DEF KeyError
  <2>2. "Ok" \notin kinds /\ others = {} BY <2>1
  <2>3. "SignatureMismatch" \in kinds <=> mismatched # {} BY <1>7, <1>8
  <2>4. CASE secrets # <<>> /\ mismatched = {}
    <3>1. 1 \in DOMAIN secrets BY <2>4
    <3>2. verdict[1].kind \in kinds BY <3>1
    <3>3. kinds = {"InvalidSecret"} BY <2>1, <2>3, <2>4, <3>2
    <3>4. answer = verdict[1] BY <1>1, <1>11, <2>4
    <3> HIDE DEF kinds, others
    <3> QED BY <1>3, <2>2, <3>2, <3>3, <3>4
  <2>5. CASE ~(secrets # <<>> /\ mismatched = {})
    <3>1. answer = Mismatch BY <1>1, <1>11, <2>5
    <3>2. secrets = <<>> => kinds = {} OBVIOUS
    <3>3. kinds # {"InvalidSecret"} BY <2>3, <2>5, <3>2
    <3> HIDE DEF kinds, others
    <3> QED BY <1>3, <1>9, <2>2, <3>1, <3>3
  <2> QED BY <2>4, <2>5
<1> QED BY <1>10, <1>11

\* One step stands for the loop: the receiver's answer is the one that the
\* promise of verify_any(), which its loop keeps, determines.
LEMMA AnswerAsPromised ==
    ASSUME TypeOK, NEW copy
    PROVE  Answer(copy).kind =
               Promised(copy)!Decision(Promised(copy)!KindsAt(Now(Options, Wall)))
<1> DEFINE kinds == {Verify(plan.provider, HeadersOf(copy), copy.event, Secrets[i], Options,
                            Now(Options, Wall)).kind : i \in DOMAIN Secrets}
<1>1. Answer(copy).kind = Decided(kinds) BY SecretsFacts, AnyDecides DEF Answer
<1>2. Promised(copy)!KindsAt(Now(Options, Wall)) = kinds BY DEF Promised!KindsAt
<1> HIDE DEF kinds
<1>3. Promised(copy)!Decision(kinds) = Decided(kinds) BY DEF Promised!Decision, Decided
<1> QED BY <1>1, <1>2, <1>3

\* Only the set of secrets matters: neither their order in the slice nor how often
\* one is in it changes the kind of the answer, and another key never turns an
\* acceptance into a refusal, so that an operator may add keys at any time.
THEOREM OnlyTheSetMatters ==
    ASSUME NEW p, NEW headers, NEW body, NEW S, NEW secrets \in Seq(S), NEW others \in Seq(S),
           NEW options, NEW now
    PROVE  LET With(slice) == VerifyAny(p, headers, body, slice, options, now)
           IN  /\ Range(secrets) = Range(others) => With(secrets).kind = With(others).kind
               /\ Range(secrets) \subseteq Range(others) /\ With(secrets) = Ok =>
                      With(others) = Ok
<1> DEFINE With(slice) == VerifyAny(p, headers, body, slice, options, now)
           said(s) == Verify(p, headers, body, s, options, now)
<1>1. ASSUME NEW slice \in Seq(S)
      PROVE  /\ DOMAIN slice \subseteq Nat
             /\ slice # <<>> => 1 \in DOMAIN slice
             /\ Range(slice) = {slice[i] : i \in DOMAIN slice}
  <2>1. DOMAIN slice = 1 .. Len(slice) /\ Len(slice) \in Nat BY <1>1
  <2>2. slice # <<>> => Len(slice) # 0 BY <1>1
  <2> QED BY <2>1, <2>2 DEF Range
<1>2. ASSUME NEW slice \in Seq(S)
      PROVE  /\ With(slice).kind = Decided({said(s).kind : s \in Range(slice)})
             /\ With(slice) = Ok <=> \E s \in Range(slice) : said(s) = Ok
  <2>1. With(slice).kind = Decided({said(slice[i]).kind : i \in DOMAIN slice})
    BY <1>1, AnyDecides
  <2>2. With(slice) = Ok <=> \E i \in DOMAIN slice : said(slice[i]) = Ok BY <1>1, AnyOfThem
  <2> HIDE DEF With, said
  <2>3. {said(slice[i]).kind : i \in DOMAIN slice} = {said(s).kind : s \in Range(slice)}
    BY <1>1
  <2>4. (\E i \in DOMAIN slice : said(slice[i]) = Ok) <=> \E s \in Range(slice) : said(s) = Ok
    BY <1>1
  <2> QED BY <2>1, <2>2, <2>3, <2>4
<1> HIDE DEF With, said
<1>3. /\ Range(secrets) = Range(others) => With(secrets).kind = With(others).kind
      /\ Range(secrets) \subseteq Range(others) /\ With(secrets) = Ok => With(others) = Ok
  BY <1>2
<1> QED BY <1>3 DEF With

\* What is accepted is, by the clock that was read, within the window.
LEMMA AcceptedIsFresh ==
    ASSUME TypeOK, NEW copy \in net, Answer(copy) = Ok
    PROVE  LET now == Now(Options, Wall)
           IN  now - Window <= Wall - copy.age /\ Wall - copy.age <= now + Window
<1> DEFINE now == Now(Options, Wall)
<1>1. plan.provider \in InHeader BY PlanFacts DEF TypeOK
<1>2. PICK i \in DOMAIN Secrets :
          Verify(plan.provider, HeadersOf(copy), copy.event, Secrets[i], Options, now) = Ok
  BY SecretsFacts, AnyOfThem DEF Answer
<1>3. Options.max_age = {Window} /\ now \in Nat /\ Window \in Nat
  BY OptionFacts, SystemAssumption
<1>4. Fresh(plan.provider, HeadersOf(copy), Options, now)
  <2> HIDE DEF now
  <2> QED BY <1>2, <1>3, VerifySound
<1>5. Stamp(plan.provider, HeadersOf(copy)).secs = Wall - copy.age
  BY <1>1 DEF Stamp, InHeader, HeadersOf, Get
<1> QED BY <1>1, <1>3, <1>4, <1>5 DEF Fresh, InHeader

\* Without a clock nothing is: the stamp of a copy is far from 0.
LEMMA NoClockNoAnswer ==
    ASSUME TypeOK, ~HasClock, NEW copy \in net, CopyInv(copy)
    PROVE  Answer(copy) # Ok
<1> SUFFICES ASSUME Answer(copy) = Ok PROVE FALSE OBVIOUS
<1>1. Wall - copy.age <= Window BY OptionFacts, AcceptedIsFresh, SystemAssumption
<1>2. copy.age \in Int /\ lead \in Int /\ Wall + lead > Window BY SystemAssumption DEF TypeOK
<1> QED BY <1>1, <1>2, SystemAssumption DEF CopyInv

(***************************************************************************)
(* The steps.                                                              *)
(***************************************************************************)

\* A step that leaves the plan and the rotation alone keeps the invariant if
\* each copy it leaves in flight is sound, and what it acknowledges is.
LEMMA SameStage ==
    ASSUME IInv, UNCHANGED <<plan, lead, clock, stage, since>>,
           net' \subseteq [event : Events, age : Int,
                           keys : {plan.stages[i].signing : i \in DOMAIN plan.stages}],
           \A copy \in net' : CopyInv(copy),
           acked' \subseteq Events,
           ~HasClock => acked' = {}
    PROVE  IInv'
<1>1. TypeOK' BY DEF IInv, TypeOK
<1>2. \A copy \in net' : CopyInv(copy)'
  BY DEF CopyInv, SignedAt, Stale
<1>3. HasClock' = HasClock BY DEF HasClock
<1> QED BY <1>1, <1>2, <1>3 DEF IInv

LEMMA AdvanceInv ==
    ASSUME IInv, Advance
    PROVE  IInv'
<1>1. /\ plan \in Plans /\ lead \in Leads /\ lead \in Int /\ Overlap > Window + lead
      /\ Window \in Nat /\ Overlap \in Nat
      /\ stage \in 1 .. Len(plan.stages) /\ Len(plan.stages) \in Nat
  BY PlanFacts, SystemAssumption DEF IInv, TypeOK
<1>2. /\ stage < Len(plan.stages) /\ stage' = stage + 1 /\ since' = 0
      /\ plan.stages[stage + 1].quiet => since = Overlap
      /\ UNCHANGED <<plan, lead, clock, net, acked>>
  BY DEF Advance
<1>3. stage' \in 1 .. Len(plan.stages) /\ since' \in 0 .. Overlap BY <1>1, <1>2
<1>4. TypeOK' BY <1>2, <1>3 DEF IInv, TypeOK
<1>5. ASSUME NEW copy \in net' PROVE CopyInv(copy)'
  <2>1. /\ copy \in net /\ copy.age \in Int
        /\ copy.age >= -lead /\ (copy.age <= Window + 1 \/ copy.age = -lead)
    BY <1>2, <1>5 DEF IInv, TypeOK, CopyInv
  <2>2. PICK i \in 1 .. stage : SignedAt(copy, i) BY <2>1 DEF IInv, CopyInv
  <2>3. i \in 1 .. stage' BY <1>1, <1>2
  <2>4. copy.age + lead >= 0 BY <1>1, <2>1
  <2>5. ASSUME QuietSince(plan.stages, i, stage + 1) PROVE Stale(copy)
    <3>1. PICK q \in i + 2 .. stage + 1 : plan.stages[q].quiet BY <2>5 DEF QuietSince
    <3>2. CASE q \in i + 2 .. stage BY <2>2, <3>1, <3>2 DEF SignedAt, QuietSince
    <3>3. CASE q = stage + 1
      <4>1. since = Overlap BY <1>2, <3>1, <3>3
      <4>2. i < stage BY <1>1, <3>1, <3>3
      <4>3. Stale(copy) \/ copy.age + lead >= Overlap BY <2>2, <4>1, <4>2 DEF SignedAt
      <4> QED BY <1>1, <2>1, <4>3 DEF Stale
    <3> QED BY <1>1, <3>1, <3>2, <3>3
  <2>6. SignedAt(copy, i)' BY <1>2, <2>2, <2>4, <2>5 DEF SignedAt, Stale
  <2> QED BY <1>2, <2>1, <2>3, <2>6 DEF CopyInv
<1>6. (~HasClock => acked = {})' BY <1>2 DEF IInv, HasClock
<1> QED BY <1>4, <1>5, <1>6 DEF IInv

LEMMA TickInv ==
    ASSUME IInv, Tick
    PROVE  IInv'
<1>1. lead \in Int /\ Window \in Nat /\ Overlap \in Nat /\ since \in 0 .. Overlap
  BY SystemAssumption DEF IInv, TypeOK
<1>2. /\ net' = {[copy EXCEPT !.age = Older(@)] : copy \in net}
      /\ since' \in 0 .. Overlap /\ since' >= since /\ since' <= since + 1
      /\ UNCHANGED <<plan, lead, clock, stage, acked>>
  BY <1>1 DEF Tick
<1>3. \A age \in Int : /\ Older(age) \in Int
                       /\ age > Window => Older(age) = age
                       /\ age <= Window => Older(age) = age + 1
  BY <1>1 DEF Older
<1>4. ASSUME NEW copy \in net'
      PROVE  /\ copy \in [event : Events, age : Int,
                          keys : {plan.stages[i].signing : i \in DOMAIN plan.stages}]
             /\ CopyInv(copy)'
  <2>1. PICK old \in net : copy = [old EXCEPT !.age = Older(@)] BY <1>2, <1>4
  <2>2. old \in [event : Events, age : Int,
                 keys : {plan.stages[i].signing : i \in DOMAIN plan.stages}]
    BY DEF IInv, TypeOK
  <2>3. /\ copy.age = Older(old.age) /\ copy.keys = old.keys /\ old.age \in Int
        /\ copy \in [event : Events, age : Int,
                     keys : {plan.stages[i].signing : i \in DOMAIN plan.stages}]
    BY <1>3, <2>1, <2>2
  <2>4. /\ old.age >= -lead /\ (old.age <= Window + 1 \/ old.age = -lead)
    BY DEF IInv, CopyInv
  <2>5. PICK i \in 1 .. stage : SignedAt(old, i) BY DEF IInv, CopyInv
  <2>6. copy.age >= -lead /\ (copy.age <= Window + 1 \/ copy.age = -lead)
    BY <1>1, <1>3, <2>3, <2>4
  <2>7. Stale(old) => Stale(copy) BY <1>1, <1>3, <2>3 DEF Stale
  <2>8. i < stage => Stale(copy) \/ copy.age + lead >= since'
    <3> SUFFICES ASSUME i < stage, ~Stale(old) PROVE copy.age + lead >= since'
      BY <2>7
    <3>1. old.age + lead >= since BY <2>5 DEF SignedAt
    <3>2. copy.age = old.age + 1 BY <1>1, <1>3, <2>3 DEF Stale
    <3> QED BY <1>1, <1>2, <2>3, <3>1, <3>2
  <2>9. SignedAt(copy, i)' BY <1>2, <2>3, <2>5, <2>7, <2>8 DEF SignedAt, Stale
  <2> QED BY <1>2, <2>3, <2>6, <2>9 DEF CopyInv
<1>5. TypeOK'
  <2>1. net' \subseteq [event : Events, age : Int,
                        keys : {plan.stages[i].signing : i \in DOMAIN plan.stages}]
    BY <1>4
  <2> QED BY <1>2, <2>1 DEF IInv, TypeOK
<1>6. (~HasClock => acked = {})' BY <1>2 DEF IInv, HasClock
<1> QED BY <1>4, <1>5, <1>6 DEF IInv

LEMMA StepInv == IInv /\ [Next]_vars => IInv'
<1> SUFFICES ASSUME IInv, [Next]_vars PROVE IInv' OBVIOUS
<1>0. /\ net \subseteq [event : Events, age : Int,
                        keys : {plan.stages[i].signing : i \in DOMAIN plan.stages}]
      /\ \A copy \in net : CopyInv(copy)
      /\ acked \subseteq Events
      /\ ~HasClock => acked = {}
  BY DEF IInv, TypeOK
<1>1. CASE Advance BY <1>1, AdvanceInv
<1>2. CASE Tick BY <1>2, TickInv
<1>3. ASSUME NEW event \in Events, Send(event) PROVE IInv'
  <2>1. PICK kept \in SUBSET net : net' = kept \cup {Attempt(event, Signing)} BY <1>3 DEF Send
  <2>2. UNCHANGED <<plan, lead, clock, stage, since, acked>> BY <1>3 DEF Send
  <2> QED BY <1>0, <2>1, <2>2, AttemptInv, SameStage
<1>4. ASSUME NEW copy \in net, Accepted(copy) PROVE IInv'
  <2>1. /\ Answer(copy) = Ok /\ acked' = acked \cup {copy.event}
        /\ net' \in {net, net \ {copy}}
        /\ UNCHANGED <<plan, lead, clock, stage, since>>
    BY <1>4 DEF Accepted
  <2>2. HasClock BY <1>0, <2>1, NoClockNoAnswer DEF IInv
  <2>3. copy.event \in Events BY <1>0
  <2> QED BY <1>0, <2>1, <2>2, <2>3, SameStage
<1>5. ASSUME NEW copy \in net, Lost(copy) PROVE IInv'
  BY <1>0, <1>5, SameStage DEF Lost
<1>6. CASE UNCHANGED vars BY <1>0, <1>6, SameStage DEF vars
<1> QED BY <1>1, <1>2, <1>3, <1>4, <1>5, <1>6 DEF Next

LEMMA InvHolds == Spec => []IInv
BY InitInv, StepInv, PTL DEF Spec

\* The types of the system's state, for every instance of it.
THEOREM TypeCorrect == Spec => []TypeOK
<1>1. IInv => TypeOK BY DEF IInv
<1> QED BY <1>1, InvHolds, PTL

\* The receiver's one step stands for the loop of verify_any(): what it says of a
\* copy is what the promise that the loop keeps determines for it.
THEOREM AnswersAsPromised ==
    Spec => [](\A copy \in net :
                   Answer(copy).kind =
                       Promised(copy)!Decision(Promised(copy)!KindsAt(Now(Options, Wall))))
<1> DEFINE Kept(copy) == Answer(copy).kind =
               Promised(copy)!Decision(Promised(copy)!KindsAt(Now(Options, Wall)))
<1>1. TypeOK => \A copy \in net : Kept(copy) BY AnswerAsPromised
<1> QED BY <1>1, TypeCorrect, PTL

\* Without a clock the receiver fails closed, whatever the plan and the lead of
\* the sender's clock: nothing is accepted, so nothing has been acknowledged.
THEOREM FailsClosed == Spec => []FailsClosedWithoutClock
<1>1. IInv => FailsClosedWithoutClock BY NoClockNoAnswer DEF IInv, FailsClosedWithoutClock
<1> QED BY <1>1, InvHolds, PTL

(***************************************************************************)
(* The converse: what arrives within the window is accepted, because the   *)
(* receiver still has one of the keys it was signed with.                  *)
(***************************************************************************)

\* A finite set in some order is a sequence of all its elements.
LEMMA InSomeOrder ==
    ASSUME NEW S, IsFiniteSet(S)
    PROVE  SetToSeq(S) \in Seq(S) /\ Range(SetToSeq(S)) = S
<1> DEFINE n == Cardinality(S)
           f == SetToSeq(S)
<1>1. n \in Nat /\ ExistsBijection(1 .. n, S) BY FS_CardinalityType
<1>2. \E g \in [1 .. n -> S] : IsInjective(g)
  BY <1>1 DEF ExistsBijection, Bijection, Injection
<1>3. f \in [1 .. n -> S] /\ IsInjective(f) BY <1>2 DEF SetToSeq
<1> HIDE DEF f
<1>4. f \in Injection(1 .. n, S) BY <1>3 DEF Injection
<1>5. Cardinality(1 .. n) = n BY <1>1, FS_Interval
<1>6. f \in Surjection(1 .. n, S) BY <1>4, <1>5, FS_Injection
<1>7. \A x \in S : \E i \in 1 .. n : f[i] = x BY <1>6 DEF Surjection
<1>8. Range(f) = S BY <1>3, <1>7 DEF Range
<1>9. f \in Seq(S) BY <1>1, <1>3
<1> QED BY <1>8, <1>9 DEF f

\* The elements of a copy's header, in the order in which they are written.
LEMMA ElementsListed ==
    ASSUME NEW copy, IsFiniteSet(copy.keys)
    PROVE  LET elems == SetToSeq(Elements(copy))
           IN  /\ elems \in Seq(Range(elems))
               /\ Listed(elems) =
                      {Signature(key, <<"id", "stamp", copy.event>>) : key \in copy.keys}
<1> DEFINE element(key) == [tag |-> "v1", value |-> Signature(key, <<"id", "stamp", copy.event>>)]
           f == [key \in copy.keys |-> element(key)]
           elems == SetToSeq(Elements(copy))
<1>1. Elements(copy) = {element(key) : key \in copy.keys} BY DEF Elements
<1>2. f \in Surjection(copy.keys, Elements(copy)) BY <1>1 DEF Surjection
<1>3. IsFiniteSet(Elements(copy)) BY <1>2, FS_Surjection
<1>4. elems \in Seq(Elements(copy)) /\ Range(elems) = Elements(copy) BY <1>3, InSomeOrder
<1> HIDE DEF elems
<1>5. Tagged(elems, "v1") = DOMAIN elems
  <2>1. \A i \in DOMAIN elems : elems[i] \in Elements(copy) BY <1>4 DEF Range
  <2>2. \A e \in Elements(copy) : e.tag = "v1" BY <1>1
  <2> QED BY <2>1, <2>2 DEF Tagged
<1>6. Listed(elems) = {e.value : e \in Range(elems)} BY <1>5 DEF Listed, Range
<1>7. Listed(elems) = {e.value : e \in {element(key) : key \in copy.keys}} BY <1>1, <1>4, <1>6
<1>8. \A key : element(key).value = Signature(key, <<"id", "stamp", copy.event>>) OBVIOUS
<1> HIDE DEF element
<1>9. Listed(elems) = {Signature(key, <<"id", "stamp", copy.event>>) : key \in copy.keys}
  BY <1>7, <1>8
<1> QED BY <1>4, <1>9 DEF elems

\* A copy within the window is in form, at a receiver that is set up for its
\* provider, and genuine under each of the keys it was signed with.
LEMMA CopyInForm ==
    ASSUME TypeOK, NEW copy \in net, InWindow(copy), NEW s \in copy.keys, s \notin Garbled
    PROVE  /\ Faultless(plan.provider, HeadersOf(copy), s, Options)
           /\ \A h \in SigningRoles(plan.provider) : Has(HeadersOf(copy), h)
           /\ Genuine(plan.provider, HeadersOf(copy), copy.event, s, Options)
<1> DEFINE p == plan.provider
           headers == HeadersOf(copy)
           elems == SetToSeq(Elements(copy))
<1>1. p \in InHeader BY PlanFacts DEF TypeOK
<1>2. p \in {"Slack", "Zoom", "Discord", "StandardWebhooks", "CustomTimestamped"}
  BY <1>1 DEF InHeader, Timestamped, PublicKey
<1>3. PICK i \in DOMAIN plan.stages : copy.keys = plan.stages[i].signing BY DEF TypeOK
<1>4. StageOf(p, plan.stages[i]) BY <1>3, PlanFacts DEF TypeOK
<1>5. IsFiniteSet(copy.keys) /\ (p \notin Listing => copy.keys = {s})
  BY <1>3, <1>4 DEF StageOf
<1>6. Wall - copy.age \in 0 .. U64Max
  <2>1. copy.age \in Int /\ -Window <= copy.age /\ copy.age <= Window BY DEF TypeOK, InWindow
  <2>2. Wall \in Nat /\ Window \in Nat /\ Wall > 2 * Window + 1 /\ Wall + Window <= U64Max
    BY SystemAssumption
  <2> QED BY <2>1, <2>2, CoreAssumption
<1>7. /\ elems \in Seq(Range(elems))
      /\ Listed(elems) = {Signature(key, <<"id", "stamp", copy.event>>) : key \in copy.keys}
  BY <1>5, ElementsListed
<1> HIDE DEF elems
<1>8. /\ Get(headers, "ts") = [form |-> "digits", raw |-> "stamp", secs |-> Wall - copy.age]
      /\ Get(headers, "id") = [form |-> "text", raw |-> "id"]
      /\ p \in Listing => Get(headers, "sig") = [form |-> "list", elems |-> elems]
      /\ p \notin Listing =>
             Get(headers, "sig") = Signature(The({s}), <<"stamp", copy.event>>)
      /\ \A h \in {"sig", "ts", "id"} : headers[h] # <<>> /\ Get(headers, h) = headers[h][1]
  BY <1>5 DEF HeadersOf, Get, elems
<1>9. The({s}) = s BY DEF The
<1>10. \A key, msg : /\ Signature(key, msg).form = "signature"
                     /\ Signs(Signature(key, msg), key, msg)
  BY DEF Signature, Signs
<1> HIDE DEF headers
<1>11. \A h \in SigningRoles(p) : Has(headers, h)
  <2>1. SigningRoles(p) \subseteq {"sig", "ts", "id"} BY <1>2 DEF SigningRoles
  <2>2. \A h \in {"sig", "ts", "id"} : Get(headers, h).form # "opaque" BY <1>8, <1>10
  <2> QED BY <1>8, <2>1, <2>2 DEF Has
<1>12. SetUp(p, s, Options) BY <1>2 DEF SetUp, Supported, Providers, Custom, PublicKey
<1>13. Stamp(p, headers) = Get(headers, "ts") BY <1>2 DEF Stamp
<1>14. InstantInForm(p, Stamp(p, headers)) BY <1>2, <1>6, <1>8, <1>13 DEF InstantInForm
<1>15. p \in Listing => ListInForm(p, elems)
  BY <1>2, <1>7, <1>10 DEF ListInForm, Listing
<1>16. InForm(p, headers) BY <1>2, <1>8, <1>14, <1>15 DEF InForm
<1>17. SigningKey(p, s, Options) = s BY <1>2 DEF SigningKey, PublicKey
<1>18. CASE p \in Listing
  <2>1. Covered(p, headers, copy.event, Options) = <<"id", "stamp", copy.event>>
    BY <1>2, <1>8, <1>18 DEF Covered, StandardString, Listing, BodyOnly
  <2>2. Signature(s, <<"id", "stamp", copy.event>>) \in Offered(p, headers)
    <3>1. Get(headers, "sig").elems = elems BY <1>8, <1>18
    <3>2. Offered(p, headers) = Listed(elems) BY <1>18, <3>1 DEF Offered
    <3> DEFINE made(key) == Signature(key, <<"id", "stamp", copy.event>>)
    <3>3. Listed(elems) = {made(key) : key \in copy.keys} BY <1>7
    <3> HIDE DEF made
    <3>4. made(s) \in Listed(elems) BY <3>3
    <3> QED BY <3>2, <3>4 DEF made
  <2>3. Genuine(p, headers, copy.event, s, Options)
    BY <1>10, <1>17, <2>1, <2>2 DEF Genuine
  <2> QED BY <1>11, <1>12, <1>16, <2>3 DEF Faultless, headers
<1>19. CASE p \notin Listing
  <2>1. Covered(p, headers, copy.event, Options) = <<"stamp", copy.event>>
    BY <1>2, <1>8, <1>13, <1>19 DEF Covered, Listing, BodyOnly
  <2>2. Signature(s, <<"stamp", copy.event>>) \in Offered(p, headers)
    BY <1>8, <1>9, <1>19 DEF Offered
  <2>3. Genuine(p, headers, copy.event, s, Options)
    BY <1>10, <1>17, <2>1, <2>2 DEF Genuine
  <2> QED BY <1>11, <1>12, <1>16, <2>3 DEF Faultless, headers
<1> QED BY <1>18, <1>19

\* A copy within the window was signed with a key the receiver still has.
LEMMA StillHasAKey ==
    ASSUME IInv, NEW copy \in net, InWindow(copy)
    PROVE  \E s \in copy.keys \ Garbled : \E i \in DOMAIN Secrets : Secrets[i] = s
<1>1. PICK i \in 1 .. stage : SignedAt(copy, i) BY DEF IInv, CopyInv
<1>2. ~Stale(copy)
  <2>1. copy.age \in Int /\ Window \in Nat BY SystemAssumption DEF IInv, TypeOK
  <2> QED BY <2>1 DEF InWindow, Stale
<1>3. ~QuietSince(plan.stages, i, stage) BY <1>1, <1>2 DEF SignedAt
<1>4. plan \in Plans /\ stage \in DOMAIN plan.stages BY PlanFacts DEF IInv, TypeOK
<1>5. (plan.stages[i].signing \cap Range(Secrets)) \ Garbled # {}
  BY <1>1, <1>3, <1>4, PlanFacts DEF KeepsAKey, Secrets
<1> QED BY <1>1, <1>5, SecretsFacts DEF SignedAt, IInv

LEMMA InTimeIsAccepted ==
    ASSUME IInv, HasClock, NEW copy \in net, InWindow(copy)
    PROVE  Answer(copy) = Ok
<1> DEFINE p == plan.provider
           headers == HeadersOf(copy)
           now == Now(Options, Wall)
<1>1. TypeOK BY DEF IInv
<1>2. PICK s \in copy.keys \ Garbled : \E i \in DOMAIN Secrets : Secrets[i] = s BY StillHasAKey
<1>3. /\ Faultless(p, headers, s, Options)
      /\ \A h \in SigningRoles(p) : Has(headers, h)
      /\ Genuine(p, headers, copy.event, s, Options)
  BY <1>1, <1>2, CopyInForm
<1>4. now = Wall /\ Wall \in Nat /\ Window \in Nat /\ Options.max_age = {Window}
  BY <1>1, OptionFacts, SystemAssumption
<1>5. Fresh(p, headers, Options, now)
  <2>1. p \in InHeader BY <1>1, PlanFacts DEF TypeOK
  <2>2. Stamp(p, headers).secs = Wall - copy.age
    BY <2>1 DEF Stamp, InHeader, HeadersOf, Get
  <2>3. copy.age \in Int BY <1>1 DEF TypeOK
  <2> QED BY <1>4, <2>2, <2>3 DEF Fresh, InWindow
<1> HIDE DEF now, headers, p
<1>6. Verify(p, headers, copy.event, s, Options, now) = Ok
  BY <1>3, <1>4, <1>5, VerifyComplete
<1> QED BY <1>1, <1>2, <1>6, SecretsFacts, AnyOfThem DEF Answer, p, headers, now

\* A rotation loses nothing, whatever the plan, as long as it keeps a key to
\* what is still fresh: no order of the sender's, the network's, the operator's
\* and the receiver's steps makes verify_any() refuse a copy within the window.
THEOREM LosesNothing == Spec => []RotationLosesNothing
<1>1. IInv => RotationLosesNothing BY InTimeIsAccepted DEF RotationLosesNothing
<1> QED BY <1>1, InvHolds, PTL

\* By a clock that reads the time, what is accepted is within the window.
LEMMA AcceptedInWindow ==
    ASSUME TypeOK, HasClock, NEW copy \in net, Answer(copy) = Ok
    PROVE  InWindow(copy)
<1>1. Wall - Window <= Wall - copy.age /\ Wall - copy.age <= Wall + Window
  BY AcceptedIsFresh, OptionFacts
<1>2. copy.age \in Int /\ Wall \in Nat /\ Window \in Nat BY SystemAssumption DEF TypeOK
<1> QED BY <1>1, <1>2 DEF InWindow

\* The window is all there is: with a clock, a copy is accepted exactly as long
\* as its age is within the window, however often it was accepted before.
THEOREM ExactlyTheWindow ==
    Spec => [](HasClock => \A copy \in net : Answer(copy) = Ok <=> InWindow(copy))
<1> DEFINE Exactly == HasClock => \A copy \in net : Answer(copy) = Ok <=> InWindow(copy)
<1>1. IInv => Exactly BY InTimeIsAccepted, AcceptedInWindow DEF IInv
<1> QED BY <1>1, InvHolds, PTL

\* What is accepted was signed with one of the secrets of the present stage.
LEMMA AcceptedForAKey ==
    ASSUME TypeOK, NEW copy \in net, Answer(copy) = Ok
    PROVE  copy.keys \cap Range(Secrets) # {}
<1> DEFINE p == plan.provider
           headers == HeadersOf(copy)
           now == Now(Options, Wall)
           elems == SetToSeq(Elements(copy))
<1>1. p \in InHeader BY PlanFacts DEF TypeOK
<1>2. p \in {"Slack", "Zoom", "Discord", "StandardWebhooks", "CustomTimestamped"}
  BY <1>1 DEF InHeader, Timestamped, PublicKey
<1>3. PICK i \in DOMAIN Secrets : Verify(p, headers, copy.event, Secrets[i], Options, now) = Ok
  BY SecretsFacts, AnyOfThem DEF Answer
<1>4. Options.max_age \subseteq Nat /\ now \in Nat BY OptionFacts, SystemAssumption
<1> HIDE DEF now
<1>5. Genuine(p, headers, copy.event, Secrets[i], Options) BY <1>3, <1>4, VerifySound
<1>6. PICK sig \in Offered(p, headers) : sig.key = Secrets[i]
  BY <1>2, <1>5 DEF Genuine, Signs, SigningKey, PublicKey
<1>7. PICK j \in DOMAIN plan.stages : copy.keys = plan.stages[j].signing BY DEF TypeOK
<1>8. StageOf(p, plan.stages[j]) BY <1>7, PlanFacts DEF TypeOK
<1>9. sig.key \in copy.keys
  <2>1. CASE p \in Listing
    <3>1. Get(headers, "sig").elems = elems BY <2>1 DEF HeadersOf, Get
    <3>2. IsFiniteSet(copy.keys) BY <1>7, <1>8 DEF StageOf
    <3>3. Listed(elems) = {Signature(key, <<"id", "stamp", copy.event>>) : key \in copy.keys}
      BY <3>2, ElementsListed
    <3> QED BY <1>6, <2>1, <3>1, <3>3 DEF Offered, Signature
  <2>2. CASE p \notin Listing
    <3>1. Get(headers, "sig") = Signature(The(copy.keys), <<"stamp", copy.event>>)
      BY <2>2 DEF HeadersOf, Get
    <3>2. The(copy.keys) \in copy.keys BY <1>7, <1>8 DEF StageOf, The
    <3> QED BY <1>6, <2>2, <3>1, <3>2 DEF Offered, Signature
  <2> QED BY <2>1, <2>2
<1> QED BY <1>6, <1>9, SecretsFacts

\* Nothing is acknowledged but for a copy that is within the window and signed
\* with a key the receiver has now, in every rotation and with any number of
\* copies in flight: to drop a secret from the slice is to revoke it at once.
THEOREM ActiveKeysOnly == Spec => AcknowledgedForAnActiveKey
<1> DEFINE Caused == \A event \in acked' \ acked : \E copy \in net :
               copy.event = event /\ InWindow(copy) /\ copy.keys \cap Range(Secrets) # {}
<1>1. ASSUME IInv, Next PROVE Caused
  <2>1. ASSUME NEW copy \in net, Accepted(copy) PROVE Caused
    <3>1. Answer(copy) = Ok /\ acked' = acked \cup {copy.event} BY <2>1 DEF Accepted
    <3>2. TypeOK /\ CopyInv(copy) BY <1>1 DEF IInv
    <3>3. HasClock BY <3>1, <3>2, NoClockNoAnswer
    <3>4. InWindow(copy) /\ copy.keys \cap Range(Secrets) # {}
      BY <3>1, <3>2, <3>3, AcceptedInWindow, AcceptedForAKey
    <3> QED BY <3>1, <3>4
  <2>2. CASE ~\E copy \in net : Accepted(copy)
    <3>1. UNCHANGED acked BY <1>1, <2>2 DEF Next, Advance, Tick, Send, Lost
    <3> QED BY <3>1
  <2> QED BY <2>1, <2>2
<1>2. IInv /\ [Next]_vars => [Caused]_vars BY <1>1
<1> QED BY <1>2, InvHolds, PTL DEF Spec, AcknowledgedForAnActiveKey
=============================================================================
