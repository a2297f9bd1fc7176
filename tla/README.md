# Verification of webhook-verify

TLA+ models of the crate in `src/`: one function, `verify()`, that decides
whether an inbound webhook request was sent by a provider, a loop over it for
secret rotation, and two framework adapters that put it in front of a handler.
The modules are held against the crate's own unit tests and model-checked with
TLC on small instances; their central theorems are proved with TLAPS for every
value of the constants.

## 1. The system

| Component | Source (`src/src/`) | State | Operations |
|---|---|---|---|
| Errors, status classes | `core/error.rs`, `core/adapter_utils.rs` | none | `VerifyError`, `rejection_status` |
| Header lookup | `core/headers.rs`, end of `actix.rs` | the caller's map | first value wins; opaque values are absent |
| Replay window | `core/replay.rs` | reads the clock | `check_replay`, `parse_timestamp`, `parse_rfc3339_timestamp` |
| Primitives | `core/crypto.rs` | none | HMAC, Ed25519, ECDSA, RSA, CRC-32 checks |
| Options and clock | `core/options.rs` | tolerance, context, key material, clock | builders, `now` |
| 14 provider schemes | `providers/*.rs` | none | one `verify` each: a chain of early returns |
| Unit tests | `tests` modules of `providers/*.rs`, `test_helpers.rs` | none | calls and the outcomes they assert |
| Dispatch | `providers/mod.rs` | none | `verify`, `signature_header_names` |
| Rotation loop | `providers/mod.rs` | first invalid secret, well-formed mismatch, position | `verify_any` |
| tower middleware | `tower.rs` | shared configuration; one future per request | `poll_ready`, `call` and its future |
| actix extractor | `actix.rs` | configuration looked up per request; payload | `from_request` and its future |
| `Secret`, `lib.rs`, fuzz target, CI | `core/secret.rs`, ... | - | not modelled: see section 8 |

How they interact.  An adapter looks at the raw header map for duplicated
signature headers, buffers the body, frame by frame, across awaits, and calls
`verify()` once, which dispatches to a provider scheme.  A scheme looks up its
headers, checks the context it needs from the options, parses signature and
timestamp, checks the signature over the exact bytes, and only then asks the
clock.  `verify_any()` repeats `verify()` for each active secret and aggregates
what it says; every round reads the clock anew.  Adapters turn an error into a
status by its class.

Around it, and not in it, are a sender that retries, a network, an operator who
rotates keys, and the service behind the tower middleware, whose capacity the
middleware passes on.

What is hard here.  Nothing is persisted and the functions are pure, except
for the clock.  The hard parts are therefore the *order* of the checks (which
error a request with several defects gets, whether an unauthenticated timestamp
meets the clock, who is blamed), the *aggregation* over secrets in any order
while the clock moves, and the *time between* the header check and the
verification in the adapters: frames, broken bodies, dropped futures, duplicated
headers, payloads another extractor took.  Because nothing is persisted, what
holds across *several* calls (replays, rotation while deliveries are in flight,
a clock that is missing or skewed) is decided by the window alone.

What makes each component correct:

* a scheme accepts only what its key signed, over this very request, within the
  window (`AcceptsOnlyGenuine`), says "stale" only of what a key signed
  (`StaleOnlyIfGenuine`), never says "mismatch" of an empty signature,
  timestamp or algorithm (`EmptyHeaderIsNoMismatch`), and neither accepts a request
  with a signature or timestamp that cannot be read, in any element of a list, nor
  refuses it for its signature or its age (`BrokenIsNeverJudged`);
* the status class names the party that must act (`StatusBlamesTheRightParty`);
* the rotation loop gives the answer that the *set* of secrets determines at one
  instant (`KeepsPromise`), succeeds when any key does (`RotationSucceeds`), and reports
  errors of form that no choice of keys would change (`FormErrorsAreDeterministic`);
* an adapter is a gate: it delivers the whole body, and only of requests that
  are genuine however their headers are read, at the moment of delivery; it
  never refuses such a request if it is in form and the adapter is set up for
  it, refuses the others with the same statuses as any other adapter
  (`ImplementsGate` and the invariants beside it), those that the route or their
  headers condemn before the payload is touched (`RefusedUnread`), and settles every
  request (`EveryRequestSettles`);
* in the world around it, a rotation loses no delivery (`RotationLosesNothing`),
  every event gets through (`EveryEventIsAcknowledged`), by a copy under a key that is
  active and by no other (`AcknowledgedForAnActiveKey`), replays end
  (`ReplaysEnd`), and a receiver without a clock accepts nothing that claims to
  be recent (`FailsClosedWithoutClock`).

## 2. The modules

| Module | Models | Extends |
|---|---|---|
| `VerifyCore` | outcomes and `?`, statuses, header lookup, parsers, replay window | - |
| `Providers` | the chain of checks of every scheme, `signature_header_names`, the dispatch | `VerifyCore` |
| `Authenticity` | *specification vocabulary, no code*: genuine, fresh, readings of duplicated headers, whose fault a refusal is | `Providers` |
| `SecretRotation` | `verify_any()`, one action per arm of its match | `Authenticity` |
| `RotationPromise` | *abstract*: what `verify_any()` promises, without a loop; what `verify()` says is a parameter | - |
| `TowerAdapter` | `VerifyMiddleware`: `poll_ready`, `call`, the future | `Authenticity` |
| `ActixAdapter` | `VerifiedBody::from_request` and its future | `Authenticity` |
| `WebhookGate` | *abstract*: what an adapter promises, whatever the framework; what is acceptable is a parameter | - |
| `TowerStack` | the tower middleware over an inner service of limited capacity | `TowerAdapter` |
| `VerifyOptions` | the defaults, the builders, `now()` with and without `std` | - |
| `WebhookSystem` | a sender, a network and an operator around `verify_any()` | `Authenticity`, `VerifyOptions` |
| `TestVectors` | the calls of the unit tests and what they assert | `Authenticity` |
| `CivilTime` | `parse_rfc3339_timestamp()` past its bytes, `days_from_civil()` | - |
| `Calendar` | *reference, no code*: a calendar walked day by day | `CivilTime` |
| `VerifySoundness` | theorems about the schemes | `Authenticity` |
| `VerifyOrder` | theorem and lemmas about the order of their checks | `VerifySoundness` |
| `SecretRotationProofs` | theorems about the loop | `SecretRotation`, `VerifyOrder` |
| `GateSoundness` | theorems about duplicated headers, for both adapters | `VerifySoundness` |
| `TowerAdapterProofs` | theorems about the tower middleware, alone and in its stack | `TowerStack`, `GateSoundness` |
| `ActixAdapterProofs` | theorems about the extractor | `ActixAdapter`, `GateSoundness` |
| `WebhookSystemProofs` | theorems about the crate in its world | `WebhookSystem`, `VerifyOrder` |
| `CalendarProofs` | theorems about the timestamp parser | `Calendar` |
| `MCSecretRotation`, `MCTowerAdapter`, `MCActixAdapter`, `MCTowerStack`, `MCWebhookSystem`, `MCCalendar` | the instances for TLC | |

Definitions whose comment starts with "Wrong:" are plausible bugs; they show
that a property can fail.

### How the model corresponds to the code

*Data.*  A signature is symbolic: the record of the key that made it and the
string it covers.  `Signs` is the one place where a signature verifies: under
that key and that string and nothing else.  A header value is a record of what
the parsers tell apart (its `form`, the raw text that enters a signed string,
the seconds it stands for).  An `Option` is a set with at most one element.  A
signed string is the tuple of its parts, so that strings made of different
parts are different: the delimiter-free concatenations of Twilio, Discord,
SendGrid and Square, and the dots inside a Standard Webhooks id, are taken as
injective, which their senders have to ensure.  CRC-32 in PayPal's string is a
free symbol for the same reason.

*Control.*  A provider's `verify` is a chain `check && check && ...`, where
`&&` is the `?` operator: the right side counts only if the left is `Ok`.  The
order of the chain is the order of the early returns in the source, including
whether the secret is decoded before or after the headers are parsed.

*`SecretRotation`.*  `next` is the loop's position, `first_invalid_secret` and
`any_well_formed_mismatch` are its two locals, `result` is the return value.
`Accept`, `RememberMismatch`, `RememberInvalid`, `ReturnOther` are the arms of
the match, `Exhausted` the code after the loop, `ClockMoves` the wall clock
between two calls of `options.now()`, in either direction (`SystemClock` is not
monotonic).  `asked` is a history variable: the reading the last `verify()` got.

*`TowerAdapter`.*  One program counter per request.  `Call` is the synchronous
part of `call()` with its early return, `FrameArrives` and `TransportFails` are
the await on `BodyExt::collect`, `BodyEnds` is the synchronous stretch from the
collected bytes through `verify()` to the rejection or to `inner.call`, and
`Drop` is the caller dropping the future at either await.

*`ActixAdapter`.*  `FromRequest` is the synchronous part with its two early
returns, `payload` what no extractor has taken yet, `BodyReadFails` the error
of `Bytes::from_request` (a broken payload, or one over the framework's limit),
`BodyEnds` the stretch after the await.  `preceded` are the requests whose
handler has an earlier extractor that took the payload; `broken` is history.

*`TestVectors`.*  300 calls, written down from the assertions of the tests of
the fourteen schemes and of `verify_any()`: the request, the slice of secrets and the
outcome, down to the header an error names and the skew it reports.  The sender
(`Said`, `Sent`) is written apart from the verifier, as the signatures of the
tests were computed apart from the crate; a happy path that both got wrong in
the same way would still show in the tests of defects.  `AgreesWithTests` says
that the loop answers each of these calls as the test does.  Tests that differ
only in bytes the models do not tell apart are one vector.

*`TowerStack`.*  A runner keeps one copy of the middleware for each connection
and drives requests through it.  `poll_ready` reserves a permit for the copy of
the inner service the middleware keeps (`StackPollReady`), `call()` moves a fresh
clone into the future, and the clone is called (`StackBodyEnds`) without ever
having been polled; the permit comes back only when the connection closes
(`Close`).  The inner service and the runner are external, modelled as `tower`
documents them.

*`WebhookGate`.*  A step delivers, refuses or loses a request.  Refusing is
open to it when the request does not deserve delivery, when it contradicts
itself (`Ambiguous`), and when its form or the configuration is at fault
(`~Faultless`): a list with one broken signature beside a genuine one is
refused by the code, and rightly, although it is genuine.  `SetUp` says what a
provider needs of the configuration, `InForm` how it writes its headers, and
neither mentions the order in which the code checks anything.  A provider that
was compiled out has no signature headers the adapters could compare, so a
request to it is not ambiguous: it gets 500, the fault being the operator's.

*`WebhookSystem`.*  Time is kept relative to now: a copy of a delivery has an
age, negative when the sender's clock is ahead, and `Tick` ages all of them.
`Send` is one attempt, signed anew, during which copies may get lost; `Accepted`
is the receiver's call of `verify_any()` with the sender learning of it, and the
network may keep the copy; `Advance` is the operator's next step in one of the
two ways to rotate a key.  `VerifyAny` is the decision of the loop at one reading of the
clock: `AnswersAsPromised` (section 5) says that it is the decision the loop is proved
to come to.  `PlanAssumption` says what makes a sequence of stages a rotation: the
receiver has a usable key to every stage from which copies may still be fresh.  `Options` are built with the
builders from `Default`, and the clock is read with `Now`.

*`CivilTime` and `Calendar`.*  A value is the record of the numbers its digits
spell.  `Calendar` walks from 1970-01-01 in both directions and counts; its
properties compare each day it stands on with what the code computes.  In the
provider schemes a timestamp is the number of seconds it stands for, which
`CivilTime` justifies.

## 3. The runs

| Run | Shows | Instance and bounds |
|---|---|---|
| `SecretRotation_providers` | `TypeOK`, `AcceptsOnlyGenuine`, `EmptyHeaderIsNoMismatch`, `BrokenIsNeverJudged` for every provider; `AgreesWithTests` | all 15 shapes of provider; each header absent, opaque, or once in each form; one defect at a time in the headers beside the signature and in the options; lists of up to 2 elements; 2 secrets; stamps stale, fresh and over `U64Max`; beside these the 300 calls of the unit tests, with their slices of up to 3 |
| `SecretRotation_clock` | `AcceptsOnlyGenuine`, `RotationSucceeds`, `StaleOnlyIfGenuine`, `StatusBlamesTheRightParty`, `FormErrorsAreDeterministic`, `KeepsPromise` | the five providers that mix configuration errors with request errors; up to 3 different secrets in every order, one of them garbled; clock and stamps at 0 and at `U64Max`, so that the clock moves in and out of the window between rounds |
| `SecretRotation_structural`, `_skew`, `_empty` | documented claims the code does not keep | minimal instances |
| `TowerAdapter_gate` | `TypeOK`, `HandlerSeesWholeBody`, `EveryReadingIsGenuine`, `ImplementsGate` | one request, each header up to twice, signatures over the body and over a prefix of it, three framings, a stamp that goes stale while the body is read |
| `TowerStack_permits` | `BackpressureReachesTheCaller`, `ImplementsGate`, `EveryRequestSettles` | three concurrent requests (genuine with an empty frame, forged, ambiguous) on two connections, one permit |
| `TowerStack_ready` | a contract the code does not keep | the same instance |
| `ActixAdapter_gate` | `TypeOK`, `HandlerSeesExactBody`, `EveryReadingIsGenuine`, `HandlerNeverSeesUnverifiedBytes`, `RefusedUnread`, `ImplementsGate`, `EveryRequestSettles` | Slack; one request, routes with and without configuration, with and without an earlier extractor |
| `ActixAdapter_unsigned` | the same claim, `HandlerNeverSeesUnverifiedBytes`, which the code does not keep for every provider | Twilio |
| `WebhookSystem_delivery` | `TypeOK`, `RotationLosesNothing`, `FailsClosedWithoutClock`, `AcknowledgedForAnActiveKey`, `EveryEventIsAcknowledged`, `ReplaysEnd` | a rotation on the receiver's side (Slack, Standard Webhooks) and one on the sender's side (Standard Webhooks); a sender whose clock is behind, right or ahead; up to 3 copies in flight; with and without an injected clock, built without `std` |
| `Calendar_days` | `CountsDays`, `AcceptsExactlyTheCalendar`, `ParsesToTheInstant` | every day of the years 0 to 2400, each date of two-digit month and day; the instants on every day from 1968 to 2037, at four times of the day behind six offsets |

Why the bounds are enough.  A scheme looks at one value of each header and at
one secret at a time, so two values per header show every ambiguity, and two
keys beside a garbled one every way in which secrets differ.  What the loop
remembers of the secrets it tried is two bits, so three secrets reach every
state of it from every other.  Requests in an adapter share nothing but the
configuration, which is constant: one request shows every safety property.  What
they share behind the middleware is the capacity of the inner service: two
connections that compete for one permit, one of them with two requests, show
every way to wait for each other.  The window is one second wide:
stamps at, inside and outside either edge occur; the numbers at their own extremes
meet in `SecretRotation_clock`, where a difference that wraps around would make
a stamp of 0 fresh at the largest reading (`CheckReplayWraps`).  Two frames, one of them a
prefix that is itself signed, show every way to deliver less than the body.

In `WebhookSystem` an age beyond the window is one age, and three copies hold one
of each age that matters (early, fresh, about to go stale) or one of each stage
of the rotation; `Overlap` is one second longer than a copy can stay acceptable,
as `SystemAssumption` demands, which is what an operator has to wait.  One event
is enough because events share nothing; the wall clock reads 10, far from 0 in
terms of the window, as it is in the world.

The calendar repeats after 400 years, so 2400 show every kind of year end,
among them year 0, whose January the code counts with a negative year.  TLC's
integers have 32 bits where the code's have 64, which is why the
instants end in 2037; `Instants` (section 5) has no such bound.

`CHECK_DEADLOCK FALSE`: a call returns and a request is answered; the system
is meant to stop there.

## 4. Fairness

`EveryRequestSettles` assumes weak fairness of each request's steps: that the runtime polls a future
that can progress, that the client keeps sending its body, and that the handler
returns; in `TowerStack` also that a connection without a request closes in the
end.  Without these the adapters, which have no timeout of their own, wait
for ever; that is said here and not in the code.

`WebhookSystem` assumes that time passes and the sender retries (weak fairness)
and strong fairness of `Acknowledged`: an event of which an acceptable copy is
available again and again is acknowledged at some point, which is what it means
for a network not to lose everything.  Strong, because the copy goes stale and
comes anew with each retry.  `ReplaysEnd` rests on it too: a sender whose event is
never acknowledged never stops sending copies that are acceptable.  No fairness
is assumed of the clock's moves, of the operator or of any failure.

## 5. What is proved

All for every value of the constants: any set of requests, any slices of
secrets, any readings of the clock, any features.

* `VerifyOutcome`: what `verify()` returns is `Ok` or one of the eight errors,
  and an `InvalidSecret` names the secret it was given or the configured key
  material.  Each scheme is a chain, and `ChainOutcome` says that a chain of
  outcomes is an outcome.
* `VerifySound`: when `verify()` says `Ok`, one of the signatures offered was
  made with the key over exactly this request, and its timestamp lies in the
  window.  `ChainOk` turns an accepting chain into the conjunction of its
  checks; `SignedOk`, `AnySignedOk` and `ReplayOk` turn the checks into
  `Genuine` and `Fresh`, scheme by scheme.  `FirstErrorOutcome` (the loops over
  the elements of a header) needs that a non-empty set of naturals has a least
  element, hence the assumption that the indices of a list are naturals.
* `VerifyComplete` (`VerifySoundness`): the converse.  A genuine and fresh request
  whose headers are present and in form is accepted by a receiver that is set up
  (`Faultless`), for every provider: no order of the checks keeps it out.
  `Passes`, `StampPasses` and `ListPasses` say what each check lets through.
* `HeadersBindTheBody` (`VerifySoundness`): for a provider that signs the body, with one
  signature to a request, no two bodies are accepted with the same headers.  From
  `VerifySound` both bodies are covered by the one signature, and a signed string
  determines its parts.  A list may hold a signature over each of two bodies,
  Twilio signs none and PayPal a checksum, for which the model makes no such claim.
* `FieldsAreSorted`, `SortForgetsOnlyTheMix`, `TwilioInAnyOrder` (`VerifySoundness`): the
  sort of Twilio's form fields.  `FieldsByName` puts a field at its *rank*, the number of fields
  that go before it, instead of running an algorithm, so no induction over the list is
  needed: `RanksInOrder` says that ranks respect the order, which makes them
  different, and `EachPlaceOnce` that as many different ranks as there are places
  take every place (an injection of a finite set into itself is onto).  `FieldsAreSorted`
  follows: a permutation, sorted by name, stable.  `SortForgetsOnlyTheMix` says what the
  sort keeps: two forms sort to one list exactly if they differ in how fields of *different*
  names are mixed; the values under one name keep their order.  It is about the
  list, not about the string: the code goes on to append names and values without a
  delimiter (`providers/twilio.rs:113-116`), so that `a=bc` and `ab=c` are signed alike,
  which a list of records does not show.  `TwilioInAnyOrder` carries the direction that
  does not depend on this to `verify()`.
* `ClockDecidesFreshness` (`VerifyOrder`): either a request gets one answer whatever
  the clock reads, or it is genuine, accepted within the window, and outside it refused
  as stale with its distance from now.
* `TypeCorrect`, `Soundness`, `StaleSoundness`, `Rotation`, `StatusTells`, `FormErrors`, `EmptyHeaders`
  and `BrokenRequests` (`SecretRotationProofs`): the eight invariants of the loop.  None is inductive: a
  result says nothing of the steps that made it.  `IInv` adds what they established.
  `Tried`: each secret the loop has passed is blamed for it whatever the clock reads,
  and the two locals tell which blame there was.  `Explained`: a result that is not
  about a key is the verdict on some secret of the slice at the reading `asked`; one that
  is about a key is backed by all of them, and a mismatch was said of some secret
  unless there was none (which `EmptyHeaders` needs: a request whose signature is empty
  fails before any comparison, `EmptyRefused`).  `BrokenRequests` needs `JudgedIsReadable`: a
  scheme reads its headers, every element of a list among them, before it compares
  anything, so what it judges could be read.  All of it rests on the order of the checks
  (`VerifyOrder`), in three lemmas:
  * `ReplayLast` writes each scheme as `before && Replay`, where `before` does not
    depend on the clock and says nothing of it.  Hence `ClockDecidesFreshness`, and from it
    `StaleSoundness`: what is refused for its time is genuine, and the skew is true.
    An error about a key is one at any time (`KeyErrorsStay`).
  * `AgreeUpToKey` compares the chains of two keys check by check: their outcomes are equal
    unless one of them blames its key.  So what one key verifies fails under another only
    for the sake of the key (`OnlyTheKey`), which gives `Rotation` and the half of
    `StatusTells` about 400.  `FormUpToKey` adds the reverse: an error of form or
    configuration under one key is the same error under every other, unless
    that secret is itself invalid (`FormErrors`).
  * `ConfigurationErrors` compares the chains of two *requests*: what the configuration or
    the secret is blamed for in one of them fails in the other as well, which gives
    the half about 500.
* `Refinement` (`SecretRotationProofs`): the loop implements `RotationPromise`
  (`KeepsPromise`).  The step that sets the result maps to `Answer` at the clock reading of
  that step, every other to a stutter.  The secrets passed at earlier readings would be blamed at
  this one too (`Tried`), and by `AgreeUpToKey` there is only one
  error that is not about a key (`OtherDecides`).
* `EveryReading` (`GateSoundness`): what `verify()` accepts, of a request without
  conflicting signature headers, is genuine and fresh under every reading.
  `NamesCoverRoles` says that `signature_header_names()` lists every header a
  scheme signs, `RolesPresent` that a scheme which succeeded has looked each of
  them up, `SameSigned` that genuineness depends on nothing else.
* `TypeCorrect`, `WholeBodyOnly`/`ExactBodyOnly` and `GenuineOnly`
  (`TowerAdapterProofs`, `ActixAdapterProofs`): the three invariants of each
  adapter.  None is inductive, because what the handler got rests on earlier
  steps.  `IInv` says of each request what those steps established: the frames
  collected are the first of the body (`Collected`), a request whose body is
  awaited had no conflict (`Admitted`), and what was served was the whole body,
  admitted, and accepted by `verify()` at that moment (`Judged`).  `Untouched`
  is the frame lemma: a step of one request leaves the others' facts alone.
* `RefusedBeforeReading` (`ActixAdapterProofs`): `RefusedUnread`, from `Admitted` and
  `ConflictIsAmbiguity`.
* `NoUnverifiedBytes` (`ActixAdapterProofs`): `HandlerNeverSeesUnverifiedBytes`, for the
  providers `HeadersBindTheBody` is about; `Judged` provides the accepted body.  The
  hypothesis is needed: for Twilio the run `ActixAdapter_unsigned` refutes it.
* `AcceptableIsAccepted` (`GateSoundness`): of a request that is acceptable under every
  reading, `verify()` takes one (`FirstReading`), and accepts it if neither its form nor the
  configuration is at fault.
* `Refinement` (`TowerAdapterProofs`, `ActixAdapterProofs`): each adapter implements
  `WebhookGate` (`ImplementsGate`), statuses included.  Delivering rests on
  `EveryReading`, refusing on `AcceptableIsAccepted`; a conflict that the adapter finds
  is an ambiguity and the reverse (`ConflictIsAmbiguity`), because
  `signature_header_names()` lists no header beside those a scheme signs (`NamesAreRoles`).
  `Answered` (a response is there only once the request is settled) makes the fate of a
  request a function of its phase and response.
* `StackImplementsAdapter`, `StackRefinement` (`TowerAdapterProofs`): a step of the stack
  is a step of the middleware or a stutter, so that every theorem on the one holds of the other.
* `BackpressureHolds` (`TowerAdapterProofs`): `BackpressureReachesTheCaller`.  It is not
  inductive; `Permits` says that the ready callers are on different connections and each
  of these holds a permit, and counts them by the injection from callers to permits.
* `TypeCorrect`, `LosesNothing`, `FailsClosed`, `ExactlyTheWindow`
  (`WebhookSystemProofs`): the safety of `WebhookSystem`, for every rotation in any
  number of stages.  What a receiver can still verify depends on when a copy was signed, which
  no variable records; `IInv` recovers it.  Every copy was signed at some stage so far;
  if that stage is over, the copy is stale or at least as old as the present stage, and if a
  quiet stage has begun since the end of its own, it is stale, because the operator
  waited for `Overlap` before.  So the receiver has a key to each copy that is not
  (`StillHasAKey`), the copy is faultless (`CopyInForm`), `VerifyComplete` gives the
  verdict for that key, and `AnyOfThem` (from `AgreeUpToKey`) the answer of the
  whole slice.  `ExactlyTheWindow` adds the converse from `VerifySound`: a repeated
  copy is accepted until it leaves the window and never after.  `FailsClosed`
  is the same with the clock at 0, from which every stamp is far.
* `AnswersAsPromised` (`WebhookSystemProofs`): the receiver's single step answers what
  `RotationPromise` determines, so that it may stand for the loop.  `AnyDecides`
  says how: the kind of the answer is a function of the set of kinds (`Decided`).
* `OnlyTheSetMatters` (`WebhookSystemProofs`): from the same lemma, neither the order of the
  secrets nor repetitions change the kind of the answer, and a key more never turns
  an acceptance into a refusal.
* `ActiveKeysOnly` (`WebhookSystemProofs`): the action property
  `AcknowledgedForAnActiveKey`, the reverse of `LosesNothing`.  What is accepted is in the window
  (`AcceptedInWindow`) and carries a signature of a key in the slice
  (`AcceptedForAKey`), both from `VerifySound`; only the receiver's step
  acknowledges anything.
* `DayCount`, `Acceptance`, `Instants` (`CalendarProofs`): the three properties of
  the timestamp parser, in every year.  `Formula` removes the eras from
  `days_from_civil()`; `YearLength` and `NextMonthCounts` say that what is left
  grows by the length of each year and month.  The invariant adds to
  `CountsDays` that today is a day of the calendar.

Assumptions: `CoreAssumption` (the largest timestamp is a natural, the features
are the two the crate has), `RotationAssumption` (clock readings and
tolerances are naturals, slices hold secrets, the elements of a list header are
numbered), `TowerAssumption` and `ActixAssumption` (the provider is one the crate has;
readings and tolerances are naturals; the values of each header the provider signs, and the
frames of a body, arrive in order), `StackAssumption` (each request has a connection, there is
a permit), `SystemAssumption` (the operator waits for longer than a copy can stay
acceptable; the wall clock is more than two windows from 0 and a window below the
largest timestamp; a sender's clock that is behind does not bring it near 0),
`PlanAssumption` (above) and `CalendarAssumption` (the wall clocks and offsets are
ones RFC 3339 can write).  TLC evaluates each of them on the instances.

What the attempts to prove found.  The gate used to prescribe 400 for a request with
conflicting headers whatever the provider; of one that is compiled out the adapters
compare no headers and answer 500, which no instance had shown (its provider was never
compiled out), and `Ambiguous` now requires the provider to be supported.  The gate
also used to promise delivery of every request that is genuine and fresh, which
holds for Slack, the provider of the instance, and not for those that need context, key material
or a list without a broken element; it now says so (`Faultless`).

## 6. What is only model-checked

Liveness under fairness is beyond the prover and stays with TLC:
`EveryRequestSettles`, `EveryEventIsAcknowledged`, `ReplaysEnd` (of
which `ExactlyTheWindow` is the safety part).
`AgreesWithTests` is a statement about the 300 calls of the tests, which TLC evaluates.
The properties of the violation runs are false.  One of them,
`HandlerNeverSeesUnverifiedBytes`, is false for Twilio and proved for the providers named in
`NoUnverifiedBytes`; for providers with a list of signatures, and for PayPal, it is neither
claimed nor checked.  Every other property of a run is stated by a theorem.

The theorems are about the operators as modelled; that these agree with the code is what
`AgreesWithTests` and the map are for.

## 7. Where code and documentation disagree

1. `skew` is documented as the distance *outside the window*; the code reports
   the distance from *now* (`SecretRotation_skew`; proved in `StaleSoundness`).
2. Errors other than mismatch and invalid secret are documented as *the same for
   all secrets*; a stale timestamp is reported only under the key that matches,
   and two providers decode the secret first (`SecretRotation_structural`).  No
   answer is wrong for it: `KeepsPromise` holds, and so does what is true of the claim:
   errors of form and configuration are the same for all secrets that are not
   themselves invalid (`FormErrorsAreDeterministic`).
3. Each required header is documented to have an error of its own when *empty*;
   an empty `webhook-id` has none (`SecretRotation_empty`).  Empty signatures,
   timestamps and algorithms do (`EmptyHeaderIsNoMismatch`); beside `webhook-id` only
   PayPal's identifier and certificate headers are left out of that property.
4. The tower middleware is documented as a `tower` `Service`, whose contract is
   that the service called is the one `poll_ready` found ready; it polls one copy
   of its inner service and calls another (`TowerStack_ready`).  Back-pressure
   still reaches the caller and every request is settled (`TowerStack_permits`), but an inner
   service that keeps its permit in the copy polled is called without one.
5. The extractor is documented never to show a handler *unverified bytes*; for
   Twilio, which signs no body, it does (`ActixAdapter_unsigned`).  For a provider
   with one signature over the body the promise is proved (`NoUnverifiedBytes`).

A comment of a test gives the byte order of three field names as
`Digits` < `api_version` < `StatusCallback` (`providers/twilio.rs:206-208`); the
order is `Digits`, `StatusCallback`, `api_version`, and the vector the test checks
is signed in that one (`TwilioSigned`).

## 8. What is not modelled

Algorithms of cryptography and their constant time; hexadecimal and base64;
the characters of a header; the case folding of header names; `Display` and
`Debug` texts; the redaction of `Secret`; derived traits; the fuzz target and
CI.  The body of a caller's `CustomScheme::signed_string` is the caller's code,
taken to bind the timestamp header and the body.  The frameworks (tower, actix,
http-body) are modelled as the adapters use them: an await that may yield frames,
an end or an error, and futures that may be dropped.  Of the unit tests, those of
the replay window, the options and the adapters are not written down as vectors:
the modules of those parts go through more cases than the tests do.  Tolerances are whole
seconds; the code cuts a `Duration` with a fraction down, which makes no difference to
distances in whole seconds.  An adapter holds
one secret and one list of form fields; rotation behind an adapter is a new
adapter, and Twilio behind one is what section 7 says of it.

## 9. The order of the work

1. `VerifyCore`, `Providers`, `SecretRotation` with its abstract
   specification; `VerifySoundness` and `SecretRotationProofs`.
2. `WebhookGate`, `TowerAdapter`, `ActixAdapter`.
3. `CivilTime`, `Calendar`, `CalendarProofs`.
4. `GateSoundness`, `TowerAdapterProofs`, `ActixAdapterProofs`.
5. Parity of the adapters: `WebhookGate` fixes the status of each refusal;
   liveness of the extractor.
6. `VerifyOptions`, `WebhookSystem`.
7. `TowerStack`.
8. `TestVectors`.
9. `VerifyOrder`, for `StaleOnlyIfGenuine` and `RotationSucceeds` as theorems.
10. The rest of the loop's proofs: `StatusTells` and its refinement.
11. Completeness: `Faultless`, `VerifyComplete`, `AcceptableIsAccepted`, and with them the
    refinement of the gate by both adapters.
12. `BackpressureHolds`, and `WebhookSystemProofs`.
13. What is true beside each claim the code does not keep (`FormErrors`, `EmptyHeaders`,
    `NoUnverifiedBytes`, the skew in `StaleSoundness`); Twilio's sort; `ClockDecidesFreshness`,
    `OnlyTheSetMatters`, `ActiveKeysOnly`.
14. Hazards that no property covered: elements that cannot be read (`BrokenIsNeverJudged`),
    payloads touched too early (`RefusedUnread`), the clock at its extremes.

What is left:

* The handler's view of the stack as theorems of its own: which of the tower `Service`
  contract's clauses hold beside the one that `TowerStack_ready` refutes.
* The parsers of the two list headers as loops over their elements' classes.
* More than one event per plan and plans of other providers in the instance of
  `WebhookSystem`, for TLC; the theorems have no such bound.
