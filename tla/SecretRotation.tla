--------------------------- MODULE SecretRotation ----------------------------
(***************************************************************************)
(* verify_any(): the loop over the active secrets of a rotation window,    *)
(* one action for each arm of the match on what verify() returned.  The    *)
(* wall clock moves, in either direction, between the rounds of the loop.  *)
(***************************************************************************)
EXTENDS Authenticity

CONSTANTS Requests,     \* the calls that may be made: provider, headers, body, options
          SecretSlices, \* the slices of secrets they may be made with
          Secrets,      \* the secrets a slice may hold
          Times         \* the readings the clock may give

ASSUME RotationAssumption ==
    /\ Times \subseteq Nat
    /\ \A slice \in SecretSlices : slice \in Seq(Secrets)
    /\ \A r \in Requests :
        /\ r.options.max_age \subseteq Nat
        \* a header of elements holds a sequence of them
        /\ r.p \in Listing /\ Has(r.headers, "sig") =>
               DOMAIN Get(r.headers, "sig").elems \subseteq Nat

VARIABLES
    request,                    \* the arguments of the call
    secrets,                    \* its slice of secrets
    next,                       \* the index of the secret the loop tries next
    first_invalid_secret,       \* the first InvalidSecret seen (an Option)
    any_well_formed_mismatch,   \* whether a usable key failed to match
    result,                     \* what the call returned (an Option)
    now,                        \* the wall clock
    asked                       \* history: the clock when verify() last ran

loop == <<next, first_invalid_secret, any_well_formed_mismatch>>
vars == <<request, secrets, loop, result, now, asked>>

\* What verify() says of the i-th secret when the clock reads t.
Verdict(i, t) ==
    Verify(request.p, request.headers, request.body, secrets[i], request.options, t)

Init ==
    /\ request \in Requests
    /\ secrets \in SecretSlices
    /\ next = 1
    /\ first_invalid_secret = {}
    /\ any_well_formed_mismatch = FALSE
    /\ result = {}
    /\ now \in Times
    /\ asked = now

\* One round of the loop is under way: verify() runs on the next secret.
Round ==
    /\ result = {}
    /\ next \in DOMAIN secrets
    /\ asked' = now
    /\ UNCHANGED <<request, secrets, now>>

Accept ==
    /\ Round
    /\ Verdict(next, now) = Ok
    /\ result' = {Ok}
    /\ UNCHANGED loop

\* Wrong: steps over the secret after the one that failed.
RememberMismatchSkips ==
    /\ Round
    /\ Verdict(next, now).kind = "SignatureMismatch"
    /\ any_well_formed_mismatch' = TRUE
    /\ next' = next + 2
    /\ UNCHANGED <<first_invalid_secret, result>>

RememberMismatch ==
    /\ Round
    /\ Verdict(next, now).kind = "SignatureMismatch"
    /\ any_well_formed_mismatch' = TRUE
    /\ next' = next + 1
    /\ UNCHANGED <<first_invalid_secret, result>>

\* Wrong: an unusable secret ends the search (the regression of issue #64).
RememberInvalidAborts ==
    /\ Round
    /\ Verdict(next, now).kind = "InvalidSecret"
    /\ result' = {Verdict(next, now)}
    /\ UNCHANGED loop

\* Wrong: an unusable secret counts as a usable key that failed to match.
RememberInvalidAsMismatch ==
    /\ Round
    /\ Verdict(next, now).kind = "InvalidSecret"
    /\ any_well_formed_mismatch' = TRUE
    /\ next' = next + 1
    /\ UNCHANGED <<first_invalid_secret, result>>

RememberInvalid ==
    /\ Round
    /\ Verdict(next, now).kind = "InvalidSecret"
    /\ first_invalid_secret' = IF first_invalid_secret = {}
                               THEN {Verdict(next, now)} ELSE first_invalid_secret
    /\ next' = next + 1
    /\ UNCHANGED <<any_well_formed_mismatch, result>>

ReturnOther ==
    /\ Round
    /\ Verdict(next, now).kind \notin {"Ok", "SignatureMismatch", "InvalidSecret"}
    /\ result' = {Verdict(next, now)}
    /\ UNCHANGED loop

\* Wrong: reports an unusable secret although a usable key failed to match.
ExhaustedInvalidFirst ==
    /\ result = {}
    /\ next = Len(secrets) + 1
    /\ result' = IF first_invalid_secret # {} THEN first_invalid_secret ELSE {Mismatch}
    /\ UNCHANGED <<request, secrets, loop, now, asked>>

\* All secrets tried: InvalidSecret only when no usable key existed at all.
Exhausted ==
    /\ result = {}
    /\ next = Len(secrets) + 1
    /\ result' = IF ~any_well_formed_mismatch /\ first_invalid_secret # {}
                 THEN first_invalid_secret ELSE {Mismatch}
    /\ UNCHANGED <<request, secrets, loop, now, asked>>

ClockMoves ==
    /\ result = {}
    /\ now' \in Times \ {now}
    /\ UNCHANGED <<request, secrets, loop, result, asked>>

Rotate == Accept \/ RememberMismatch \/ RememberInvalid \/ ReturnOther \/ Exhausted
Next == Rotate \/ ClockMoves

Spec == Init /\ [][Next]_vars

-----------------------------------------------------------------------------
(***************************************************************************)
(* Properties.                                                             *)
(***************************************************************************)

\* The types of the loop's state.
TypeOK ==
    /\ secrets \in Seq(Secrets)
    /\ next \in 1 .. Len(secrets) + 1
    /\ first_invalid_secret \subseteq {Error("InvalidSecret", s) : s \in Secrets \cup {"material"}}
    /\ any_well_formed_mismatch \in BOOLEAN
    /\ \A r \in result : r = Ok \/ r.kind \in ErrorKinds
    /\ {now, asked} \subseteq Times

GenuineUnder(s) == Genuine(request.p, request.headers, request.body, s, request.options)
AcceptedUnder(r, s, t) == Verify(r.p, r.headers, r.body, s, r.options, t) = Ok

\* A call that returns Ok was given a request that one of the active keys
\* signed, whose signed timestamp is within the window of the clock reading
\* the loop took last: no order of checks and no key of the slice lets a
\* forged, re-signed or stale request through.
AcceptsOnlyGenuine ==
    Ok \in result =>
        /\ \E i \in DOMAIN secrets : GenuineUnder(secrets[i])
        /\ Fresh(request.p, request.headers, request.options, asked)

\* TimestampOutOfTolerance is only ever said of a request an active key did
\* sign, and it is true: the signed timestamp is out of the window, by the
\* reading of the clock that verify() took, and the skew is their distance.  An
\* unauthenticated timestamp is never compared with the clock.
StaleOnlyIfGenuine ==
    \A r \in result : r.kind = "TimestampOutOfTolerance" =>
        LET secs == Stamp(request.p, request.headers).secs
        IN  /\ \E i \in DOMAIN secrets : GenuineUnder(secrets[i])
            /\ ~Fresh(request.p, request.headers, request.options, asked)
            /\ r.skew \in {asked - secs, secs - asked} \cap Nat

\* Zero-downtime rotation: if some key of the slice verifies the request by
\* itself, whatever the clock reads meanwhile, the call succeeds, wherever
\* that key is in the slice and whatever is wrong with the others.
RotationSucceeds ==
    (result # {} /\ \E i \in DOMAIN secrets : \A t \in Times : Verdict(i, t) = Ok)
        => result = {Ok}

\* The requests made with one configuration.
Alike ==
    LET all == Requests
    IN  [c \in {<<r.p, r.options>> : r \in all} |-> {r \in all : <<r.p, r.options>> = c}]

\* The status class tells who must act.  After a 500 no request at all is
\* accepted with this configuration; after a 400 no secret whatever makes
\* this request acceptable.
StatusBlamesTheRightParty ==
    \A r \in result \ {Ok} :
        /\ RejectionStatus(r) = 500 =>
               \A other \in Alike[<<request.p, request.options>>], s \in Range(secrets) :
                   ~AcceptedUnder(other, s, asked)
        /\ RejectionStatus(r) = 400 =>
               \A s \in Secrets : ~AcceptedUnder(request, s, asked)

\* verify_any() keeps the promise its documentation makes: the answer is the
\* one that the set of active secrets determines at one reading of the clock.
Promise == INSTANCE RotationPromise WITH answer <- {r.kind : r \in result}
KeepsPromise == Promise!Spec

\* The comment in verify_any() and the decision record in spec.md: an error
\* that is not about a key is the same for all the secrets, because it
\* occurs before any work that depends on one.
StructuralErrorsAreDeterministic ==
    \A r \in result : r.kind \notin {"Ok", "SignatureMismatch", "InvalidSecret"} =>
        \A i \in DOMAIN secrets : Verdict(i, asked).kind = r.kind

\* What is true of that comment: an error of the request's form or of the
\* configuration is the answer for every secret there is and at any time, save
\* for a secret that its scheme rejects before it reads the headers.
FormErrorsAreDeterministic ==
    \A r \in result :
        r.kind \notin {"Ok", "SignatureMismatch", "InvalidSecret", "TimestampOutOfTolerance"} =>
            \A s \in Secrets, t \in Times :
                LET verdict == Verify(request.p, request.headers, request.body, s,
                                      request.options, t)
                IN  verdict = r \/ verdict.kind = "InvalidSecret"

\* The documentation of TimestampOutOfTolerance: its skew is how far outside
\* the window of max_age seconds the timestamp fell.
SkewIsDistanceOutsideTheWindow ==
    \A r \in result, limit \in request.options.max_age :
        r.kind = "TimestampOutOfTolerance" =>
            r.skew = AbsDiff(asked, Stamp(request.p, request.headers).secs) - limit

\* The testing bar of spec.md section 5: a required header that arrives empty
\* has an error of its own, and is never accepted or reported as a mismatch.
EmptyHeaderHasItsOwnError ==
    (/\ secrets # <<>>
     /\ \E h \in DOMAIN request.headers :
            Has(request.headers, h) /\ Get(request.headers, h).form = "blank")
        => \A r \in result : r.kind \notin {"Ok", "SignatureMismatch"}

\* What is true of that bar: of the required headers, only an identifier that
\* the scheme signs but does not parse may be empty.  An empty signature,
\* timestamp or algorithm is never accepted and never taken for a mismatch,
\* whatever the secrets.
EmptyHeaderIsNoMismatch ==
    (/\ secrets # <<>>
     /\ \E h \in SigningRoles(request.p) \ {"id", "cert"} :
            ArrivesEmpty(request.p, request.headers, h))
        => \A r \in result : r.kind \notin {"Ok", "SignatureMismatch"}

\* "One good sibling does not mask a malformed one" (standard_webhooks.rs), and
\* a duplicate t= is an error, not a choice (stripe.rs): no signature of a request
\* that cannot be read to its end, wherever in a list its defect is, is judged
\* to match or not to match, and no timestamp of it is judged fresh or stale.
BrokenIsNeverJudged ==
    secrets # <<>> =>
        \A r \in result : r.kind \in {"Ok", "SignatureMismatch", "TimestampOutOfTolerance"} =>
            Readable(request.p, request.headers)
=============================================================================
