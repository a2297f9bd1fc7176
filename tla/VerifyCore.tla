----------------------------- MODULE VerifyCore -----------------------------
(***************************************************************************)
(* The vocabulary every provider scheme and every adapter shares: the      *)
(* structured outcome of a verification, header lookup, the parsers of     *)
(* timestamps and of single signatures, the replay window, and the HTTP    *)
(* status an adapter answers with.                                         *)
(*                                                                         *)
(* Data is symbolic.  A signature is the pair of the key that made it and  *)
(* the string it covers, so that it verifies under exactly that key and    *)
(* that string; a header value is the record of the features the parsers   *)
(* tell apart.  An Option of the code is a set with at most one element.   *)
(***************************************************************************)
EXTENDS Integers, Sequences

CONSTANTS
    U64Max,     \* the largest number of unix seconds a parsed timestamp holds
    Features    \* the optional crate features compiled in

ASSUME CoreAssumption == /\ U64Max \in Nat
                         /\ Features \subseteq {"paypal", "sendgrid"}

(***************************************************************************)
(* Outcomes: Result<(), VerifyError> as a record.  "at" names the header   *)
(* or the secret the error speaks of ("none" when it names nothing), and   *)
(* "skew" is the number of seconds a stale timestamp is reported with.     *)
(***************************************************************************)
ErrorKinds == {"MissingHeader", "MalformedHeader", "BadEncoding",
               "SignatureMismatch", "TimestampOutOfTolerance",
               "UnsupportedProvider", "InvalidSecret", "MissingContext"}

Ok == [kind |-> "Ok", at |-> "none", skew |-> 0]
Error(kind, at) == [kind |-> kind, at |-> at, skew |-> 0]
Mismatch == Error("SignatureMismatch", "none")

\* The `?` operator of the code: f runs only when e succeeded.
e && f == LET outcome == e IN IF outcome = Ok THEN f ELSE outcome

\* Wrong: an authentication failure answered as a refusal of authorization.
RejectionStatusForbidden(e) ==
    IF e.kind \in {"SignatureMismatch", "TimestampOutOfTolerance"} THEN 403
    ELSE IF e.kind \in {"MissingHeader", "MalformedHeader", "BadEncoding"} THEN 400 ELSE 500

\* rejection_status: malformed requests, authentication signals, operator errors.
RejectionStatus(e) ==
    CASE e.kind \in {"MissingHeader", "MalformedHeader", "BadEncoding"} -> 400
      [] e.kind \in {"SignatureMismatch", "TimestampOutOfTolerance"} -> 401
      [] e.kind \in {"UnsupportedProvider", "InvalidSecret", "MissingContext"} -> 500

The(option) == CHOOSE x \in option : TRUE

(***************************************************************************)
(* Headers: a multimap from the role a header plays in a scheme to the     *)
(* sequence of values it arrived with.  Lookup sees the first value only,  *)
(* and reports a value that is not visible ASCII ("opaque") as absent.     *)
(***************************************************************************)
Has(headers, h) == headers[h] # <<>> /\ headers[h][1].form # "opaque"
Get(headers, h) == headers[h][1]
Require(headers, h) == IF Has(headers, h) THEN Ok ELSE Error("MissingHeader", h)

(***************************************************************************)
(* Parsers.  A single signature value is blank, lacks the scheme's prefix, *)
(* has nothing after it ("bare"), does not decode, decodes to the wrong    *)
(* length, or is a signature.                                              *)
(***************************************************************************)
\* Wrong: an empty value is decoded like any other, to a signature of no bytes.
ParseSignatureOfNothing(v, prefixed) ==
    CASE prefixed /\ v.form \in {"unprefixed", "bare"} -> Error("MalformedHeader", "sig")
      [] v.form \in {"undecodable", "missized"} -> Error("BadEncoding", "none")
      [] OTHER -> Ok

ParseSignature(v, prefixed) ==
    CASE v.form = "blank" -> Error("MalformedHeader", "sig")
      [] prefixed /\ v.form \in {"unprefixed", "bare"} -> Error("MalformedHeader", "sig")
      [] v.form \in {"undecodable", "missized"} -> Error("BadEncoding", "none")
      [] OTHER -> Ok

\* parse_timestamp: non-empty, ASCII digits only, within u64.
ParseTimestamp(v, h) ==
    IF v.form = "digits" /\ v.secs \in 0 .. U64Max THEN Ok ELSE Error("MalformedHeader", h)

\* parse_rfc3339_timestamp: a well-formed instant that is not before the epoch.
ParseRfc3339(v, h) ==
    IF v.form = "rfc3339" /\ v.secs \in Nat THEN Ok ELSE Error("MalformedHeader", h)

\* One signature against one key and one signed string; never true of garbage.
Signs(v, key, msg) == v.form = "signature" /\ v.key = key /\ v.msg = msg
Match(matched) == IF matched THEN Ok ELSE Mismatch

AbsDiff(a, b) == IF a >= b THEN a - b ELSE b - a

\* Wrong: only timestamps of the past are ever too far from now.
CheckReplayOneSided(secs, options, now) ==
    IF \A limit \in options.max_age : now - secs <= limit
    THEN Ok
    ELSE [kind |-> "TimestampOutOfTolerance", at |-> "none", skew |-> AbsDiff(now, secs)]

\* Wrong: the edge of the window is outside it.
CheckReplayStrict(secs, options, now) ==
    IF \A limit \in options.max_age : AbsDiff(now, secs) < limit
    THEN Ok
    ELSE [kind |-> "TimestampOutOfTolerance", at |-> "none", skew |-> AbsDiff(now, secs)]

\* Wrong: a clock that reads 0 is taken for no check at all.
CheckReplayNeedsClock(secs, options, now) ==
    IF now = 0 \/ \A limit \in options.max_age : AbsDiff(now, secs) <= limit
    THEN Ok
    ELSE [kind |-> "TimestampOutOfTolerance", at |-> "none", skew |-> AbsDiff(now, secs)]

\* Wrong: a subtraction that wraps around the width of the clock.
CheckReplayWraps(secs, options, now) ==
    IF \A limit \in options.max_age : (now - secs) % (U64Max + 1) <= limit
    THEN Ok
    ELSE [kind |-> "TimestampOutOfTolerance", at |-> "none", skew |-> AbsDiff(now, secs)]

\* check_replay: a symmetric window, switched off when max_age is None.
CheckReplay(secs, options, now) ==
    IF \A limit \in options.max_age : AbsDiff(now, secs) <= limit
    THEN Ok
    ELSE [kind |-> "TimestampOutOfTolerance", at |-> "none", skew |-> AbsDiff(now, secs)]
=============================================================================
