------------------------------ MODULE Providers ------------------------------
(***************************************************************************)
(* The signing scheme of each provider as the chain of checks its verify   *)
(* function makes, in the order of its early returns, and the dispatch of  *)
(* verify().  The order is part of the model: which error a request with   *)
(* several defects gets, and whether the secret is looked at before the    *)
(* headers are parsed, differ from provider to provider.                   *)
(*                                                                         *)
(* Every scheme takes the request's headers and body, the secret, the      *)
(* options and the reading of the clock its replay check would get.        *)
(***************************************************************************)
EXTENDS VerifyCore, FiniteSetsExt, SequencesExt

CONSTANT
    Garbled     \* the secrets no key-decoding scheme can use

Custom == {"Custom", "CustomTimestamped"}
BodyOnly == {"GitHub", "Shopify", "Linear", "Dropbox"}
Providers == {"Stripe", "Slack", "Zoom", "Square", "Twilio", "Discord", "StandardWebhooks",
              "PayPal", "SendGrid"} \cup BodyOnly \cup Custom

\* Wrong: the timestamp header is not one of the headers that must be unique.
SignatureHeaderNamesNoStamp(p) ==
    IF p = "StandardWebhooks" THEN <<"id", "sig">> ELSE <<"sig">>

\* The header roles whose values carry signing material, in the code's order.
SignatureHeaderNames(p) ==
    CASE p \in {"Stripe", "Square", "Twilio", "Custom"} \cup BodyOnly -> <<"sig">>
      [] p \in {"Slack", "Zoom", "Discord", "CustomTimestamped"} -> <<"sig", "ts">>
      [] p = "StandardWebhooks" -> <<"id", "ts", "sig">>
      [] p = "SendGrid" -> IF "sendgrid" \in Features THEN <<"sig", "ts">> ELSE <<>>
      [] p = "PayPal" -> IF "paypal" \in Features
                         THEN <<"id", "ts", "sig", "cert", "algo">> ELSE <<>>

(***************************************************************************)
(* Key material.  A scheme that decodes its secret (a public key, base64,  *)
(* a non-empty token) rejects a garbled one for its format; the error      *)
(* carries which secret it was.  The other schemes key the HMAC with the   *)
(* secret's bytes whatever they are.                                       *)
(***************************************************************************)
DecodeSecret(secret) ==
    IF secret \in Garbled THEN Error("InvalidSecret", secret) ELSE Ok

\* A required piece of request context the caller left out of the options.
Context(option) == IF option = {} THEN Error("MissingContext", "none") ELSE Ok
NonEmpty(option) == {text \in option : text # ""}

\* Asymmetric material of the wrong variant, or whose bytes are no key.
MaterialOfKind(material, kind) ==
    IF The(material).kind = kind THEN Ok ELSE Error("InvalidSecret", "material")
MaterialParses(material) ==
    IF The(material).key \in Garbled THEN Error("InvalidSecret", "material") ELSE Ok

(***************************************************************************)
(* HMAC over the raw body alone; only GitHub's value carries a prefix.     *)
(***************************************************************************)
BodyOnlyVerify(headers, body, secret, prefixed) ==
    Require(headers, "sig")
    && ParseSignature(Get(headers, "sig"), prefixed)
    && Match(Signs(Get(headers, "sig"), secret, <<body>>))

GitHubVerify(headers, body, secret) == BodyOnlyVerify(headers, body, secret, TRUE)
ShopifyVerify(headers, body, secret) == BodyOnlyVerify(headers, body, secret, FALSE)
LinearVerify(headers, body, secret) == BodyOnlyVerify(headers, body, secret, FALSE)
DropboxVerify(headers, body, secret) == BodyOnlyVerify(headers, body, secret, FALSE)

(***************************************************************************)
(* Square signs the notification URL and the body; Twilio the URL and the  *)
(* form fields, stably sorted by name, and no body.  A field is a record   *)
(* [name, value] whose names are numbered in their byte order.             *)
(***************************************************************************)
SquareString(body, options) == <<The(options.request_url), body>>

SquareVerify(headers, body, secret, options) ==
    Require(headers, "sig")
    && Context(NonEmpty(options.request_url))
    && ParseSignature(Get(headers, "sig"), FALSE)
    && DecodeSecret(secret)
    && Match(Signs(Get(headers, "sig"), secret, SquareString(body, options)))

\* Wrong: the fields are signed in the order in which they arrived.
FieldsByNameAsSent(params) == params

\* By name, and fields of one name in the order in which they arrived.
SortsBefore(params, i, j) ==
    \/ params[i].name < params[j].name
    \/ params[i].name = params[j].name /\ i < j

\* The stable sort: the k-th place goes to the field that k - 1 others sort before.
FieldsByName(params) ==
    LET Rank(i) == Cardinality({j \in DOMAIN params : SortsBefore(params, j, i)})
    IN  [k \in DOMAIN params |-> params[CHOOSE i \in DOMAIN params : Rank(i) = k - 1]]

\* The code appends the names and the values to the URL with nothing between
\* them: {a: "bc"} and {ab: "c"} make one string there.  The list of the fields
\* that the model keeps in its place tells the two apart.
TwilioString(options) ==
    <<The(options.request_url), FieldsByName(The(options.form_params))>>

TwilioVerify(headers, secret, options) ==
    Require(headers, "sig")
    && Context(NonEmpty(options.request_url))
    && Context(options.form_params)
    && ParseSignature(Get(headers, "sig"), FALSE)
    && DecodeSecret(secret)
    && Match(Signs(Get(headers, "sig"), secret, TwilioString(options)))

(***************************************************************************)
(* A signature header and a timestamp header, HMAC over both and the body, *)
(* the signature behind a v0= prefix.                                      *)
(***************************************************************************)
TimestampedString(headers, body) == <<Get(headers, "ts").raw, body>>

\* Wrong: the timestamp is parsed and signed but never compared with the clock.
TimestampedVerifyAnyAge(headers, body, secret, options, now) ==
    Require(headers, "sig")
    && Require(headers, "ts")
    && ParseSignature(Get(headers, "sig"), TRUE)
    && ParseTimestamp(Get(headers, "ts"), "ts")
    && Match(Signs(Get(headers, "sig"), secret, TimestampedString(headers, body)))

TimestampedVerify(headers, body, secret, options, now) ==
    Require(headers, "sig")
    && Require(headers, "ts")
    && ParseSignature(Get(headers, "sig"), TRUE)
    && ParseTimestamp(Get(headers, "ts"), "ts")
    && Match(Signs(Get(headers, "sig"), secret, TimestampedString(headers, body)))
    && CheckReplay(Get(headers, "ts").secs, options, now)

SlackVerify(headers, body, secret, options, now) ==
    TimestampedVerify(headers, body, secret, options, now)
ZoomVerify(headers, body, secret, options, now) ==
    TimestampedVerify(headers, body, secret, options, now)

(***************************************************************************)
(* A caller's CustomScheme may have a prefix and may name a timestamp      *)
(* header.  Its signed_string is the caller's code: taken to bind the      *)
(* timestamp header it names and the body.                                 *)
(***************************************************************************)
CustomScheme(p) == [prefix |-> p = "CustomTimestamped", timestamp |-> p = "CustomTimestamped"]

CustomString(scheme, headers, body) ==
    IF scheme.timestamp THEN TimestampedString(headers, body) ELSE <<body>>

CustomVerify(scheme, headers, body, secret, options, now) ==
    LET IfTimestamped(check) == IF scheme.timestamp THEN check ELSE Ok
    IN  Require(headers, "sig")
        && IfTimestamped(Require(headers, "ts"))
        && ParseSignature(Get(headers, "sig"), scheme.prefix)
        && IfTimestamped(ParseTimestamp(Get(headers, "ts"), "ts"))
        && Match(Signs(Get(headers, "sig"), secret, CustomString(scheme, headers, body)))
        && IfTimestamped(CheckReplay(Get(headers, "ts").secs, options, now))

\* Wrong: the clock is asked about a timestamp nothing has authenticated.
DiscordVerifyReplayFirst(headers, body, secret, options, now) ==
    Require(headers, "sig")
    && Require(headers, "ts")
    && DecodeSecret(secret)
    && ParseSignature(Get(headers, "sig"), FALSE)
    && ParseTimestamp(Get(headers, "ts"), "ts")
    && CheckReplay(Get(headers, "ts").secs, options, now)
    && Match(Signs(Get(headers, "sig"), secret, TimestampedString(headers, body)))

\* Wrong: the timestamp is parsed only when it is needed, after the signature.
DiscordVerifyParsesLate(headers, body, secret, options, now) ==
    Require(headers, "sig")
    && Require(headers, "ts")
    && DecodeSecret(secret)
    && ParseSignature(Get(headers, "sig"), FALSE)
    && Match(Signs(Get(headers, "sig"), secret, TimestampedString(headers, body)))
    && ParseTimestamp(Get(headers, "ts"), "ts")
    && CheckReplay(Get(headers, "ts").secs, options, now)

\* Discord: the secret is a public key, decoded before any header is parsed.
DiscordVerify(headers, body, secret, options, now) ==
    Require(headers, "sig")
    && Require(headers, "ts")
    && DecodeSecret(secret)
    && ParseSignature(Get(headers, "sig"), FALSE)
    && ParseTimestamp(Get(headers, "ts"), "ts")
    && Match(Signs(Get(headers, "sig"), secret, TimestampedString(headers, body)))
    && CheckReplay(Get(headers, "ts").secs, options, now)

(***************************************************************************)
(* Headers that list elements [tag, value].  The loop over them stops at   *)
(* the first element in error; elements of other schemes are skipped.      *)
(***************************************************************************)
FirstError(outcomes) ==
    LET failed == {i \in DOMAIN outcomes : outcomes[i] # Ok}
    IN  IF failed = {} THEN Ok ELSE outcomes[Min(failed)]

Tagged(elems, tag) == {i \in DOMAIN elems : elems[i].tag = tag}
AnyTagged(elems, tag) ==
    IF Tagged(elems, tag) = {} THEN Error("MalformedHeader", "sig") ELSE Ok
Listed(elems) == {elems[i].value : i \in Tagged(elems, "v1")}

\* Stripe: one t= element, and v1= elements any of which may match.
StripeElement(elems, i) ==
    CASE elems[i].tag = "v1" -> ParseSignature(elems[i].value, FALSE)
      [] elems[i].tag = "t" /\ \E j \in DOMAIN elems : j < i /\ elems[j].tag = "t" ->
             Error("MalformedHeader", "sig")
      [] OTHER -> Ok

StripeTimestamp(elems) == elems[The(Tagged(elems, "t"))].value

StripeParse(elems) ==
    FirstError([i \in DOMAIN elems |-> StripeElement(elems, i)])
    && AnyTagged(elems, "t")
    && ParseTimestamp(StripeTimestamp(elems), "sig")
    && AnyTagged(elems, "v1")

StripeString(elems, body) == <<StripeTimestamp(elems).raw, body>>

StripeVerify(headers, body, secret, options, now) ==
    LET elems == Get(headers, "sig").elems
    IN  Require(headers, "sig")
        && StripeParse(elems)
        && Match(\E sig \in Listed(elems) : Signs(sig, secret, StripeString(elems, body)))
        && CheckReplay(StripeTimestamp(elems).secs, options, now)

\* Wrong: an element that does not decode is skipped like those of other schemes.
StandardElementSkips(elem) ==
    IF elem.tag = "v1" /\ elem.value.form = "blank" THEN ParseSignature(elem.value, FALSE) ELSE Ok

\* Standard Webhooks: v1 elements any of which may match, key decoded first.
StandardElement(elem) ==
    IF elem.tag = "v1" THEN ParseSignature(elem.value, FALSE) ELSE Ok

StandardParse(elems) ==
    FirstError([i \in DOMAIN elems |-> StandardElement(elems[i])])
    && AnyTagged(elems, "v1")

StandardString(headers, body) ==
    <<Get(headers, "id").raw, Get(headers, "ts").raw, body>>

StandardVerify(headers, body, secret, options, now) ==
    LET elems == Get(headers, "sig").elems
    IN  Require(headers, "id")
        && Require(headers, "sig")
        && Require(headers, "ts")
        && DecodeSecret(secret)
        && StandardParse(elems)
        && ParseTimestamp(Get(headers, "ts"), "ts")
        && Match(\E sig \in Listed(elems) : Signs(sig, secret, StandardString(headers, body)))
        && CheckReplay(Get(headers, "ts").secs, options, now)

(***************************************************************************)
(* Asymmetric schemes whose key comes from the options; the secret is      *)
(* ignored.  A decoded signature of the wrong length is found out only by  *)
(* the signature check, after the key was parsed.                          *)
(***************************************************************************)
ParseBase64(v) ==
    CASE v.form = "blank" -> Error("MalformedHeader", "sig")
      [] v.form = "undecodable" -> Error("BadEncoding", "none")
      [] OTHER -> Ok
WellSized(v) == IF v.form = "missized" THEN Error("BadEncoding", "none") ELSE Ok

SendGridVerify(headers, body, options, now) ==
    Require(headers, "sig")
    && Require(headers, "ts")
    && Context(options.verifying_material)
    && MaterialOfKind(options.verifying_material, "EcdsaP256PublicKey")
    && ParseBase64(Get(headers, "sig"))
    && ParseTimestamp(Get(headers, "ts"), "ts")
    && MaterialParses(options.verifying_material)
    && WellSized(Get(headers, "sig"))
    && Match(Signs(Get(headers, "sig"), The(options.verifying_material).key,
                   TimestampedString(headers, body)))
    && CheckReplay(Get(headers, "ts").secs, options, now)

\* The checksum of the body PayPal signs in its stead, as a free symbol.
Crc32(body) == [crc32 |-> body]

PayPalString(headers, body, options) ==
    <<Get(headers, "id").raw, Get(headers, "ts").raw, The(options.webhook_id), Crc32(body)>>

CheckAuthAlgo(v) ==
    IF v.form = "SHA256withRSA" THEN Ok ELSE Error("MalformedHeader", "algo")

PayPalVerify(headers, body, options, now) ==
    Require(headers, "id")
    && Require(headers, "ts")
    && Require(headers, "sig")
    && Require(headers, "cert")
    && Require(headers, "algo")
    && Context(options.webhook_id)
    && Context(options.verifying_material)
    && MaterialOfKind(options.verifying_material, "X509Certificate")
    && MaterialParses(options.verifying_material)
    && CheckAuthAlgo(Get(headers, "algo"))
    && ParseBase64(Get(headers, "sig"))
    && ParseRfc3339(Get(headers, "ts"), "ts")
    && WellSized(Get(headers, "sig"))
    && Match(Signs(Get(headers, "sig"), The(options.verifying_material).key,
                   PayPalString(headers, body, options)))
    && CheckReplay(Get(headers, "ts").secs, options, now)

(***************************************************************************)
(* verify(): the dispatch.  A provider compiled out fails closed.          *)
(***************************************************************************)
Verify(p, headers, body, secret, options, now) ==
    CASE p = "GitHub" -> GitHubVerify(headers, body, secret)
      [] p = "Shopify" -> ShopifyVerify(headers, body, secret)
      [] p = "Linear" -> LinearVerify(headers, body, secret)
      [] p = "Dropbox" -> DropboxVerify(headers, body, secret)
      [] p = "Square" -> SquareVerify(headers, body, secret, options)
      [] p = "Twilio" -> TwilioVerify(headers, secret, options)
      [] p = "Slack" -> SlackVerify(headers, body, secret, options, now)
      [] p = "Zoom" -> ZoomVerify(headers, body, secret, options, now)
      [] p \in Custom ->
             CustomVerify(CustomScheme(p), headers, body, secret, options, now)
      [] p = "Discord" -> DiscordVerify(headers, body, secret, options, now)
      [] p = "Stripe" -> StripeVerify(headers, body, secret, options, now)
      [] p = "StandardWebhooks" -> StandardVerify(headers, body, secret, options, now)
      [] p = "PayPal" /\ "paypal" \in Features -> PayPalVerify(headers, body, options, now)
      [] p = "SendGrid" /\ "sendgrid" \in Features -> SendGridVerify(headers, body, options, now)
      [] OTHER -> Error("UnsupportedProvider", "none")
=============================================================================
