----------------------------- MODULE Authenticity -----------------------------
(***************************************************************************)
(* What the properties mean by a genuine and by a fresh request: said from *)
(* the point of view of the sender, with no reference to the order in      *)
(* which the code checks anything.  Nothing here is a model of code.       *)
(***************************************************************************)
EXTENDS Providers

PublicKey == {"PayPal", "SendGrid"}     \* the key is in the options, not the secret
Listing == {"Stripe", "StandardWebhooks"}
Timestamped == {"Stripe", "Slack", "Zoom", "Discord", "StandardWebhooks", "CustomTimestamped"}
                   \cup PublicKey

\* The value of the header that carries the timestamp (Stripe's is an element).
Stamp(p, headers) ==
    IF p = "Stripe" THEN StripeTimestamp(Get(headers, "sig").elems) ELSE Get(headers, "ts")

\* The string the sender signs.
Covered(p, headers, body, options) ==
    CASE p \in BodyOnly \cup {"Custom"} -> <<body>>
      [] p = "Square" -> SquareString(body, options)
      [] p = "Twilio" -> TwilioString(options)
      [] p = "PayPal" -> PayPalString(headers, body, options)
      [] p = "StandardWebhooks" -> StandardString(headers, body)
      [] OTHER -> <<Stamp(p, headers).raw, body>>

SigningKey(p, secret, options) ==
    IF p \in PublicKey THEN The(options.verifying_material).key ELSE secret

Offered(p, headers) ==
    IF p \in Listing THEN Listed(Get(headers, "sig").elems) ELSE {Get(headers, "sig")}

\* One of the signatures offered was made with the key, over this very request.
Genuine(p, headers, body, secret, options) ==
    \E sig \in Offered(p, headers) :
        Signs(sig, SigningKey(p, secret, options), Covered(p, headers, body, options))

\* The signed timestamp is within the window of the instant t.
Fresh(p, headers, options, t) ==
    p \in Timestamped =>
        \A limit \in options.max_age :
            t - limit <= Stamp(p, headers).secs /\ Stamp(p, headers).secs <= t + limit

(***************************************************************************)
(* Duplicated headers.  A reading of a request keeps one of the values of  *)
(* each header that carries signing material: what some other component,   *)
(* looking at the last value or at any, would take the request to say.     *)
(***************************************************************************)
SigningRoles(p) ==
    {"sig"} \cup (IF p \in Timestamped \ {"Stripe"} THEN {"ts"} ELSE {})
            \cup (IF p \in {"StandardWebhooks", "PayPal"} THEN {"id"} ELSE {})
            \cup (IF p = "PayPal" THEN {"cert", "algo"} ELSE {})

\* A header is there and says nothing: no text, or a list of no elements.
ArrivesEmpty(p, headers, h) ==
    /\ Has(headers, h)
    /\ IF p \in Listing /\ h = "sig" THEN Get(headers, h).elems = <<>>
       ELSE Get(headers, h).form = "blank"

\* Every header with signing material arrived as a sequence of values.
ArrivesInOrder(p, headers) ==
    \A h \in SigningRoles(p) : h \in DOMAIN headers /\ headers[h] \in Seq(Range(headers[h]))

Picks(p, headers) ==
    {pick \in [SigningRoles(p) -> UNION {DOMAIN headers[h] : h \in SigningRoles(p)}] :
        \A h \in SigningRoles(p) : pick[h] \in DOMAIN headers[h]}

Reading(headers, pick) ==
    [h \in DOMAIN headers |->
        IF h \in DOMAIN pick THEN <<headers[h][pick[h]]>> ELSE headers[h]]

\* A provider the crate was compiled without has no signing headers in it.
Supported(p) ==
    /\ p \in Providers
    /\ p = "PayPal" => "paypal" \in Features
    /\ p = "SendGrid" => "sendgrid" \in Features

Ambiguous(p, headers) ==
    /\ Supported(p)
    /\ \E h \in SigningRoles(p) : \E i, j \in DOMAIN headers[h] : headers[h][i] # headers[h][j]

\* However it is read, the request is genuine, and fresh at the instant t.
Acceptable(p, headers, body, secret, options, t) ==
    /\ \A h \in SigningRoles(p) : headers[h] # <<>>
    /\ \A pick \in Picks(p, headers) :
        LET reading == Reading(headers, pick)
        IN  /\ \A h \in SigningRoles(p) : Has(reading, h)
            /\ Genuine(p, reading, body, secret, options)
            /\ Fresh(p, reading, options, t)

(***************************************************************************)
(* Whose fault a refusal is.  The receiver is set up for a provider when   *)
(* the crate has its scheme, the key is one and the context it signs is    *)
(* there; a request is in form when each header is as the provider writes  *)
(* it.  Genuineness says nothing of either: one good signature in a list   *)
(* with a broken one is genuine, and out of form.                          *)
(***************************************************************************)
KeyKind(p) == IF p = "PayPal" THEN "X509Certificate" ELSE "EcdsaP256PublicKey"

SetUp(p, secret, options) ==
    /\ Supported(p)
    /\ p \in {"Square", "Twilio", "Discord", "StandardWebhooks"} => secret \notin Garbled
    /\ p \in {"Square", "Twilio"} => \E url \in options.request_url : url # ""
    /\ p = "Twilio" => options.form_params # {}
    /\ p = "PayPal" => options.webhook_id # {}
    /\ p \in PublicKey =>
        /\ options.verifying_material # {}
        /\ The(options.verifying_material).kind = KeyKind(p)
        /\ The(options.verifying_material).key \notin Garbled

InstantInForm(p, v) ==
    IF p = "PayPal" THEN v.form = "rfc3339" /\ v.secs \in Nat
    ELSE v.form = "digits" /\ v.secs \in 0 .. U64Max

ListInForm(p, elems) ==
    /\ elems \in Seq(Range(elems))
    /\ \A v \in Listed(elems) : v.form = "signature"
    /\ p = "Stripe" => \E i \in DOMAIN elems : Tagged(elems, "t") = {i}

\* Every signature and timestamp the request holds can be read, as one of each
\* kind or, in a list, as one timestamp and any number of signatures.
Readable(p, headers) ==
    /\ \A v \in Offered(p, headers) : v.form \notin {"blank", "undecodable", "missized"}
    /\ p = "Stripe" => LET elems == Get(headers, "sig").elems
                       IN  \E i \in DOMAIN elems : Tagged(elems, "t") = {i}
    /\ p \in Timestamped => InstantInForm(p, Stamp(p, headers))
    /\ p = "PayPal" => Get(headers, "algo").form = "SHA256withRSA"

InForm(p, headers) ==
    /\ p \in Listing => ListInForm(p, Get(headers, "sig").elems)
    /\ p \in Timestamped => InstantInForm(p, Stamp(p, headers))
    /\ p = "PayPal" => Get(headers, "algo").form = "SHA256withRSA"

\* Neither the receiver nor the form of the request stands in the way.
Faultless(p, headers, secret, options) == SetUp(p, secret, options) /\ InForm(p, headers)
=============================================================================
