---------------------------- MODULE GateSoundness ----------------------------
(***************************************************************************)
(* What both adapters rest on: once no signature header has differing      *)
(* values, an Ok of verify() holds of every reading of the request.  The   *)
(* argument has two halves: signature_header_names() names every header    *)
(* that carries signing material of a scheme (NamesCoverRoles), and a      *)
(* scheme that succeeds has looked each of them up (RolesPresent).  And    *)
(* they rest on the converse: what is acceptable however it is read is not *)
(* refused at a receiver that is set up, if it is in form.                 *)
(***************************************************************************)
EXTENDS VerifySoundness

\* A header that arrived more than once arrived with one value.
Unambiguous(p, headers) ==
    \A h \in SigningRoles(p) : \A j \in DOMAIN headers[h] : headers[h][j] = headers[h][1]

\* The code's check passed: no name it lists has differing values.
NoConflict(p, headers) ==
    LET names == SignatureHeaderNames(p)
    IN  \A k \in DOMAIN names :
            \A j \in DOMAIN headers[names[k]] : headers[names[k]][j] = headers[names[k]][1]

LEMMA RequireOk == \A headers, h : Require(headers, h) = Ok <=> Has(headers, h)
BY DEF Require, Error, Ok

\* verify() accepts nothing for a provider it has no scheme for.
LEMMA Accepting ==
    ASSUME NEW p, NEW headers, NEW body, NEW s, NEW options, NEW now,
           Verify(p, headers, body, s, options, now) = Ok
    PROVE  /\ p \in Providers
           /\ p = "PayPal" => "paypal" \in Features
           /\ p = "SendGrid" => "sendgrid" \in Features
<1>1. p \in Providers
  BY DEF Verify, Providers, BodyOnly, Custom, Error, Ok
<1>2. p = "PayPal" => "paypal" \in Features
  BY DEF Verify, Custom, Error, Ok
<1>3. p = "SendGrid" => "sendgrid" \in Features
  BY DEF Verify, Custom, Error, Ok
<1> QED BY <1>1, <1>2, <1>3

\* Every header with signing material is one the adapters compare.
LEMMA NamesCoverRoles ==
    ASSUME NEW p \in Providers, NEW h \in SigningRoles(p),
           p = "PayPal" => "paypal" \in Features,
           p = "SendGrid" => "sendgrid" \in Features
    PROVE  \E k \in DOMAIN SignatureHeaderNames(p) : SignatureHeaderNames(p)[k] = h
<1> USE DEF SigningRoles, Timestamped, PublicKey
<1>1. CASE p \in {"Stripe", "Square", "Twilio", "Custom"} \cup BodyOnly
  <2>1. SignatureHeaderNames(p) = <<"sig">> BY <1>1 DEF SignatureHeaderNames, BodyOnly
  <2>2. h = "sig" BY <1>1 DEF BodyOnly
  <2> QED BY <2>1, <2>2
<1>2. CASE p \in {"Slack", "Zoom", "Discord", "CustomTimestamped", "SendGrid"}
  <2>1. SignatureHeaderNames(p) = <<"sig", "ts">> BY <1>2 DEF SignatureHeaderNames, BodyOnly
  <2>2. h \in {"sig", "ts"} BY <1>2
  <2> QED BY <2>1, <2>2
<1>3. CASE p = "StandardWebhooks"
  <2>1. SignatureHeaderNames(p) = <<"id", "ts", "sig">>
    BY <1>3 DEF SignatureHeaderNames, BodyOnly
  <2>2. h \in {"id", "ts", "sig"} BY <1>3
  <2> QED BY <2>1, <2>2
<1>4. CASE p = "PayPal"
  <2>1. SignatureHeaderNames(p) = <<"id", "ts", "sig", "cert", "algo">>
    BY <1>4 DEF SignatureHeaderNames, BodyOnly
  <2>2. h \in {"id", "ts", "sig", "cert", "algo"} BY <1>4
  <2> QED BY <2>1, <2>2
<1> QED BY <1>1, <1>2, <1>3, <1>4 DEF Providers, Custom

\* They compare no other, and none for a provider that is compiled out.
LEMMA NamesAreRoles ==
    ASSUME NEW p \in Providers, NEW k \in DOMAIN SignatureHeaderNames(p)
    PROVE  Supported(p) /\ SignatureHeaderNames(p)[k] \in SigningRoles(p)
<1> USE DEF SigningRoles, Timestamped, PublicKey, Supported
<1>1. CASE p \in {"Stripe", "Square", "Twilio", "Custom"} \cup BodyOnly
  <2>1. SignatureHeaderNames(p) = <<"sig">> BY <1>1 DEF SignatureHeaderNames, BodyOnly
  <2> QED BY <1>1, <2>1 DEF BodyOnly
<1>2. CASE p \in {"Slack", "Zoom", "Discord", "CustomTimestamped"}
  <2>1. SignatureHeaderNames(p) = <<"sig", "ts">> BY <1>2 DEF SignatureHeaderNames, BodyOnly
  <2> QED BY <1>2, <2>1
<1>3. CASE p = "StandardWebhooks"
  <2>1. SignatureHeaderNames(p) = <<"id", "ts", "sig">>
    BY <1>3 DEF SignatureHeaderNames, BodyOnly
  <2> QED BY <1>3, <2>1
<1>4. CASE p = "SendGrid"
  <2>1. SignatureHeaderNames(p) = IF "sendgrid" \in Features THEN <<"sig", "ts">> ELSE <<>>
    BY <1>4 DEF SignatureHeaderNames, BodyOnly
  <2>2. CASE "sendgrid" \in Features BY <1>4, <2>1, <2>2
  <2>3. CASE "sendgrid" \notin Features BY <2>1, <2>3
  <2> QED BY <2>2, <2>3
<1>5. CASE p = "PayPal"
  <2>1. SignatureHeaderNames(p) = IF "paypal" \in Features
                                  THEN <<"id", "ts", "sig", "cert", "algo">> ELSE <<>>
    BY <1>5 DEF SignatureHeaderNames, BodyOnly
  <2>2. CASE "paypal" \in Features
    <3>1. SignatureHeaderNames(p)[k] \in {"id", "ts", "sig", "cert", "algo"} BY <2>1, <2>2
    <3> QED BY <1>5, <2>2, <3>1
  <2>3. CASE "paypal" \notin Features BY <2>1, <2>3
  <2> QED BY <2>2, <2>3
<1> QED BY <1>1, <1>2, <1>3, <1>4, <1>5 DEF Providers, Custom

\* A scheme that succeeds has found every header with signing material.
LEMMA RolesPresent ==
    ASSUME NEW p, NEW headers, NEW body, NEW s, NEW options, NEW now,
           Verify(p, headers, body, s, options, now) = Ok
    PROVE  \A h \in SigningRoles(p) : Has(headers, h)
<1> USE DEF SigningRoles, Timestamped, PublicKey
<1>1. CASE p \in BodyOnly
  <2>1. \E prefixed \in BOOLEAN : BodyOnlyVerify(headers, body, s, prefixed) = Ok
    BY <1>1 DEF Verify, GitHubVerify, ShopifyVerify, LinearVerify, DropboxVerify, Custom, BodyOnly
  <2>2. Has(headers, "sig") BY <2>1, ChainOk, RequireOk DEF BodyOnlyVerify
  <2> QED BY <1>1, <2>2 DEF BodyOnly
<1>2. CASE p = "Square"
  <2>1. SquareVerify(headers, body, s, options) = Ok BY <1>2 DEF Verify, Custom
  <2> DEFINE found == Require(headers, "sig")
             context == Context(NonEmpty(options.request_url))
             parsed == ParseSignature(Get(headers, "sig"), FALSE)
             decoded == DecodeSecret(s)
             signed == Match(Signs(Get(headers, "sig"), s, SquareString(body, options)))
  <2>2. (found && context && parsed && decoded && signed) = Ok BY <2>1 DEF SquareVerify
  <2>3. found = Ok
    <3> HIDE DEF found, context, parsed, decoded, signed
    <3> QED BY <2>2, ChainOk
  <2>4. Has(headers, "sig") BY <2>3, RequireOk
  <2> QED BY <1>2, <2>4
<1>3. CASE p = "Twilio"
  <2>1. TwilioVerify(headers, s, options) = Ok BY <1>3 DEF Verify, Custom
  <2> DEFINE found == Require(headers, "sig")
             url == Context(NonEmpty(options.request_url))
             form == Context(options.form_params)
             parsed == ParseSignature(Get(headers, "sig"), FALSE)
             decoded == DecodeSecret(s)
             signed == Match(Signs(Get(headers, "sig"), s, TwilioString(options)))
  <2>2. (found && url && form && parsed && decoded && signed) = Ok BY <2>1 DEF TwilioVerify
  <2>3. found = Ok
    <3> HIDE DEF found, url, form, parsed, decoded, signed
    <3> QED BY <2>2, ChainOk
  <2>4. Has(headers, "sig") BY <2>3, RequireOk
  <2> QED BY <1>3, <2>4
<1>4. CASE p \in {"Slack", "Zoom"}
  <2>1. TimestampedVerify(headers, body, s, options, now) = Ok
    BY <1>4 DEF Verify, SlackVerify, ZoomVerify, Custom
  <2> DEFINE found == Require(headers, "sig")
             stamped == Require(headers, "ts")
             parsed == ParseSignature(Get(headers, "sig"), TRUE)
             timed == ParseTimestamp(Get(headers, "ts"), "ts")
             signed == Match(Signs(Get(headers, "sig"), s, TimestampedString(headers, body)))
             fresh == CheckReplay(Get(headers, "ts").secs, options, now)
  <2>2. (found && stamped && parsed && timed && signed && fresh) = Ok
    BY <2>1 DEF TimestampedVerify
  <2>3. found = Ok /\ stamped = Ok
    <3> HIDE DEF found, stamped, parsed, timed, signed, fresh
    <3> QED BY <2>2, ChainOk
  <2>4. Has(headers, "sig") /\ Has(headers, "ts") BY <2>3, RequireOk
  <2> QED BY <1>4, <2>4
<1>5. CASE p \in Custom
  <2>1. CustomVerify(CustomScheme(p), headers, body, s, options, now) = Ok
    BY <1>5 DEF Verify, Custom
  <2>2. Has(headers, "sig") BY <2>1, ChainOk, RequireOk DEF CustomVerify
  <2>3. p = "CustomTimestamped" => Has(headers, "ts")
    <3> SUFFICES ASSUME p = "CustomTimestamped" PROVE Has(headers, "ts") OBVIOUS
    <3>1. CustomScheme(p).timestamp = TRUE BY DEF CustomScheme
    <3> QED BY <2>1, <3>1, ChainOk, RequireOk DEF CustomVerify
  <2> QED BY <1>5, <2>2, <2>3 DEF Custom
<1>6. CASE p = "Discord"
  <2>1. DiscordVerify(headers, body, s, options, now) = Ok BY <1>6 DEF Verify, Custom
  <2> DEFINE found == Require(headers, "sig")
             stamped == Require(headers, "ts")
             decoded == DecodeSecret(s)
             parsed == ParseSignature(Get(headers, "sig"), FALSE)
             timed == ParseTimestamp(Get(headers, "ts"), "ts")
             signed == Match(Signs(Get(headers, "sig"), s, TimestampedString(headers, body)))
             fresh == CheckReplay(Get(headers, "ts").secs, options, now)
  <2>2. (found && stamped && decoded && parsed && timed && signed && fresh) = Ok
    BY <2>1 DEF DiscordVerify
  <2>3. found = Ok /\ stamped = Ok
    <3> HIDE DEF found, stamped, decoded, parsed, timed, signed, fresh
    <3> QED BY <2>2, ChainOk
  <2>4. Has(headers, "sig") /\ Has(headers, "ts") BY <2>3, RequireOk
  <2> QED BY <1>6, <2>4
<1>7. CASE p = "Stripe"
  <2>1. StripeVerify(headers, body, s, options, now) = Ok BY <1>7 DEF Verify, Custom
  <2> DEFINE elems == Get(headers, "sig").elems
             found == Require(headers, "sig")
             parsed == StripeParse(elems)
             signed == Match(\E v \in Listed(elems) : Signs(v, s, StripeString(elems, body)))
             fresh == CheckReplay(StripeTimestamp(elems).secs, options, now)
  <2>2. (found && parsed && signed && fresh) = Ok BY <2>1 DEF StripeVerify
  <2>3. found = Ok
    <3> HIDE DEF found, parsed, signed, fresh
    <3> QED BY <2>2, ChainOk
  <2>4. Has(headers, "sig") BY <2>3, RequireOk
  <2> QED BY <1>7, <2>4
<1>8. CASE p = "StandardWebhooks"
  <2>1. StandardVerify(headers, body, s, options, now) = Ok BY <1>8 DEF Verify, Custom
  <2> DEFINE elems == Get(headers, "sig").elems
             named == Require(headers, "id")
             found == Require(headers, "sig")
             stamped == Require(headers, "ts")
             decoded == DecodeSecret(s)
             parsed == StandardParse(elems)
             timed == ParseTimestamp(Get(headers, "ts"), "ts")
             signed == Match(\E v \in Listed(elems) : Signs(v, s, StandardString(headers, body)))
             fresh == CheckReplay(Get(headers, "ts").secs, options, now)
  <2>2. (named && found && stamped && decoded && parsed && timed && signed && fresh) = Ok
    BY <2>1 DEF StandardVerify
  <2>3. named = Ok /\ found = Ok /\ stamped = Ok
    <3> HIDE DEF named, found, stamped, decoded, parsed, timed, signed, fresh
    <3> QED BY <2>2, ChainOk
  <2>4. Has(headers, "id") /\ Has(headers, "sig") /\ Has(headers, "ts") BY <2>3, RequireOk
  <2> QED BY <1>8, <2>4
<1>9. CASE p = "PayPal"
  <2>1. PayPalVerify(headers, body, options, now) = Ok BY <1>9 DEF Verify, Custom, Error, Ok
  <2>2. /\ Has(headers, "id") /\ Has(headers, "ts") /\ Has(headers, "sig")
        /\ Has(headers, "cert") /\ Has(headers, "algo")
    BY <2>1, ChainOk, RequireOk DEF PayPalVerify
  <2> QED BY <1>9, <2>2
<1>10. CASE p = "SendGrid"
  <2>1. SendGridVerify(headers, body, options, now) = Ok BY <1>10 DEF Verify, Custom, Error, Ok
  <2>2. Has(headers, "sig") /\ Has(headers, "ts")
    BY <2>1, ChainOk, RequireOk DEF SendGridVerify
  <2> QED BY <1>10, <2>2
<1> QED
  BY <1>1, <1>2, <1>3, <1>4, <1>5, <1>6, <1>7, <1>8, <1>9, <1>10, Accepting DEF Providers

(***************************************************************************)
(* Readings.                                                               *)
(***************************************************************************)

\* What genuineness and freshness look at is the same in two sets of headers
\* with the same values of the headers that carry signing material.
LEMMA SameSigned ==
    ASSUME NEW p \in Providers, NEW headers, NEW reading, NEW body, NEW s, NEW options, NEW t,
           \A h \in SigningRoles(p) : Get(reading, h) = Get(headers, h),
           Genuine(p, headers, body, s, options),
           Fresh(p, headers, options, t)
    PROVE  /\ Genuine(p, reading, body, s, options)
           /\ Fresh(p, reading, options, t)
<1>1. Get(reading, "sig") = Get(headers, "sig") BY DEF SigningRoles
<1>2. p \in Timestamped => Stamp(p, reading) = Stamp(p, headers)
  <2>1. CASE p = "Stripe" BY <1>1, <2>1 DEF Stamp
  <2>2. CASE p # "Stripe" BY <2>2 DEF Stamp, SigningRoles
  <2> QED BY <2>1, <2>2
<1>3. Offered(p, reading) = Offered(p, headers) BY <1>1 DEF Offered
<1>4. Covered(p, reading, body, options) = Covered(p, headers, body, options)
  <2>1. CASE p \in BodyOnly \cup {"Custom", "Square", "Twilio"} BY <2>1 DEF Covered, BodyOnly
  <2>2. CASE p = "PayPal"
    <3>1. Get(reading, "id") = Get(headers, "id") /\ Get(reading, "ts") = Get(headers, "ts")
      BY <2>2 DEF SigningRoles, Timestamped, PublicKey
    <3>2. PayPalString(reading, body, options) = PayPalString(headers, body, options)
      BY <3>1 DEF PayPalString
    <3> QED BY <2>2, <3>2 DEF Covered, BodyOnly
  <2>3. CASE p = "StandardWebhooks"
    <3>1. Get(reading, "id") = Get(headers, "id") /\ Get(reading, "ts") = Get(headers, "ts")
      BY <2>3 DEF SigningRoles, Timestamped
    <3>2. StandardString(reading, body) = StandardString(headers, body)
      BY <3>1 DEF StandardString
    <3> QED BY <2>3, <3>2 DEF Covered, BodyOnly
  <2>4. CASE p \in {"Stripe", "Slack", "Zoom", "Discord", "CustomTimestamped", "SendGrid"}
    <3>1. p \in Timestamped BY <2>4 DEF Timestamped, PublicKey
    <3> QED BY <1>2, <2>4, <3>1 DEF Covered, BodyOnly
  <2> QED BY <2>1, <2>2, <2>3, <2>4 DEF Providers, Custom
<1> QED BY <1>2, <1>3, <1>4 DEF Genuine, Fresh

\* What verify() accepts, of a request without conflicting signature headers,
\* is genuine and fresh however the request is read.
THEOREM EveryReading ==
    ASSUME NEW p, NEW headers, NEW body, NEW s, NEW options, NEW now \in Nat,
           options.max_age \subseteq Nat, SigningRoles(p) \subseteq DOMAIN headers,
           Verify(p, headers, body, s, options, now) = Ok,
           NoConflict(p, headers)
    PROVE  Acceptable(p, headers, body, s, options, now)
<1>1. /\ p \in Providers
      /\ p = "PayPal" => "paypal" \in Features
      /\ p = "SendGrid" => "sendgrid" \in Features
  BY Accepting
<1>2. Unambiguous(p, headers)
  <2> SUFFICES ASSUME NEW h \in SigningRoles(p), NEW j \in DOMAIN headers[h]
               PROVE  headers[h][j] = headers[h][1]
    BY DEF Unambiguous
  <2>1. PICK k \in DOMAIN SignatureHeaderNames(p) : SignatureHeaderNames(p)[k] = h
    BY <1>1, NamesCoverRoles
  <2> QED BY <2>1 DEF NoConflict
<1>3. \A h \in SigningRoles(p) : Has(headers, h) BY RolesPresent
<1>4. Genuine(p, headers, body, s, options) /\ Fresh(p, headers, options, now)
  BY VerifySound
<1>5. ASSUME NEW pick \in Picks(p, headers)
      PROVE  /\ \A h \in SigningRoles(p) : Has(Reading(headers, pick), h)
             /\ Genuine(p, Reading(headers, pick), body, s, options)
             /\ Fresh(p, Reading(headers, pick), options, now)
  <2> DEFINE reading == Reading(headers, pick)
  <2>1. /\ DOMAIN pick = SigningRoles(p)
        /\ \A h \in SigningRoles(p) : pick[h] \in DOMAIN headers[h]
    BY <1>5 DEF Picks
  <2>2. ASSUME NEW h \in SigningRoles(p)
        PROVE  reading[h] = <<headers[h][1]>>
    <3>1. reading[h] = <<headers[h][pick[h]]>> BY <2>1 DEF Reading
    <3>2. headers[h][pick[h]] = headers[h][1] BY <1>2, <2>1 DEF Unambiguous
    <3> QED BY <3>1, <3>2
  <2> HIDE DEF reading
  <2>3. \A h \in SigningRoles(p) : Get(reading, h) = Get(headers, h) /\ Has(reading, h)
    BY <1>3, <2>2 DEF Get, Has
  <2>4. Genuine(p, reading, body, s, options) /\ Fresh(p, reading, options, now)
    BY <1>1, <1>4, <2>3, SameSigned
  <2> QED BY <2>3, <2>4 DEF reading
<1> QED BY <1>3, <1>5 DEF Acceptable, Has

(***************************************************************************)
(* The converse.                                                           *)
(***************************************************************************)

\* A request that is acceptable however it is read is so as verify() reads it,
\* which takes the first value of each header.
LEMMA FirstReading ==
    ASSUME NEW p \in Providers, NEW headers, NEW body, NEW s, NEW options, NEW t,
           ArrivesInOrder(p, headers), Acceptable(p, headers, body, s, options, t)
    PROVE  /\ \A h \in SigningRoles(p) : Has(headers, h)
           /\ Genuine(p, headers, body, s, options)
           /\ Fresh(p, headers, options, t)
<1> DEFINE pick == [h \in SigningRoles(p) |-> 1]
           reading == Reading(headers, pick)
<1>1. \A h \in SigningRoles(p) : headers[h] # <<>> /\ 1 \in DOMAIN headers[h]
  BY DEF Acceptable, ArrivesInOrder
<1>2. pick \in Picks(p, headers) BY <1>1 DEF Picks
<1>3. /\ \A h \in SigningRoles(p) : Has(reading, h)
      /\ Genuine(p, reading, body, s, options)
      /\ Fresh(p, reading, options, t)
  BY <1>2 DEF Acceptable
<1>4. \A h \in SigningRoles(p) : reading[h] = <<headers[h][1]>>
  BY DEF Reading, ArrivesInOrder
<1> HIDE DEF reading
<1>5. \A h \in SigningRoles(p) : Get(headers, h) = Get(reading, h) BY <1>4 DEF Get
<1>6. \A h \in SigningRoles(p) : Has(headers, h) BY <1>1, <1>3, <1>4 DEF Has
<1> QED BY <1>3, <1>5, <1>6, SameSigned

\* No acceptable request is refused for a reason that is not the receiver's or
\* the form of its headers.
THEOREM AcceptableIsAccepted ==
    ASSUME NEW p, NEW headers, NEW body, NEW s, NEW options, NEW now \in Nat,
           options.max_age \subseteq Nat, ArrivesInOrder(p, headers),
           Acceptable(p, headers, body, s, options, now), Faultless(p, headers, s, options)
    PROVE  Verify(p, headers, body, s, options, now) = Ok
<1>1. p \in Providers BY DEF Faultless, SetUp, Supported
<1> QED BY <1>1, FirstReading, VerifyComplete

\* The check for conflicts finds exactly the ambiguous requests.
LEMMA ConflictIsAmbiguity ==
    ASSUME NEW p \in Providers, NEW headers, ArrivesInOrder(p, headers)
    PROVE  NoConflict(p, headers) <=> ~Ambiguous(p, headers)
<1> DEFINE names == SignatureHeaderNames(p)
<1>1. ASSUME NoConflict(p, headers), Supported(p),
             NEW h \in SigningRoles(p), NEW i \in DOMAIN headers[h], NEW j \in DOMAIN headers[h]
      PROVE  headers[h][i] = headers[h][j]
  <2>1. PICK k \in DOMAIN names : names[k] = h BY <1>1, NamesCoverRoles DEF Supported
  <2>2. headers[h][i] = headers[h][1] /\ headers[h][j] = headers[h][1]
    BY <1>1, <2>1 DEF NoConflict
  <2> QED BY <2>2
<1>2. ASSUME NEW k \in DOMAIN names PROVE Supported(p) /\ names[k] \in SigningRoles(p)
  BY <1>2, NamesAreRoles
<1>3. ASSUME ~Ambiguous(p, headers), NEW k \in DOMAIN names, NEW j \in DOMAIN headers[names[k]]
      PROVE  headers[names[k]][j] = headers[names[k]][1]
  <2> DEFINE h == names[k]
  <2>1. Supported(p) /\ h \in SigningRoles(p) BY <1>2
  <2> HIDE DEF names, h
  <2>2. j \in DOMAIN headers[h] BY <1>3 DEF h
  <2>3. 1 \in DOMAIN headers[h] BY <2>1, <2>2 DEF ArrivesInOrder
  <2>4. headers[h][j] = headers[h][1] BY <1>3, <2>1, <2>2, <2>3 DEF Ambiguous
  <2> QED BY <2>4 DEF h
<1> QED BY <1>1, <1>3 DEF NoConflict, Ambiguous
=============================================================================
