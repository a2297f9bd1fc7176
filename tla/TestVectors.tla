----------------------------- MODULE TestVectors -----------------------------
(***************************************************************************)
(* The crate's own unit tests as data: each a call of verify() or of       *)
(* verify_any(), and the outcome its assertion says the call has.  The     *)
(* sender is written here apart from the verifier, as the signatures of    *)
(* the tests were computed apart from the crate, so that the model of the  *)
(* verifier is held against them.                                          *)
(*                                                                         *)
(* Every clock shows T0: where a test moves its clock, its vector moves    *)
(* the timestamp.  "k1" is the secret of a test, "k2" any other, "bad" and *)
(* "bad2" cannot be decoded.  Tests that differ only in the spelling of a  *)
(* header name, or in which garbage fails to decode, are one vector.       *)
(***************************************************************************)
EXTENDS Authenticity

T0 == 40000000
Body == "body"
Bodies == {Body, "", "unicode"}
NoHeaders == [h \in {"sig", "ts", "id", "cert", "algo"} |-> <<>>]

Stale(skew) == [kind |-> "TimestampOutOfTolerance", at |-> "none", skew |-> skew]
Missing(h) == Error("MissingHeader", h)
Malformed(h) == Error("MalformedHeader", h)
BadEncoding == Error("BadEncoding", "none")

By(key, msg) == [form |-> "signature", key |-> key, msg |-> msg]
Flipped == By("none", <<>>)
Junk(form) == [form |-> form, key |-> "none", msg |-> <<>>]
Text(raw) == [form |-> "text", raw |-> raw]
TimeOf(p, secs) ==
    [form |-> IF p = "PayPal" THEN "rfc3339" ELSE "digits", raw |-> ToString(secs), secs |-> secs]
BadTime(form) == [form |-> form, raw |-> form, secs |-> 0]

(***************************************************************************)
(* The sender and the options of a test's happy path.                      *)
(***************************************************************************)
Key(p) == IF p \in PublicKey THEN "public" ELSE "k1"

Field(name, value) == [name |-> name, value |-> value]
Params == <<Field(1, "a"), Field(5, "b"), Field(4, "c"), Field(2, "c"), Field(3, "d")>>
SortedParams == <<Field(1, "a"), Field(2, "c"), Field(3, "d"), Field(4, "c"), Field(5, "b")>>

Said(p, time, body) ==
    CASE p \in BodyOnly \cup {"Custom"} -> <<body>>
      [] p = "Square" -> <<"url", body>>
      [] p = "Twilio" -> <<"url", SortedParams>>
      [] p = "StandardWebhooks" -> <<"id", time.raw, body>>
      [] p = "PayPal" -> <<"id", time.raw, "hook", [crc32 |-> body]>>
      [] OTHER -> <<time.raw, body>>
Signature(p, time, body) == By(Key(p), Said(p, time, body))

V1(sigs) == [i \in DOMAIN sigs |-> [tag |-> "v1", value |-> sigs[i]]]
List(elems) == <<[form |-> "list", elems |-> elems]>>
Sent(p, time, sigs) ==
    CASE p = "Stripe" ->
            [NoHeaders EXCEPT !["sig"] = List(<<[tag |-> "t", value |-> time]>> \o V1(sigs))]
      [] p = "StandardWebhooks" ->
            [NoHeaders EXCEPT !["id"] = <<Text("id")>>, !["ts"] = <<time>>, !["sig"] = List(V1(sigs))]
      [] p = "PayPal" ->
            [NoHeaders EXCEPT !["id"] = <<Text("id")>>, !["ts"] = <<time>>, !["sig"] = sigs,
                              !["cert"] = <<Text("id")>>, !["algo"] = <<[form |-> "SHA256withRSA"]>>]
      [] p \in Timestamped \ {"Stripe", "StandardWebhooks", "PayPal"} ->
            [NoHeaders EXCEPT !["ts"] = <<time>>, !["sig"] = sigs]
      [] OTHER -> [NoHeaders EXCEPT !["sig"] = sigs]

Material(p, key) ==
    {[kind |-> IF p = "PayPal" THEN "X509Certificate" ELSE "EcdsaP256PublicKey", key |-> key]}
ClockedAt(p, max_age) ==
    [max_age |-> max_age,
     request_url |-> IF p \in {"Square", "Twilio"} THEN {"url"} ELSE {},
     form_params |-> IF p = "Twilio" THEN {Params} ELSE {},
     verifying_material |-> IF p \in PublicKey THEN Material(p, "public") ELSE {},
     webhook_id |-> IF p = "PayPal" THEN {"hook"} ELSE {}]

Request(p, body, options, headers) ==
    [p |-> p, body |-> body, options |-> options, headers |-> headers]
Call(req, slice, says) == [request |-> req, secrets |-> slice, says |-> says]

(***************************************************************************)
(* The groups of tests that the providers share.                           *)
(***************************************************************************)
Fine(p, body) ==
    Request(p, body, ClockedAt(p, {300}),
            Sent(p, TimeOf(p, T0), <<Signature(p, TimeOf(p, T0), body)>>))
Good(p) == Fine(p, Body)
WithSecret(p, secret, says) == Call(Good(p), <<secret>>, says)
WithOptions(p, options, says) == Call([Good(p) EXCEPT !.options = options], <<"k1">>, says)
WithHeaders(p, headers, says) == Call([Good(p) EXCEPT !.headers = headers], <<"k1">>, says)
WithHeader(p, h, values, says) ==
    WithHeaders(p, [Good(p).headers EXCEPT ![h] = values], says)
WithSignatures(p, sigs, says) == WithHeaders(p, Sent(p, TimeOf(p, T0), sigs), says)

Verifies(p) == {Call(Fine(p, body), <<"k1">>, Ok) : body \in Bodies}

Forged(p) == {WithSignatures(p, <<Flipped>>, Mismatch),
              Call([Good(p) EXCEPT !.body = "tampered"], <<"k1">>, Mismatch)}
WrongSecret(p) == {WithSecret(p, "k2", Mismatch)}
NoTimestamp(p) == {WithOptions(p, ClockedAt(p, {0}), Ok)}
TamperedTime(p) ==
    {WithHeaders(p, Sent(p, TimeOf(p, T0 - 1), <<Signature(p, TimeOf(p, T0), Body)>>), Mismatch)}

Replayed(p) ==
    LET Stamped(secs, max_age, says) ==
            Call(Request(p, Body, ClockedAt(p, max_age),
                         Sent(p, TimeOf(p, secs), <<Signature(p, TimeOf(p, secs), Body)>>)),
                 <<"k1">>, says)
    IN  {Stamped(T0 - 301, {300}, Stale(301)), Stamped(T0 + 301, {300}, Stale(301)),
         Stamped(T0 - 300, {300}, Ok), Stamped(T0 + 300, {300}, Ok),
         Stamped(T0 - 86400 * 365, {}, Ok)}

\* Without one of the headers, and without any.
Absent(p, headers) ==
    {WithHeader(p, headers[i], <<>>, Missing(headers[i])) : i \in DOMAIN headers}
        \cup {WithHeaders(p, NoHeaders, Missing(headers[1]))}

BadSignatures(p, forms) ==
    {WithSignatures(p, <<Junk(f)>>, Malformed("sig")) : f \in forms}
        \cup {WithSignatures(p, <<Junk(f)>>, BadEncoding) : f \in {"undecodable", "missized"}}

BadTimes(p) ==
    {WithHeader(p, "ts", <<time>>, Malformed("ts")) :
        time \in {BadTime("blank"), BadTime("garbage"), TimeOf(p, U64Max + 1)}}

(***************************************************************************)
(* The tests of each provider.                                             *)
(***************************************************************************)
GitHubSigned == Verifies("GitHub") \cup Forged("GitHub") \cup WrongSecret("GitHub")
                    \cup NoTimestamp("GitHub")
GitHubUnreadable == Absent("GitHub", <<"sig">>)
                        \cup BadSignatures("GitHub", {"blank", "bare", "unprefixed"})

Unprefixed(p) == Verifies(p) \cup Forged(p) \cup WrongSecret(p) \cup NoTimestamp(p)
                     \cup Absent(p, <<"sig">>) \cup BadSignatures(p, {"blank"})
ShopifyTests == Unprefixed("Shopify")
LinearTests == Unprefixed("Linear")
DropboxTests == Unprefixed("Dropbox")

Timely(p) == Verifies(p) \cup Forged(p) \cup WrongSecret(p) \cup TamperedTime(p)
PrefixedUnreadable(p) == BadSignatures(p, {"blank", "unprefixed", "bare"}) \cup BadTimes(p)
SlackSigned == Timely("Slack")
SlackReplayed == Replayed("Slack")
SlackUnreadable == Absent("Slack", <<"sig", "ts">>) \cup PrefixedUnreadable("Slack")
ZoomSigned == Timely("Zoom")
ZoomReplayed == Replayed("Zoom")
ZoomUnreadable == Absent("Zoom", <<"sig", "ts">>) \cup PrefixedUnreadable("Zoom")
CustomVectors == {Call(Good("CustomTimestamped"), <<"k1">>, Ok)} \cup Verifies("Custom")
CustomSigned == Timely("CustomTimestamped")
CustomReplayed == Replayed("CustomTimestamped") \cup NoTimestamp("Custom")
CustomAbsent ==
    Absent("CustomTimestamped", <<"sig", "ts">>)
        \cup {WithHeaders("CustomTimestamped", [NoHeaders EXCEPT !["sig"] = <<Junk("unprefixed")>>],
                          Missing("ts"))}
CustomUnreadable == PrefixedUnreadable("CustomTimestamped")
DiscordSigned == Timely("Discord")
DiscordReplayed == Replayed("Discord")
DiscordUnreadable ==
    Absent("Discord", <<"sig", "ts">>) \cup BadSignatures("Discord", {"blank"}) \cup BadTimes("Discord")
        \cup {Call([Good("Discord") EXCEPT !.headers["sig"] = <<Flipped>>], <<"bad">>,
                   Error("InvalidSecret", "bad"))}

\* Stripe: the elements of its one header.
Stripe(elems, says) == WithHeader("Stripe", "sig", List(elems), says)
StripeT(secs) == [tag |-> "t", value |-> TimeOf("Stripe", secs)]
StripeV1(form) == V1(<<Junk(form)>>)[1]
StripeGood == V1(<<Signature("Stripe", TimeOf("Stripe", T0), Body)>>)[1]
StripeStale == V1(<<Flipped>>)[1]
StripeSigned ==
    Timely("Stripe")
        \cup {Stripe(<<StripeT(T0), [tag |-> "other"], StripeGood>>, Ok),
              Stripe(<<StripeT(T0), StripeStale, StripeGood>>, Ok),
              Stripe(<<StripeT(T0), StripeGood, StripeStale>>, Ok)}
StripeReplayed == Replayed("Stripe")
StripeUnreadable ==
    Absent("Stripe", <<"sig">>)
        \cup {Stripe(<<[tag |-> "t", value |-> BadTime(f)], StripeGood>>, Malformed("sig")) :
                f \in {"blank", "garbage"}}
        \cup {Stripe(elems, Malformed("sig")) :
                elems \in {<<>>, <<StripeGood>>, <<StripeT(T0)>>, <<StripeT(T0), StripeV1("blank")>>,
                           <<StripeT(T0), StripeT(T0 + 60), StripeGood>>,
                           <<StripeT(U64Max + 1), StripeGood>>}}
        \cup {Stripe(elems, BadEncoding) :
                elems \in {<<StripeT(T0), StripeV1("undecodable")>>, <<StripeT(T0), StripeV1("missized")>>,
                           <<StripeT(T0), StripeGood, StripeV1("undecodable")>>}}

\* Square: the notification URL is part of the string, and may be left out.
SquareSigned ==
    Verifies("Square") \cup Forged("Square") \cup WrongSecret("Square") \cup NoTimestamp("Square")
        \cup {WithOptions("Square", [ClockedAt("Square", {300}) EXCEPT !.request_url = {"url/"}], Mismatch),
              WithSecret("Square", "bad", Error("InvalidSecret", "bad"))}
SquareUnreadable ==
    Absent("Square", <<"sig">>) \cup BadSignatures("Square", {"blank"})
        \cup {WithOptions("Square", [ClockedAt("Square", {300}) EXCEPT !.request_url = url],
                          Error("MissingContext", "none")) : url \in {{}, {""}}}

\* Twilio: the form fields sent in any order, and no body.
TwilioCall(sent, signed, says) ==
    LET signature == By("k1", <<"url", signed>>)
    IN  Call([Good("Twilio") EXCEPT !.options.form_params = {sent}, !.headers["sig"] = <<signature>>],
             <<"k1">>, says)
TwilioUrl(url, says) ==
    WithOptions("Twilio", [ClockedAt("Twilio", {300}) EXCEPT !.request_url = url], says)
TwilioTwice == <<Field(1, "a"), Field(1, "b")>>
TwilioSigned ==
    Verifies("Twilio") \cup WrongSecret("Twilio") \cup NoTimestamp("Twilio")
        \cup {WithSignatures("Twilio", <<Flipped>>, Mismatch),
              TwilioCall(Reverse(Params), SortedParams, Ok),
              TwilioCall(<<>>, <<>>, Ok),
              TwilioCall(<<Field(1, "a")>>, <<Field(1, "a")>>, Ok),
              TwilioCall(<<Field(2, "a"), Field(3, "b"), Field(1, "c")>>,
                         <<Field(1, "c"), Field(2, "a"), Field(3, "b")>>, Ok),
              TwilioCall(TwilioTwice, TwilioTwice, Ok),
              TwilioCall(Reverse(TwilioTwice), TwilioTwice, Mismatch),
              TwilioCall([Params EXCEPT ![3].value = "x"], SortedParams, Mismatch),
              TwilioCall(Tail(Params), SortedParams, Mismatch),
              TwilioUrl({"url/"}, Mismatch),
              WithSecret("Twilio", "bad", Error("InvalidSecret", "bad"))}
TwilioUnreadable ==
    Absent("Twilio", <<"sig">>) \cup BadSignatures("Twilio", {"blank"})
        \cup {TwilioUrl(url, Error("MissingContext", "none")) : url \in {{}, {""}}}
        \cup {WithOptions("Twilio", [ClockedAt("Twilio", {300}) EXCEPT !.form_params = {}],
                          Error("MissingContext", "none"))}

\* Standard Webhooks: the elements of its signature header, and the slices of secrets.
Standard(elems, says) == WithHeader("StandardWebhooks", "sig", List(elems), says)
StandardV1(form) == V1(<<Junk(form)>>)[1]
StandardGood ==
    V1(<<Signature("StandardWebhooks", TimeOf("StandardWebhooks", T0), Body)>>)[1]
StandardStale == V1(<<Flipped>>)[1]
OtherVersion == [tag |-> "other"]
StandardSigned ==
    Timely("StandardWebhooks")
        \cup {WithHeader("StandardWebhooks", "id", <<Text("forged")>>, Mismatch),
              Standard(<<StandardStale, OtherVersion, StandardGood, OtherVersion>>, Ok),
              Standard(<<OtherVersion, StandardGood, OtherVersion, StandardStale>>, Ok)}
StandardReplayed == Replayed("StandardWebhooks")
StandardSecrets ==
    Absent("StandardWebhooks", <<"id", "sig", "ts">>)
        \cup {WithSecret("StandardWebhooks", "bad", Error("InvalidSecret", "bad"))}
StandardRotation ==
    {Call(Good("StandardWebhooks"), <<"bad", "k1">>, Ok),
     Call(Good("StandardWebhooks"), <<"bad", "bad2">>, Error("InvalidSecret", "bad")),
     Call(Good("StandardWebhooks"), <<"bad", "k2">>, Mismatch)}
StandardUnreadable ==
    {Standard(elems, Malformed("sig")) :
        elems \in {<<>>, <<OtherVersion, OtherVersion>>, <<StandardV1("blank")>>}}
        \cup {Standard(elems, BadEncoding) :
                elems \in {<<StandardV1("undecodable")>>, <<StandardV1("missized")>>,
                           <<StandardGood, StandardV1("undecodable")>>}}
        \cup BadTimes("StandardWebhooks")

\* The asymmetric schemes: the key is material in the options, the secret is ignored.
WithMaterial(p, material, says) ==
    WithOptions(p, [ClockedAt(p, {300}) EXCEPT !.verifying_material = material], says)
OtherKey(p) == {WithMaterial(p, Material(p, "other"), Mismatch)}
BadMaterial(p) ==
    LET other == IF p = "PayPal" THEN "SendGrid" ELSE "PayPal"
    IN  {WithMaterial(p, {}, Error("MissingContext", "none")),
         WithMaterial(p, Material(other, "public"), Error("InvalidSecret", "material")),
         WithMaterial(p, Material(p, "bad"), Error("InvalidSecret", "material"))}

SendGridSigned == Verifies("SendGrid") \cup Forged("SendGrid") \cup TamperedTime("SendGrid")
                      \cup OtherKey("SendGrid")
SendGridReplayed == Replayed("SendGrid")
SendGridUnreadable == Absent("SendGrid", <<"sig", "ts">>) \cup BadSignatures("SendGrid", {"blank"})
                          \cup BadTimes("SendGrid")
SendGridMaterial == BadMaterial("SendGrid")

PayPalSigned ==
    {Call(Good("PayPal"), <<"k1">>, Ok)} \cup Forged("PayPal") \cup TamperedTime("PayPal")
        \cup OtherKey("PayPal")
        \cup {WithSecret("PayPal", "bad", Ok),
              WithOptions("PayPal", [ClockedAt("PayPal", {300}) EXCEPT !.webhook_id = {"other"}],
                          Mismatch),
              WithHeader("PayPal", "id", <<Text("forged")>>, Mismatch)}
PayPalReplayed == Replayed("PayPal")
PayPalAbsent ==
    {WithHeader("PayPal", h, <<>>, Missing(h)) : h \in {"id", "ts", "sig", "cert", "algo"}}
PayPalUnreadable ==
    BadSignatures("PayPal", {"blank"})
        \cup {WithHeader("PayPal", "ts", <<BadTime(f)>>, Malformed("ts")) : f \in {"blank", "garbage"}}
        \cup {WithHeader("PayPal", "algo", <<[form |-> f]>>, Malformed("algo")) :
                f \in {"blank", "other"}}
PayPalContext ==
    BadMaterial("PayPal")
        \cup {WithOptions("PayPal", [ClockedAt("PayPal", {300}) EXCEPT !.webhook_id = {}],
                          Error("MissingContext", "none"))}

(***************************************************************************)
(* The tests of verify_any().                                              *)
(***************************************************************************)
RotationMatching ==
    {Call(Good("GitHub"), slice, Ok) : slice \in {<<"k2", "k1", "k2">>, <<"k1">>, <<"k2", "k1">>}}
        \cup {Call(Good("GitHub"), slice, Mismatch) : slice \in {<<"k2", "k2">>, <<>>}}
        \cup {WithHeaders("GitHub", NoHeaders, Missing("sig"))}
RotationTimely ==
    LET time == TimeOf("Slack", T0 - 3600)
        anHourOld == Request("Slack", Body, ClockedAt("Slack", {300}),
                             Sent("Slack", time, <<Signature("Slack", time, Body)>>))
        unlimited == [Good("Slack") EXCEPT !.options = ClockedAt("Slack", {})]
    IN  {Call(anHourOld, slice, Stale(3600)) : slice \in {<<"k1">>, <<"k2", "k2", "k1">>}}
            \cup {Call(unlimited, <<"k2", "k2", "k1">>, Ok),
                  Call(Good("Slack"), <<"k2", "k2">>, Mismatch)}

Vectors ==
    UNION {GitHubSigned, GitHubUnreadable, ShopifyTests, LinearTests, DropboxTests,
           SlackSigned, SlackReplayed, SlackUnreadable, ZoomSigned, ZoomReplayed, ZoomUnreadable,
           CustomVectors, CustomSigned, CustomReplayed, CustomAbsent, CustomUnreadable,
           DiscordSigned, DiscordReplayed, DiscordUnreadable,
           StripeSigned, StripeReplayed, StripeUnreadable, SquareSigned, SquareUnreadable,
           TwilioSigned, TwilioUnreadable,
           StandardSigned, StandardReplayed, StandardSecrets, StandardRotation, StandardUnreadable,
           SendGridSigned, SendGridReplayed, SendGridUnreadable, SendGridMaterial,
           PayPalSigned, PayPalReplayed, PayPalAbsent, PayPalUnreadable, PayPalContext,
           RotationMatching, RotationTimely}

\* What the tests say of each call they make.
Says == [c \in {<<v.request, v.secrets>> : v \in Vectors} |->
            {v.says : v \in {w \in Vectors : <<w.request, w.secrets>> = c}}]
=============================================================================
