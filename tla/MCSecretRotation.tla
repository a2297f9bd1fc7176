--------------------------- MODULE MCSecretRotation ---------------------------
(***************************************************************************)
(* The calls the rotation loop is checked on: every provider, every shape  *)
(* of its headers the parsers tell apart, every piece of context present   *)
(* and absent, and a signature by either of two keys or by the configured  *)
(* public key, over this request or over another one; and the calls that   *)
(* the crate's own unit tests make.                                        *)
(***************************************************************************)
EXTENDS SecretRotation, TestVectors, TLC

CONSTANTS MCProviders,  \* the providers of this run
          MCStamps,     \* the seconds a timestamp header may carry
          MCFresh,      \* the seconds of the timestamp that has no defect
          MCMaxAges,    \* the tolerances configured
          MaxSlice,     \* the longest slice of secrets
          MaxElements   \* the longest list in a header of elements

SeqsUpTo(S, n) == UNION {[1 .. k -> S] : k \in 0 .. n}

MCSecrets == {"k1", "k2", "bad"}
MCSlices == SeqsUpTo(MCSecrets, MaxSlice)
MCOrders == {slice \in MCSlices : IsInjective(slice)}
MCKeys == {"k1", "k2", "public"}

\* A header arrives not at all, once opaque, or once with a value.
Arrivals(values) == {<<>>, <<[form |-> "opaque"]>>} \cup {<<v>> : v \in values}

Stamps(form) ==
    {[form |-> form, raw |-> ToString(s), secs |-> s] : s \in MCStamps}
        \cup {[form |-> f, raw |-> f, secs |-> 0] : f \in {"blank", "garbage"}}

Broken(forms) == {[form |-> f, key |-> "none", msg |-> <<>>] : f \in forms}
Made(msgs) == {[form |-> "signature", key |-> k, msg |-> m] : k \in MCKeys, m \in msgs}
FormsOf(p) ==
    {"blank", "undecodable", "missized"}
        \cup (IF p \in {"GitHub", "Slack", "Zoom", "CustomTimestamped"}
              THEN {"unprefixed", "bare"} ELSE {})

Texts == {[form |-> "blank", raw |-> ""], [form |-> "text", raw |-> "id"]}

\* What the sender of these headers signs, if they and the options are complete.
Known(p, h, o) ==
    /\ p = "Square" => o.request_url # {}
    /\ p = "Twilio" => o.request_url # {} /\ o.form_params # {}
    /\ p = "PayPal" => o.webhook_id # {} /\ Has(h, "id") /\ Has(h, "ts")
    /\ p = "StandardWebhooks" => Has(h, "id") /\ Has(h, "ts")
    /\ p \in {"Slack", "Zoom", "Discord", "CustomTimestamped", "SendGrid"} => Has(h, "ts")
Messages(p, h, o) == {<<>>} \cup (IF Known(p, h, o) THEN {Covered(p, h, Body, o)} ELSE {})

\* A base record and all that differ from it in one field.
OneOff(base, alternatives) ==
    {base} \cup UNION {{[base EXCEPT ![f] = v] : v \in alternatives[f]} : f \in DOMAIN alternatives}

\* The headers beside the signature: complete and fresh, or with one defect.
Others(p) ==
    LET text == Arrivals(Texts)
        algos == Arrivals({[form |-> f] : f \in {"blank", "SHA256withRSA", "other"}})
        stamps == Arrivals(Stamps(IF p = "PayPal" THEN "rfc3339" ELSE "digits"))
        stamp == <<[form |-> IF p = "PayPal" THEN "rfc3339" ELSE "digits", raw |-> ToString(MCFresh),
                    secs |-> MCFresh]>>
        id == <<[form |-> "text", raw |-> "id"]>>
        Signed == [NoHeaders EXCEPT !["ts"] = stamp]
    IN  CASE p = "StandardWebhooks" ->
                OneOff([Signed EXCEPT !["id"] = id], [ts |-> stamps, id |-> text])
          [] p = "PayPal" ->
                OneOff([Signed EXCEPT !["id"] = id, !["cert"] = id,
                                      !["algo"] = <<[form |-> "SHA256withRSA"]>>],
                       [ts |-> stamps, id |-> text, cert |-> text, algo |-> algos])
          [] p \in {"Slack", "Zoom", "Discord", "CustomTimestamped", "SendGrid"} ->
                OneOff(Signed, [ts |-> stamps])
          [] OTHER -> {NoHeaders}

\* The options that matter to a provider: complete, or with one defect.
Options(p) ==
    LET none == [max_age |-> {}, request_url |-> {}, form_params |-> {},
                 verifying_material |-> {}, webhook_id |-> {}]
        fields == {<<[name |-> 2, value |-> "a"], [name |-> 1, value |-> "b"]>>}
        Supplied(kind, key) == {[kind |-> kind, key |-> key]}
        right == IF p = "PayPal" THEN "X509Certificate" ELSE "EcdsaP256PublicKey"
        materials == {{}} \cup {Supplied(k, x) : k \in {"X509Certificate", "EcdsaP256PublicKey"},
                                                x \in {"public", "bad"}}
    IN  CASE SignatureHeaderNames(p) = <<>> -> {none}
          [] p = "Square" ->
                OneOff([none EXCEPT !.request_url = {"url"}], [request_url |-> {{}, {""}}])
          [] p = "Twilio" ->
                OneOff([none EXCEPT !.request_url = {"url"}, !.form_params = fields],
                       [request_url |-> {{}, {""}}, form_params |-> {{}, {<<>>}}])
          [] p \in PublicKey ->
                OneOff([none EXCEPT !.max_age = {1}, !.webhook_id = {"hook"},
                                    !.verifying_material = Supplied(right, "public")],
                       [verifying_material |-> materials,
                        webhook_id |-> IF p = "PayPal" THEN {{}} ELSE {{"hook"}}])
          [] p \in Timestamped \ PublicKey ->
                {[none EXCEPT !.max_age = limit] : limit \in MCMaxAges}
          [] OTHER -> {none}

Lists(elements) == {[form |-> "list", elems |-> e] : e \in SeqsUpTo(elements, MaxElements)}
Elements(values, stamps) ==
    {[tag |-> "other"]} \cup {[tag |-> "v1", value |-> v] : v \in values}
        \cup {[tag |-> "t", value |-> t] : t \in stamps}

\* The signature headers that may accompany the headers h.
SignatureValues(p, h, o) ==
    CASE p = "Stripe" ->
            Lists(Elements(Broken({"blank", "undecodable"})
                             \cup Made({<<ToString(s), Body>> : s \in MCStamps}),
                           Stamps("digits")))
      [] p = "StandardWebhooks" ->
            Lists(Elements(Broken({"blank", "missized"}) \cup Made(Messages(p, h, o)), {}))
      [] OTHER -> Broken(FormsOf(p)) \cup Made(Messages(p, h, o))

MCRequests ==
    UNION {UNION {{[p |-> p, body |-> Body, options |-> o, headers |-> [h EXCEPT !["sig"] = sig]] :
                    sig \in Arrivals(SignatureValues(p, h, o))} :
                  h \in Others(p), o \in Options(p)} : p \in MCProviders}

\* The calls of the unit tests, beside those enumerated above.
AllSecrets == MCSecrets \cup {"bad2"}
AllSlices == MCSlices \cup {v.secrets : v \in Vectors}
AllRequests == MCRequests \cup {v.request : v \in Vectors}

\* The verifier answers every call that a unit test of the crate makes with
\* the outcome the test asserts: the accepted requests and the order in
\* which a request with a defect is found out, provider by provider.
AgreesWithTests ==
    (result # {} /\ <<request, secrets>> \in DOMAIN Says) => result = Says[<<request, secrets>>]
=============================================================================
