----------------------------- MODULE VerifyOrder ------------------------------
(***************************************************************************)
(* Lemmas about the order in which verify() checks things, for every       *)
(* request: only its last check reads the clock, after the signature was   *)
(* found to match; what one key accepts fails under another one only for   *)
(* the sake of that key; and a fault of form comes to light before either. *)
(***************************************************************************)
EXTENDS VerifySoundness

\* An outcome that does not speak of the clock.
Clockless(o) == o.kind # "TimestampOutOfTolerance"

\* An outcome that a key may be the reason of.
KeyDependent(o) == o.kind \in {"Ok", "SignatureMismatch", "InvalidSecret"}

\* The replay check of a scheme, which has none without a timestamp.
Replay(p, headers, options, now) ==
    IF p \in Timestamped THEN CheckReplay(Stamp(p, headers).secs, options, now) ELSE Ok

\* What is true of both parts of a chain is true of the chain.
LEMMA ChainClockless ==
    ASSUME NEW e, NEW f, Clockless(e), e = Ok => Clockless(f)
    PROVE  Clockless(e && f)
BY DEF &&

LEMMA ChainKeyDependent ==
    ASSUME NEW e, NEW f, KeyDependent(e), KeyDependent(f)
    PROVE  KeyDependent(e && f)
BY DEF &&

\* Only check_replay speaks of the clock.
LEMMA ClocklessChecks ==
    ASSUME NEW s
    PROVE  /\ \A headers, h : Clockless(Require(headers, h))
           /\ \A v, prefixed : Clockless(ParseSignature(v, prefixed))
           /\ \A v, h : Clockless(ParseTimestamp(v, h)) /\ Clockless(ParseRfc3339(v, h))
           /\ \A b : Clockless(Match(b))
           /\ Clockless(DecodeSecret(s))
           /\ \A option : Clockless(Context(option))
           /\ \A m, kind : Clockless(MaterialOfKind(m, kind))
           /\ \A m : Clockless(MaterialParses(m))
           /\ \A elems, tag : Clockless(AnyTagged(elems, tag))
           /\ \A v : /\ Clockless(ParseBase64(v))
                     /\ Clockless(WellSized(v))
                     /\ Clockless(CheckAuthAlgo(v))
<1> USE DEF Clockless, Error, Ok
<1>1. \A headers, h : Clockless(Require(headers, h)) BY DEF Require
<1>2. \A v, prefixed : Clockless(ParseSignature(v, prefixed)) BY DEF ParseSignature
<1>3. \A v, h : Clockless(ParseTimestamp(v, h)) /\ Clockless(ParseRfc3339(v, h))
  BY DEF ParseTimestamp, ParseRfc3339
<1>4. \A b : Clockless(Match(b)) BY DEF Match, Mismatch
<1>5. Clockless(DecodeSecret(s)) BY DEF DecodeSecret
<1>6. \A option : Clockless(Context(option)) BY DEF Context
<1>7. \A m, kind : Clockless(MaterialOfKind(m, kind)) BY DEF MaterialOfKind
<1>8. \A m : Clockless(MaterialParses(m)) BY DEF MaterialParses
<1>9. \A elems, tag : Clockless(AnyTagged(elems, tag)) BY DEF AnyTagged
<1>10. \A v : /\ Clockless(ParseBase64(v))
              /\ Clockless(WellSized(v))
              /\ Clockless(CheckAuthAlgo(v))
  BY DEF ParseBase64, WellSized, CheckAuthAlgo
<1> QED BY <1>1, <1>2, <1>3, <1>4, <1>5, <1>6, <1>7, <1>8, <1>9, <1>10

\* The loops over the elements of a header do not either.
LEMMA ClocklessElements ==
    ASSUME NEW elems, DOMAIN elems \subseteq Nat
    PROVE  Clockless(StripeParse(elems)) /\ Clockless(StandardParse(elems))
<1>0. Clockless(Ok) /\ Clockless(Error("MalformedHeader", "sig"))
  BY DEF Clockless, Ok, Error
<1>a. \A outcomes : DOMAIN outcomes \subseteq Nat
                      /\ (\A i \in DOMAIN outcomes : Clockless(outcomes[i]))
                    => Clockless(FirstError(outcomes))
  <2> TAKE outcomes
  <2> HAVE DOMAIN outcomes \subseteq Nat /\ \A i \in DOMAIN outcomes : Clockless(outcomes[i])
  <2> DEFINE failed == {i \in DOMAIN outcomes : outcomes[i] # Ok}
  <2>1. failed # {} => Min(failed) \in failed BY MinIsIn
  <2> QED BY <1>0, <2>1 DEF FirstError
<1>1. Clockless(FirstError([i \in DOMAIN elems |-> StripeElement(elems, i)]))
  <2>1. \A i : Clockless(StripeElement(elems, i))
    BY <1>0, ClocklessChecks DEF StripeElement
  <2> QED BY <1>a, <2>1
<1>2. Clockless(FirstError([i \in DOMAIN elems |-> StandardElement(elems[i])]))
  <2>1. \A i : Clockless(StandardElement(elems[i]))
    BY <1>0, ClocklessChecks DEF StandardElement
  <2> QED BY <1>a, <2>1
<1>3. /\ \A e, f : Clockless(e) /\ Clockless(f) => Clockless(e && f)
      /\ \A tag : Clockless(AnyTagged(elems, tag))
      /\ \A v, h : Clockless(ParseTimestamp(v, h))
  BY ChainClockless, ClocklessChecks
<1>4. Clockless(StripeParse(elems)) BY <1>1, <1>3 DEF StripeParse
<1>5. Clockless(StandardParse(elems)) BY <1>2, <1>3 DEF StandardParse
<1> QED BY <1>4, <1>5

\* A chain that ends in a success is the chain without it, and a chain that
\* starts with a failure is that failure.
LEMMA ChainEnds == \A e, f : (e && Ok) = e /\ (e # Ok => (e && f) = e)
BY DEF &&

\* Only the last check reads the clock: what a scheme checks before it says
\* nothing of the clock, and has parsed the timestamp when it succeeds.
LastIsReplay(p, headers, options, before) ==
    /\ Clockless(before)
    /\ before = Ok /\ p \in Timestamped => Stamp(p, headers).secs \in Nat

\* A chain whose last check but one is a match succeeds only if both the
\* timestamp was parsed and the signature matched, and says nothing of the clock.
LEMMA ParsedAndSigned ==
    ASSUME NEW first, NEW parsed, NEW signed,
           Clockless(first), first = Ok => Clockless(parsed), Clockless(signed)
    PROVE  /\ Clockless(first && parsed && signed)
           /\ (first && parsed && signed) = Ok => parsed = Ok
<1>1. Clockless(first && parsed) BY ChainClockless
<1>2. Clockless((first && parsed) && signed) BY <1>1, ChainClockless
<1>3. (first && parsed && signed) = Ok => parsed = Ok BY ChainOk
<1> QED BY <1>2, <1>3

LEMMA ReplayLast ==
    ASSUME NEW p, NEW headers, NEW body, NEW s, NEW options, ListsElements(p, headers)
    PROVE  \E before :
               /\ LastIsReplay(p, headers, options, before)
               /\ \A now : Verify(p, headers, body, s, options, now)
                               = before && Replay(p, headers, options, now)
<1> DEFINE sig == Get(headers, "sig")
           ts == Get(headers, "ts")
           elems == sig.elems
           material == options.verifying_material
           stamp == ParseTimestamp(ts, "ts")
           Splits(before) ==
               /\ LastIsReplay(p, headers, options, before)
               /\ \A now : Verify(p, headers, body, s, options, now)
                               = before && Replay(p, headers, options, now)
<1> SUFFICES \E before : Splits(before) OBVIOUS
<1>a. \A e, f : Clockless(e) /\ (e = Ok => Clockless(f)) => Clockless(e && f)
  BY ChainClockless
<1>b. /\ \A h : Clockless(Require(headers, h))
      /\ \A v : Clockless(ParseSignature(v, TRUE)) /\ Clockless(ParseSignature(v, FALSE))
      /\ \A v, h : Clockless(ParseTimestamp(v, h)) /\ Clockless(ParseRfc3339(v, h))
      /\ \A b : Clockless(Match(b))
      /\ Clockless(DecodeSecret(s))
      /\ \A option : Clockless(Context(option))
  BY ClocklessChecks
<1>c. /\ \A m, kind : Clockless(MaterialOfKind(m, kind))
      /\ \A m : Clockless(MaterialParses(m))
      /\ \A v : Clockless(ParseBase64(v)) /\ Clockless(WellSized(v)) /\ Clockless(CheckAuthAlgo(v))
  BY ClocklessChecks
<1>d. Clockless(Ok) /\ Clockless(Error("UnsupportedProvider", "none"))
  BY DEF Clockless, Ok, Error
<1>e. Require(headers, "sig") = Ok /\ p \in Listing => DOMAIN elems \subseteq Nat
  BY DEF ListsElements, Require, Error, Ok
<1>f. Error("UnsupportedProvider", "none") # Ok BY DEF Error, Ok
<1>g. ASSUME NEW before, p \in Timestamped, p # "Stripe", Clockless(before),
             before = Ok => ts.secs \in Nat,
             \A now : Verify(p, headers, body, s, options, now)
                          = before && CheckReplay(ts.secs, options, now)
      PROVE  Splits(before)
  BY <1>g DEF LastIsReplay, Replay, Stamp
<1>h. ASSUME NEW before, p \notin Timestamped, Clockless(before),
             \A now : Verify(p, headers, body, s, options, now) = before
      PROVE  Splits(before)
  BY <1>h, ChainEnds DEF LastIsReplay, Replay
<1> HIDE DEF Splits
<1>1. CASE p \in {"Slack", "Zoom"}
  <2> DEFINE first == Require(headers, "sig") && Require(headers, "ts")
                          && ParseSignature(sig, TRUE)
             signed == Match(Signs(sig, s, TimestampedString(headers, body)))
             before == first && stamp && signed
  <2>1. Clockless(before) /\ (before = Ok => stamp = Ok)
    <3>1. Clockless(first) BY <1>a, <1>b
    <3>2. Clockless(stamp) /\ Clockless(signed) BY <1>b
    <3> HIDE DEF first, stamp, signed
    <3> QED BY <3>1, <3>2, ParsedAndSigned
  <2>2. \A now : Verify(p, headers, body, s, options, now)
                     = before && CheckReplay(ts.secs, options, now)
    BY <1>1 DEF Verify, SlackVerify, ZoomVerify, TimestampedVerify, Custom
  <2> HIDE DEF before
  <2> QED BY <1>1, <2>1, <2>2, <1>g, ParsedIsNat DEF Timestamped
<1>2. CASE p = "Discord"
  <2> DEFINE first == Require(headers, "sig") && Require(headers, "ts") && DecodeSecret(s)
                          && ParseSignature(sig, FALSE)
             signed == Match(Signs(sig, s, TimestampedString(headers, body)))
             before == first && stamp && signed
  <2>1. Clockless(before) /\ (before = Ok => stamp = Ok)
    <3>1. Clockless(first) BY <1>a, <1>b
    <3>2. Clockless(stamp) /\ Clockless(signed) BY <1>b
    <3> HIDE DEF first, stamp, signed
    <3> QED BY <3>1, <3>2, ParsedAndSigned
  <2>2. \A now : Verify(p, headers, body, s, options, now)
                     = before && CheckReplay(ts.secs, options, now)
    BY <1>2 DEF Verify, DiscordVerify, Custom
  <2> HIDE DEF before
  <2> QED BY <1>2, <2>1, <2>2, <1>g, ParsedIsNat DEF Timestamped
<1>3. CASE p = "CustomTimestamped"
  <2> DEFINE scheme == CustomScheme(p)
             first == Require(headers, "sig") && Require(headers, "ts")
                          && ParseSignature(sig, TRUE)
             signed == Match(Signs(sig, s, CustomString(scheme, headers, body)))
             before == first && stamp && signed
  <2>1. Clockless(before) /\ (before = Ok => stamp = Ok)
    <3>1. Clockless(first) BY <1>a, <1>b
    <3>2. Clockless(stamp) /\ Clockless(signed) BY <1>b
    <3> HIDE DEF first, stamp, signed
    <3> QED BY <3>1, <3>2, ParsedAndSigned
  <2>2. \A now : Verify(p, headers, body, s, options, now)
                     = before && CheckReplay(ts.secs, options, now)
    <3>1. scheme.timestamp = TRUE /\ scheme.prefix = TRUE BY <1>3 DEF CustomScheme
    <3>2. \A now : Verify(p, headers, body, s, options, now)
                       = CustomVerify(scheme, headers, body, s, options, now)
      BY <1>3 DEF Verify, Custom
    <3> HIDE DEF scheme
    <3> QED BY <3>1, <3>2 DEF CustomVerify
  <2> HIDE DEF before
  <2> QED BY <1>3, <2>1, <2>2, <1>g, ParsedIsNat DEF Timestamped
<1>4. CASE p = "Stripe"
  <2> DEFINE first == Require(headers, "sig")
             parsed == StripeParse(elems)
             signed == Match(\E v \in Listed(elems) : Signs(v, s, StripeString(elems, body)))
             before == first && parsed && signed
  <2>1. Clockless(before) /\ (before = Ok => parsed = Ok)
    <3>1. Clockless(first) /\ (first = Ok => Clockless(parsed))
      BY <1>4, <1>b, <1>e, ClocklessElements DEF Listing
    <3> QED BY <3>1, <1>b, ParsedAndSigned
  <2>2. parsed = Ok => ParseTimestamp(StripeTimestamp(elems), "sig") = Ok
    BY ChainOk DEF StripeParse
  <2>3. \A now : Verify(p, headers, body, s, options, now)
                     = before && CheckReplay(StripeTimestamp(elems).secs, options, now)
    BY <1>4 DEF Verify, StripeVerify, Custom
  <2> HIDE DEF before
  <2>4. Splits(before)
    BY <1>4, <2>1, <2>2, <2>3, ParsedIsNat DEF Splits, LastIsReplay, Replay, Timestamped, Stamp
  <2> QED BY <2>4
<1>5. CASE p = "StandardWebhooks"
  <2> DEFINE keyed == Require(headers, "id") && Require(headers, "sig")
                          && Require(headers, "ts") && DecodeSecret(s)
             first == keyed && StandardParse(elems)
             signed == Match(\E v \in Listed(elems) : Signs(v, s, StandardString(headers, body)))
             before == first && stamp && signed
  <2>1. Clockless(before) /\ (before = Ok => stamp = Ok)
    <3>1. Clockless(keyed) BY <1>a, <1>b
    <3>2. keyed = Ok => Require(headers, "sig") = Ok BY ChainOk
    <3>3. Clockless(first)
      <4> HIDE DEF keyed
      <4> QED BY <1>5, <1>a, <1>e, <3>1, <3>2, ClocklessElements DEF Listing
    <3> HIDE DEF first
    <3> QED BY <3>3, <1>b, ParsedAndSigned
  <2>2. \A now : Verify(p, headers, body, s, options, now)
                     = before && CheckReplay(ts.secs, options, now)
    BY <1>5 DEF Verify, StandardVerify, Custom
  <2> HIDE DEF before
  <2> QED BY <1>5, <2>1, <2>2, <1>g, ParsedIsNat DEF Timestamped
<1>6. CASE p = "SendGrid" /\ "sendgrid" \in Features
  <2> DEFINE first == Require(headers, "sig") && Require(headers, "ts") && Context(material)
                          && MaterialOfKind(material, "EcdsaP256PublicKey") && ParseBase64(sig)
             keyed == first && stamp && MaterialParses(material) && WellSized(sig)
             signed == Match(Signs(sig, The(material).key, TimestampedString(headers, body)))
             before == keyed && signed
  <2>1. Clockless(before)
    <3>1. Clockless(first) BY <1>a, <1>b, <1>c
    <3> HIDE DEF first
    <3>2. Clockless(keyed) BY <3>1, <1>a, <1>b, <1>c
    <3> HIDE DEF keyed
    <3> QED BY <3>2, <1>a, <1>b
  <2>2. before = Ok => stamp = Ok
    <3> HIDE DEF first, stamp, signed
    <3> QED BY ChainOk
  <2>3. \A now : Verify(p, headers, body, s, options, now)
                     = before && CheckReplay(ts.secs, options, now)
    BY <1>6 DEF Verify, SendGridVerify, Custom
  <2> HIDE DEF before
  <2> QED BY <1>6, <2>1, <2>2, <2>3, <1>g, ParsedIsNat DEF Timestamped, PublicKey
<1>7. CASE p = "PayPal" /\ "paypal" \in Features
  <2> DEFINE required == Require(headers, "id") && Require(headers, "ts")
                             && Require(headers, "sig") && Require(headers, "cert")
                             && Require(headers, "algo")
             keyed == required && Context(options.webhook_id) && Context(material)
                          && MaterialOfKind(material, "X509Certificate")
                          && MaterialParses(material)
             first == keyed && CheckAuthAlgo(Get(headers, "algo")) && ParseBase64(sig)
             parsed == ParseRfc3339(ts, "ts")
             signed == Match(Signs(sig, The(material).key, PayPalString(headers, body, options)))
             before == first && parsed && WellSized(sig) && signed
  <2>1. Clockless(before)
    <3>1. Clockless(required) BY <1>a, <1>b
    <3> HIDE DEF required
    <3>2. Clockless(keyed) BY <3>1, <1>a, <1>b, <1>c
    <3> HIDE DEF keyed
    <3>3. Clockless(first) BY <3>2, <1>a, <1>c
    <3> HIDE DEF first
    <3> QED BY <3>3, <1>a, <1>b, <1>c
  <2>2. before = Ok => parsed = Ok
    <3> HIDE DEF first, parsed, signed
    <3> QED BY ChainOk
  <2>3. \A now : Verify(p, headers, body, s, options, now)
                     = before && CheckReplay(ts.secs, options, now)
    BY <1>7 DEF Verify, PayPalVerify, Custom
  <2> HIDE DEF before
  <2> QED BY <1>7, <2>1, <2>2, <2>3, <1>g, ParsedIsNat DEF Timestamped, PublicKey
<1>8. CASE /\ p \in PublicKey
           /\ ~(p = "SendGrid" /\ "sendgrid" \in Features)
           /\ ~(p = "PayPal" /\ "paypal" \in Features)
  <2> DEFINE before == Error("UnsupportedProvider", "none")
  <2>1. \A now : Verify(p, headers, body, s, options, now) = before
    BY <1>8 DEF Verify, Custom, PublicKey
  <2>2. Splits(before)
    BY <1>d, <1>f, <2>1, ChainEnds DEF Splits, LastIsReplay
  <2> QED BY <2>2
<1>9. CASE p \notin Timestamped
  <2> DEFINE at(now) == Verify(p, headers, body, s, options, now)
             before == at(0)
  <2>1. \A now : at(now) = before
    <3>1. CASE p = "Custom"
      <4>1. CustomScheme(p).timestamp = FALSE BY <3>1 DEF CustomScheme
      <4> QED BY <3>1, <4>1 DEF Verify, CustomVerify, Custom
    <3>2. CASE p # "Custom"
      BY <1>9, <3>2 DEF Verify, Custom, Timestamped, PublicKey
    <3> QED BY <3>1, <3>2
  <2>2. Clockless(before)
    <3>1. \A prefixed \in BOOLEAN : Clockless(BodyOnlyVerify(headers, body, s, prefixed))
      BY <1>a, <1>b DEF BodyOnlyVerify
    <3>2. Clockless(SquareVerify(headers, body, s, options)) BY <1>a, <1>b DEF SquareVerify
    <3>3. Clockless(TwilioVerify(headers, s, options)) BY <1>a, <1>b DEF TwilioVerify
    <3>4. p = "Custom" => Clockless(CustomVerify(CustomScheme(p), headers, body, s, options, 0))
      <4> SUFFICES ASSUME p = "Custom"
                   PROVE  Clockless(CustomVerify(CustomScheme(p), headers, body, s, options, 0))
        OBVIOUS
      <4>1. CustomScheme(p).timestamp = FALSE /\ CustomScheme(p).prefix = FALSE
        BY DEF CustomScheme
      <4> QED BY <4>1, <1>a, <1>b, <1>d DEF CustomVerify
    <3> QED BY <1>9, <1>d, <3>1, <3>2, <3>3, <3>4
            DEF Verify, GitHubVerify, ShopifyVerify, LinearVerify, DropboxVerify, Custom,
                Timestamped, PublicKey
  <2> HIDE DEF before
  <2> QED BY <1>9, <2>1, <2>2, <1>h
<1> QED BY <1>1, <1>2, <1>3, <1>4, <1>5, <1>6, <1>7, <1>8, <1>9 DEF Timestamped, PublicKey

\* An outcome that blames a key, and how two outcomes that differ only in the
\* key may differ: one of them does.
KeyError(o) == o.kind \in {"SignatureMismatch", "InvalidSecret"}
Agree(o, other) == o = other \/ KeyError(o) \/ KeyError(other)

\* Two chains whose checks are alike up to the key are so themselves.
LEMMA ChainAgree ==
    ASSUME NEW e, NEW f, NEW e2, NEW f2, Agree(e, e2), Agree(f, f2)
    PROVE  Agree(e && f, e2 && f2)
<1>1. ~KeyError(Ok) BY DEF KeyError, Ok
<1> QED BY <1>1 DEF Agree, &&

\* Whatever a scheme checks that is not about the key comes out the same
\* under every key, unless a key has failed before.
LEMMA AgreeUpToKey ==
    ASSUME NEW p, NEW headers, NEW body, NEW s, NEW other, NEW options, NEW now
    PROVE  Agree(Verify(p, headers, body, s, options, now),
                 Verify(p, headers, body, other, options, now))
<1>a. \A e, f, e2, f2 : Agree(e, e2) /\ Agree(f, f2) => Agree(e && f, e2 && f2)
  BY ChainAgree
<1>b. /\ \A o : Agree(o, o)
      /\ Agree(DecodeSecret(s), DecodeSecret(other))
      /\ \A b, b2 : Agree(Match(b), Match(b2))
  BY DEF Agree, KeyError, Ok, Error, DecodeSecret, Match, Mismatch
<1> USE <1>a, <1>b
<1>1. \A prefixed : Agree(BodyOnlyVerify(headers, body, s, prefixed),
                          BodyOnlyVerify(headers, body, other, prefixed))
  BY DEF BodyOnlyVerify
<1>2. Agree(SquareVerify(headers, body, s, options), SquareVerify(headers, body, other, options))
  BY DEF SquareVerify
<1>3. Agree(TwilioVerify(headers, s, options), TwilioVerify(headers, other, options))
  BY DEF TwilioVerify
<1>4. Agree(TimestampedVerify(headers, body, s, options, now),
            TimestampedVerify(headers, body, other, options, now))
  BY DEF TimestampedVerify
<1>5. \A scheme : Agree(CustomVerify(scheme, headers, body, s, options, now),
                        CustomVerify(scheme, headers, body, other, options, now))
  BY DEF CustomVerify
<1>6. Agree(DiscordVerify(headers, body, s, options, now),
            DiscordVerify(headers, body, other, options, now))
  BY DEF DiscordVerify
<1>7. Agree(StripeVerify(headers, body, s, options, now),
            StripeVerify(headers, body, other, options, now))
  BY DEF StripeVerify
<1>8. Agree(StandardVerify(headers, body, s, options, now),
            StandardVerify(headers, body, other, options, now))
  BY DEF StandardVerify
<1>9. CASE p \in {"GitHub", "Shopify", "Linear", "Dropbox"}
  BY <1>9, <1>1 DEF Verify, Custom, GitHubVerify, ShopifyVerify, LinearVerify, DropboxVerify
<1>10. CASE p \in {"Square", "Twilio"}
  BY <1>10, <1>2, <1>3 DEF Verify, Custom
<1>11. CASE p \in {"Slack", "Zoom"}
  BY <1>11, <1>4 DEF Verify, Custom, SlackVerify, ZoomVerify
<1>12. CASE p \in Custom
  BY <1>12, <1>5 DEF Verify, Custom
<1>13. CASE p \in {"Discord", "Stripe", "StandardWebhooks"}
  BY <1>13, <1>6, <1>7, <1>8 DEF Verify, Custom
<1>14. CASE p \in PublicKey \/ p \notin Providers
  <2>1. Verify(p, headers, body, other, options, now) = Verify(p, headers, body, s, options, now)
    BY <1>14 DEF Verify, PublicKey, Providers, Custom, BodyOnly
  <2> QED BY <2>1
<1> QED BY <1>9, <1>10, <1>11, <1>12, <1>13, <1>14
        DEF Providers, Custom, BodyOnly, PublicKey

\* A request that one key verifies fails under another only because of that
\* key: whatever a scheme checks that is not about the key has succeeded.
LEMMA OnlyTheKey ==
    ASSUME NEW p, NEW headers, NEW body, NEW s, NEW options, NEW now,
           Verify(p, headers, body, s, options, now) = Ok
    PROVE  \A other : KeyDependent(Verify(p, headers, body, other, options, now))
<1> TAKE other
<1>1. Agree(Verify(p, headers, body, s, options, now),
            Verify(p, headers, body, other, options, now))
  BY AgreeUpToKey
<1> QED BY <1>1 DEF Agree, KeyError, KeyDependent, Ok

\* A key that fails fails for ever: nothing said of a key depends on the clock.
LEMMA KeyErrorsStay ==
    ASSUME NEW p, NEW headers, NEW body, NEW s, NEW options, NEW now, NEW later,
           ListsElements(p, headers),
           KeyError(Verify(p, headers, body, s, options, now))
    PROVE  Verify(p, headers, body, s, options, later) = Verify(p, headers, body, s, options, now)
<1>1. PICK before :
          /\ LastIsReplay(p, headers, options, before)
          /\ \A t : Verify(p, headers, body, s, options, t)
                        = before && Replay(p, headers, options, t)
  BY ReplayLast
<1>2. ~KeyError(Replay(p, headers, options, now)) BY DEF KeyError, Replay, CheckReplay, Ok
<1>3. before # Ok BY <1>1, <1>2 DEF &&
<1> QED BY <1>1, <1>3, ChainEnds

(***************************************************************************)
(* Errors of the configuration.                                            *)
(***************************************************************************)

\* The other request fails as well, if the configuration, or the secret that
\* both requests are verified with, is to blame for what the first one got.
Blames(o, s, other, s2) ==
    \/ o.kind \in {"UnsupportedProvider", "MissingContext"}
    \/ o.kind = "InvalidSecret" /\ s = s2
    => other # Ok

\* What holds of the checks of two chains, the later ones only if the first
\* chain gets to them, holds of the chains.
LEMMA ChainBlames ==
    ASSUME NEW s, NEW s2, NEW e, NEW f, NEW e2, NEW f2,
           Blames(e, s, e2, s2), e = Ok => Blames(f, s, f2, s2)
    PROVE  Blames(e && f, s, e2 && f2, s2)
BY ChainOk DEF Blames, &&

\* The checks of a request that look at its headers never blame the configuration.
RequestError(o) == o.kind \notin {"UnsupportedProvider", "MissingContext", "InvalidSecret"}

LEMMA RequestChecks ==
    /\ \A headers, h : RequestError(Require(headers, h))
    /\ \A v, prefixed : RequestError(ParseSignature(v, prefixed))
    /\ \A v, h : RequestError(ParseTimestamp(v, h)) /\ RequestError(ParseRfc3339(v, h))
    /\ \A b : RequestError(Match(b))
    /\ \A secs, options, now : RequestError(CheckReplay(secs, options, now))
    /\ \A elems, tag : RequestError(AnyTagged(elems, tag))
    /\ \A v : /\ RequestError(ParseBase64(v)) /\ RequestError(WellSized(v))
              /\ RequestError(CheckAuthAlgo(v))
<1> USE DEF RequestError, Error, Ok
<1>1. \A headers, h : RequestError(Require(headers, h)) BY DEF Require
<1>2. \A v, prefixed : RequestError(ParseSignature(v, prefixed)) BY DEF ParseSignature
<1>3. \A v, h : RequestError(ParseTimestamp(v, h)) /\ RequestError(ParseRfc3339(v, h))
  BY DEF ParseTimestamp, ParseRfc3339
<1>4. \A b : RequestError(Match(b)) BY DEF Match, Mismatch
<1>5. \A secs, options, now : RequestError(CheckReplay(secs, options, now)) BY DEF CheckReplay
<1>6. \A elems, tag : RequestError(AnyTagged(elems, tag)) BY DEF AnyTagged
<1>7. \A v : /\ RequestError(ParseBase64(v)) /\ RequestError(WellSized(v))
             /\ RequestError(CheckAuthAlgo(v))
  BY DEF ParseBase64, WellSized, CheckAuthAlgo
<1> QED BY <1>1, <1>2, <1>3, <1>4, <1>5, <1>6, <1>7

\* Nor do the loops over the elements of a header.
LEMMA RequestElements ==
    ASSUME NEW elems, DOMAIN elems \subseteq Nat
    PROVE  RequestError(StripeParse(elems)) /\ RequestError(StandardParse(elems))
<1>0. RequestError(Ok) /\ RequestError(Error("MalformedHeader", "sig"))
  BY DEF RequestError, Ok, Error
<1>a. \A outcomes : DOMAIN outcomes \subseteq Nat
                      /\ (\A i \in DOMAIN outcomes : RequestError(outcomes[i]))
                    => RequestError(FirstError(outcomes))
  <2> TAKE outcomes
  <2> HAVE DOMAIN outcomes \subseteq Nat /\ \A i \in DOMAIN outcomes : RequestError(outcomes[i])
  <2> DEFINE failed == {i \in DOMAIN outcomes : outcomes[i] # Ok}
  <2>1. failed # {} => Min(failed) \in failed BY MinIsIn
  <2> QED BY <1>0, <2>1 DEF FirstError
<1>1. RequestError(FirstError([i \in DOMAIN elems |-> StripeElement(elems, i)]))
  <2>1. \A i : RequestError(StripeElement(elems, i))
    BY <1>0, RequestChecks DEF StripeElement
  <2> QED BY <1>a, <2>1
<1>2. RequestError(FirstError([i \in DOMAIN elems |-> StandardElement(elems[i])]))
  <2>1. \A i : RequestError(StandardElement(elems[i]))
    BY <1>0, RequestChecks DEF StandardElement
  <2> QED BY <1>a, <2>1
<1>3. /\ \A e, f : RequestError(e) /\ RequestError(f) => RequestError(e && f)
      /\ \A tag : RequestError(AnyTagged(elems, tag))
      /\ \A v, h : RequestError(ParseTimestamp(v, h))
  BY RequestChecks DEF &&
<1>4. RequestError(StripeParse(elems)) BY <1>1, <1>3 DEF StripeParse
<1>5. RequestError(StandardParse(elems)) BY <1>2, <1>3 DEF StandardParse
<1> QED BY <1>4, <1>5

\* After an error of the configuration no request at all is accepted with it; if
\* the error is about a secret, none is accepted with that secret.
LEMMA ConfigurationErrors ==
    ASSUME NEW p, NEW headers, NEW body, NEW s, NEW options, NEW now,
           ListsElements(p, headers),
           NEW headers2, NEW body2, NEW s2, NEW now2
    PROVE  Blames(Verify(p, headers, body, s, options, now), s,
                  Verify(p, headers2, body2, s2, options, now2), s2)
<1> DEFINE Fair(o, other) == Blames(o, s, other, s2)
           material == options.verifying_material
<1>a. \A e, f, e2, f2 : Fair(e, e2) /\ (e = Ok => Fair(f, f2)) => Fair(e && f, e2 && f2)
  BY ChainBlames
<1>b. \A o, other : RequestError(o) => Fair(o, other) BY DEF Blames, RequestError
<1>c. /\ \A h, other : Fair(Require(headers, h), other)
      /\ \A v, other : /\ Fair(ParseSignature(v, TRUE), other)
                       /\ Fair(ParseSignature(v, FALSE), other)
      /\ \A v, prefixed, other : Fair(ParseSignature(v, prefixed), other)
      /\ \A v, h, other : /\ Fair(ParseTimestamp(v, h), other)
                          /\ Fair(ParseRfc3339(v, h), other)
      /\ \A b, other : Fair(Match(b), other)
      /\ \A secs, t, other : Fair(CheckReplay(secs, options, t), other)
      /\ \A v, other : /\ Fair(ParseBase64(v), other)
                       /\ Fair(WellSized(v), other)
                       /\ Fair(CheckAuthAlgo(v), other)
  BY <1>b, RequestChecks
<1>d. /\ \A option : Fair(Context(option), Context(option))
      /\ Fair(DecodeSecret(s), DecodeSecret(s2))
      /\ \A m, kind : Fair(MaterialOfKind(m, kind), MaterialOfKind(m, kind))
      /\ \A m : Fair(MaterialParses(m), MaterialParses(m))
      /\ Fair(Ok, Ok)
      /\ Fair(Error("UnsupportedProvider", "none"), Error("UnsupportedProvider", "none"))
  BY DEF Blames, Context, DecodeSecret, MaterialOfKind, MaterialParses, Error, Ok
<1> HIDE DEF Fair
<1> USE <1>a, <1>c, <1>d
<1>1. \A prefixed : Fair(BodyOnlyVerify(headers, body, s, prefixed),
                         BodyOnlyVerify(headers2, body2, s2, prefixed))
  BY DEF BodyOnlyVerify
<1>2. Fair(SquareVerify(headers, body, s, options), SquareVerify(headers2, body2, s2, options))
  BY DEF SquareVerify
<1>3. Fair(TwilioVerify(headers, s, options), TwilioVerify(headers2, s2, options))
  BY DEF TwilioVerify
<1>4. Fair(TimestampedVerify(headers, body, s, options, now),
           TimestampedVerify(headers2, body2, s2, options, now2))
  BY DEF TimestampedVerify
<1>5. \A scheme : Fair(CustomVerify(scheme, headers, body, s, options, now),
                       CustomVerify(scheme, headers2, body2, s2, options, now2))
  BY DEF CustomVerify
<1>6. Fair(DiscordVerify(headers, body, s, options, now),
           DiscordVerify(headers2, body2, s2, options, now2))
  BY DEF DiscordVerify
<1>e. Require(headers, "sig") = Ok /\ p \in Listing =>
          DOMAIN Get(headers, "sig").elems \subseteq Nat
  BY DEF ListsElements, Require, Error, Ok
<1>7. CASE p = "Stripe"
  <2>1. Require(headers, "sig") = Ok =>
            \A other : Fair(StripeParse(Get(headers, "sig").elems), other)
    BY <1>7, <1>b, <1>e, RequestElements DEF Listing
  <2>2. Fair(StripeVerify(headers, body, s, options, now),
             StripeVerify(headers2, body2, s2, options, now2))
    BY <2>1 DEF StripeVerify
  <2> QED BY <1>7, <2>2 DEF Fair, Verify, Custom
<1>8. CASE p = "StandardWebhooks"
  <2> DEFINE first == Require(headers, "id") && Require(headers, "sig")
                          && Require(headers, "ts") && DecodeSecret(s)
             first2 == Require(headers2, "id") && Require(headers2, "sig")
                          && Require(headers2, "ts") && DecodeSecret(s2)
  <2>1. first = Ok => Require(headers, "sig") = Ok BY ChainOk
  <2>2. first = Ok => \A other : Fair(StandardParse(Get(headers, "sig").elems), other)
    BY <1>8, <1>b, <1>e, <2>1, RequestElements DEF Listing
  <2>3. Fair(first, first2) OBVIOUS
  <2>4. Fair(StandardVerify(headers, body, s, options, now),
             StandardVerify(headers2, body2, s2, options, now2))
    BY <2>2, <2>3 DEF StandardVerify
  <2> QED BY <1>8, <2>4 DEF Fair, Verify, Custom
<1>9. Fair(SendGridVerify(headers, body, options, now),
           SendGridVerify(headers2, body2, options, now2))
  BY DEF SendGridVerify
<1>10. Fair(PayPalVerify(headers, body, options, now), PayPalVerify(headers2, body2, options, now2))
  BY DEF PayPalVerify
<1>11. CASE p \in {"GitHub", "Shopify", "Linear", "Dropbox"}
  BY <1>11, <1>1 DEF Fair, Verify, Custom, GitHubVerify, ShopifyVerify, LinearVerify, DropboxVerify
<1>12. CASE p \in {"Square", "Twilio", "Discord"}
  BY <1>12, <1>2, <1>3, <1>6 DEF Fair, Verify, Custom
<1>13. CASE p \in {"Slack", "Zoom"}
  BY <1>13, <1>4 DEF Fair, Verify, Custom, SlackVerify, ZoomVerify
<1>14. CASE p \in Custom
  BY <1>14, <1>5 DEF Fair, Verify, Custom
<1>15. CASE p \in PublicKey \/ p \notin Providers
  BY <1>15, <1>9, <1>10 DEF Fair, Verify, PublicKey, Providers, Custom, BodyOnly
<1> QED BY <1>7, <1>8, <1>11, <1>12, <1>13, <1>14, <1>15
        DEF Fair, Providers, Custom, BodyOnly, PublicKey

(***************************************************************************)
(* Errors of the request's form.  A key may only be blamed before the      *)
(* headers are parsed, by the schemes that decode it first, or after, by   *)
(* the signature check; the clock is asked last.                           *)
(***************************************************************************)

\* An outcome that a key or the clock may be the reason of; the others speak of
\* the configuration or of the form of the request.
Plain(o) == o.kind \in {"Ok", "SignatureMismatch", "InvalidSecret", "TimestampOutOfTolerance"}

\* Two outcomes are the same unless one of them rejects its key, or neither
\* speaks of form or configuration.
Same(o, other) == o = other \/ o.kind = "InvalidSecret" \/ other.kind = "InvalidSecret"
SameForm(o, other) == Same(o, other) \/ (Plain(o) /\ Plain(other))

LEMMA ChainSame ==
    ASSUME NEW e, NEW f, NEW e2, NEW f2
    PROVE  /\ Same(e, e2) /\ Same(f, f2) => Same(e && f, e2 && f2)
           /\ SameForm(e, e2) /\ Plain(f) /\ Plain(f2) => SameForm(e && f, e2 && f2)
<1>1. Ok.kind # "InvalidSecret" BY DEF Ok
<1> QED BY <1>1 DEF Same, SameForm, Plain, &&

\* Under another key and at another time, a scheme finds the same fault with
\* the form of a request or with the configuration, unless it rejects a key.
LEMMA FormUpToKey ==
    ASSUME NEW p, NEW headers, NEW body, NEW s, NEW other, NEW options, NEW now, NEW later
    PROVE  SameForm(Verify(p, headers, body, s, options, now),
                    Verify(p, headers, body, other, options, later))
<1>a. /\ \A e, f, e2, f2 : Same(e, e2) /\ Same(f, f2) => Same(e && f, e2 && f2)
      /\ \A e, f, e2, f2 : SameForm(e, e2) /\ Plain(f) /\ Plain(f2) => SameForm(e && f, e2 && f2)
      /\ \A e, e2 : Same(e, e2) => SameForm(e, e2)
  BY ChainSame DEF SameForm
<1>b. /\ \A o : Same(o, o)
      /\ Same(DecodeSecret(s), DecodeSecret(other))
      /\ \A b : Plain(Match(b))
      /\ \A secs, t : Plain(CheckReplay(secs, options, t))
      /\ Plain(Ok)
  BY DEF Same, Plain, Ok, Error, DecodeSecret, Match, Mismatch, CheckReplay
<1> USE <1>a, <1>b
<1>1. \A prefixed : SameForm(BodyOnlyVerify(headers, body, s, prefixed),
                             BodyOnlyVerify(headers, body, other, prefixed))
  BY DEF BodyOnlyVerify
<1>2. SameForm(SquareVerify(headers, body, s, options), SquareVerify(headers, body, other, options))
  BY DEF SquareVerify
<1>3. SameForm(TwilioVerify(headers, s, options), TwilioVerify(headers, other, options))
  BY DEF TwilioVerify
<1>4. SameForm(TimestampedVerify(headers, body, s, options, now),
               TimestampedVerify(headers, body, other, options, later))
  BY DEF TimestampedVerify
<1>5. \A scheme : SameForm(CustomVerify(scheme, headers, body, s, options, now),
                           CustomVerify(scheme, headers, body, other, options, later))
  BY DEF CustomVerify
<1>6. SameForm(DiscordVerify(headers, body, s, options, now),
               DiscordVerify(headers, body, other, options, later))
  BY DEF DiscordVerify
<1>7. SameForm(StripeVerify(headers, body, s, options, now),
               StripeVerify(headers, body, other, options, later))
  BY DEF StripeVerify
<1>8. SameForm(StandardVerify(headers, body, s, options, now),
               StandardVerify(headers, body, other, options, later))
  BY DEF StandardVerify
<1>9. SameForm(PayPalVerify(headers, body, options, now), PayPalVerify(headers, body, options, later))
  BY DEF PayPalVerify
<1>10. SameForm(SendGridVerify(headers, body, options, now),
                SendGridVerify(headers, body, options, later))
  BY DEF SendGridVerify
<1>11. CASE p \in {"GitHub", "Shopify", "Linear", "Dropbox"}
  BY <1>11, <1>1 DEF Verify, Custom, GitHubVerify, ShopifyVerify, LinearVerify, DropboxVerify
<1>12. CASE p \in {"Square", "Twilio"}
  BY <1>12, <1>2, <1>3 DEF Verify, Custom
<1>13. CASE p \in {"Slack", "Zoom"}
  BY <1>13, <1>4 DEF Verify, Custom, SlackVerify, ZoomVerify
<1>14. CASE p \in Custom
  BY <1>14, <1>5 DEF Verify, Custom
<1>15. CASE p \in {"Discord", "Stripe", "StandardWebhooks"}
  BY <1>15, <1>6, <1>7, <1>8 DEF Verify, Custom
<1>16. CASE p \in PublicKey \/ p \notin Providers
  BY <1>16, <1>9, <1>10 DEF Verify, Custom, PublicKey, Providers, BodyOnly
<1> QED BY <1>11, <1>12, <1>13, <1>14, <1>15, <1>16
        DEF Providers, Custom, BodyOnly, PublicKey

(***************************************************************************)
(* Headers that arrive empty.                                              *)
(***************************************************************************)

\* A refusal that is no mismatch, and an outcome that is no mismatch.
Refused(o) == o # Ok /\ o.kind # "SignatureMismatch"
Unmatched(o) == o.kind # "SignatureMismatch"

LEMMA ChainRefused ==
    ASSUME NEW e, NEW f
    PROVE  /\ Unmatched(e) /\ Unmatched(f) => Unmatched(e && f)
           /\ Unmatched(e) /\ Refused(f) => Refused(e && f)
           /\ Refused(e) => Refused(e && f)
BY DEF Unmatched, Refused, &&

\* No check before the signature check speaks of a mismatch.
LEMMA UnmatchedChecks ==
    /\ \A headers, h : Unmatched(Require(headers, h))
    /\ \A v, prefixed : Unmatched(ParseSignature(v, prefixed))
    /\ \A v, h : Unmatched(ParseTimestamp(v, h)) /\ Unmatched(ParseRfc3339(v, h))
    /\ \A s : Unmatched(DecodeSecret(s))
    /\ \A option : Unmatched(Context(option))
    /\ \A m, kind : Unmatched(MaterialOfKind(m, kind))
    /\ \A m : Unmatched(MaterialParses(m))
    /\ \A v : Unmatched(ParseBase64(v)) /\ Unmatched(WellSized(v)) /\ Unmatched(CheckAuthAlgo(v))
    /\ Unmatched(Ok)
<1> USE DEF Unmatched, Error, Ok
<1>1. \A headers, h : Unmatched(Require(headers, h)) BY DEF Require
<1>2. \A v, prefixed : Unmatched(ParseSignature(v, prefixed)) BY DEF ParseSignature
<1>3. \A v, h : Unmatched(ParseTimestamp(v, h)) /\ Unmatched(ParseRfc3339(v, h))
  BY DEF ParseTimestamp, ParseRfc3339
<1>4. \A s : Unmatched(DecodeSecret(s)) BY DEF DecodeSecret
<1>5. \A option : Unmatched(Context(option)) BY DEF Context
<1>6. \A m, kind : Unmatched(MaterialOfKind(m, kind)) BY DEF MaterialOfKind
<1>7. \A m : Unmatched(MaterialParses(m)) BY DEF MaterialParses
<1>8. \A v : Unmatched(ParseBase64(v)) /\ Unmatched(WellSized(v)) /\ Unmatched(CheckAuthAlgo(v))
  BY DEF ParseBase64, WellSized, CheckAuthAlgo
<1> QED BY <1>1, <1>2, <1>3, <1>4, <1>5, <1>6, <1>7, <1>8

\* What the parsers say of nothing.
LEMMA BlankRefused ==
    ASSUME NEW v, v.form = "blank"
    PROVE  /\ \A prefixed : Refused(ParseSignature(v, prefixed))
           /\ \A h : Refused(ParseTimestamp(v, h)) /\ Refused(ParseRfc3339(v, h))
           /\ Refused(ParseBase64(v))
           /\ Refused(CheckAuthAlgo(v))
BY DEF Refused, ParseSignature, ParseTimestamp, ParseRfc3339, ParseBase64, CheckAuthAlgo, Error, Ok

\* The loop over the elements of a header says of no element that it does not match.
LEMMA UnmatchedElements ==
    ASSUME NEW elems, DOMAIN elems \subseteq Nat
    PROVE  Unmatched(StandardParse(elems))
<1> DEFINE outcomes == [i \in DOMAIN elems |-> StandardElement(elems[i])]
           failed == {i \in DOMAIN outcomes : outcomes[i] # Ok}
<1>1. \A i \in DOMAIN outcomes : Unmatched(outcomes[i]) BY UnmatchedChecks DEF StandardElement
<1>2. failed # {} => Min(failed) \in failed BY MinIsIn
<1>3. Unmatched(FirstError(outcomes)) BY <1>1, <1>2, UnmatchedChecks DEF FirstError
<1>4. Unmatched(AnyTagged(elems, "v1")) BY DEF Unmatched, AnyTagged, Error, Ok
<1> QED BY <1>3, <1>4, ChainRefused DEF StandardParse

\* A list without elements holds neither a timestamp nor a signature.
LEMMA NoElements == Refused(StripeParse(<<>>)) /\ Refused(StandardParse(<<>>))
<1>1. /\ FirstError([i \in DOMAIN <<>> |-> StripeElement(<<>>, i)]) = Ok
      /\ FirstError([i \in DOMAIN <<>> |-> StandardElement(<<>>[i])]) = Ok
  BY DEF FirstError
<1>2. \A tag : Refused(AnyTagged(<<>>, tag)) BY DEF Refused, AnyTagged, Tagged, Error, Ok
<1>3. \A e, f : /\ e = Ok /\ Refused(f) => Refused(e && f)
                /\ Refused(e) => Refused(e && f)
  BY DEF Refused, &&
<1> QED BY <1>1, <1>2, <1>3 DEF StripeParse, StandardParse

\* An empty header that its scheme parses is refused as what it is, under every
\* key and at every time.
LEMMA EmptyRefused ==
    ASSUME NEW p, NEW headers, NEW body, NEW s, NEW options, NEW now,
           ListsElements(p, headers),
           NEW h \in SigningRoles(p) \ {"id", "cert"}, ArrivesEmpty(p, headers, h)
    PROVE  Refused(Verify(p, headers, body, s, options, now))
<1> DEFINE sig == Get(headers, "sig")
           elems == sig.elems
           material == options.verifying_material
<1>a. \A e, f : /\ Unmatched(e) /\ Unmatched(f) => Unmatched(e && f)
                /\ Unmatched(e) /\ Refused(f) => Refused(e && f)
                /\ Refused(e) => Refused(e && f)
  BY ChainRefused
<1>b. /\ \A r : Unmatched(Require(headers, r))
      /\ \A v : Unmatched(ParseSignature(v, TRUE)) /\ Unmatched(ParseSignature(v, FALSE))
      /\ \A v, r : Unmatched(ParseTimestamp(v, r)) /\ Unmatched(ParseRfc3339(v, r))
      /\ Unmatched(DecodeSecret(s))
      /\ \A option : Unmatched(Context(option))
      /\ \A m, kind : Unmatched(MaterialOfKind(m, kind))
      /\ \A m : Unmatched(MaterialParses(m))
      /\ \A v : Unmatched(ParseBase64(v)) /\ Unmatched(CheckAuthAlgo(v))
      /\ Unmatched(Ok)
  BY UnmatchedChecks
<1>c. Refused(Error("UnsupportedProvider", "none")) BY DEF Refused, Error, Ok
<1> DEFINE outcome == Verify(p, headers, body, s, options, now)
<1>1. CASE p \in Listing /\ h = "sig"
  <2>1. elems = <<>> BY <1>1 DEF ArrivesEmpty
  <2>2. Refused(StripeParse(elems)) /\ Refused(StandardParse(elems)) BY <2>1, NoElements
  <2> HIDE DEF elems
  <2>3. CASE p = "Stripe" BY <2>2, <2>3, <1>a, <1>b DEF Verify, StripeVerify, Custom, elems
  <2>4. CASE p = "StandardWebhooks"
    <3> DEFINE keyed == Require(headers, "id") && Require(headers, "sig")
                            && Require(headers, "ts") && DecodeSecret(s)
    <3>1. Unmatched(keyed) BY <1>a, <1>b
    <3>2. outcome = keyed && StandardParse(elems) && ParseTimestamp(Get(headers, "ts"), "ts")
                      && Match(\E v \in Listed(elems) : Signs(v, s, StandardString(headers, body)))
                      && CheckReplay(Get(headers, "ts").secs, options, now)
      BY <2>4 DEF Verify, StandardVerify, Custom, elems
    <3> HIDE DEF keyed, outcome
    <3>3. Refused(outcome) BY <1>a, <2>2, <3>1, <3>2
    <3> QED BY <3>3 DEF outcome
  <2> QED BY <1>1, <2>3, <2>4 DEF Listing
<1>2. CASE p \notin Listing /\ h = "sig"
  <2>1. /\ Refused(ParseSignature(sig, TRUE)) /\ Refused(ParseSignature(sig, FALSE))
        /\ Refused(ParseBase64(sig))
    BY <1>2, BlankRefused DEF ArrivesEmpty
  <2> HIDE DEF sig
  <2>2. CASE p \in {"GitHub", "Shopify", "Linear", "Dropbox"}
    BY <1>a, <1>b, <2>1, <2>2
       DEF Verify, Custom, GitHubVerify, ShopifyVerify, LinearVerify, DropboxVerify, BodyOnlyVerify, sig
  <2>3. CASE p = "Square" BY <1>a, <1>b, <2>1, <2>3 DEF Verify, Custom, SquareVerify, sig
  <2>4. CASE p = "Twilio" BY <1>a, <1>b, <2>1, <2>4 DEF Verify, Custom, TwilioVerify, sig
  <2>5. CASE p \in {"Slack", "Zoom"}
    BY <1>a, <1>b, <2>1, <2>5 DEF Verify, Custom, SlackVerify, ZoomVerify, TimestampedVerify, sig
  <2>6. CASE p \in Custom
    <3>1. CustomScheme(p).prefix \in BOOLEAN /\ CustomScheme(p).timestamp \in BOOLEAN
      BY DEF CustomScheme
    <3> QED BY <1>a, <1>b, <2>1, <2>6, <3>1 DEF Verify, Custom, CustomVerify, sig
  <2>7. CASE p = "Discord" BY <1>a, <1>b, <2>1, <2>7 DEF Verify, Custom, DiscordVerify, sig
  <2>8. CASE p = "SendGrid"
    BY <1>a, <1>b, <1>c, <2>1, <2>8 DEF Verify, Custom, SendGridVerify, sig
  <2>9. CASE p = "PayPal"
    <3> DEFINE required == Require(headers, "id") && Require(headers, "ts")
                               && Require(headers, "sig") && Require(headers, "cert")
                               && Require(headers, "algo")
               keyed == required && Context(options.webhook_id) && Context(material)
                            && MaterialOfKind(material, "X509Certificate")
                            && MaterialParses(material) && CheckAuthAlgo(Get(headers, "algo"))
    <3>1. Unmatched(required) BY <1>a, <1>b
    <3>2. Unmatched(keyed)
      <4> HIDE DEF required
      <4> QED BY <1>a, <1>b, <3>1
    <3>3. "paypal" \in Features =>
              outcome = keyed && ParseBase64(sig) && ParseRfc3339(Get(headers, "ts"), "ts")
                            && WellSized(sig)
                            && Match(Signs(sig, The(material).key, PayPalString(headers, body, options)))
                            && CheckReplay(Get(headers, "ts").secs, options, now)
      BY <2>9 DEF Verify, PayPalVerify, Custom, sig
    <3>4. "paypal" \notin Features => outcome = Error("UnsupportedProvider", "none")
      BY <2>9 DEF Verify, Custom
    <3> HIDE DEF keyed, outcome
    <3>5. Refused(outcome) BY <1>a, <1>c, <2>1, <3>2, <3>3, <3>4
    <3> QED BY <3>5 DEF outcome
  <2>10. CASE p \notin Providers
    BY <1>c, <2>10 DEF Verify, Custom, Providers, BodyOnly
  <2> QED BY <1>2, <2>2, <2>3, <2>4, <2>5, <2>6, <2>7, <2>8, <2>9, <2>10
          DEF Providers, BodyOnly, Custom, Listing
<1>3. CASE h = "ts"
  <2> DEFINE ts == Get(headers, "ts")
  <2>1. Refused(ParseTimestamp(ts, "ts")) /\ Refused(ParseRfc3339(ts, "ts"))
    BY <1>3, BlankRefused DEF ArrivesEmpty
  <2>2. p \in Timestamped \ {"Stripe"} BY <1>3 DEF SigningRoles
  <2> HIDE DEF ts
  <2>3. CASE p \in {"Slack", "Zoom"}
    BY <1>a, <1>b, <2>1, <2>3 DEF Verify, Custom, SlackVerify, ZoomVerify, TimestampedVerify, ts
  <2>4. CASE p = "CustomTimestamped"
    <3>1. CustomScheme(p).prefix = TRUE /\ CustomScheme(p).timestamp = TRUE
      BY <2>4 DEF CustomScheme
    <3> QED BY <1>a, <1>b, <2>1, <2>4, <3>1 DEF Verify, Custom, CustomVerify, ts
  <2>5. CASE p = "Discord" BY <1>a, <1>b, <2>1, <2>5 DEF Verify, Custom, DiscordVerify, ts
  <2>6. CASE p = "StandardWebhooks"
    <3> DEFINE required == Require(headers, "id") && Require(headers, "sig")
               keyed == required && Require(headers, "ts") && DecodeSecret(s)
    <3>1. Has(headers, "sig") => Unmatched(StandardParse(elems))
      BY <2>6, UnmatchedElements DEF ListsElements, Listing
    <3>2. ~Has(headers, "sig") => Refused(required) BY <1>a, <1>b DEF Require, Refused, Error, Ok
    <3>3. Unmatched(required) BY <1>a, <1>b
    <3>4. Unmatched(keyed) /\ (~Has(headers, "sig") => Refused(keyed))
      <4> HIDE DEF required
      <4> QED BY <1>a, <1>b, <3>2, <3>3
    <3>5. outcome = keyed && StandardParse(elems) && ParseTimestamp(ts, "ts")
                      && Match(\E v \in Listed(elems) : Signs(v, s, StandardString(headers, body)))
                      && CheckReplay(ts.secs, options, now)
      BY <2>6 DEF Verify, StandardVerify, Custom, ts
    <3> HIDE DEF keyed, outcome, elems
    <3>6. Refused(outcome) BY <1>a, <2>1, <3>1, <3>4, <3>5
    <3> QED BY <3>6 DEF outcome
  <2>7. CASE p = "SendGrid"
    BY <1>a, <1>b, <1>c, <2>1, <2>7 DEF Verify, Custom, SendGridVerify, ts
  <2>8. CASE p = "PayPal"
    <3> DEFINE required == Require(headers, "id") && Require(headers, "ts")
                               && Require(headers, "sig") && Require(headers, "cert")
                               && Require(headers, "algo")
               keyed == required && Context(options.webhook_id) && Context(material)
                            && MaterialOfKind(material, "X509Certificate")
                            && MaterialParses(material) && CheckAuthAlgo(Get(headers, "algo"))
                            && ParseBase64(sig)
    <3>1. Unmatched(required) BY <1>a, <1>b
    <3>2. Unmatched(keyed)
      <4> HIDE DEF required
      <4> QED BY <1>a, <1>b, <3>1
    <3>3. "paypal" \in Features =>
              outcome = keyed && ParseRfc3339(ts, "ts") && WellSized(sig)
                            && Match(Signs(sig, The(material).key, PayPalString(headers, body, options)))
                            && CheckReplay(ts.secs, options, now)
      BY <2>8 DEF Verify, PayPalVerify, Custom, ts
    <3>4. "paypal" \notin Features => outcome = Error("UnsupportedProvider", "none")
      BY <2>8 DEF Verify, Custom
    <3> HIDE DEF keyed, outcome
    <3>5. Refused(outcome) BY <1>a, <1>c, <2>1, <3>2, <3>3, <3>4
    <3> QED BY <3>5 DEF outcome
  <2> QED BY <2>2, <2>3, <2>4, <2>5, <2>6, <2>7, <2>8 DEF Timestamped, PublicKey
<1>4. CASE h = "algo"
  <2> DEFINE algo == Get(headers, "algo")
             required == Require(headers, "id") && Require(headers, "ts")
                             && Require(headers, "sig") && Require(headers, "cert")
                             && Require(headers, "algo")
             keyed == required && Context(options.webhook_id) && Context(material)
                          && MaterialOfKind(material, "X509Certificate")
                          && MaterialParses(material)
  <2>1. p = "PayPal" BY <1>4 DEF SigningRoles
  <2>2. Refused(CheckAuthAlgo(algo)) BY <1>4, BlankRefused DEF ArrivesEmpty
  <2>3. Unmatched(required) BY <1>a, <1>b
  <2>4. Unmatched(keyed)
    <3> HIDE DEF required
    <3> QED BY <1>a, <1>b, <2>3
  <2>5. "paypal" \in Features =>
            outcome = keyed && CheckAuthAlgo(algo) && ParseBase64(sig)
                          && ParseRfc3339(Get(headers, "ts"), "ts") && WellSized(sig)
                          && Match(Signs(sig, The(material).key, PayPalString(headers, body, options)))
                          && CheckReplay(Get(headers, "ts").secs, options, now)
    BY <2>1 DEF Verify, PayPalVerify, Custom
  <2>6. "paypal" \notin Features => outcome = Error("UnsupportedProvider", "none")
    BY <2>1 DEF Verify, Custom
  <2> HIDE DEF keyed, outcome, algo
  <2>7. Refused(outcome) BY <1>a, <1>c, <2>2, <2>4, <2>5, <2>6
  <2> QED BY <2>7 DEF outcome
<1> QED BY <1>1, <1>2, <1>3, <1>4 DEF SigningRoles

(***************************************************************************)
(* Requests that cannot be read to their end.                              *)
(***************************************************************************)

\* What is said only after the signature check, and an outcome that is
\* said only before it, if it is no success.
Judged(o) == o.kind \in {"Ok", "SignatureMismatch", "TimestampOutOfTolerance"}
Unjudged(o) == Judged(o) => o = Ok

\* A chain that says so got past all of its checks that cannot.
LEMMA ChainJudged ==
    ASSUME NEW e, NEW f
    PROVE  /\ Judged(e && f) => Judged(e)
           /\ Unjudged(e) /\ Judged(e && f) => e = Ok /\ Judged(f)
           /\ Unjudged(e) /\ Unjudged(f) => Unjudged(e && f)
BY DEF Judged, Unjudged, &&, Ok

\* No check before the signature check passes judgement on it.
LEMMA UnjudgedChecks ==
    /\ \A headers, h : Unjudged(Require(headers, h))
    /\ \A v, prefixed : Unjudged(ParseSignature(v, prefixed))
    /\ \A v, h : Unjudged(ParseTimestamp(v, h)) /\ Unjudged(ParseRfc3339(v, h))
    /\ \A s : Unjudged(DecodeSecret(s))
    /\ \A option : Unjudged(Context(option))
    /\ \A m, kind : Unjudged(MaterialOfKind(m, kind))
    /\ \A m : Unjudged(MaterialParses(m))
    /\ \A v : Unjudged(ParseBase64(v)) /\ Unjudged(WellSized(v)) /\ Unjudged(CheckAuthAlgo(v))
    /\ \A elems, tag : Unjudged(AnyTagged(elems, tag))
    /\ Unjudged(Ok)
<1> USE DEF Unjudged, Judged, Error, Ok
<1>1. \A headers, h : Unjudged(Require(headers, h)) BY DEF Require
<1>2. \A v, prefixed : Unjudged(ParseSignature(v, prefixed)) BY DEF ParseSignature
<1>3. \A v, h : Unjudged(ParseTimestamp(v, h)) /\ Unjudged(ParseRfc3339(v, h))
  BY DEF ParseTimestamp, ParseRfc3339
<1>4. \A s : Unjudged(DecodeSecret(s)) BY DEF DecodeSecret
<1>5. \A option : Unjudged(Context(option)) BY DEF Context
<1>6. \A m, kind : Unjudged(MaterialOfKind(m, kind)) BY DEF MaterialOfKind
<1>7. \A m : Unjudged(MaterialParses(m)) BY DEF MaterialParses
<1>8. \A v : Unjudged(ParseBase64(v)) /\ Unjudged(WellSized(v)) /\ Unjudged(CheckAuthAlgo(v))
  BY DEF ParseBase64, WellSized, CheckAuthAlgo
<1>9. \A elems, tag : Unjudged(AnyTagged(elems, tag)) BY DEF AnyTagged
<1> QED BY <1>1, <1>2, <1>3, <1>4, <1>5, <1>6, <1>7, <1>8, <1>9

\* What the parsers let through can be read.
Legible(v) == v.form \notin {"blank", "undecodable", "missized"}

LEMMA ParsedIsLegible ==
    /\ \A v, prefixed : ParseSignature(v, prefixed) = Ok => Legible(v)
    /\ \A v : ParseBase64(v) = Ok /\ WellSized(v) = Ok => Legible(v)
    /\ \A v, h : /\ ParseTimestamp(v, h) = Ok => v.form = "digits" /\ v.secs \in 0 .. U64Max
                 /\ ParseRfc3339(v, h) = Ok => v.form = "rfc3339" /\ v.secs \in Nat
    /\ \A v : CheckAuthAlgo(v) = Ok => v.form = "SHA256withRSA"
BY DEF ParseSignature, ParseBase64, WellSized, ParseTimestamp, ParseRfc3339, CheckAuthAlgo,
       Legible, Error, Ok

\* The loop over the elements of a header succeeds only if each element does.
LEMMA EachElementOk ==
    ASSUME NEW outcomes, DOMAIN outcomes \subseteq Nat
    PROVE  /\ FirstError(outcomes) = Ok => \A i \in DOMAIN outcomes : outcomes[i] = Ok
           /\ (\A i \in DOMAIN outcomes : Unjudged(outcomes[i])) => Unjudged(FirstError(outcomes))
<1> DEFINE failed == {i \in DOMAIN outcomes : outcomes[i] # Ok}
<1>1. failed # {} => Min(failed) \in failed BY MinIsIn
<1>2. Unjudged(Ok) BY UnjudgedChecks
<1> QED BY <1>1, <1>2 DEF FirstError

LEMMA StripeReadable ==
    ASSUME NEW elems, DOMAIN elems \subseteq Nat
    PROVE  /\ Unjudged(StripeParse(elems))
           /\ StripeParse(elems) = Ok =>
                  /\ \A v \in Listed(elems) : Legible(v)
                  /\ \E i \in DOMAIN elems : Tagged(elems, "t") = {i}
                  /\ StripeTimestamp(elems).form = "digits"
                  /\ StripeTimestamp(elems).secs \in 0 .. U64Max
<1> DEFINE outcomes == [i \in DOMAIN elems |-> StripeElement(elems, i)]
           tags == AnyTagged(elems, "t")
           time == ParseTimestamp(StripeTimestamp(elems), "sig")
           sigs == AnyTagged(elems, "v1")
<1>1. \A i : Unjudged(StripeElement(elems, i))
  <2>1. Unjudged(Error("MalformedHeader", "sig")) BY DEF Unjudged, Judged, Error
  <2> QED BY <2>1, UnjudgedChecks DEF StripeElement
<1>2. Unjudged(FirstError(outcomes))
  <2>1. \A i \in DOMAIN outcomes : Unjudged(outcomes[i]) BY <1>1
  <2>2. DOMAIN outcomes \subseteq Nat OBVIOUS
  <2> HIDE DEF outcomes
  <2> QED BY <2>1, <2>2, EachElementOk
<1>3. StripeParse(elems) = FirstError(outcomes) && tags && time && sigs BY DEF StripeParse
<1>4. Unjudged(tags) /\ Unjudged(time) /\ Unjudged(sigs) BY UnjudgedChecks
<1>5. Unjudged(StripeParse(elems))
  <2> HIDE DEF outcomes, tags, time, sigs
  <2>1. Unjudged(FirstError(outcomes) && tags) BY <1>2, <1>4, ChainJudged
  <2>2. Unjudged(FirstError(outcomes) && tags && time) BY <2>1, <1>4, ChainJudged
  <2> QED BY <1>3, <1>4, <2>2, ChainJudged
<1>6. ASSUME StripeParse(elems) = Ok
      PROVE  /\ \A v \in Listed(elems) : Legible(v)
             /\ \E i \in DOMAIN elems : Tagged(elems, "t") = {i}
             /\ StripeTimestamp(elems).form = "digits"
             /\ StripeTimestamp(elems).secs \in 0 .. U64Max
  <2>1. FirstError(outcomes) = Ok /\ tags = Ok /\ time = Ok
    <3> DEFINE each == FirstError(outcomes)
    <3>1. (each && tags && time && sigs) = Ok BY <1>3, <1>6
    <3> HIDE DEF each, tags, time, sigs
    <3>2. each = Ok /\ tags = Ok /\ time = Ok BY <3>1, ChainOk
    <3> QED BY <3>2 DEF each
  <2>2. \A i \in DOMAIN elems : StripeElement(elems, i) = Ok
    <3>1. DOMAIN outcomes \subseteq Nat OBVIOUS
    <3>2. \A i \in DOMAIN outcomes : outcomes[i] = Ok
      <4> HIDE DEF outcomes
      <4> QED BY <2>1, <3>1, EachElementOk
    <3> QED BY <3>2
  <2>3. \A i \in DOMAIN elems : elems[i].tag = "v1" => Legible(elems[i].value)
    BY <2>2, ParsedIsLegible DEF StripeElement
  <2>4. \A i, j \in Tagged(elems, "t") : i = j
    <3> SUFFICES ASSUME NEW i \in Tagged(elems, "t"), NEW j \in Tagged(elems, "t"), j < i
                 PROVE  FALSE
      <4>1. Tagged(elems, "t") \subseteq Nat BY DEF Tagged
      <4> QED BY <4>1
    <3>1. StripeElement(elems, i) = Error("MalformedHeader", "sig")
      BY DEF Tagged, StripeElement
    <3> QED BY <2>2, <3>1 DEF Tagged, Error, Ok
  <2>5. Tagged(elems, "t") # {} BY <2>1 DEF AnyTagged, Error, Ok
  <2> QED BY <2>1, <2>3, <2>4, <2>5, ParsedIsLegible DEF Listed, Tagged
<1> QED BY <1>5, <1>6

LEMMA StandardReadable ==
    ASSUME NEW elems, DOMAIN elems \subseteq Nat
    PROVE  /\ Unjudged(StandardParse(elems))
           /\ StandardParse(elems) = Ok => \A v \in Listed(elems) : Legible(v)
<1> DEFINE outcomes == [i \in DOMAIN elems |-> StandardElement(elems[i])]
           sigs == AnyTagged(elems, "v1")
<1>1. \A i \in DOMAIN outcomes : Unjudged(outcomes[i]) BY UnjudgedChecks DEF StandardElement
<1>2. DOMAIN outcomes = DOMAIN elems OBVIOUS
<1>3. StandardParse(elems) = FirstError(outcomes) && sigs BY DEF StandardParse
<1>4. Unjudged(sigs) BY UnjudgedChecks
<1>5. Unjudged(StandardParse(elems))
  <2> HIDE DEF outcomes, sigs
  <2> QED BY <1>1, <1>2, <1>3, <1>4, EachElementOk, ChainJudged
<1>6. StandardParse(elems) = Ok => \A i \in DOMAIN elems : outcomes[i] = Ok
  <2> HIDE DEF outcomes, sigs
  <2> QED BY <1>2, <1>3, EachElementOk, ChainOk
<1>7. StandardParse(elems) = Ok => \A v \in Listed(elems) : Legible(v)
  BY <1>6, ParsedIsLegible DEF StandardElement, Listed, Tagged
<1> QED BY <1>5, <1>7

\* Whatever is wrong with a signature or a timestamp, in whichever element of a
\* list, keeps the request from being judged, under every key and at every time.
LEMMA JudgedIsReadable ==
    ASSUME NEW p, NEW headers, NEW body, NEW s, NEW options, NEW now,
           ListsElements(p, headers), Judged(Verify(p, headers, body, s, options, now))
    PROVE  Readable(p, headers)
<1> DEFINE sig == Get(headers, "sig")
           ts == Get(headers, "ts")
           elems == sig.elems
           material == options.verifying_material
           replay == CheckReplay(ts.secs, options, now)
           outcome == Verify(p, headers, body, s, options, now)
<1>0. Judged(outcome) OBVIOUS
<1>a. \A e, f : Unjudged(e) /\ Unjudged(f) => Unjudged(e && f) BY ChainJudged
<1>g. \A e, f, g : Unjudged(e) /\ (Judged(e && f) \/ Judged(e && f && g)) => e = Ok
  BY ChainJudged
<1>h. \A e, f : (e && f) = Ok => e = Ok /\ f = Ok BY ChainOk
<1>b. /\ \A r : Unjudged(Require(headers, r))
      /\ \A v : Unjudged(ParseSignature(v, TRUE)) /\ Unjudged(ParseSignature(v, FALSE))
      /\ \A v, r : Unjudged(ParseTimestamp(v, r)) /\ Unjudged(ParseRfc3339(v, r))
      /\ Unjudged(DecodeSecret(s))
      /\ \A option : Unjudged(Context(option))
      /\ \A m, kind : Unjudged(MaterialOfKind(m, kind))
      /\ \A m : Unjudged(MaterialParses(m))
      /\ \A v : Unjudged(ParseBase64(v)) /\ Unjudged(WellSized(v)) /\ Unjudged(CheckAuthAlgo(v))
      /\ Unjudged(Ok)
  BY UnjudgedChecks
<1>c. ~Judged(Error("UnsupportedProvider", "none")) BY DEF Judged, Error
<1>d. /\ ParseSignature(sig, TRUE) = Ok => Legible(sig)
      /\ ParseSignature(sig, FALSE) = Ok => Legible(sig)
      /\ ParseBase64(sig) = Ok /\ WellSized(sig) = Ok => Legible(sig)
      /\ ParseTimestamp(ts, "ts") = Ok => ts.form = "digits" /\ ts.secs \in 0 .. U64Max
      /\ ParseRfc3339(ts, "ts") = Ok => ts.form = "rfc3339" /\ ts.secs \in Nat
      /\ \A v : CheckAuthAlgo(v) = Ok => v.form = "SHA256withRSA"
  BY ParsedIsLegible
<1>e. Has(headers, "sig") <=> Require(headers, "sig") = Ok BY DEF Require, Error, Ok
<1>f. p \notin Listing => (Legible(sig) <=> \A v \in Offered(p, headers) : Legible(v))
  BY DEF Offered
<1> HIDE DEF sig, ts, outcome
<1>1. CASE p = "GitHub"
  <2> DEFINE before == Require(headers, "sig") && ParseSignature(sig, TRUE)
  <2>1. outcome = before && Match(Signs(sig, s, <<body>>))
    BY <1>1 DEF Verify, Custom, GitHubVerify, ShopifyVerify, LinearVerify, DropboxVerify,
               BodyOnlyVerify, sig, outcome
  <2>2. Unjudged(before) BY <1>a, <1>b
  <2>3. before = Ok
    <3> HIDE DEF before
    <3> QED BY <1>0, <1>g, <2>1, <2>2
  <2>4. Legible(sig) BY <1>d, <1>h, <2>3
  <2> QED BY <1>1, <1>f, <2>4 DEF Readable, Legible, Timestamped, PublicKey, Listing
<1>2. CASE p \in {"Shopify", "Linear", "Dropbox"}
  <2> DEFINE before == Require(headers, "sig") && ParseSignature(sig, FALSE)
  <2>1. outcome = before && Match(Signs(sig, s, <<body>>))
    BY <1>2 DEF Verify, Custom, GitHubVerify, ShopifyVerify, LinearVerify, DropboxVerify,
               BodyOnlyVerify, sig, outcome
  <2>2. Unjudged(before) BY <1>a, <1>b
  <2>3. before = Ok
    <3> HIDE DEF before
    <3> QED BY <1>0, <1>g, <2>1, <2>2
  <2>4. Legible(sig) BY <1>d, <1>h, <2>3
  <2> QED BY <1>2, <1>f, <2>4 DEF Readable, Legible, Timestamped, PublicKey, Listing
<1>3. CASE p = "Square"
  <2> DEFINE first == Require(headers, "sig") && Context(NonEmpty(options.request_url))
             signature == ParseSignature(sig, FALSE)
             usable == DecodeSecret(s)
             before == first && signature && usable
  <2>1. outcome = before && Match(Signs(sig, s, SquareString(body, options)))
    BY <1>3 DEF Verify, Custom, SquareVerify, sig, outcome
  <2>2. Unjudged(first) BY <1>a, <1>b
  <2>3. Unjudged(before)
    <3> HIDE DEF first
    <3> QED BY <1>a, <1>b, <2>2
  <2>4. before = Ok
    <3> HIDE DEF before, replay
    <3> QED BY <1>0, <1>g, <2>1, <2>3
  <2>5. signature = Ok
    <3> HIDE DEF first, signature, usable
    <3> QED BY <1>h, <2>4
  <2>6. Legible(sig) BY <1>d, <2>5
  <2> QED BY <1>3, <1>f, <2>6 DEF Readable, Legible, Timestamped, PublicKey, Listing
<1>4. CASE p = "Twilio"
  <2> DEFINE first == Require(headers, "sig") && Context(NonEmpty(options.request_url))
                          && Context(options.form_params)
             signature == ParseSignature(sig, FALSE)
             usable == DecodeSecret(s)
             before == first && signature && usable
  <2>1. outcome = before && Match(Signs(sig, s, TwilioString(options)))
    BY <1>4 DEF Verify, Custom, TwilioVerify, sig, outcome
  <2>2. Unjudged(first) BY <1>a, <1>b
  <2>3. Unjudged(before)
    <3> HIDE DEF first
    <3> QED BY <1>a, <1>b, <2>2
  <2>4. before = Ok
    <3> HIDE DEF before, replay
    <3> QED BY <1>0, <1>g, <2>1, <2>3
  <2>5. signature = Ok
    <3> HIDE DEF first, signature, usable
    <3> QED BY <1>h, <2>4
  <2>6. Legible(sig) BY <1>d, <2>5
  <2> QED BY <1>4, <1>f, <2>6 DEF Readable, Legible, Timestamped, PublicKey, Listing
<1>5. CASE p \in {"Slack", "Zoom"}
  <2> DEFINE first == Require(headers, "sig") && Require(headers, "ts")
             signature == ParseSignature(sig, TRUE)
             time == ParseTimestamp(ts, "ts")
             before == first && signature && time
  <2>1. outcome = before && Match(Signs(sig, s, TimestampedString(headers, body))) && replay
    BY <1>5 DEF Verify, Custom, SlackVerify, ZoomVerify, TimestampedVerify, sig, ts, outcome
  <2>2. Unjudged(first) BY <1>a, <1>b
  <2>3. Unjudged(before)
    <3> HIDE DEF first
    <3> QED BY <1>a, <1>b, <2>2
  <2>4. before = Ok
    <3> HIDE DEF before, replay
    <3> QED BY <1>0, <1>g, <2>1, <2>3
  <2>5. signature = Ok /\ time = Ok
    <3> HIDE DEF first, signature, time
    <3> QED BY <1>h, <2>4
  <2>6. Legible(sig) /\ ts.form = "digits" /\ ts.secs \in 0 .. U64Max BY <1>d, <2>5
  <2> QED BY <1>5, <1>f, <2>6 DEF Readable, Legible, Listing, InstantInForm, Stamp, ts
<1>6. CASE p = "CustomTimestamped"
  <2> DEFINE first == Require(headers, "sig") && Require(headers, "ts")
             signature == ParseSignature(sig, TRUE)
             time == ParseTimestamp(ts, "ts")
             before == first && signature && time
  <2>1. outcome = before && Match(Signs(sig, s, TimestampedString(headers, body))) && replay
    BY <1>6 DEF Verify, Custom, CustomScheme, CustomString, CustomVerify, sig, ts, outcome
  <2>2. Unjudged(first) BY <1>a, <1>b
  <2>3. Unjudged(before)
    <3> HIDE DEF first
    <3> QED BY <1>a, <1>b, <2>2
  <2>4. before = Ok
    <3> HIDE DEF before, replay
    <3> QED BY <1>0, <1>g, <2>1, <2>3
  <2>5. signature = Ok /\ time = Ok
    <3> HIDE DEF first, signature, time
    <3> QED BY <1>h, <2>4
  <2>6. Legible(sig) /\ ts.form = "digits" /\ ts.secs \in 0 .. U64Max BY <1>d, <2>5
  <2> QED BY <1>6, <1>f, <2>6 DEF Readable, Legible, Listing, InstantInForm, Stamp, ts
<1>7. CASE p = "Custom"
  <2> DEFINE first == Require(headers, "sig") && Ok
             signature == ParseSignature(sig, FALSE)
             before == first && signature && Ok
  <2>1. outcome = before && Match(Signs(sig, s, <<body>>)) && Ok
    BY <1>7 DEF Verify, Custom, CustomScheme, CustomString, CustomVerify, sig, ts, outcome
  <2>2. Unjudged(first) BY <1>a, <1>b
  <2>3. Unjudged(before)
    <3> HIDE DEF first
    <3> QED BY <1>a, <1>b, <2>2
  <2>4. before = Ok
    <3> HIDE DEF before
    <3> QED BY <1>0, <1>g, <2>1, <2>3
  <2>5. signature = Ok
    <3> HIDE DEF first, signature
    <3> QED BY <1>h, <2>4
  <2>6. Legible(sig) BY <1>d, <2>5
  <2> QED BY <1>7, <1>f, <2>6 DEF Readable, Legible, Timestamped, PublicKey, Listing
<1>8. CASE p = "Discord"
  <2> DEFINE first == Require(headers, "sig") && Require(headers, "ts") && DecodeSecret(s)
             signature == ParseSignature(sig, FALSE)
             time == ParseTimestamp(ts, "ts")
             before == first && signature && time
  <2>1. outcome = before && Match(Signs(sig, s, TimestampedString(headers, body))) && replay
    BY <1>8 DEF Verify, Custom, DiscordVerify, sig, ts, outcome
  <2>2. Unjudged(first) BY <1>a, <1>b
  <2>3. Unjudged(before)
    <3> HIDE DEF first
    <3> QED BY <1>a, <1>b, <2>2
  <2>4. before = Ok
    <3> HIDE DEF before, replay
    <3> QED BY <1>0, <1>g, <2>1, <2>3
  <2>5. signature = Ok /\ time = Ok
    <3> HIDE DEF first, signature, time
    <3> QED BY <1>h, <2>4
  <2>6. Legible(sig) /\ ts.form = "digits" /\ ts.secs \in 0 .. U64Max BY <1>d, <2>5
  <2> QED BY <1>8, <1>f, <2>6 DEF Readable, Legible, Listing, InstantInForm, Stamp, ts
<1>9. CASE p = "Stripe"
  <2> DEFINE before == Require(headers, "sig") && StripeParse(elems)
  <2>1. outcome = before && Match(\E v \in Listed(elems) : Signs(v, s, StripeString(elems, body)))
                      && CheckReplay(StripeTimestamp(elems).secs, options, now)
    BY <1>9 DEF Verify, Custom, StripeVerify, sig, outcome
  <2>2. Unjudged(before)
    <3>1. CASE ~Has(headers, "sig") BY <3>1 DEF Require, Error, Unjudged, Judged, &&, Ok
    <3>2. CASE Has(headers, "sig")
      <4>1. Unjudged(StripeParse(elems)) BY <1>9, <3>2, StripeReadable DEF ListsElements, Listing, sig
      <4> QED BY <1>a, <1>b, <4>1
    <3> QED BY <3>1, <3>2
  <2>3. before = Ok
    <3> HIDE DEF before, elems
    <3> QED BY <1>0, <1>g, <2>1, <2>2
  <2>4. Has(headers, "sig") /\ StripeParse(elems) = Ok BY <1>e, <2>3, <1>h
  <2>5. DOMAIN elems \subseteq Nat BY <1>9, <2>4 DEF ListsElements, Listing, sig
  <2>6. /\ \A v \in Listed(elems) : Legible(v)
        /\ \E i \in DOMAIN elems : Tagged(elems, "t") = {i}
        /\ StripeTimestamp(elems).form = "digits"
        /\ StripeTimestamp(elems).secs \in 0 .. U64Max
    BY <2>4, <2>5, StripeReadable
  <2> QED BY <1>9, <2>6 DEF Readable, Legible, Offered, Listing, InstantInForm, Stamp, sig
<1>10. CASE p = "StandardWebhooks"
  <2> DEFINE required == Require(headers, "id") && Require(headers, "sig")
             keyed == required && Require(headers, "ts") && DecodeSecret(s)
             before == keyed && StandardParse(elems) && ParseTimestamp(ts, "ts")
  <2>1. outcome = before && Match(\E v \in Listed(elems) : Signs(v, s, StandardString(headers, body)))
                      && replay
    BY <1>10 DEF Verify, Custom, StandardVerify, sig, ts, outcome
  <2>2. Unjudged(keyed) /\ (keyed = Ok => Has(headers, "sig"))
    <3>1. Unjudged(required) BY <1>a, <1>b
    <3>2. required = Ok => Has(headers, "sig") BY <1>e, <1>h
    <3> HIDE DEF required
    <3> QED BY <1>a, <1>b, <3>1, <3>2, <1>h
  <2>3. Has(headers, "sig") =>
            /\ Unjudged(StandardParse(elems))
            /\ StandardParse(elems) = Ok => \A v \in Listed(elems) : Legible(v)
    BY <1>10, StandardReadable DEF ListsElements, Listing, sig
  <2>4. Unjudged(before)
    <3> HIDE DEF keyed, elems
    <3>1. CASE keyed = Ok
      <4>1. Unjudged(StandardParse(elems)) BY <2>2, <2>3, <3>1
      <4>2. Unjudged(keyed && StandardParse(elems)) BY <1>a, <2>2, <4>1
      <4> QED BY <1>a, <1>b, <4>2
    <3>2. CASE keyed # Ok
      <4>1. before = keyed BY <3>2 DEF &&
      <4> QED BY <2>2, <4>1
    <3> QED BY <3>1, <3>2
  <2>5. before = Ok
    <3> HIDE DEF before, elems, replay
    <3> QED BY <1>0, <1>g, <2>1, <2>4
  <2>6. keyed = Ok /\ StandardParse(elems) = Ok /\ ParseTimestamp(ts, "ts") = Ok
    <3> HIDE DEF keyed, elems
    <3> QED BY <2>5, <1>h
  <2>7. \A v \in Listed(elems) : Legible(v) BY <2>2, <2>3, <2>6
  <2>8. ts.form = "digits" /\ ts.secs \in 0 .. U64Max BY <1>d, <2>6
  <2> QED BY <1>10, <2>7, <2>8 DEF Readable, Legible, Offered, Listing, InstantInForm, Stamp, sig, ts
<1>11. CASE p = "SendGrid"
  <2> DEFINE keyed == Require(headers, "sig") && Require(headers, "ts") && Context(material)
                          && MaterialOfKind(material, "EcdsaP256PublicKey")
             before == keyed && ParseBase64(sig) && ParseTimestamp(ts, "ts")
                           && MaterialParses(material) && WellSized(sig)
  <2>1. "sendgrid" \in Features =>
            outcome = before && Match(Signs(sig, The(material).key, TimestampedString(headers, body)))
                          && replay
    BY <1>11 DEF Verify, Custom, SendGridVerify, sig, ts, outcome
  <2>2. "sendgrid" \notin Features => outcome = Error("UnsupportedProvider", "none")
    BY <1>11 DEF Verify, Custom, outcome
  <2>3. Unjudged(keyed) BY <1>a, <1>b
  <2>4. Unjudged(before)
    <3> HIDE DEF keyed
    <3> QED BY <1>a, <1>b, <2>3
  <2>5. before = Ok
    <3> HIDE DEF before, replay
    <3> QED BY <1>0, <1>g, <1>c, <2>1, <2>2, <2>4
  <2>6. ParseBase64(sig) = Ok /\ ParseTimestamp(ts, "ts") = Ok /\ WellSized(sig) = Ok
    <3> HIDE DEF keyed
    <3> QED BY <2>5, <1>h
  <2>7. Legible(sig) /\ ts.form = "digits" /\ ts.secs \in 0 .. U64Max BY <1>d, <2>6
  <2> QED BY <1>11, <1>f, <2>7 DEF Readable, Legible, Listing, InstantInForm, Stamp, ts
<1>12. CASE p = "PayPal"
  <2> DEFINE required == Require(headers, "id") && Require(headers, "ts")
                             && Require(headers, "sig") && Require(headers, "cert")
                             && Require(headers, "algo")
             keyed == required && Context(options.webhook_id) && Context(material)
                          && MaterialOfKind(material, "X509Certificate")
                          && MaterialParses(material)
             before == keyed && CheckAuthAlgo(Get(headers, "algo")) && ParseBase64(sig)
                           && ParseRfc3339(ts, "ts") && WellSized(sig)
  <2>1. "paypal" \in Features =>
            outcome = before && Match(Signs(sig, The(material).key, PayPalString(headers, body, options)))
                          && replay
    BY <1>12 DEF Verify, Custom, PayPalVerify, sig, ts, outcome
  <2>2. "paypal" \notin Features => outcome = Error("UnsupportedProvider", "none")
    BY <1>12 DEF Verify, Custom, outcome
  <2>3. Unjudged(required) BY <1>a, <1>b
  <2>4. Unjudged(keyed)
    <3> HIDE DEF required
    <3> QED BY <1>a, <1>b, <2>3
  <2>5. Unjudged(before)
    <3> HIDE DEF keyed
    <3> QED BY <1>a, <1>b, <2>4
  <2>6. before = Ok
    <3> HIDE DEF before, replay
    <3> QED BY <1>0, <1>g, <1>c, <2>1, <2>2, <2>5
  <2>7. /\ CheckAuthAlgo(Get(headers, "algo")) = Ok /\ ParseBase64(sig) = Ok
        /\ ParseRfc3339(ts, "ts") = Ok /\ WellSized(sig) = Ok
    <3> HIDE DEF keyed
    <3> QED BY <2>6, <1>h
  <2>8. /\ Legible(sig) /\ ts.form = "rfc3339" /\ ts.secs \in Nat
        /\ Get(headers, "algo").form = "SHA256withRSA"
    BY <1>d, <2>7
  <2> QED BY <1>12, <1>f, <2>8 DEF Readable, Legible, Listing, InstantInForm, Stamp, ts
<1>13. CASE p \notin Providers
  <2>1. outcome = Error("UnsupportedProvider", "none")
    BY <1>13 DEF Verify, Custom, Providers, BodyOnly, outcome
  <2> QED BY <1>0, <1>c, <2>1
<1> QED BY <1>1, <1>2, <1>3, <1>4, <1>5, <1>6, <1>7, <1>8, <1>9, <1>10, <1>11, <1>12, <1>13
        DEF Providers, BodyOnly, Custom

(***************************************************************************)
(* What the clock decides.                                                 *)
(***************************************************************************)

\* Either a request gets the same answer whatever the clock reads, or it is
\* genuine and the clock decides its freshness and nothing else: accepted within
\* the window, and outside it refused as stale with its distance from now.
THEOREM ClockDecidesFreshness ==
    ASSUME NEW p, NEW headers, NEW body, NEW s, NEW options, ListsElements(p, headers),
           options.max_age \subseteq Nat
    PROVE  \/ \E o : /\ Clockless(o) /\ (p \in Timestamped => o # Ok)
                  /\ \A now \in Nat : Verify(p, headers, body, s, options, now) = o
           \/ /\ p \in Timestamped /\ Stamp(p, headers).secs \in Nat
              /\ Genuine(p, headers, body, s, options)
              /\ \A now \in Nat :
                     Verify(p, headers, body, s, options, now) =
                         IF Fresh(p, headers, options, now) THEN Ok
                         ELSE [kind |-> "TimestampOutOfTolerance", at |-> "none",
                               skew |-> AbsDiff(now, Stamp(p, headers).secs)]
<1> DEFINE secs == Stamp(p, headers).secs
           stale(now) == [kind |-> "TimestampOutOfTolerance", at |-> "none",
                          skew |-> AbsDiff(now, secs)]
<1>1. PICK before :
          /\ LastIsReplay(p, headers, options, before)
          /\ \A now : Verify(p, headers, body, s, options, now)
                          = before && Replay(p, headers, options, now)
  BY ReplayLast
<1>2. CASE before # Ok
  <2>1. \A now : Verify(p, headers, body, s, options, now) = before BY <1>1, <1>2, ChainEnds
  <2> QED BY <1>1, <1>2, <2>1 DEF LastIsReplay
<1>3. CASE before = Ok /\ p \notin Timestamped
  <2>1. \A now : Verify(p, headers, body, s, options, now) = Ok
    BY <1>1, <1>3 DEF Replay, &&
  <2> QED BY <1>3, <2>1 DEF Clockless, Ok
<1>4. CASE before = Ok /\ p \in Timestamped
  <2>1. secs \in Nat BY <1>1, <1>4 DEF LastIsReplay
  <2>2. \A now : Verify(p, headers, body, s, options, now) = CheckReplay(secs, options, now)
    BY <1>1, <1>4 DEF Replay, &&
  <2> HIDE DEF secs
  <2>3. ASSUME NEW now \in Nat
        PROVE  CheckReplay(secs, options, now) =
                   IF Fresh(p, headers, options, now) THEN Ok ELSE stale(now)
    <3>1. Fresh(p, headers, options, now) <=> \A limit \in options.max_age : AbsDiff(now, secs) <= limit
      <4>1. \A limit \in options.max_age :
                AbsDiff(now, secs) <= limit <=> now - limit <= secs /\ secs <= now + limit
        BY <2>1, <2>3 DEF AbsDiff
      <4> QED BY <1>4, <4>1 DEF Fresh, secs
    <3> QED BY <3>1 DEF CheckReplay
  <2>4. Genuine(p, headers, body, s, options)
    <3>1. \A limit \in options.max_age : AbsDiff(secs, secs) <= limit BY <2>1 DEF AbsDiff
    <3>2. Verify(p, headers, body, s, options, secs) = Ok BY <2>2, <3>1 DEF CheckReplay
    <3> QED BY <2>1, <3>2, VerifySound
  <2> QED BY <1>4, <2>1, <2>2, <2>3, <2>4 DEF secs
<1> QED BY <1>2, <1>3, <1>4
=============================================================================
