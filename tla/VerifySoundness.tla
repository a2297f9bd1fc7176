--------------------------- MODULE VerifySoundness ---------------------------
(***************************************************************************)
(* Lemmas about verify(), for every request, secret and clock reading:     *)
(* which outcomes it can have, that Ok means genuine and fresh, and which  *)
(* forms Twilio's sort makes one list of.  The first two rest on two facts *)
(* about the `?` chains the schemes are written as.                        *)
(***************************************************************************)
EXTENDS Authenticity, TLAPS, WellFoundedInduction, NaturalsInduction,
        FiniteSetTheorems, FunctionTheorems

\* What a check may say when the secret is s: an error about a key names s
\* or the configured verifying material.
Outcome(o, s) ==
    \/ o = Ok
    \/ /\ o.kind \in ErrorKinds
       /\ o.kind = "InvalidSecret" =>
              o \in {Error("InvalidSecret", s), Error("InvalidSecret", "material")}

\* The elements of a listing header are numbered by naturals.
ListsElements(p, headers) ==
    p \in Listing /\ Has(headers, "sig") => DOMAIN Get(headers, "sig").elems \subseteq Nat

\* A `?` chain succeeds exactly when both its parts do.
LEMMA ChainOk == \A e, f : (e && f) = Ok <=> e = Ok /\ f = Ok
BY DEF &&

\* What holds of the outcomes of the parts of a chain holds of the chain.
LEMMA ChainOutcome ==
    ASSUME NEW e, NEW f, NEW s, Outcome(e, s), e = Ok => Outcome(f, s)
    PROVE  Outcome(e && f, s)
BY DEF &&

\* A signature check succeeds only if the condition it was given holds.
LEMMA MatchOk == \A b \in BOOLEAN : Match(b) = Ok <=> b
BY DEF Match, Mismatch, Ok, Error

\* What each single check may say.
LEMMA CheckOutcomes ==
    ASSUME NEW s
    PROVE  /\ \A headers, h : Outcome(Require(headers, h), s)
           /\ \A v, prefixed : Outcome(ParseSignature(v, prefixed), s)
           /\ \A v, h : Outcome(ParseTimestamp(v, h), s) /\ Outcome(ParseRfc3339(v, h), s)
           /\ \A b : Outcome(Match(b), s)
           /\ \A secs, options, now : Outcome(CheckReplay(secs, options, now), s)
           /\ Outcome(DecodeSecret(s), s)
           /\ \A option : Outcome(Context(option), s)
           /\ \A m, kind : Outcome(MaterialOfKind(m, kind), s)
           /\ \A m : Outcome(MaterialParses(m), s)
           /\ \A elems, tag : Outcome(AnyTagged(elems, tag), s)
           /\ \A v : /\ Outcome(ParseBase64(v), s)
                     /\ Outcome(WellSized(v), s)
                     /\ Outcome(CheckAuthAlgo(v), s)
<1> USE DEF Outcome, ErrorKinds, Error, Ok
<1>1. \A headers, h : Outcome(Require(headers, h), s) BY DEF Require
<1>2. \A v, prefixed : Outcome(ParseSignature(v, prefixed), s) BY DEF ParseSignature
<1>3. \A v, h : Outcome(ParseTimestamp(v, h), s) /\ Outcome(ParseRfc3339(v, h), s)
  BY DEF ParseTimestamp, ParseRfc3339
<1>4. \A b : Outcome(Match(b), s) BY DEF Match, Mismatch
<1>5. \A secs, options, now : Outcome(CheckReplay(secs, options, now), s) BY DEF CheckReplay
<1>6. Outcome(DecodeSecret(s), s) BY DEF DecodeSecret
<1>7. \A option : Outcome(Context(option), s) BY DEF Context
<1>8. \A m, kind : Outcome(MaterialOfKind(m, kind), s) BY DEF MaterialOfKind
<1>9. \A m : Outcome(MaterialParses(m), s) BY DEF MaterialParses
<1>10. \A elems, tag : Outcome(AnyTagged(elems, tag), s) BY DEF AnyTagged
<1>11. \A v : /\ Outcome(ParseBase64(v), s)
              /\ Outcome(WellSized(v), s)
              /\ Outcome(CheckAuthAlgo(v), s)
  BY DEF ParseBase64, WellSized, CheckAuthAlgo
<1> QED BY <1>1, <1>2, <1>3, <1>4, <1>5, <1>6, <1>7, <1>8, <1>9, <1>10, <1>11

\* The schemes without a list of elements.
LEMMA PlainOutcomes ==
    ASSUME NEW headers, NEW body, NEW s, NEW options, NEW now
    PROVE  /\ \A prefixed : Outcome(BodyOnlyVerify(headers, body, s, prefixed), s)
           /\ Outcome(SquareVerify(headers, body, s, options), s)
           /\ Outcome(TwilioVerify(headers, s, options), s)
           /\ Outcome(TimestampedVerify(headers, body, s, options, now), s)
           /\ \A scheme : Outcome(CustomVerify(scheme, headers, body, s, options, now), s)
           /\ Outcome(DiscordVerify(headers, body, s, options, now), s)
           /\ Outcome(SendGridVerify(headers, body, options, now), s)
           /\ Outcome(PayPalVerify(headers, body, options, now), s)
<1> DEFINE Good(o) == Outcome(o, s)
<1>0. Good(Ok) BY DEF Outcome
<1>a. \A e, f : Good(e) /\ (e = Ok => Good(f)) => Good(e && f) BY ChainOutcome
<1>b. /\ \A h : Good(Require(headers, h))
      /\ \A v : Good(ParseSignature(v, TRUE))
      /\ \A v : Good(ParseSignature(v, FALSE))
      /\ \A v, prefixed : Good(ParseSignature(v, prefixed))
  BY CheckOutcomes
<1>c. /\ \A v, h : Good(ParseTimestamp(v, h))
      /\ \A v, h : Good(ParseRfc3339(v, h))
      /\ \A b : Good(Match(b))
      /\ \A secs, o, t : Good(CheckReplay(secs, o, t))
      /\ Good(DecodeSecret(s))
      /\ \A option : Good(Context(option))
  BY CheckOutcomes
<1>d. /\ \A m, kind : Good(MaterialOfKind(m, kind))
      /\ \A m : Good(MaterialParses(m))
      /\ \A v : Good(ParseBase64(v)) /\ Good(WellSized(v)) /\ Good(CheckAuthAlgo(v))
  BY CheckOutcomes
<1> HIDE DEF Good
<1> USE <1>a, <1>b, <1>c
<1>1. \A prefixed : Good(BodyOnlyVerify(headers, body, s, prefixed))
  BY DEF BodyOnlyVerify
<1>2. Good(SquareVerify(headers, body, s, options)) BY DEF SquareVerify
<1>3. Good(TwilioVerify(headers, s, options)) BY DEF TwilioVerify
<1>4. Good(TimestampedVerify(headers, body, s, options, now)) BY DEF TimestampedVerify
<1>5. \A scheme : Good(CustomVerify(scheme, headers, body, s, options, now))
  BY <1>0 DEF CustomVerify
<1>6. Good(DiscordVerify(headers, body, s, options, now)) BY DEF DiscordVerify
<1>7. Good(SendGridVerify(headers, body, options, now)) BY <1>d DEF SendGridVerify
<1>8. Good(PayPalVerify(headers, body, options, now)) BY <1>d DEF PayPalVerify
<1> QED BY <1>1, <1>2, <1>3, <1>4, <1>5, <1>6, <1>7, <1>8 DEF Good

\* A non-empty set of naturals holds the element Min chooses.
LEMMA MinIsIn ==
    ASSUME NEW S, S \subseteq Nat, S # {}
    PROVE  Min(S) \in S
<1> DEFINE less == OpToRel(<, Nat)
<1>1. PICK x \in S : \A y \in S : ~(<<y, x>> \in less)
  BY NatLessThanWellFounded, WFMin
<1>2. \A y, z \in Nat : y < z => <<y, z>> \in less BY DEF OpToRel
<1>3. ASSUME NEW y \in S PROVE x <= y
  <2> HIDE DEF less
  <2>1. x \in Nat /\ y \in Nat OBVIOUS
  <2>2. ~(y < x) BY <2>1, <1>1, <1>2, Zenon
  <2> QED BY <2>1, <2>2
<1> QED BY <1>3 DEF Min

\* The loop over a header's elements says what one of them says.
LEMMA FirstErrorOutcome ==
    ASSUME NEW outcomes, NEW s, DOMAIN outcomes \subseteq Nat,
           \A i \in DOMAIN outcomes : Outcome(outcomes[i], s)
    PROVE  Outcome(FirstError(outcomes), s)
<1> DEFINE failed == {i \in DOMAIN outcomes : outcomes[i] # Ok}
<1>1. Outcome(Ok, s) BY DEF Outcome
<1>2. failed # {} => Min(failed) \in failed BY MinIsIn
<1> QED BY <1>1, <1>2 DEF FirstError

\* The schemes with a list of elements.
LEMMA ListOutcomes ==
    ASSUME NEW headers, NEW body, NEW s, NEW options, NEW now
    PROVE  /\ ListsElements("Stripe", headers)
                  => Outcome(StripeVerify(headers, body, s, options, now), s)
           /\ ListsElements("StandardWebhooks", headers)
                  => Outcome(StandardVerify(headers, body, s, options, now), s)
<1> DEFINE Good(o) == Outcome(o, s)
           elems == Get(headers, "sig").elems
<1>0. Good(Ok) BY DEF Outcome
<1>a. \A e, f : Good(e) /\ (e = Ok => Good(f)) => Good(e && f) BY ChainOutcome
<1>b. /\ \A h : Good(Require(headers, h))
      /\ \A v : Good(ParseSignature(v, FALSE))
      /\ \A v, h : Good(ParseTimestamp(v, h))
      /\ \A b : Good(Match(b))
      /\ \A secs, o, t : Good(CheckReplay(secs, o, t))
      /\ \A tag : Good(AnyTagged(elems, tag))
      /\ Good(DecodeSecret(s))
  BY CheckOutcomes
<1>c. Good(Error("MalformedHeader", "sig")) BY DEF Outcome, Error, ErrorKinds
<1>1. ASSUME ListsElements("Stripe", headers)
      PROVE  Good(StripeVerify(headers, body, s, options, now))
  <2>1. Require(headers, "sig") = Ok => DOMAIN elems \subseteq Nat
    BY <1>1 DEF ListsElements, Listing, Require, Error, Ok
  <2>2. \A i : Good(StripeElement(elems, i)) BY <1>0, <1>b, <1>c DEF StripeElement
  <2>3. DOMAIN elems \subseteq Nat =>
            Good(FirstError([i \in DOMAIN elems |-> StripeElement(elems, i)]))
    BY <2>2, FirstErrorOutcome
  <2>4. DOMAIN elems \subseteq Nat => Good(StripeParse(elems))
    <3> HIDE DEF Good
    <3> QED BY <1>a, <1>b, <2>3 DEF StripeParse
  <2> HIDE DEF Good
  <2> QED BY <1>a, <1>b, <2>1, <2>4 DEF StripeVerify
<1>2. ASSUME ListsElements("StandardWebhooks", headers)
      PROVE  Good(StandardVerify(headers, body, s, options, now))
  <2>1. Require(headers, "sig") = Ok => DOMAIN elems \subseteq Nat
    BY <1>2 DEF ListsElements, Listing, Require, Error, Ok
  <2>2. \A i : Good(StandardElement(elems[i])) BY <1>0, <1>b DEF StandardElement
  <2>3. DOMAIN elems \subseteq Nat =>
            Good(FirstError([i \in DOMAIN elems |-> StandardElement(elems[i])]))
    BY <2>2, FirstErrorOutcome
  <2>4. DOMAIN elems \subseteq Nat => Good(StandardParse(elems))
    <3> HIDE DEF Good
    <3> QED BY <1>a, <1>b, <2>3 DEF StandardParse
  <2> DEFINE keyed == Require(headers, "id") && Require(headers, "sig")
                          && Require(headers, "ts") && DecodeSecret(s)
  <2> HIDE DEF Good
  <2>5. Good(keyed) BY <1>a, <1>b
  <2>6. keyed = Ok => Require(headers, "sig") = Ok BY ChainOk
  <2>7. Good(keyed && StandardParse(elems))
    <3> HIDE DEF keyed
    <3> QED BY <1>a, <2>1, <2>4, <2>5, <2>6
  <2>8. StandardVerify(headers, body, s, options, now)
            = keyed && StandardParse(elems)
                && ParseTimestamp(Get(headers, "ts"), "ts")
                && Match(\E sig \in Listed(elems) :
                             Signs(sig, s, StandardString(headers, body)))
                && CheckReplay(Get(headers, "ts").secs, options, now)
    BY DEF StandardVerify
  <2> HIDE DEF keyed, elems
  <2> QED BY <1>a, <1>b, <2>7, <2>8
<1> QED BY <1>1, <1>2

\* Every outcome of verify() is Ok or one of the documented errors, and an
\* InvalidSecret speaks of the secret verify() was given or of the material.
THEOREM VerifyOutcome ==
    ASSUME NEW p, NEW headers, NEW body, NEW s, NEW options, NEW now,
           ListsElements(p, headers)
    PROVE  Outcome(Verify(p, headers, body, s, options, now), s)
<1> DEFINE Good(o) == Outcome(o, s)
<1>1. Good(GitHubVerify(headers, body, s)) /\ Good(ShopifyVerify(headers, body, s))
  BY PlainOutcomes DEF GitHubVerify, ShopifyVerify
<1>2. Good(LinearVerify(headers, body, s)) /\ Good(DropboxVerify(headers, body, s))
  BY PlainOutcomes DEF LinearVerify, DropboxVerify
<1>3. /\ Good(SquareVerify(headers, body, s, options))
      /\ Good(TwilioVerify(headers, s, options))
      /\ Good(DiscordVerify(headers, body, s, options, now))
      /\ Good(SendGridVerify(headers, body, options, now))
      /\ Good(PayPalVerify(headers, body, options, now))
      /\ Good(CustomVerify(CustomScheme(p), headers, body, s, options, now))
  BY PlainOutcomes
<1>4. /\ Good(SlackVerify(headers, body, s, options, now))
      /\ Good(ZoomVerify(headers, body, s, options, now))
  BY PlainOutcomes DEF SlackVerify, ZoomVerify
<1>5. /\ p = "Stripe" => Good(StripeVerify(headers, body, s, options, now))
      /\ p = "StandardWebhooks" => Good(StandardVerify(headers, body, s, options, now))
  BY ListOutcomes
<1>6. Good(Error("UnsupportedProvider", "none")) BY DEF Outcome, Error, ErrorKinds
<1> HIDE DEF Good
<1>7. Good(Verify(p, headers, body, s, options, now))
  BY <1>1, <1>2, <1>3, <1>4, <1>5, <1>6 DEF Verify
<1> QED BY <1>7 DEF Good

\* What it takes for the last checks of a scheme to succeed.
LEMMA SignedOk ==
    ASSUME NEW v, NEW key, NEW msg, Match(Signs(v, key, msg)) = Ok
    PROVE  Signs(v, key, msg)
BY DEF Match, Mismatch, Error, Ok

LEMMA AnySignedOk ==
    ASSUME NEW S, NEW key, NEW msg, Match(\E v \in S : Signs(v, key, msg)) = Ok
    PROVE  \E v \in S : Signs(v, key, msg)
BY DEF Match, Mismatch, Error, Ok

\* A timestamp that parses is a number.
LEMMA ParsedIsNat ==
    ASSUME NEW v, NEW h, ParseTimestamp(v, h) = Ok \/ ParseRfc3339(v, h) = Ok
    PROVE  v.secs \in Nat
BY CoreAssumption DEF ParseTimestamp, ParseRfc3339, Error, Ok

\* The window is symmetric: a timestamp inside it is neither too old nor too
\* far ahead.
LEMMA ReplayOk ==
    ASSUME NEW secs \in Nat, NEW options, NEW now \in Nat, options.max_age \subseteq Nat,
           CheckReplay(secs, options, now) = Ok
    PROVE  \A limit \in options.max_age : now - limit <= secs /\ secs <= now + limit
<1>1. \A limit \in options.max_age : AbsDiff(now, secs) <= limit
  BY DEF CheckReplay, Ok
<1> QED BY <1>1 DEF AbsDiff

\* The checks a Slack, Zoom, Discord, Stripe or Standard Webhooks request has
\* passed once its chain has succeeded.
LEMMA TimestampedOk ==
    ASSUME NEW headers, NEW body, NEW s, NEW options, NEW now,
           TimestampedVerify(headers, body, s, options, now) = Ok
    PROVE  /\ Match(Signs(Get(headers, "sig"), s, TimestampedString(headers, body))) = Ok
           /\ ParseTimestamp(Get(headers, "ts"), "ts") = Ok
           /\ CheckReplay(Get(headers, "ts").secs, options, now) = Ok
<1> DEFINE first == Require(headers, "sig") && Require(headers, "ts")
                        && ParseSignature(Get(headers, "sig"), TRUE)
           parsed == ParseTimestamp(Get(headers, "ts"), "ts")
           signed == Match(Signs(Get(headers, "sig"), s, TimestampedString(headers, body)))
           fresh == CheckReplay(Get(headers, "ts").secs, options, now)
<1>1. (first && parsed && signed && fresh) = Ok BY DEF TimestampedVerify
<1> HIDE DEF first, parsed, signed, fresh
<1>2. parsed = Ok /\ signed = Ok /\ fresh = Ok BY <1>1, ChainOk
<1> QED BY <1>2 DEF parsed, signed, fresh

LEMMA DiscordOk ==
    ASSUME NEW headers, NEW body, NEW s, NEW options, NEW now,
           DiscordVerify(headers, body, s, options, now) = Ok
    PROVE  /\ Match(Signs(Get(headers, "sig"), s, TimestampedString(headers, body))) = Ok
           /\ ParseTimestamp(Get(headers, "ts"), "ts") = Ok
           /\ CheckReplay(Get(headers, "ts").secs, options, now) = Ok
<1> DEFINE first == Require(headers, "sig") && Require(headers, "ts") && DecodeSecret(s)
                        && ParseSignature(Get(headers, "sig"), FALSE)
           parsed == ParseTimestamp(Get(headers, "ts"), "ts")
           signed == Match(Signs(Get(headers, "sig"), s, TimestampedString(headers, body)))
           fresh == CheckReplay(Get(headers, "ts").secs, options, now)
<1>1. (first && parsed && signed && fresh) = Ok BY DEF DiscordVerify
<1> HIDE DEF first, parsed, signed, fresh
<1>2. parsed = Ok /\ signed = Ok /\ fresh = Ok BY <1>1, ChainOk
<1> QED BY <1>2 DEF parsed, signed, fresh

LEMMA StripeOk ==
    ASSUME NEW headers, NEW body, NEW s, NEW options, NEW now, NEW elems,
           elems = Get(headers, "sig").elems,
           StripeVerify(headers, body, s, options, now) = Ok
    PROVE  /\ Match(\E v \in Listed(elems) : Signs(v, s, StripeString(elems, body))) = Ok
           /\ StripeParse(elems) = Ok
           /\ CheckReplay(StripeTimestamp(elems).secs, options, now) = Ok
<1> DEFINE first == Require(headers, "sig")
           parsed == StripeParse(elems)
           signed == Match(\E v \in Listed(elems) : Signs(v, s, StripeString(elems, body)))
           fresh == CheckReplay(StripeTimestamp(elems).secs, options, now)
<1>1. (first && parsed && signed && fresh) = Ok BY DEF StripeVerify
<1> HIDE DEF first, parsed, signed, fresh
<1>2. parsed = Ok /\ signed = Ok /\ fresh = Ok BY <1>1, ChainOk
<1> QED BY <1>2 DEF parsed, signed, fresh

LEMMA StandardOk ==
    ASSUME NEW headers, NEW body, NEW s, NEW options, NEW now, NEW elems,
           elems = Get(headers, "sig").elems,
           StandardVerify(headers, body, s, options, now) = Ok
    PROVE  /\ Match(\E v \in Listed(elems) : Signs(v, s, StandardString(headers, body))) = Ok
           /\ ParseTimestamp(Get(headers, "ts"), "ts") = Ok
           /\ CheckReplay(Get(headers, "ts").secs, options, now) = Ok
<1> DEFINE first == Require(headers, "id") && Require(headers, "sig")
                        && Require(headers, "ts") && DecodeSecret(s) && StandardParse(elems)
           parsed == ParseTimestamp(Get(headers, "ts"), "ts")
           signed == Match(\E v \in Listed(elems) : Signs(v, s, StandardString(headers, body)))
           fresh == CheckReplay(Get(headers, "ts").secs, options, now)
<1>1. (first && parsed && signed && fresh) = Ok BY DEF StandardVerify
<1> HIDE DEF first, parsed, signed, fresh
<1>2. parsed = Ok /\ signed = Ok /\ fresh = Ok BY <1>1, ChainOk
<1> QED BY <1>2 DEF parsed, signed, fresh

\* A scheme whose header carries one signature is genuine if that one verifies.
LEMMA SingleGenuine ==
    ASSUME NEW p, p \notin Listing, NEW headers, NEW body, NEW s, NEW options,
           Signs(Get(headers, "sig"), SigningKey(p, s, options),
                 Covered(p, headers, body, options))
    PROVE  Genuine(p, headers, body, s, options)
BY DEF Genuine, Offered

\* A scheme with a timestamp is fresh if that parses and the replay check passes.
LEMMA StampFresh ==
    ASSUME NEW p, NEW headers, NEW options, NEW now \in Nat, options.max_age \subseteq Nat,
           NEW h, ParseTimestamp(Stamp(p, headers), h) = Ok
                      \/ ParseRfc3339(Stamp(p, headers), h) = Ok,
           CheckReplay(Stamp(p, headers).secs, options, now) = Ok
    PROVE  Fresh(p, headers, options, now)
BY ParsedIsNat, ReplayOk DEF Fresh

\* What verify() accepts was signed with the key, over this very request, and
\* its signed timestamp is within the window: no order of the checks, and no
\* combination of malformed headers, leads to Ok otherwise.
THEOREM VerifySound ==
    ASSUME NEW p, NEW headers, NEW body, NEW s, NEW options, NEW now \in Nat,
           options.max_age \subseteq Nat,
           Verify(p, headers, body, s, options, now) = Ok
    PROVE  /\ Genuine(p, headers, body, s, options)
           /\ Fresh(p, headers, options, now)
<1> DEFINE sig == Get(headers, "sig")
           ts == Get(headers, "ts")
<1> USE DEF SigningKey, Covered, PublicKey, Listing, BodyOnly
<1>1. CASE p \in BodyOnly
  <2>1. \E prefixed \in BOOLEAN : BodyOnlyVerify(headers, body, s, prefixed) = Ok
    BY <1>1 DEF Verify, GitHubVerify, ShopifyVerify, LinearVerify, DropboxVerify, Custom
  <2>2. Match(Signs(sig, s, <<body>>)) = Ok BY <2>1, ChainOk DEF BodyOnlyVerify
  <2>3. Signs(sig, s, <<body>>) BY <2>2, SignedOk
  <2>4. Genuine(p, headers, body, s, options) BY <1>1, <2>3, SingleGenuine
  <2> QED BY <1>1, <2>4 DEF Fresh, Timestamped
<1>2. CASE p = "Square"
  <2>1. SquareVerify(headers, body, s, options) = Ok BY <1>2 DEF Verify, Custom
  <2>2. Match(Signs(sig, s, SquareString(body, options))) = Ok
    BY <2>1, ChainOk DEF SquareVerify
  <2>3. Signs(sig, s, SquareString(body, options)) BY <2>2, SignedOk
  <2>4. Genuine(p, headers, body, s, options) BY <1>2, <2>3, SingleGenuine
  <2> QED BY <1>2, <2>4 DEF Fresh, Timestamped
<1>3. CASE p = "Twilio"
  <2>1. TwilioVerify(headers, s, options) = Ok BY <1>3 DEF Verify, Custom
  <2>2. Match(Signs(sig, s, TwilioString(options))) = Ok
    BY <2>1, ChainOk DEF TwilioVerify
  <2>3. Signs(sig, s, TwilioString(options)) BY <2>2, SignedOk
  <2>4. Genuine(p, headers, body, s, options) BY <1>3, <2>3, SingleGenuine
  <2> QED BY <1>3, <2>4 DEF Fresh, Timestamped
<1>4. CASE p \in {"Slack", "Zoom"}
  <2>1. TimestampedVerify(headers, body, s, options, now) = Ok
    BY <1>4 DEF Verify, SlackVerify, ZoomVerify, Custom
  <2>2. /\ Match(Signs(sig, s, TimestampedString(headers, body))) = Ok
        /\ ParseTimestamp(ts, "ts") = Ok
        /\ CheckReplay(ts.secs, options, now) = Ok
    BY <2>1, TimestampedOk
  <2>3. Signs(sig, s, TimestampedString(headers, body)) BY <2>2, SignedOk
  <2>4. Genuine(p, headers, body, s, options)
    BY <1>4, <2>3, SingleGenuine DEF TimestampedString, Stamp, Custom
  <2> QED BY <1>4, <2>2, <2>4, StampFresh DEF Stamp
<1>5. CASE p = "Custom"
  <2>1. CustomVerify(CustomScheme(p), headers, body, s, options, now) = Ok
    BY <1>5 DEF Verify, Custom
  <2>2. Match(Signs(sig, s, CustomString(CustomScheme(p), headers, body))) = Ok
    BY <2>1, ChainOk DEF CustomVerify
  <2>3. Signs(sig, s, CustomString(CustomScheme(p), headers, body)) BY <2>2, SignedOk
  <2>4. Genuine(p, headers, body, s, options)
    BY <1>5, <2>3, SingleGenuine DEF CustomString, CustomScheme
  <2> QED BY <1>5, <2>4 DEF Fresh, Timestamped
<1>6. CASE p = "CustomTimestamped"
  <2>1. CustomVerify(CustomScheme(p), headers, body, s, options, now) = Ok
    BY <1>6 DEF Verify, Custom
  <2>2. CustomScheme(p).timestamp = TRUE BY <1>6 DEF CustomScheme
  <2>3. /\ Match(Signs(sig, s, CustomString(CustomScheme(p), headers, body))) = Ok
        /\ ParseTimestamp(ts, "ts") = Ok
        /\ CheckReplay(ts.secs, options, now) = Ok
    BY <2>1, <2>2, ChainOk DEF CustomVerify
  <2>4. Signs(sig, s, CustomString(CustomScheme(p), headers, body)) BY <2>3, SignedOk
  <2>5. Genuine(p, headers, body, s, options)
    BY <1>6, <2>2, <2>4, SingleGenuine DEF CustomString, TimestampedString, Stamp
  <2> QED BY <1>6, <2>3, <2>5, StampFresh DEF Stamp
<1>7. CASE p = "Discord"
  <2>1. DiscordVerify(headers, body, s, options, now) = Ok BY <1>7 DEF Verify, Custom
  <2>2. /\ Match(Signs(sig, s, TimestampedString(headers, body))) = Ok
        /\ ParseTimestamp(ts, "ts") = Ok
        /\ CheckReplay(ts.secs, options, now) = Ok
    BY <2>1, DiscordOk
  <2>3. Signs(sig, s, TimestampedString(headers, body)) BY <2>2, SignedOk
  <2>4. Genuine(p, headers, body, s, options)
    BY <1>7, <2>3, SingleGenuine DEF TimestampedString, Stamp, Custom
  <2> QED BY <1>7, <2>2, <2>4, StampFresh DEF Stamp
<1>8. CASE p = "Stripe"
  <2> DEFINE elems == Get(headers, "sig").elems
  <2>1. StripeVerify(headers, body, s, options, now) = Ok BY <1>8 DEF Verify, Custom
  <2>2. /\ Match(\E v \in Listed(elems) : Signs(v, s, StripeString(elems, body))) = Ok
        /\ StripeParse(elems) = Ok
        /\ CheckReplay(StripeTimestamp(elems).secs, options, now) = Ok
    BY <2>1, StripeOk
  <2>3. ParseTimestamp(StripeTimestamp(elems), "sig") = Ok
    BY <2>2, ChainOk DEF StripeParse
  <2>4. \E v \in Listed(elems) : Signs(v, s, StripeString(elems, body))
    BY <2>2, AnySignedOk
  <2>5. Genuine(p, headers, body, s, options)
    BY <1>8, <2>4 DEF Genuine, Offered, StripeString, Stamp, Custom
  <2> QED BY <1>8, <2>2, <2>3, <2>5, StampFresh DEF Stamp
<1>9. CASE p = "StandardWebhooks"
  <2> DEFINE elems == Get(headers, "sig").elems
  <2>1. StandardVerify(headers, body, s, options, now) = Ok BY <1>9 DEF Verify, Custom
  <2>2. /\ Match(\E v \in Listed(elems) : Signs(v, s, StandardString(headers, body))) = Ok
        /\ ParseTimestamp(ts, "ts") = Ok
        /\ CheckReplay(ts.secs, options, now) = Ok
    BY <2>1, StandardOk
  <2>3. \E v \in Listed(elems) : Signs(v, s, StandardString(headers, body))
    BY <2>2, AnySignedOk
  <2>4. Genuine(p, headers, body, s, options)
    BY <1>9, <2>3 DEF Genuine, Offered, Custom
  <2> QED BY <1>9, <2>2, <2>4, StampFresh DEF Stamp
<1>10. CASE p \in {"PayPal", "SendGrid"}
  <2> DEFINE key == The(options.verifying_material).key
  <2>1. CASE p = "PayPal"
    <3>1. PayPalVerify(headers, body, options, now) = Ok
      BY <2>1 DEF Verify, Custom, Error, Ok
    <3>2. /\ Match(Signs(sig, key, PayPalString(headers, body, options))) = Ok
          /\ ParseRfc3339(ts, "ts") = Ok
          /\ CheckReplay(ts.secs, options, now) = Ok
      BY <3>1, ChainOk DEF PayPalVerify
    <3>3. Signs(sig, key, PayPalString(headers, body, options)) BY <3>2, SignedOk
    <3>4. Genuine(p, headers, body, s, options) BY <2>1, <3>3, SingleGenuine DEF Custom
    <3> QED BY <2>1, <3>2, <3>4, StampFresh DEF Stamp
  <2>2. CASE p = "SendGrid"
    <3>1. SendGridVerify(headers, body, options, now) = Ok
      BY <2>2 DEF Verify, Custom, Error, Ok
    <3>2. /\ Match(Signs(sig, key, TimestampedString(headers, body))) = Ok
          /\ ParseTimestamp(ts, "ts") = Ok
          /\ CheckReplay(ts.secs, options, now) = Ok
      BY <3>1, ChainOk DEF SendGridVerify
    <3>3. Signs(sig, key, TimestampedString(headers, body)) BY <3>2, SignedOk
    <3>4. Genuine(p, headers, body, s, options)
      BY <2>2, <3>3, SingleGenuine DEF TimestampedString, Stamp, Custom
    <3> QED BY <2>2, <3>2, <3>4, StampFresh DEF Stamp
  <2> QED BY <1>10, <2>1, <2>2
<1>11. p \in Providers
  BY DEF Verify, Providers, Custom, Error, Ok
<1> QED
  BY <1>1, <1>2, <1>3, <1>4, <1>5, <1>6, <1>7, <1>8, <1>9, <1>10, <1>11
  DEF Providers, Custom

\* For a provider that signs the body itself, with one signature to a request,
\* the headers of a request bind its body: no two bodies are accepted with them,
\* at whatever times.  Twilio signs no body, PayPal a checksum of it, and a header
\* that lists signatures may hold one over each of two bodies.
THEOREM HeadersBindTheBody ==
    ASSUME NEW p, p \notin Listing \cup {"Twilio", "PayPal"},
           NEW headers, NEW s, NEW options, options.max_age \subseteq Nat,
           NEW body, NEW now \in Nat, Verify(p, headers, body, s, options, now) = Ok,
           NEW other, NEW later \in Nat, Verify(p, headers, other, s, options, later) = Ok
    PROVE  body = other
<1>1. /\ Genuine(p, headers, body, s, options)
      /\ Genuine(p, headers, other, s, options)
  BY VerifySound
<1>2. Covered(p, headers, body, options) = Covered(p, headers, other, options)
  BY <1>1 DEF Genuine, Offered, Signs
<1>3. CASE p \in BodyOnly \cup {"Custom"}
  <2>1. <<body>> = <<other>> BY <1>2, <1>3 DEF Covered, BodyOnly
  <2> QED BY <2>1
<1>4. CASE p = "Square"
  <2>1. SquareString(body, options) = SquareString(other, options)
    BY <1>2, <1>4 DEF Covered, BodyOnly
  <2> QED BY <2>1 DEF SquareString
<1>5. CASE p \notin BodyOnly \cup {"Custom", "Square"}
  <2>1. <<Stamp(p, headers).raw, body>> = <<Stamp(p, headers).raw, other>>
    BY <1>2, <1>5 DEF Covered, Listing
  <2> QED BY <2>1
<1> QED BY <1>3, <1>4, <1>5

(***************************************************************************)
(* The converse.  No order of the checks keeps out a request that is       *)
(* genuine, fresh and in form, at a receiver that is set up.               *)
(***************************************************************************)

\* What each single check lets pass.
LEMMA Passes ==
    /\ \A headers, h : Has(headers, h) => Require(headers, h) = Ok
    /\ \A v, key, msg : Signs(v, key, msg) => Match(Signs(v, key, msg)) = Ok
    /\ \A v : v.form = "signature" =>
        /\ ParseSignature(v, TRUE) = Ok /\ ParseSignature(v, FALSE) = Ok
        /\ ParseBase64(v) = Ok /\ WellSized(v) = Ok
    /\ \A s : s \notin Garbled => DecodeSecret(s) = Ok
    /\ \A option : option # {} => Context(option) = Ok
<1>1. \A headers, h : Has(headers, h) => Require(headers, h) = Ok BY DEF Require
<1>2. \A v, key, msg : Signs(v, key, msg) => Match(Signs(v, key, msg)) = Ok BY DEF Match
<1>3. ASSUME NEW v, v.form = "signature"
      PROVE  /\ ParseSignature(v, TRUE) = Ok /\ ParseSignature(v, FALSE) = Ok
             /\ ParseBase64(v) = Ok /\ WellSized(v) = Ok
  BY <1>3 DEF ParseSignature, ParseBase64, WellSized
<1>4. \A s : s \notin Garbled => DecodeSecret(s) = Ok BY DEF DecodeSecret
<1>5. \A option : option # {} => Context(option) = Ok BY DEF Context
<1> QED BY <1>1, <1>2, <1>3, <1>4, <1>5

\* The two halves of the window, once more.
LEMMA WindowPasses ==
    ASSUME NEW secs \in Nat, NEW options, NEW now \in Nat, options.max_age \subseteq Nat,
           \A limit \in options.max_age : now - limit <= secs /\ secs <= now + limit
    PROVE  CheckReplay(secs, options, now) = Ok
<1>1. \A limit \in options.max_age : AbsDiff(now, secs) <= limit BY DEF AbsDiff
<1> QED BY <1>1 DEF CheckReplay

\* A timestamp in form parses, and passes the replay check if it is fresh.
LEMMA StampPasses ==
    ASSUME NEW p \in Timestamped, NEW headers, NEW s, NEW options, NEW now \in Nat,
           options.max_age \subseteq Nat, InForm(p, headers), Fresh(p, headers, options, now)
    PROVE  /\ p # "PayPal" => \A h : ParseTimestamp(Stamp(p, headers), h) = Ok
           /\ p = "PayPal" => \A h : ParseRfc3339(Stamp(p, headers), h) = Ok
           /\ CheckReplay(Stamp(p, headers).secs, options, now) = Ok
<1> DEFINE stamp == Stamp(p, headers)
<1>1. InstantInForm(p, stamp) BY DEF InForm
<1>2. \A limit \in options.max_age : now - limit <= stamp.secs /\ stamp.secs <= now + limit
  BY DEF Fresh
<1> HIDE DEF stamp
<1>3. stamp.secs \in Nat BY <1>1, CoreAssumption DEF InstantInForm
<1>4. CheckReplay(stamp.secs, options, now) = Ok BY <1>2, <1>3, WindowPasses
<1>5. /\ p # "PayPal" => \A h : ParseTimestamp(stamp, h) = Ok
      /\ p = "PayPal" => \A h : ParseRfc3339(stamp, h) = Ok
  BY <1>1 DEF InstantInForm, ParseTimestamp, ParseRfc3339
<1> QED BY <1>4, <1>5 DEF stamp

\* A list in form goes through the loops over its elements.
LEMMA ListPasses ==
    ASSUME NEW p \in Listing, NEW elems, ListInForm(p, elems), Listed(elems) # {}
    PROVE  /\ p = "StandardWebhooks" => StandardParse(elems) = Ok
           /\ p = "Stripe" => FirstError([i \in DOMAIN elems |-> StripeElement(elems, i)]) = Ok
           /\ p = "Stripe" => AnyTagged(elems, "t") = Ok
           /\ AnyTagged(elems, "v1") = Ok
<1>1. \A i \in DOMAIN elems : elems[i].tag = "v1" => ParseSignature(elems[i].value, FALSE) = Ok
  BY Passes DEF ListInForm, Listed, Tagged
<1>2. AnyTagged(elems, "v1") = Ok BY DEF AnyTagged, Listed
<1>3. \A outcomes : (\A i \in DOMAIN outcomes : outcomes[i] = Ok) => FirstError(outcomes) = Ok
  BY DEF FirstError
<1>4. StandardParse(elems) = Ok
  <2>1. \A i \in DOMAIN elems : StandardElement(elems[i]) = Ok BY <1>1 DEF StandardElement
  <2> QED BY <1>2, <1>3, <2>1 DEF StandardParse, &&
<1>5. ASSUME p = "Stripe"
      PROVE  /\ FirstError([i \in DOMAIN elems |-> StripeElement(elems, i)]) = Ok
             /\ AnyTagged(elems, "t") = Ok
  <2>1. PICK t \in DOMAIN elems : Tagged(elems, "t") = {t} BY <1>5 DEF ListInForm
  <2>2. DOMAIN elems = 1 .. Len(elems) /\ Len(elems) \in Nat BY DEF ListInForm
  <2>3. ASSUME NEW i \in DOMAIN elems PROVE StripeElement(elems, i) = Ok
    <3>1. elems[i].tag = "t" => ~\E j \in DOMAIN elems : j < i /\ elems[j].tag = "t"
      BY <2>1, <2>2 DEF Tagged
    <3> QED BY <1>1, <3>1 DEF StripeElement
  <2>4. AnyTagged(elems, "t") = Ok BY <2>1 DEF AnyTagged
  <2> QED BY <1>3, <2>3, <2>4
<1> QED BY <1>2, <1>4, <1>5

\* What is genuine, fresh and in form is accepted by a receiver that is set up:
\* verify() refuses no request for a reason that is not one of these.
THEOREM VerifyComplete ==
    ASSUME NEW p, NEW headers, NEW body, NEW s, NEW options, NEW now \in Nat,
           options.max_age \subseteq Nat, Faultless(p, headers, s, options),
           \A h \in SigningRoles(p) : Has(headers, h),
           Genuine(p, headers, body, s, options),
           Fresh(p, headers, options, now)
    PROVE  Verify(p, headers, body, s, options, now) = Ok
<1> DEFINE sig == Get(headers, "sig")
           ts == Get(headers, "ts")
           key == SigningKey(p, s, options)
           covered == Covered(p, headers, body, options)
<1>1. SetUp(p, s, options) /\ InForm(p, headers) BY DEF Faultless
<1>2. Require(headers, "sig") = Ok BY Passes DEF SigningRoles
<1>3. ASSUME p \notin Listing
      PROVE  /\ Signs(sig, key, covered) /\ Match(Signs(sig, key, covered)) = Ok
             /\ ParseSignature(sig, TRUE) = Ok /\ ParseSignature(sig, FALSE) = Ok
             /\ ParseBase64(sig) = Ok /\ WellSized(sig) = Ok
  <2>1. Signs(sig, key, covered) BY <1>3 DEF Genuine, Offered
  <2>2. sig.form = "signature" BY <2>1 DEF Signs
  <2> QED BY <2>1, <2>2, Passes
<1>4. ASSUME p \in Timestamped \ {"Stripe"}
      PROVE  /\ Require(headers, "ts") = Ok
             /\ p # "PayPal" => ParseTimestamp(ts, "ts") = Ok
             /\ p = "PayPal" => ParseRfc3339(ts, "ts") = Ok
             /\ CheckReplay(ts.secs, options, now) = Ok
  <2>1. Require(headers, "ts") = Ok BY <1>4, Passes DEF SigningRoles
  <2>2. Stamp(p, headers) = ts BY <1>4 DEF Stamp
  <2> QED BY <1>1, <1>4, <2>1, <2>2, StampPasses
<1>5. ASSUME p \in {"Square", "Twilio", "Discord", "StandardWebhooks"}
      PROVE  DecodeSecret(s) = Ok
  BY <1>1, <1>5, Passes DEF SetUp
<1>6. ASSUME p \in PublicKey
      PROVE  /\ Context(options.verifying_material) = Ok
             /\ MaterialOfKind(options.verifying_material, KeyKind(p)) = Ok
             /\ MaterialParses(options.verifying_material) = Ok
  BY <1>1, <1>6, Passes DEF SetUp, MaterialOfKind, MaterialParses
<1>7. ASSUME p \in {"Square", "Twilio"} PROVE Context(NonEmpty(options.request_url)) = Ok
  BY <1>1, <1>7, Passes DEF SetUp, NonEmpty
<1>11. CASE p \in BodyOnly
  <2>1. covered = <<body>> /\ key = s BY <1>11 DEF Covered, SigningKey, BodyOnly, PublicKey
  <2>2. \A prefixed \in BOOLEAN : BodyOnlyVerify(headers, body, s, prefixed) = Ok
    BY <1>2, <1>3, <1>11, <2>1 DEF &&, BodyOnlyVerify, BodyOnly, Listing
  <2> QED BY <1>11, <2>2 DEF Verify, Custom, BodyOnly, GitHubVerify, ShopifyVerify, LinearVerify,
                             DropboxVerify
<1>12. CASE p = "Square"
  <2>1. covered = SquareString(body, options) /\ key = s
    BY <1>12 DEF Covered, SigningKey, BodyOnly, PublicKey
  <2>2. /\ ParseSignature(sig, FALSE) = Ok /\ DecodeSecret(s) = Ok
        /\ Context(NonEmpty(options.request_url)) = Ok
        /\ Match(Signs(sig, s, SquareString(body, options))) = Ok
    BY <1>3, <1>5, <1>7, <1>12, <2>1 DEF Listing
  <2>3. SquareVerify(headers, body, s, options) = Ok BY <1>2, <2>2 DEF &&, SquareVerify
  <2> QED BY <1>12, <2>3 DEF Verify, Custom
<1>13. CASE p = "Twilio"
  <2>1. covered = TwilioString(options) /\ key = s
    BY <1>13 DEF Covered, SigningKey, BodyOnly, PublicKey
  <2>2. Context(options.form_params) = Ok BY <1>1, <1>13, Passes DEF SetUp
  <2>3. /\ ParseSignature(sig, FALSE) = Ok /\ DecodeSecret(s) = Ok
        /\ Context(NonEmpty(options.request_url)) = Ok
        /\ Match(Signs(sig, s, TwilioString(options))) = Ok
    BY <1>3, <1>5, <1>7, <1>13, <2>1 DEF Listing
  <2>4. TwilioVerify(headers, s, options) = Ok BY <1>2, <2>2, <2>3 DEF &&, TwilioVerify
  <2> QED BY <1>13, <2>4 DEF Verify, Custom
<1>14. CASE p \in {"Slack", "Zoom", "CustomTimestamped"}
  <2>1. covered = TimestampedString(headers, body) /\ key = s
    BY <1>14 DEF Covered, Stamp, TimestampedString, SigningKey, BodyOnly, PublicKey
  <2>2. p \in Timestamped \ {"Stripe"} BY <1>14 DEF Timestamped
  <2>3. /\ ParseSignature(sig, TRUE) = Ok /\ Require(headers, "ts") = Ok
        /\ ParseTimestamp(ts, "ts") = Ok /\ CheckReplay(ts.secs, options, now) = Ok
        /\ Match(Signs(sig, s, TimestampedString(headers, body))) = Ok
    BY <1>3, <1>4, <1>14, <2>1, <2>2 DEF Listing
  <2>4. TimestampedVerify(headers, body, s, options, now) = Ok
    BY <1>2, <2>3 DEF &&, TimestampedVerify
  <2>5. ASSUME p = "CustomTimestamped"
        PROVE  CustomVerify(CustomScheme(p), headers, body, s, options, now) = Ok
    <3>1. CustomScheme(p).prefix = TRUE /\ CustomScheme(p).timestamp = TRUE
      BY <2>5 DEF CustomScheme
    <3> QED BY <1>2, <2>3, <3>1 DEF &&, CustomVerify, CustomString
  <2> QED BY <1>14, <2>4, <2>5 DEF Verify, Custom, SlackVerify, ZoomVerify
<1>15. CASE p = "Custom"
  <2>1. covered = <<body>> /\ key = s BY <1>15 DEF Covered, SigningKey, BodyOnly, PublicKey
  <2>2. CustomScheme(p).prefix = FALSE /\ CustomScheme(p).timestamp = FALSE
    BY <1>15 DEF CustomScheme
  <2>3. ParseSignature(sig, FALSE) = Ok /\ Match(Signs(sig, s, <<body>>)) = Ok
    BY <1>3, <1>15, <2>1 DEF Listing
  <2>4. CustomVerify(CustomScheme(p), headers, body, s, options, now) = Ok
    BY <1>2, <2>2, <2>3 DEF &&, CustomVerify, CustomString
  <2> QED BY <1>15, <2>4 DEF Verify, Custom
<1>16. CASE p = "Discord"
  <2>1. covered = TimestampedString(headers, body) /\ key = s
    BY <1>16 DEF Covered, Stamp, TimestampedString, SigningKey, BodyOnly, PublicKey, Custom
  <2>2. p \in Timestamped \ {"Stripe"} BY <1>16 DEF Timestamped
  <2>3. /\ ParseSignature(sig, FALSE) = Ok /\ Require(headers, "ts") = Ok /\ DecodeSecret(s) = Ok
        /\ ParseTimestamp(ts, "ts") = Ok /\ CheckReplay(ts.secs, options, now) = Ok
        /\ Match(Signs(sig, s, TimestampedString(headers, body))) = Ok
    BY <1>3, <1>4, <1>5, <1>16, <2>1, <2>2 DEF Listing
  <2>4. DiscordVerify(headers, body, s, options, now) = Ok
    BY <1>2, <2>3 DEF &&, DiscordVerify
  <2> QED BY <1>16, <2>4 DEF Verify, Custom
<1>17. CASE p = "Stripe"
  <2> DEFINE elems == sig.elems
  <2>1. /\ covered = StripeString(elems, body) /\ key = s
        /\ Stamp(p, headers) = StripeTimestamp(elems) /\ Offered(p, headers) = Listed(elems)
    BY <1>17 DEF Covered, Stamp, StripeString, SigningKey, BodyOnly, PublicKey, Custom, Offered,
                 Listing
  <2>2. \E v \in Listed(elems) : Signs(v, s, StripeString(elems, body)) BY <2>1 DEF Genuine
  <2>3. Match(\E v \in Listed(elems) : Signs(v, s, StripeString(elems, body))) = Ok
    BY <2>2 DEF Match
  <2>4. ListInForm("Stripe", elems) BY <1>1, <1>17 DEF InForm, Listing
  <2>5. p \in Timestamped BY <1>17 DEF Timestamped
  <2>6. /\ ParseTimestamp(StripeTimestamp(elems), "sig") = Ok
        /\ CheckReplay(StripeTimestamp(elems).secs, options, now) = Ok
    BY <1>1, <1>17, <2>1, <2>5, StampPasses
  <2>7. StripeParse(elems) = Ok
    BY <2>2, <2>4, <2>6, ListPasses DEF &&, StripeParse, Listing
  <2>8. StripeVerify(headers, body, s, options, now) = Ok
    BY <1>2, <2>3, <2>6, <2>7 DEF &&, StripeVerify
  <2> QED BY <1>17, <2>8 DEF Verify, Custom
<1>18. CASE p = "StandardWebhooks"
  <2> DEFINE elems == sig.elems
  <2>1. /\ covered = StandardString(headers, body) /\ key = s
        /\ Offered(p, headers) = Listed(elems)
    BY <1>18 DEF Covered, SigningKey, BodyOnly, PublicKey, Custom, Offered, Listing
  <2>2. \E v \in Listed(elems) : Signs(v, s, StandardString(headers, body)) BY <2>1 DEF Genuine
  <2>3. Match(\E v \in Listed(elems) : Signs(v, s, StandardString(headers, body))) = Ok
    BY <2>2 DEF Match
  <2>4. ListInForm("StandardWebhooks", elems) BY <1>1, <1>18 DEF InForm, Listing
  <2>5. p \in Timestamped \ {"Stripe"} BY <1>18 DEF Timestamped
  <2>6. Require(headers, "id") = Ok BY <1>18, Passes DEF SigningRoles
  <2>7. StandardParse(elems) = Ok BY <2>2, <2>4, ListPasses DEF Listing
  <2>8. /\ Require(headers, "ts") = Ok /\ DecodeSecret(s) = Ok
        /\ ParseTimestamp(ts, "ts") = Ok /\ CheckReplay(ts.secs, options, now) = Ok
    BY <1>4, <1>5, <1>18, <2>5
  <2>9. StandardVerify(headers, body, s, options, now) = Ok
    BY <1>2, <2>3, <2>6, <2>7, <2>8 DEF &&, StandardVerify
  <2> QED BY <1>18, <2>9 DEF Verify, Custom
<1>19. CASE p = "SendGrid"
  <2>1. covered = TimestampedString(headers, body) /\ key = The(options.verifying_material).key
    BY <1>19 DEF Covered, Stamp, TimestampedString, SigningKey, BodyOnly, PublicKey, Custom
  <2>2. p \in Timestamped \ {"Stripe"} /\ p \in PublicKey /\ KeyKind(p) = "EcdsaP256PublicKey"
    BY <1>19 DEF Timestamped, PublicKey, KeyKind
  <2>3. SendGridVerify(headers, body, options, now) = Ok
    BY <1>2, <1>3, <1>4, <1>6, <1>19, <2>1, <2>2 DEF &&, SendGridVerify, Listing
  <2> QED BY <1>1, <1>19, <2>3 DEF Verify, Custom, SetUp, Supported
<1>20. CASE p = "PayPal"
  <2>1. covered = PayPalString(headers, body, options) /\ key = The(options.verifying_material).key
    BY <1>20 DEF Covered, SigningKey, BodyOnly, PublicKey, Custom
  <2>2. p \in Timestamped \ {"Stripe"} /\ p \in PublicKey /\ KeyKind(p) = "X509Certificate"
    BY <1>20 DEF Timestamped, PublicKey, KeyKind
  <2>3. /\ Require(headers, "id") = Ok /\ Require(headers, "cert") = Ok
        /\ Require(headers, "algo") = Ok
    BY <1>20, Passes DEF SigningRoles
  <2>4. Context(options.webhook_id) = Ok BY <1>1, <1>20, Passes DEF SetUp
  <2>5. CheckAuthAlgo(Get(headers, "algo")) = Ok BY <1>1, <1>20 DEF InForm, CheckAuthAlgo
  <2>6. PayPalVerify(headers, body, options, now) = Ok
    BY <1>2, <1>3, <1>4, <1>6, <1>20, <2>1, <2>2, <2>3, <2>4, <2>5 DEF &&, PayPalVerify, Listing
  <2> QED BY <1>1, <1>20, <2>6 DEF Verify, Custom, SetUp, Supported
<1> QED
  BY <1>1, <1>11, <1>12, <1>13, <1>14, <1>15, <1>16, <1>17, <1>18, <1>19, <1>20
     DEF SetUp, Supported, Providers, Custom

(***************************************************************************)
(* The string Twilio signs: how it depends on the order of the fields.     *)
(***************************************************************************)

\* A list of form fields, whose names are numbered in their byte order.
NamedFields(params) ==
    /\ params \in Seq(Range(params))
    /\ \A i \in DOMAIN params : params[i].name \in Int

\* The fields that sort before the i-th, and how many they are.
FieldsBefore(params, i) == {j \in DOMAIN params : SortsBefore(params, j, i)}
RankOf(params, i) == Cardinality(FieldsBefore(params, i))

\* The order is total and strict, so that ranks tell the fields apart.
LEMMA RanksInOrder ==
    ASSUME NEW params, NamedFields(params)
    PROVE  /\ \A i \in DOMAIN params : RankOf(params, i) \in 0 .. Len(params) - 1
           /\ \A i, j \in DOMAIN params : SortsBefore(params, i, j) => RankOf(params, i) < RankOf(params, j)
           /\ \A i, j \in DOMAIN params : i # j => SortsBefore(params, i, j) \/ SortsBefore(params, j, i)
<1> DEFINE n == Len(params)
<1>1. n \in Nat /\ DOMAIN params = 1 .. n BY DEF NamedFields
<1>2. \A i, j \in 1 .. n : i # j => SortsBefore(params, i, j) \/ SortsBefore(params, j, i)
  BY <1>1 DEF NamedFields, SortsBefore
<1>3. \A i \in 1 .. n : ~SortsBefore(params, i, i) BY <1>1 DEF NamedFields, SortsBefore
<1>4. \A i, j, k \in 1 .. n :
          SortsBefore(params, i, j) /\ SortsBefore(params, j, k) => SortsBefore(params, i, k)
  BY <1>1 DEF NamedFields, SortsBefore
<1>5. IsFiniteSet(1 .. n) /\ Cardinality(1 .. n) = n
  <2> HIDE DEF n
  <2>1. 1 \in Int /\ n \in Int /\ (1 > n => n = 0) BY <1>1
  <2>2. IsFiniteSet(1 .. n) /\ Cardinality(1 .. n) = IF 1 > n THEN 0 ELSE n - 1 + 1 BY <2>1, FS_Interval
  <2> QED BY <1>1, <2>1, <2>2
<1>6. ASSUME NEW i \in 1 .. n PROVE IsFiniteSet(FieldsBefore(params, i)) /\ RankOf(params, i) \in 0 .. n - 1
  <2>1. FieldsBefore(params, i) \subseteq (1 .. n) \ {i} BY <1>1, <1>3 DEF FieldsBefore
  <2>2. IsFiniteSet((1 .. n) \ {i}) /\ Cardinality((1 .. n) \ {i}) = n - 1
    BY <1>5, FS_RemoveElement
  <2>3. IsFiniteSet(FieldsBefore(params, i)) /\ Cardinality(FieldsBefore(params, i)) <= n - 1
    BY <2>1, <2>2, FS_Subset
  <2>4. Cardinality(FieldsBefore(params, i)) \in Nat BY <2>3, FS_CardinalityType
  <2> QED BY <1>1, <2>3, <2>4 DEF RankOf
<1>7. ASSUME NEW i \in 1 .. n, NEW j \in 1 .. n, SortsBefore(params, i, j)
      PROVE  RankOf(params, i) < RankOf(params, j)
  <2>1. FieldsBefore(params, i) \subseteq FieldsBefore(params, j) BY <1>1, <1>4, <1>7 DEF FieldsBefore
  <2>2. i \in FieldsBefore(params, j) /\ i \notin FieldsBefore(params, i) BY <1>1, <1>3, <1>7 DEF FieldsBefore
  <2>3. /\ Cardinality(FieldsBefore(params, i)) <= Cardinality(FieldsBefore(params, j))
        /\ Cardinality(FieldsBefore(params, j)) # Cardinality(FieldsBefore(params, i))
    BY <1>6, <2>1, <2>2, FS_Subset
  <2> QED BY <1>6, <2>3 DEF RankOf
<1> QED BY <1>1, <1>2, <1>6, <1>7

\* So each place of the sorted list goes to exactly one field.
LEMMA EachPlaceOnce ==
    ASSUME NEW params, NamedFields(params)
    PROVE  /\ \A k \in DOMAIN params : \E i \in DOMAIN params : RankOf(params, i) = k - 1
           /\ \A i, j \in DOMAIN params : RankOf(params, i) = RankOf(params, j) => i = j
<1> DEFINE n == Len(params)
           place == [i \in 1 .. n |-> RankOf(params, i) + 1]
<1>1. n \in Nat /\ DOMAIN params = 1 .. n BY DEF NamedFields
<1>2. \A i \in 1 .. n : RankOf(params, i) \in 0 .. n - 1 BY <1>1, RanksInOrder
<1>3. \A i, j \in 1 .. n : RankOf(params, i) = RankOf(params, j) => i = j
  <2> SUFFICES ASSUME NEW i \in 1 .. n, NEW j \in 1 .. n, RankOf(params, i) = RankOf(params, j), i # j
               PROVE  FALSE
    OBVIOUS
  <2>1. SortsBefore(params, i, j) \/ SortsBefore(params, j, i) BY <1>1, RanksInOrder
  <2>2. RankOf(params, i) < RankOf(params, j) \/ RankOf(params, j) < RankOf(params, i) BY <1>1, <2>1, RanksInOrder
  <2> QED BY <1>2, <2>2
<1>4. place \in [1 .. n -> 1 .. n] BY <1>1, <1>2
<1>5. \A i, j \in 1 .. n : place[i] = place[j] => i = j BY <1>2, <1>3
<1>6. place \in Injection(1 .. n, 1 .. n)
  <2> HIDE DEF place
  <2> QED BY <1>4, <1>5, Fun_IsInj
<1>7. place \in Surjection(1 .. n, 1 .. n)
  <2> HIDE DEF place
  <2> QED BY <1>1, <1>6, FS_Interval, FS_Injection
<1>8. \A k \in 1 .. n : \E i \in 1 .. n : place[i] = k
  <2> HIDE DEF place
  <2> QED BY <1>7, Fun_SurjectionProperties
<1>9. \A k \in 1 .. n : \E i \in 1 .. n : RankOf(params, i) = k - 1
  <2> TAKE k \in 1 .. n
  <2>1. PICK i \in 1 .. n : place[i] = k BY <1>8
  <2> QED BY <1>2, <2>1
<1> QED BY <1>1, <1>3, <1>9

\* The fields are sorted by name, each of them once, and those of one name stay
\* in the order in which they arrived: the sort is a stable one.
THEOREM FieldsAreSorted ==
    ASSUME NEW params, NamedFields(params)
    PROVE  \E order \in Bijection(DOMAIN params, DOMAIN params) :
               /\ FieldsByName(params) = [k \in DOMAIN params |-> params[order[k]]]
               /\ \A k, l \in DOMAIN params : k < l => SortsBefore(params, order[k], order[l])
<1> DEFINE D == DOMAIN params
           order == [k \in D |-> CHOOSE i \in D : RankOf(params, i) = k - 1]
<1>0. D \subseteq Nat BY DEF NamedFields
<1>1. order \in [D -> D] /\ \A k \in D : RankOf(params, order[k]) = k - 1 BY EachPlaceOnce
<1>2. \A k, l \in D : order[k] = order[l] => k = l BY <1>0, <1>1
<1>3. \A i \in D : \E k \in D : order[k] = i
  <2> TAKE i \in D
  <2>1. RankOf(params, i) + 1 \in D BY RanksInOrder DEF NamedFields
  <2>2. RankOf(params, order[RankOf(params, i) + 1]) = RankOf(params, i) BY <1>1, <2>1, RanksInOrder DEF NamedFields
  <2>3. order[RankOf(params, i) + 1] = i BY <1>1, <2>1, <2>2, EachPlaceOnce
  <2> QED BY <2>1, <2>3
<1>4. order \in Bijection(D, D)
  <2> HIDE DEF order
  <2>1. order \in Injection(D, D) BY <1>1, <1>2, Fun_IsInj
  <2>2. order \in Surjection(D, D) BY <1>1, <1>3, Fun_IsSurj
  <2> QED BY <2>1, <2>2 DEF Bijection
<1>5. FieldsByName(params) = [k \in D |-> params[order[k]]]
  BY DEF FieldsByName, RankOf, FieldsBefore
<1>6. ASSUME NEW k \in D, NEW l \in D, k < l PROVE SortsBefore(params, order[k], order[l])
  <2>1. order[k] # order[l]
    <3> HIDE DEF order
    <3> QED BY <1>0, <1>2, <1>6
  <2>2. SortsBefore(params, order[k], order[l]) \/ SortsBefore(params, order[l], order[k])
    BY <1>1, <2>1, RanksInOrder
  <2>3. ~(RankOf(params, order[l]) < RankOf(params, order[k])) BY <1>0, <1>1, <1>6
  <2> QED BY <1>1, <2>2, <2>3, RanksInOrder
<1> QED
  <2> HIDE DEF order
  <2> QED BY <1>4, <1>5, <1>6

\* The same fields received in another order, those of one name in the same one.
Reordered(params, received, order) ==
    /\ order \in Bijection(DOMAIN params, DOMAIN params)
    /\ received = [k \in DOMAIN params |-> params[order[k]]]
    /\ \A k, l \in DOMAIN params : params[order[k]].name = params[order[l]].name /\ k < l
           => order[k] < order[l]

\* A field has the same place in both orders.
LEMMA ReorderedRank ==
    ASSUME NEW params, NamedFields(params), NEW received, NEW order, Reordered(params, received, order)
    PROVE  \A k \in DOMAIN params : RankOf(received, k) = RankOf(params, order[k])
<1> DEFINE D == DOMAIN params
<1>0. D = DOMAIN received /\ D \subseteq Nat BY DEF NamedFields, Reordered
<1>1. /\ order \in [D -> D]
      /\ \A k, l \in D : order[k] = order[l] => k = l
      /\ \A i \in D : \E k \in D : order[k] = i
  BY Fun_BijectionProperties, Fun_SurjectionProperties DEF Reordered
<1>2. \A k, l \in D : SortsBefore(received, k, l) <=> SortsBefore(params, order[k], order[l])
  <2> TAKE k \in D, l \in D
  <2>1. /\ received[k] = params[order[k]] /\ received[l] = params[order[l]]
        /\ order[k] \in D /\ order[l] \in D
    BY <1>1 DEF Reordered
  <2>2. received[k].name \in Int /\ received[l].name \in Int BY <2>1 DEF NamedFields
  <2>3. received[k].name = received[l].name /\ k < l => order[k] < order[l] BY <2>1 DEF Reordered
  <2>4. received[k].name = received[l].name /\ l < k => order[l] < order[k] BY <2>1 DEF Reordered
  <2>5. k \in Nat /\ l \in Nat /\ order[k] \in Nat /\ order[l] \in Nat BY <1>0, <2>1
  <2>6. k = l \/ k < l \/ l < k BY <2>5
  <2>7. ~(order[k] < order[l] /\ order[l] < order[k]) /\ ~(order[k] < order[k]) BY <2>5
  <2>8. received[k].name = received[l].name => (k < l <=> order[k] < order[l])
    BY <2>3, <2>4, <2>5, <2>6, <2>7
  <2> QED BY <2>1, <2>8 DEF SortsBefore
<1> TAKE k \in D
<1> DEFINE S == FieldsBefore(received, k)
           T == FieldsBefore(params, order[k])
           f == [j \in S |-> order[j]]
<1>3. f \in [S -> T] BY <1>0, <1>1, <1>2 DEF FieldsBefore
<1>4. \A i, j \in S : f[i] = f[j] => i = j BY <1>0, <1>1 DEF FieldsBefore
<1>5. \A i \in T : \E j \in S : f[j] = i
  <2> TAKE i \in T
  <2>1. PICK j \in D : order[j] = i BY <1>1 DEF FieldsBefore
  <2>2. j \in S BY <1>0, <1>2, <2>1 DEF FieldsBefore
  <2> QED BY <2>1, <2>2
<1>6. ExistsBijection(S, T)
  <2> HIDE DEF S, T, f
  <2>1. f \in Injection(S, T) BY <1>3, <1>4, Fun_IsInj
  <2>2. f \in Surjection(S, T) BY <1>3, <1>5, Fun_IsSurj
  <2> QED BY <2>1, <2>2 DEF Bijection, ExistsBijection
<1>7. IsFiniteSet(S)
  <2>1. IsFiniteSet(D) BY FS_Interval DEF NamedFields
  <2>2. S \subseteq D BY <1>0 DEF FieldsBefore
  <2> QED BY <2>1, <2>2, FS_Subset
<1> QED BY <1>6, <1>7, FS_Bijection DEF RankOf

\* Hence both are sorted to the same list.
LEMMA ReorderedFields ==
    ASSUME NEW params, NamedFields(params), NEW received, NEW order, Reordered(params, received, order)
    PROVE  FieldsByName(received) = FieldsByName(params)
<1> DEFINE D == DOMAIN params
           At(ps, k) == CHOOSE i \in D : RankOf(ps, i) = k - 1
<1>0. D = DOMAIN received BY DEF Reordered
<1>1. /\ order \in [D -> D]
      /\ \A i \in D : \E k \in D : order[k] = i
  BY Fun_BijectionProperties, Fun_SurjectionProperties DEF Reordered
<1>2. ASSUME NEW k \in D PROVE received[At(received, k)] = params[At(params, k)]
  <2>1. At(params, k) \in D /\ RankOf(params, At(params, k)) = k - 1 BY EachPlaceOnce
  <2>2. PICK j \in D : order[j] = At(params, k) BY <1>1, <2>1
  <2>3. RankOf(received, j) = k - 1 BY <2>1, <2>2, ReorderedRank
  <2>4. At(received, k) \in D /\ RankOf(received, At(received, k)) = k - 1 BY <2>3
  <2>5. RankOf(params, order[At(received, k)]) = k - 1 BY <2>4, ReorderedRank
  <2>6. order[At(received, k)] = At(params, k) BY <1>1, <2>1, <2>4, <2>5, EachPlaceOnce
  <2> QED BY <2>4, <2>6 DEF Reordered
<1> QED BY <1>0, <1>2 DEF FieldsByName, RankOf, FieldsBefore

\* The other way round: forms that sort to the same list differ in nothing but
\* how fields of different names were mixed.
LEMMA SortedAlike ==
    ASSUME NEW params, NamedFields(params), NEW received, NamedFields(received),
           FieldsByName(received) = FieldsByName(params)
    PROVE  \E order : Reordered(params, received, order)
<1> DEFINE D == DOMAIN params
<1>1. PICK a \in Bijection(D, D) :
          /\ FieldsByName(params) = [k \in D |-> params[a[k]]]
          /\ \A k, l \in D : k < l => SortsBefore(params, a[k], a[l])
  BY FieldsAreSorted
<1>2. PICK b \in Bijection(DOMAIN received, DOMAIN received) :
          /\ FieldsByName(received) = [k \in DOMAIN received |-> received[b[k]]]
          /\ \A k, l \in DOMAIN received : k < l => SortsBefore(received, b[k], b[l])
  BY FieldsAreSorted
<1>3. DOMAIN received = D
  <2>1. DOMAIN FieldsByName(params) = D BY <1>1
  <2>2. DOMAIN FieldsByName(received) = DOMAIN received BY <1>2
  <2> QED BY <2>1, <2>2
<1>4. \A k \in D : received[b[k]] = params[a[k]]
  <2> TAKE k \in D
  <2>1. FieldsByName(params)[k] = params[a[k]] BY <1>1
  <2>2. FieldsByName(received)[k] = received[b[k]] BY <1>2, <1>3
  <2> QED BY <2>1, <2>2
<1>5. /\ a \in [D -> D] /\ \A k, l \in D : a[k] = a[l] => k = l
      /\ \A i \in D : \E k \in D : a[k] = i
  BY <1>1, Fun_BijectionProperties, Fun_SurjectionProperties
<1>6. /\ b \in [D -> D] /\ \A k, l \in D : b[k] = b[l] => k = l
      /\ \A i \in D : \E k \in D : b[k] = i
  BY <1>2, <1>3, Fun_BijectionProperties, Fun_SurjectionProperties
<1> DEFINE place(j) == CHOOSE k \in D : b[k] = j
           order == [j \in D |-> a[place(j)]]
<1>7. \A j \in D : place(j) \in D /\ b[place(j)] = j BY <1>6
<1>8. \A k \in D : place(b[k]) = k BY <1>6, <1>7
<1>9. order \in Bijection(D, D)
  <2>1. order \in [D -> D] BY <1>5, <1>7
  <2>2. \A j, l \in D : order[j] = order[l] => j = l BY <1>5, <1>7
  <2>3. \A i \in D : \E j \in D : order[j] = i
    <3> TAKE i \in D
    <3>1. PICK k \in D : a[k] = i BY <1>5
    <3>2. b[k] \in D /\ order[b[k]] = i BY <1>6, <1>8, <3>1
    <3> QED BY <3>2
  <2> HIDE DEF order
  <2>4. order \in Injection(D, D) BY <2>1, <2>2, Fun_IsInj
  <2>5. order \in Surjection(D, D) BY <2>1, <2>3, Fun_IsSurj
  <2> QED BY <2>4, <2>5 DEF Bijection
<1>10. \A j \in D : received[j] = params[order[j]] BY <1>4, <1>7
<1>11. received = [j \in D |-> params[order[j]]]
  <2>1. received = [j \in DOMAIN received |-> received[j]] BY DEF NamedFields
  <2> HIDE DEF order
  <2> QED BY <1>3, <1>10, <2>1
<1>12. ASSUME NEW j \in D, NEW l \in D, params[order[j]].name = params[order[l]].name, j < l
       PROVE  order[j] < order[l]
  <2> DEFINE x == place(j)
             y == place(l)
  <2>1. x \in D /\ y \in D /\ b[x] = j /\ b[y] = l BY <1>7
  <2>2. received[j].name = received[l].name /\ received[j].name \in Int /\ received[l].name \in Int
    BY <1>3, <1>10, <1>12 DEF NamedFields
  <2>3. D \subseteq Nat BY DEF NamedFields
  <2>4. ~(l < j) BY <1>12, <2>3
  <2>5. ~SortsBefore(received, l, j) BY <2>2, <2>4 DEF SortsBefore
  <2>6. ~(y < x)
    <3> HIDE DEF x, y
    <3> QED BY <1>2, <1>3, <2>1, <2>5
  <2>7. x # y BY <1>12, <2>1, <2>3
  <2>8. x < y
    <3> HIDE DEF x, y
    <3> QED BY <2>1, <2>3, <2>6, <2>7
  <2>9. SortsBefore(params, a[x], a[y])
    <3> HIDE DEF x, y
    <3> QED BY <1>1, <2>1, <2>8
  <2>10. order[j] = a[x] /\ order[l] = a[y] OBVIOUS
  <2>11. params[a[x]].name = params[a[y]].name BY <1>12, <2>10
  <2>12. params[a[x]].name \in Int
    <3> HIDE DEF x, y
    <3> QED BY <1>5, <2>1 DEF NamedFields
  <2>13. a[x] < a[y]
    <3> HIDE DEF x, y, order
    <3> QED BY <2>9, <2>11, <2>12 DEF SortsBefore
  <2> QED BY <2>10, <2>13
<1>13. Reordered(params, received, order)
  <2> HIDE DEF order
  <2> QED BY <1>9, <1>11, <1>12 DEF Reordered
<1> QED BY <1>13

\* The sort forgets how fields of different names were mixed when they were
\* received, and nothing else: two forms sort to one list exactly when one is the
\* other with its fields in another order, those of one name in the same one.
\* It says nothing of two lists whose names and values concatenate alike.
THEOREM SortForgetsOnlyTheMix ==
    ASSUME NEW params, NamedFields(params), NEW received, NamedFields(received)
    PROVE  FieldsByName(received) = FieldsByName(params)
               <=> \E order : Reordered(params, received, order)
BY SortedAlike, ReorderedFields

\* "Callers pass fields in any order" (module documentation): whatever the
\* request, the secret and the clock, verify() says the same of a form whose
\* fields of different names were received in another order.
THEOREM TwilioInAnyOrder ==
    ASSUME NEW headers, NEW body, NEW s, NEW now, NEW options, NEW options2,
           NEW params, NamedFields(params), NEW received, NEW order, Reordered(params, received, order),
           options.form_params = {params}, options2.form_params = {received},
           options2.request_url = options.request_url
    PROVE  Verify("Twilio", headers, body, s, options2, now)
               = Verify("Twilio", headers, body, s, options, now)
<1>1. The({params}) = params /\ The({received}) = received BY DEF The
<1>2. TwilioString(options2) = TwilioString(options) BY <1>1, ReorderedFields DEF TwilioString
<1>3. Context(options2.form_params) = Context(options.form_params) BY DEF Context
<1>4. TwilioVerify(headers, s, options2) = TwilioVerify(headers, s, options)
  BY <1>2, <1>3 DEF TwilioVerify
<1> QED BY <1>4 DEF Verify
=============================================================================
