---------------------------- MODULE MCActixAdapter ----------------------------
(***************************************************************************)
(* Requests to an endpoint behind the actix extractor, signed the way      *)
(* Slack does or the way Twilio does: over the whole body, a prefix of it  *)
(* or no body at all, each header arriving up to twice, the body in one    *)
(* frame or in two, at routes with and without a configuration.            *)
(***************************************************************************)
EXTENDS ActixAdapter, TLC

CONSTANTS MCReqs,       \* model values
          MaxCopies,    \* how often a header may arrive
          MCStamps      \* the seconds a timestamp header may carry

MCOptions == [max_age |-> {1}, request_url |-> {"url"}, form_params |-> {<<>>},
              verifying_material |-> {}, webhook_id |-> {}]

Whole == <<"b1", "b2">>
Framings == {<<Whole>>, <<<<"b1">>, <<"b2">>>>, <<<<"b1">>>>}

Stamps == {[form |-> "digits", raw |-> ToString(s), secs |-> s] : s \in MCStamps}
Messages ==
    IF Provider = "Twilio" THEN {TwilioString(MCOptions)}
    ELSE {<<ToString(s), m>> : s \in MCStamps, m \in {Whole, <<"b1">>, <<>>}}
Signatures ==
    {[form |-> "signature", key |-> k, msg |-> m] : k \in {"k1", "k2"}, m \in Messages}

Copies(values) == UNION {[1 .. n -> values] : n \in 0 .. MaxCopies}

MCWires ==
    {[headers |-> [sig |-> sigs, ts |-> stamps], frames |-> f] :
        sigs \in Copies(Signatures), stamps \in Copies(Stamps), f \in Framings}
=============================================================================
