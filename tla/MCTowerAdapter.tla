---------------------------- MODULE MCTowerAdapter ----------------------------
(***************************************************************************)
(* Requests to a Slack endpoint behind the tower middleware: signatures    *)
(* over the whole body and over a prefix of it, by the right and by        *)
(* another key, for a timestamp that is still fresh and for one that goes  *)
(* stale while the body is read; each header arriving up to twice, and     *)
(* the body in one frame or several, one of them possibly empty.           *)
(***************************************************************************)
EXTENDS TowerAdapter, TLC

CONSTANTS MCReqs,       \* model values
          MaxCopies,    \* how often a header may arrive
          MCStamps,     \* the seconds a timestamp header may carry
          MCKeys        \* the keys a signature may be made with

MCOptions == [max_age |-> {1}, request_url |-> {}, form_params |-> {},
              verifying_material |-> {}, webhook_id |-> {}]

Whole == <<"b1", "b2">>
Framings == {<<Whole>>, <<<<"b1">>, <<"b2">>>>, <<<<"b1">>, <<>>, <<"b2">>>>}

Stamps == {[form |-> "digits", raw |-> ToString(s), secs |-> s] : s \in MCStamps}
Signatures ==
    {[form |-> "signature", key |-> k, msg |-> <<ToString(s), m>>] :
        k \in MCKeys, s \in MCStamps, m \in {Whole, <<"b1">>}}
        \cup {[form |-> "undecodable"]}

Copies(values) == UNION {[1 .. n -> values] : n \in 0 .. MaxCopies}

MCWires ==
    {[headers |-> [sig |-> sigs, ts |-> stamps], frames |-> f] :
        sigs \in Copies(Signatures), stamps \in Copies(Stamps), f \in Framings}

=============================================================================
