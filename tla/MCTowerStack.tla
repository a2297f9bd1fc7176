----------------------------- MODULE MCTowerStack -----------------------------
(***************************************************************************)
(* Three requests to a Slack endpoint on two connections, before an inner  *)
(* service with one permit: two of them on the same connection; genuine in *)
(* two frames of which one is empty, forged, or with two timestamps.       *)
(***************************************************************************)
EXTENDS TowerStack

CONSTANTS r1, r2, r3, c1, c2

MCReqs == {r1, r2, r3}
MCConns == {c1, c2}
MCConnOf == [r \in MCReqs |-> IF r = r3 THEN c2 ELSE c1]

MCOptions == [max_age |-> {1}, request_url |-> {}, form_params |-> {},
              verifying_material |-> {}, webhook_id |-> {}]
Stamped(secs) == [form |-> "digits", raw |-> ToString(secs), secs |-> secs]
SignedBy(key) == <<[form |-> "signature", key |-> key, msg |-> <<"2", <<"b1">>>>]>>

MCWires ==
    {[headers |-> [sig |-> SignedBy("k1"), ts |-> <<Stamped(2)>>], frames |-> <<<<"b1">>, <<>>>>],
     [headers |-> [sig |-> SignedBy("k2"), ts |-> <<Stamped(2)>>], frames |-> <<<<"b1">>>>],
     [headers |-> [sig |-> SignedBy("k1"), ts |-> <<Stamped(2), Stamped(3)>>], frames |-> <<>>]}
=============================================================================
