--------------------------- MODULE MCWebhookSystem ---------------------------
(***************************************************************************)
(* The two ways to rotate a key from "old" to "new": the receiver knows    *)
(* both for a while (verify_any, any provider), or the sender signs with   *)
(* both (a header that lists signatures, a receiver with one secret).      *)
(***************************************************************************)
EXTENDS WebhookSystem

Stage(signing, secrets, quiet) == [signing |-> signing, secrets |-> secrets, quiet |-> quiet]

ReceiverOverlaps ==
    <<Stage({"old"}, <<"old">>, FALSE), Stage({"old"}, <<"old", "new">>, FALSE),
      Stage({"new"}, <<"old", "new">>, FALSE), Stage({"new"}, <<"new">>, TRUE)>>
SenderOverlaps ==
    <<Stage({"old"}, <<"old">>, FALSE), Stage({"old", "new"}, <<"old">>, FALSE),
      Stage({"old", "new"}, <<"new">>, TRUE), Stage({"new"}, <<"new">>, FALSE)>>

MCPlans ==
    {[provider |-> p, stages |-> ReceiverOverlaps] : p \in {"Slack", "StandardWebhooks"}}
        \cup {[provider |-> "StandardWebhooks", stages |-> SenderOverlaps]}
MCLeads == -1 .. 1
=============================================================================
