--------------------------- MODULE RotationPromise ---------------------------
(***************************************************************************)
(* What verify_any() promises its caller, without the loop: one answer,    *)
(* which depends on the SET of active secrets only, never on their order   *)
(* or on how many there are, and is what each of them would say alone at   *)
(* one reading of the clock.  What verify() says is a parameter: the       *)
(* promise is the same for any signing scheme.                             *)
(***************************************************************************)
CONSTANTS
    Verify(_, _, _, _, _, _),   \* the outcome for a provider, headers, body,
                                \* secret, options and reading of the clock
    Times                       \* the readings the clock may give

VARIABLES
    request,    \* the provider, headers, body and options of the call, any
    secrets,    \* the slice of secrets it is made with, any
    answer      \* the kind of the outcome, once there is one (an Option)

vars == <<request, secrets, answer>>

KindsAt(now) ==
    {Verify(request.p, request.headers, request.body, secrets[i], request.options, now).kind
        : i \in DOMAIN secrets}

\* A match on any key wins; then an error that is not about a key; then the
\* mismatch against a usable key; InvalidSecret only when no key is usable.
Decision(kinds) ==
    LET final == kinds \ {"Ok", "SignatureMismatch", "InvalidSecret"}
    IN  CASE "Ok" \in kinds -> "Ok"
          [] "Ok" \notin kinds /\ final # {} -> CHOOSE kind \in final : TRUE
          [] kinds = {"InvalidSecret"} -> "InvalidSecret"
          [] OTHER -> "SignatureMismatch"

Init == answer = {}

Answer == /\ answer = {}
          /\ \E now \in Times : answer' = {Decision(KindsAt(now))}
          /\ UNCHANGED <<request, secrets>>

Spec == Init /\ [][Answer]_vars
=============================================================================
