----------------------------- MODULE PlanAuthority -----------------------------
(***************************************************************************)
(* What the host promises about the authority to apply a prepared plan     *)
(* (docs/architecture/v0.4-studio-tauri-integration.md: "session-bound,    *)
(* single-use authority").  The authority for a plan token exists once.    *)
(* It is retained for the user, held by the one operation that took it, or *)
(* spent; what is spent never comes back, and a new token is accepted only *)
(* while no other one is retained or held.                                 *)
(***************************************************************************)
CONSTANT Tokens

VARIABLE status

Live == {t \in Tokens : status[t] \in {"retained", "held"}}

Move(t, from, to) ==
  /\ status[t] \in from
  /\ status' = [status EXCEPT ![t] = to]

AuthorityInit == status = [t \in Tokens |-> "unknown"]

\* A token fresh from the sidecar is retained, or refused for good.
Issue(t)  == Live = {} /\ Move(t, {"unknown"}, "retained")
Refuse(t) == Move(t, {"unknown"}, "spent")
\* An operation takes it out, and may hand it back unused.
Take(t)   == Move(t, {"retained"}, "held")
Return(t) == Move(t, {"held"}, "retained")
Spend(t)  == Move(t, {"retained", "held"}, "spent")

AuthorityNext ==
  \E t \in Tokens : Issue(t) \/ Refuse(t) \/ Take(t) \/ Return(t) \/ Spend(t)

AuthoritySpec == AuthorityInit /\ [][AuthorityNext]_status
=============================================================================
