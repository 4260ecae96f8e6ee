----------------------------- MODULE Authority -----------------------------
(***************************************************************************)
(* What the economy promises to the leaderboard: the lifetime earnings in  *)
(* PostgreSQL, one number for every player with a resource row.  A total   *)
(* never decreases while the row exists and a deleted player never comes   *)
(* back.  Module Economy implements it, module Leaderboard relies on it.   *)
(***************************************************************************)
EXTENDS Integers

CONSTANT Player

VARIABLES
  total,     \* lifetime_gold_earned; its domain is the players with a row
  deleted    \* the players whose row was deleted

authorityVars == <<total, deleted>>

AuthorityInit == total = [p \in {} |-> 0] /\ deleted = {}

NeverLowered ==
  \A p \in DOMAIN total :
    p \in deleted' \/ (p \in DOMAIN total' /\ total'[p] >= total[p])

AuthorityNext ==
  /\ deleted \subseteq deleted'
  /\ DOMAIN total' \subseteq Player \ deleted'
  /\ NeverLowered

AuthoritySpec == AuthorityInit /\ [][AuthorityNext]_authorityVars

=============================================================================
