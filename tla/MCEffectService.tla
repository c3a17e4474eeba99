-------------------------- MODULE MCEffectService --------------------------
(* One effect service and the ledger, small enough for TLC.                *)
EXTENDS EffectService, TLC

\* The requests are not told apart.
Alike == Permutations(Requests)
=============================================================================
