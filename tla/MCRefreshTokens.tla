-------------------------- MODULE MCRefreshTokens --------------------------
(* Instances of RefreshTokens for TLC.  Tokens, families and requests are    *)
(* interchangeable in every definition, so their permutations are symmetries *)
(* of the safety runs; the liveness run uses none.                           *)
EXTENDS RefreshTokens, TLC

TokenSymmetry ==
  Permutations(Tokens) \cup Permutations(Families) \cup Permutations(Requests)

=============================================================================
