---------------------------- MODULE MCScanQueue ----------------------------
(* Instances of ScanQueue for TLC.  Jobs, accounts, workers and slots are    *)
(* interchangeable; the liveness runs use no symmetry.                       *)
EXTENDS ScanQueue, TLC

QueueSymmetry ==
  Permutations(Jobs) \cup Permutations(Accounts) \cup Permutations(Workers)
    \cup Permutations(Slots)

=============================================================================
