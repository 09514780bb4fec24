---------------------------- MODULE MCDashboard ----------------------------
(* Dashboard for two findings of two statuses, which are interchangeable.    *)
EXTENDS Dashboard, TLC

DashboardSymmetry == Permutations(Findings) \cup Permutations(Statuses)

=============================================================================
