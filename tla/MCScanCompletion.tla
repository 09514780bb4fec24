-------------------------- MODULE MCScanCompletion --------------------------
(* ScanCompletion for a tenant whose assets all belong to one of two         *)
(* accounts, and where people ask for guidance on one finding.               *)
EXTENDS ScanCompletion

OneAccount == [a \in Assets |-> "prod"]
OneFinding == {<<"bucket", "p1">>}

=============================================================================
