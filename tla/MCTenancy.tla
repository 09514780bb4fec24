----------------------------- MODULE MCTenancy -----------------------------
(* Instances of Tenancy for TLC.  Three names: one whose second slug is the  *)
(* first of another, and one without letters and digits.                     *)
EXTENDS Tenancy, TLC

NamedSlugs ==
  [name \in Names |->
     CASE name = "acme"   -> <<"acme", "acme-2", "acme-3", "acme-4">>
       [] name = "acme-2" -> <<"acme-2", "acme-2-2", "acme-2-3", "acme-2-4">>
       [] OTHER           -> <<>>]

TenancySymmetry ==
  Permutations(Emails) \cup Permutations(Tenants) \cup Permutations(Requests)

=============================================================================
