---------------------------- MODULE MCWebSession ----------------------------
(* Instances of WebSession for TLC. *)
EXTENDS WebSession, TLC

Symmetric == Permutations(Users) \cup Permutations(Tenants) \cup Permutations(Tabs)

=============================================================================
