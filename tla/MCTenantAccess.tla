--------------------------- MODULE MCTenantAccess ---------------------------
(* Instances of TenantAccess for TLC. *)
EXTENDS TenantAccess, TLC

CONSTANTS t1, t2, x1, x2

RowOfEach == x1 :> t1 @@ x2 :> t2
RowOfFirst == x1 :> t1

Symmetric == Permutations(Calls) \cup Permutations(Connections)

=============================================================================
