------------------------- MODULE MCIdempotentWrite -------------------------
(* Instances of IdempotentWrite for TLC.                                   *)
EXTENDS IdempotentWrite, TLC

CONSTANTS create, transition, remove  \* keys, each of an operation of that kind

KindOfKey == [k \in Keys |-> CASE k = create -> "create"
                               [] k = transition -> "transition"
                               [] k = remove -> "remove"]

Symmetric == Permutations(Calls) \cup Permutations(Payloads)

=============================================================================
