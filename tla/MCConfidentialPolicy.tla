------------------------ MODULE MCConfidentialPolicy ------------------------
(* A small instance: one owner, two recipients, two clones, and two share  *)
(* tables of which one cannot be executed.                                 *)
EXTENDS ConfidentialPolicy, TLC

CONSTANTS alice, r1, r2, p1, p2

MCPolicies == {p1, p2}
MCAccounts == {alice, r1, r2}
MCFunds == [a \in MCAccounts |-> IF a = alice THEN 3 ELSE 0]

\* Leaves a remainder on every odd balance.
Split == [to |-> <<r1, r2, r1>>, upTo |-> <<5000, 7500, 10000>>]
\* One basis point is missing: a policy that commits to it can never execute.
Short == [to |-> <<r1, r2>>, upTo |-> <<5000, 9999>>]

MCOpenings == {[shares |-> s, salt |-> 1] : s \in {Split, Short}}

Symmetry == Permutations(MCPolicies)
=============================================================================
