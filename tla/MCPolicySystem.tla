--------------------------- MODULE MCPolicySystem ---------------------------
(* One policy.  MCPolicyArming leaves out the machines and lets the owner   *)
(* do everything with the triggers; MCPolicyRelease and MCPolicyHandoff     *)
(* have two machines and an orchestrator, and a policy armed by its date.   *)
EXTENDS PolicySystem

CONSTANTS alice, r1, m1, m2

MCFunds == [a \in Accounts |-> IF a = alice THEN 1 ELSE 0]

TheOpening == [shares |-> [to |-> <<alice>>, upTo |-> <<10000>>], salt |-> 1]
MCOpenings == {TheOpening}
MCCiphertexts == {[sealedFor |-> m1, plain |-> TheOpening]}
=============================================================================
