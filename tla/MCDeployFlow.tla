---------------------------- MODULE MCDeployFlow ----------------------------
(* One owner, two drafts and two clones.                                    *)
EXTENDS DeployFlow, TLC

Symmetry == Permutations(Policies) \cup Permutations(Salts)
=============================================================================
