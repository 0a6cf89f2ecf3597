----------------------------- MODULE PolicyList -----------------------------
(***************************************************************************)
(* The page that lists the policies (apps/web/app/policies/page.tsx) and   *)
(* listPolicies, which merges what this browser's vault knows of with what *)
(* the factory has logged for the account (apps/web/lib/policies.ts).      *)
(***************************************************************************)
EXTENDS Wallet

CONSTANTS Vault,         \* the policies this browser has deployed
          Owned          \* by account: the policies the factory has logged

ASSUME ListAssumption == DOMAIN Owned = Accounts

VARIABLE list     \* the policies shown, and the loads that have not answered

\* "refused" is a history: whose contracts could not be read for what is shown.
EmptyList == [loaded |-> FALSE, policies |-> {}, loads |-> {}, refused |-> {}]

ListPoliciesRejecting(account, logsServed, refused) == \* mutant: no logs, no policies
    IF logsServed THEN (Vault \cup Owned[account]) \ refused ELSE {}

\* "A policy deployed from another browser still lists; a policy whose logs the
\* RPC declines to serve still lists."  A policy whose contract it declines to
\* read is left out.
ListPolicies(account, logsServed, refused) ==
    (Vault \cup IF logsServed THEN Owned[account] ELSE {}) \ refused

\* The effect starts a load for every new account; none is ever cancelled.
LoadEffect ==
    list' = IF hook'.account \notin {hook.account, NoAccount}
            THEN [list EXCEPT !.loads = @ \cup {hook'.account}]
            ELSE list

\* The RPC may refuse the logs, and any of the reads.
LoadAnswers(account, logsServed, refused) ==
    /\ account \in list.loads
    /\ list' = [loaded |-> TRUE, policies |-> ListPolicies(account, logsServed, refused),
                loads |-> list.loads \ {account}, refused |-> refused]

ListView ==
    CASE hook.account = NoAccount -> "connect your wallet"
      [] hook.account # NoAccount /\ ~list.loaded -> "skeleton"
      [] hook.account # NoAccount /\ list.loaded /\ list.policies = {} -> "no policies yet"
      [] OTHER -> "cards"

ListStep ==
    \E account \in Accounts, logsServed \in BOOLEAN :
        \E refused \in SUBSET (Vault \cup Owned[account]) :
            LoadAnswers(account, logsServed, refused)

-----------------------------------------------------------------------------
(* What must hold                                                          *)

\* Whatever the RPC declines to serve, whoever is connected and whichever load is
\* the last, a policy that this browser has deployed is off the screen only if
\* its own contract could not be read for what is shown; refused logs take away
\* none ("The vault still covers everything this browser deployed",
\* policies.ts:75-77), and the screen is empty only if no contract of the vault
\* could be read.  The comment promises more: "Neither failure produces an empty
\* screen" (policies.ts:22-25).
VaultListedAsRead ==
    /\ ListView = "cards" => Vault \ list.refused \subseteq list.policies
    /\ ListView = "no policies yet" => Vault \subseteq list.refused
=============================================================================
