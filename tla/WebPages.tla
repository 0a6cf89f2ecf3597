------------------------------ MODULE WebPages ------------------------------
(***************************************************************************)
(* The three screens that work with a wallet: one of them is in front of   *)
(* the user.  The list and the dialog have a hook each; an event of the    *)
(* wallet is heard by the hook, and the effects that depend on the account *)
(* or on the chain run in the same step.                                   *)
(***************************************************************************)
EXTENDS PolicyList, DepositDialog, PolicyPage

VARIABLE screen

webVars == <<provider, events, hook, list, dialog, ledger, page, screen>>

Screens == {"list", "dialog", "policy"}
On(s) == screen = s

Init ==
    /\ screen \in Screens
    /\ WalletInit
    /\ On("policy") => provider = [account |-> NoAccount, chain |-> "coston2", known |-> TRUE,
                                   changes |-> 0]
    /\ list = EmptyList
    /\ dialog = Opened
    /\ ledger \in [status : {"Active"}, balance : {1}, height : {0}, trigger : Configurations,
                  allowance : [Accounts -> {0}]]
    /\ page = MountedPage(FALSE)

\* Whatever the wallet does, the screen in front runs its effects.
HookStep ==
    /\ screen \in {"list", "dialog"}
    /\ WalletStep(On("dialog"))
    /\ IF On("list") THEN LoadEffect ELSE UNCHANGED list
    /\ IF On("dialog") THEN DialogEffects ELSE UNCHANGED dialog
    /\ UNCHANGED <<policyVars, screen>>

\* The reload forgets all but what is on chain and in the vault.
Reload ==
    /\ screen \in {"list", "dialog"}
    /\ ChainChanged
    /\ list' = EmptyList
    /\ dialog' = Opened
    /\ UNCHANGED <<policyVars, screen>>

ScreenStep ==
    /\ UNCHANGED screen
    /\ \/ On("list") /\ ListStep /\ UNCHANGED <<walletVars, dialog, policyVars>>
       \/ On("dialog") /\ DialogStep /\ UNCHANGED <<walletVars, list, policyVars>>
       \/ On("dialog") /\ Dismiss /\ UNCHANGED <<list, policyVars>>
       \/ On("policy") /\ PageStep /\ UNCHANGED <<walletVars, list, dialog>>

Next == HookStep \/ Reload \/ ScreenStep

Spec == Init /\ [][Next]_webVars

-----------------------------------------------------------------------------
(* What must hold                                                          *)

\* Type invariant; in particular nothing is sent that was not read as a number.
TypeOK ==
    /\ screen \in Screens
    /\ WalletTypeOK
    /\ DialogTypeOK
    /\ PageTypeOK

\* No page goes on under a chain it has not heard of: what the hook takes for
\* the chain is the wallet's, or the event that reloads the page is on its way
\* ("far better than rendering Coston2 data under a Mainnet header",
\* wallet.ts:82-84), however many requests overlap with the user's own changes.
\* There is one exception: a wallet that has added Coston2 and not gone there.
\* The code takes that for a switch ("Adding it is the whole remedy",
\* wallet.ts:109), and no event corrects it.
ChainIsTheWallets ==
    \/ hook.chain \in {Unknown, provider.chain}
    \/ "chainChanged" \in events
    \/ hook.misled
=============================================================================
