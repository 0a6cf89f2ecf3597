---------------------------- MODULE DepositDialog ----------------------------
(***************************************************************************)
(* The deploy dialog up to the press of its button and around the run      *)
(* (apps/web/components/deploy-dialog.tsx): which account's balance it     *)
(* shows, whether the enclave can be sealed to, what may be deposited.     *)
(* The run itself is the subject of DeployFlow.  Balances do not change    *)
(* while the dialog is open.                                               *)
(***************************************************************************)
EXTENDS Wallet

CONSTANT ContractsConfigured   \* whether the build names the contracts

ASSUME DialogAssumption == ContractsConfigured \in BOOLEAN

VARIABLE dialog

Opened == [held |-> Null, reads |-> {}, probing |-> FALSE, enclave |-> Unknown,
           amount |-> NoText, phase |-> "editing"]

\* An empty field deposits nothing.
ParsedDeposit == ParseAmount(dialog.amount, 0)

OverBalance == ParsedDeposit # Null /\ dialog.held # Null /\ ParsedDeposit > dialog.held

Ready(h) == h.account # NoAccount /\ OnCoston2(h)

\* Three panels; the last is the form, or the steps of the run.
Panel == CASE ~ContractsConfigured -> "not configured"
           [] ContractsConfigured /\ ~Ready(hook) -> "connect"
           [] OTHER -> "form"
Form == Panel = "form" /\ dialog.phase = "editing"

DialogEffectsUncancelled ==             \* mutant: the clean-up does not cancel
    dialog' = IF Ready(hook') /\ (~Ready(hook) \/ hook'.account # hook.account)
              THEN [dialog EXCEPT !.reads = @ \cup {hook'.account}, !.probing = TRUE]
              ELSE dialog

\* The effects follow the account and the chain: what the last ones wait for is
\* dropped, what they have set stays.
DialogEffects ==
    dialog' = IF hook'.account = hook.account /\ OnCoston2(hook') = OnCoston2(hook)
              THEN dialog
              ELSE [dialog EXCEPT !.reads = IF Ready(hook') THEN {hook'.account} ELSE {},
                                  !.probing = Ready(hook')]

BalanceAnswers(account, balance) ==
    /\ account \in dialog.reads
    /\ dialog' = [dialog EXCEPT !.reads = @ \ {account}, !.held = balance]

ProbeAnswers(outcome) ==
    /\ dialog.probing
    /\ dialog' = [dialog EXCEPT !.probing = FALSE, !.enclave = outcome]

TypeDeposit(amount) ==
    /\ Form
    /\ dialog' = [dialog EXCEPT !.amount = amount]

PressMax ==
    /\ Form
    /\ dialog.held \notin {Null, 0}
    /\ dialog' = [dialog EXCEPT !.amount = dialog.held]

CanDeploy ==
    /\ dialog.phase \in {"editing", "failed"}
    /\ Panel = "form"
    /\ ParsedDeposit # Null
    /\ ~OverBalance

PressDeploy ==
    /\ CanDeploy
    /\ dialog' = [dialog EXCEPT !.phase = "running"]

\* A run that stops before its first step leaves the form where it was.
RunEnds(phase) ==
    /\ dialog.phase = "running"
    /\ dialog' = [dialog EXCEPT !.phase = phase]

\* Cancel, Close, and a click beside the dialog; when it is opened again it has
\* a hook of its own again.
Dismiss ==
    /\ dialog.phase # "running"
    /\ dialog' = Opened
    /\ hook' = Mounted
    /\ events' = {}
    /\ UNCHANGED provider

DialogStep ==
    \/ \E account \in Accounts : \E balance \in {Purse[account], Null} :
           BalanceAnswers(account, balance)
    \/ \E outcome \in {"ok", "unreachable"} : ProbeAnswers(outcome)
    \/ \E amount \in Texts : TypeDeposit(amount)
    \/ PressMax \/ PressDeploy \/ \E phase \in {"editing", "failed", "done"} : RunEnds(phase)

DialogTypeOK ==
    /\ dialog.held \in Nat \cup {Null}
    /\ dialog.reads \subseteq Accounts
    /\ dialog.probing \in BOOLEAN
    /\ dialog.enclave \in {Unknown, "ok", "unreachable"}
    /\ dialog.amount \in Texts \cup Nat
    /\ dialog.phase \in {"editing", "running", "failed", "done"}

-----------------------------------------------------------------------------
(* What must hold                                                          *)

\* When the balance of the connected account has been read, the button that
\* starts the deployment is open only to deposits that the account can pay,
\* whichever accounts were connected before and however late they answered.
DepositWithinMeans ==
    CanDeploy /\ dialog.reads = {} /\ dialog.held # Null =>
        ParsedDeposit <= Purse[hook.account]
=============================================================================
