----------------------------- MODULE DeployFlow -----------------------------
(***************************************************************************)
(* What the browser does to turn a compiled policy into a live contract    *)
(* (apps/web/lib/deploy.ts, run by the deploy dialog), next to the policy  *)
(* page of the same browser, which can send and fund the policy too.       *)
(*                                                                         *)
(* Every step of the flow prompts the wallet for a transaction and waits   *)
(* for its receipt.  The user may reject the prompt, the transaction may   *)
(* revert, the wait may throw while the transaction is still on its way    *)
(* and will be mined after all, and the tab may be closed at any await.    *)
(* What survives is the chain and the vault in the browser's storage.      *)
(*                                                                         *)
(* A salt stands for a draft: the split, the salt, and so the commitment.  *)
(***************************************************************************)
EXTENDS Integers, Sequences, FiniteSets

CONSTANTS Policies,            \* the addresses of the clones to come
          NoPolicy,
          Salts,
          NoSalt,
          Deposits,            \* what users type into the dialog, 0 among them
          Funds,               \* what the owner holds at the beginning
          HandoffConfigured,   \* the build names an instruction sender
          MaxPending           \* bound: how many transactions wait to be mined

ASSUME FlowAssumption ==
    /\ NoPolicy \notin Policies
    /\ NoSalt \notin Salts
    /\ Deposits \subseteq Nat
    /\ Funds \in Nat
    /\ HandoffConfigured \in BOOLEAN
    /\ MaxPending \in Nat

VARIABLES
    flow,          \* the deploy dialog and the deployPolicy call it runs
    page,          \* the policy page and the transaction it runs
    vault,         \* the entries in localStorage
    pending,       \* the owner's transactions on their way, by nonce
    commitment,    \* of every clone on chain
    configured,    \* the policies whose trigger is configured
    stored,        \* the policies whose ciphertext was sent to the enclave
    allowance,
    wallet,        \* what the owner still holds
    bal            \* what every policy holds

flowVars == <<flow, page, vault, pending, commitment, configured, stored, allowance, wallet,
              bal>>
chain == <<commitment, configured, stored, allowance, wallet, bal>>

Exists(p) == commitment[p] # NoSalt

Elements(s) == {s[k] : k \in 1..Len(s)}

\* What became of the transaction of the current step.
NotSent == "not sent"
Receipts == {"success", "reverted"}

Closed == [step |-> "closed", tx |-> NotSent, salt |-> NoSalt, sealed |-> FALSE,
           policy |-> NoPolicy, deposit |-> 0]
Away == [step |-> "away", tx |-> NotSent, policy |-> NoPolicy, amount |-> 0]

EntryOf(p) == {e \in vault : e.policy = p}

\* saveEntry replaces what the vault holds for that policy.
Save(e) == vault' = {x \in vault : x.policy # e.policy} \cup {e}

-----------------------------------------------------------------------------
(* The owner's account and the chain (external)                            *)

Submit(kind, p, salt, amount, from) ==
    /\ Len(pending) < MaxPending
    /\ pending' = Append(pending, [kind |-> kind, policy |-> p, salt |-> salt,
                                   amount |-> amount, from |-> from])

\* Nobody waits for them any more; they are mined all the same.
Abandoned(from) ==
    [k \in 1..Len(pending) |->
        IF pending[k].from = from THEN [pending[k] EXCEPT !.from = "nobody"] ELSE pending[k]]

\* The next transaction is mined.  Its sender, if it still waits, will read
\* the outcome and the log from the receipt.
Mined(outcome, p) ==
    LET from == Head(pending).from
    IN  /\ pending' = Tail(pending)
        /\ flow' = IF from = "flow" THEN [flow EXCEPT !.tx = outcome, !.policy = p] ELSE flow
        /\ page' = IF from = "page" THEN [page EXCEPT !.tx = outcome] ELSE page
        /\ UNCHANGED vault

MineDeploy(tx, p) ==
    /\ tx.kind = "deploy"
    /\ ~Exists(p)
    /\ Mined("success", p)
    /\ commitment' = [commitment EXCEPT ![p] = tx.salt]
    /\ UNCHANGED <<configured, stored, allowance, wallet, bal>>

MineConfigure(tx) ==
    /\ tx.kind = "configure"
    /\ tx.policy \notin configured
    /\ Mined("success", tx.policy)
    /\ configured' = configured \cup {tx.policy}
    /\ UNCHANGED <<commitment, stored, allowance, wallet, bal>>

MineHandoff(tx) ==
    /\ tx.kind = "handoff"
    /\ Mined("success", tx.policy)
    /\ stored' = stored \cup {tx.policy}
    /\ UNCHANGED <<commitment, configured, allowance, wallet, bal>>

MineApprove(tx) ==
    /\ tx.kind = "approve"
    /\ Mined("success", tx.policy)
    /\ allowance' = [allowance EXCEPT ![tx.policy] = tx.amount]
    /\ UNCHANGED <<commitment, configured, stored, wallet, bal>>

MineDeposit(tx) ==
    /\ tx.kind = "deposit"
    /\ tx.amount <= allowance[tx.policy]
    /\ tx.amount <= wallet
    /\ Mined("success", tx.policy)
    /\ allowance' = [allowance EXCEPT ![tx.policy] = @ - tx.amount]
    /\ wallet' = wallet - tx.amount
    /\ bal' = [bal EXCEPT ![tx.policy] = @ + tx.amount]
    /\ UNCHANGED <<commitment, configured, stored>>

\* Out of gas, or refused by the contract.
Revert(tx) == Mined("reverted", tx.policy) /\ UNCHANGED chain

Mine ==
    /\ pending # <<>>
    /\ LET tx == Head(pending)
       IN  \/ \E p \in Policies : MineDeploy(tx, p)
           \/ MineConfigure(tx) \/ MineHandoff(tx) \/ MineApprove(tx) \/ MineDeposit(tx)
           \/ Revert(tx)

-----------------------------------------------------------------------------
(* deployPolicy                                                            *)

Steps == <<"deploy", "configure", "handoff", "approve", "deposit">>
InFlow == flow.step \in Elements(Steps)

\* The studio page is mounted: a salt of its own, kept until it is left.
OpenStudio(salt) ==
    /\ flow.step = "closed"
    /\ \A p \in Policies : commitment[p] # salt
    /\ \A tx \in Elements(pending) : tx.salt # salt
    /\ flow' = [Closed EXCEPT !.step = "review", !.salt = salt]
    /\ UNCHANGED <<page, vault, pending, chain>>

\* "Deploy" and "Try again" are the same button.  The balance that the dialog
\* compares the deposit with may be unknown, or not that of now.
Run(deposit) ==
    /\ flow.step \in {"review", "failed"}
    /\ flow' = [Closed EXCEPT !.step = "seal", !.salt = flow.salt, !.deposit = deposit]
    /\ UNCHANGED <<page, vault, pending, chain>>

\* Whether the enclave's key could be had; the flow goes on without it.
Seal(sealed) ==
    /\ flow.step = "seal"
    /\ flow' = [flow EXCEPT !.step = "deploy", !.sealed = sealed]
    /\ UNCHANGED <<page, vault, pending, chain>>

\* The trigger of this kind is not deployed, or there is no wallet.
NotDeployed ==
    /\ flow.step = "seal"
    /\ flow' = [Closed EXCEPT !.step = "failed", !.salt = flow.salt]
    /\ UNCHANGED <<page, vault, pending, chain>>

Confirm ==
    /\ InFlow
    /\ flow.tx = NotSent
    /\ Submit(flow.step, flow.policy, IF flow.step = "deploy" THEN flow.salt ELSE NoSalt,
              IF flow.step \in {"approve", "deposit"} THEN flow.deposit ELSE 0, "flow")
    /\ flow' = [flow EXCEPT !.tx = "sent"]
    /\ UNCHANGED <<page, vault, chain>>

Goto(step) == [flow EXCEPT !.step = step, !.tx = NotSent]
AfterHandoff == Goto(IF flow.deposit = 0 THEN "done" ELSE "approve")

\* The prompt was rejected, the wait threw, or the transaction reverted.
Fail ==
    flow' = IF flow.step = "handoff" THEN AfterHandoff
            ELSE [Closed EXCEPT !.step = "failed", !.salt = flow.salt]

Reject ==
    /\ InFlow
    /\ flow.tx = NotSent
    /\ Fail
    /\ UNCHANGED <<page, vault, pending, chain>>

WaitThrows ==
    /\ InFlow
    /\ flow.tx = "sent"
    /\ Fail
    /\ pending' = Abandoned("flow")
    /\ UNCHANGED <<page, vault, chain>>

Receipt(step) ==
    /\ flow.step = step
    /\ flow.tx \in Receipts

Reverted(step) ==
    /\ step # "approve"
    /\ Receipt(step)
    /\ flow.tx = "reverted"
    /\ Fail
    /\ UNCHANGED <<page, vault, pending, chain>>

DeployedNewest ==                       \* mutant: whatever clone is there, not the receipt's
    /\ Receipt("deploy")
    /\ flow.tx = "success"
    /\ \E p \in Policies :
           /\ Exists(p)
           /\ flow' = [Goto("configure") EXCEPT !.policy = p]
    /\ UNCHANGED <<page, vault, pending, chain>>

DeployedUnread ==                       \* mutant: the receipt's logs are not read
    /\ Receipt("deploy")
    /\ flow.tx = "success"
    /\ flow' = [Goto("configure") EXCEPT !.policy = NoPolicy]
    /\ UNCHANGED <<page, vault, pending, chain>>

\* The address is taken from the event in the receipt.
Deployed ==
    /\ Receipt("deploy")
    /\ flow.tx = "success"
    /\ flow' = Goto("configure")
    /\ UNCHANGED <<page, vault, pending, chain>>

Entry(handoff) == [policy |-> flow.policy, salt |-> flow.salt, sealed |-> flow.sealed,
                   handoff |-> handoff]

ConfiguredUnsaved ==                    \* mutant: the entry waits for the hand-off
    /\ Receipt("configure")
    /\ flow.tx = "success"
    /\ flow' = IF flow.sealed /\ HandoffConfigured THEN Goto("handoff") ELSE AfterHandoff
    /\ UNCHANGED <<page, vault, pending, chain>>

\* The vault learns of the policy before anything else can fail.
Configured ==
    /\ Receipt("configure")
    /\ flow.tx = "success"
    /\ Save(Entry(FALSE))
    /\ flow' = IF flow.sealed /\ HandoffConfigured THEN Goto("handoff") ELSE AfterHandoff
    /\ UNCHANGED <<page, pending, chain>>

HandedOffUnchecked ==                   \* mutant: the receipt's status is not looked at
    /\ Receipt("handoff")
    /\ Save(Entry(TRUE))
    /\ flow' = AfterHandoff
    /\ UNCHANGED <<page, pending, chain>>

HandedOff ==
    /\ Receipt("handoff")
    /\ flow.tx = "success"
    /\ Save(Entry(TRUE))
    /\ flow' = AfterHandoff
    /\ UNCHANGED <<page, pending, chain>>

\* The status of this receipt is not looked at.
Approved ==
    /\ Receipt("approve")
    /\ flow' = Goto("deposit")
    /\ UNCHANGED <<page, vault, pending, chain>>

DepositedUnchecked ==                   \* mutant: nor is that of the last one
    /\ Receipt("deposit")
    /\ flow' = Goto("done")
    /\ UNCHANGED <<page, vault, pending, chain>>

Deposited ==
    /\ Receipt("deposit")
    /\ flow.tx = "success"
    /\ flow' = Goto("done")
    /\ UNCHANGED <<page, vault, pending, chain>>

\* The dialog is closed while no run goes on; the studio keeps the draft and its
\* salt, and can open the dialog again.
CloseDialog ==
    /\ flow.step \in {"done", "failed"}
    /\ flow' = [Closed EXCEPT !.step = "review", !.salt = flow.salt]
    /\ UNCHANGED <<page, vault, pending, chain>>

\* The tab is closed or navigated away: the draft and its salt are gone.
CloseTab ==
    /\ flow.step # "closed"
    /\ flow' = Closed
    /\ pending' = Abandoned("flow")
    /\ UNCHANGED <<page, vault, chain>>

-----------------------------------------------------------------------------
(* The policy page                                                         *)

\* "Send to enclave", with the entry the page has read.
PageSend(p) ==
    /\ page.step = "away"
    /\ \E e \in EntryOf(p) : e.sealed /\ ~e.handoff
    /\ HandoffConfigured
    /\ page' = [Away EXCEPT !.step = "handoff", !.policy = p]
    /\ UNCHANGED <<flow, vault, pending, chain>>

\* "Deposit", on any policy the factory has created for this owner: approve is
\* skipped if the allowance suffices already.
PageFund(p, amount) ==
    /\ page.step = "away"
    /\ Exists(p)
    /\ amount > 0
    /\ page' = [step |-> IF allowance[p] < amount THEN "approve" ELSE "deposit",
                tx |-> NotSent, policy |-> p, amount |-> amount]
    /\ UNCHANGED <<flow, vault, pending, chain>>

PageConfirm ==
    /\ page.step # "away"
    /\ page.tx = NotSent
    /\ Submit(page.step, page.policy, NoSalt, page.amount, "page")
    /\ page' = [page EXCEPT !.tx = "sent"]
    /\ UNCHANGED <<flow, vault, chain>>

\* Rejected, reverted, thrown, closed, or over.
PageStops ==
    /\ page.step # "away"
    /\ page' = Away
    /\ pending' = Abandoned("page")
    /\ UNCHANGED <<flow, vault, chain>>

PageReceipt(step) ==
    /\ page.step = step
    /\ page.tx \in Receipts

PageHandedOff ==
    /\ PageReceipt("handoff")
    /\ page.tx = "success"
    /\ \E e \in EntryOf(page.policy) : Save([e EXCEPT !.handoff = TRUE])
    /\ page' = Away
    /\ UNCHANGED <<flow, pending, chain>>

PageApproved ==
    /\ PageReceipt("approve")
    /\ page' = [page EXCEPT !.step = "deposit", !.tx = NotSent]
    /\ UNCHANGED <<flow, vault, pending, chain>>

-----------------------------------------------------------------------------
Init ==
    /\ flow = Closed
    /\ page = Away
    /\ vault = {}
    /\ pending = <<>>
    /\ commitment = [p \in Policies |-> NoSalt]
    /\ configured = {}
    /\ stored = {}
    /\ allowance = [p \in Policies |-> 0]
    /\ wallet = Funds
    /\ bal = [p \in Policies |-> 0]

FlowStep ==
    \/ \E salt \in Salts : OpenStudio(salt)
    \/ \E deposit \in Deposits : Run(deposit)
    \/ \E sealed \in BOOLEAN : Seal(sealed)
    \/ NotDeployed
    \/ Confirm \/ Reject \/ WaitThrows
    \/ \E step \in Elements(Steps) : Reverted(step)
    \/ Deployed \/ Configured \/ HandedOff \/ Approved \/ Deposited
    \/ CloseDialog \/ CloseTab

PageStep ==
    \/ \E p \in Policies : PageSend(p) \/ \E amount \in Deposits : PageFund(p, amount)
    \/ PageConfirm \/ PageStops \/ PageHandedOff \/ PageApproved

Next == FlowStep \/ PageStep \/ Mine

Spec == Init /\ [][Next]_flowVars

-----------------------------------------------------------------------------
(* What must hold                                                          *)

Entries == [policy : Policies, salt : Salts, sealed : BOOLEAN, handoff : BOOLEAN]

\* Type invariant; in particular no policy is funded with more than there is.
TypeOK ==
    /\ flow.step \in {"closed", "review", "seal", "done", "failed"} \cup Elements(Steps)
    /\ flow.tx \in {NotSent, "sent"} \cup Receipts
    /\ page.step \in {"away", "handoff", "approve", "deposit"}
    /\ page.tx \in {NotSent, "sent"} \cup Receipts
    /\ {tx.kind : tx \in Elements(pending)} \subseteq Elements(Steps)
    /\ vault \subseteq Entries
    /\ commitment \in [Policies -> Salts \cup {NoSalt}]
    /\ configured \cup stored \subseteq Policies
    /\ allowance \in [Policies -> Nat]
    /\ wallet \in Nat
    /\ bal \in [Policies -> Nat]

\* What the vault keeps opens what the chain keeps: every entry has the salt of
\* the very policy it names, and that policy's trigger is set, whichever earlier
\* attempts are still being mined ("lose the salt and the recipient set, and
\* the policy can never be executed by anyone", vault.ts:10-13).
EntryOpensCommitment ==
    \A e \in vault :
        /\ commitment[e.policy] = e.salt
        /\ e.policy \in configured
        /\ EntryOf(e.policy) = {e}

\* The flow moves no money to a policy, and asks for none, before the vault
\* holds the one copy of what opens it ("losing it because a later step failed
\* would be an unforced error", deploy.ts:258-260).  The policy page funds any
\* policy of the owner's, with an entry or without.
FundsOnlyTheRecoverable ==
    flow.step \in {"handoff", "approve", "deposit", "done"} => EntryOf(flow.policy) # {}

\* The browser records a hand-off only if the transaction with this policy's
\* sealed half is on chain, whichever of the dialog and the page sent it.
HandoffWasMined ==
    \A e \in vault : e.handoff => e.sealed /\ e.policy \in stored

\* The dialog says it is done only when the deposit the user asked for is in the
\* policy, even though the approval's receipt is never looked at and the policy
\* page may use the approval up first.  (Withdrawing is not part of this model:
\* an owner may of course take the deposit out again.)
DoneMeansFunded ==
    [][flow'.step = "done" /\ flow.step # "done" =>
           bal[flow.policy] >= flow.deposit]_flowVars

\* "the flow ... is resumable in the sense that nothing is repeated on retry"
\* (deploy.ts:30-32): one draft becomes one contract.
NothingRepeated ==
    \A p, q \in Policies : Exists(p) /\ commitment[p] = commitment[q] => p = q
=============================================================================
