----------------------------- MODULE PolicyPage -----------------------------
(***************************************************************************)
(* The page of one policy (apps/web/app/policies/[address]/page.tsx): what *)
(* it has read of the policy, what it lets the user do, and the one        *)
(* transaction it waits for, next to everybody else on the chain.  Of the  *)
(* wallet it only asks which account is connected, and on which chain, at  *)
(* the moment a button is pressed: any is possible at any moment.          *)
(***************************************************************************)
EXTENDS TypedAmounts

CONSTANTS Owner,               \* of the policy and of its trigger
          TriggerKind,         \* what the trigger says it is
          Configurations,      \* of the trigger, as far as the deployment got
          MaxHeight            \* bound: how many blocks change the policy

Manual == "manual-heartbeat"
Kinds == {Manual, "timestamp", "fdc-nonexistence", "unknown"}

ASSUME PageAssumption ==
    /\ Owner \in Accounts
    /\ TriggerKind \in Kinds
    /\ Configurations \subseteq {"none", "plain", "demo"}
    /\ MaxHeight \in Nat

VARIABLES ledger,    \* what the chain says of the policy
          page

policyVars == <<ledger, page>>

Statuses == {"Active", "Triggered", "Executed", "Cancelled"}
Labels == {"check-in", "simulate", "handoff", "deposit", "withdraw", "cancel"}

NotRead == [kind |-> "not read"]
Idle == [label |-> "none", stage |-> "none", account |-> NoAccount, amount |-> 0, receipt |-> 0,
         asOf |-> MaxHeight]
NoRefresh == [stage |-> "none", status |-> Null, balance |-> Null]
Reading == [NoRefresh EXCEPT !.stage = "reading"]
Refreshes == {"mount", "send", "done"}

\* A mounted page: its first effect has started to read.  The card of the
\* hand-off has no button once the entry is handed off.
MountedPage(handedOff) ==
    [shown |-> NotRead, demo |-> FALSE, op |-> Idle, amount |-> NoText, handedOff |-> handedOff,
     refresh |-> [r \in Refreshes |-> IF r = "mount" THEN Reading ELSE NoRefresh]]

-----------------------------------------------------------------------------
(* The policy on chain, abridged (ConfidentialPolicy models it in full)    *)

Block(l) == ledger' = [l EXCEPT !.height = @ + 1]

Works(label, account, amount) ==
    CASE label = "deposit" -> /\ ledger.status = "Active"
                              /\ amount <= ledger.allowance[account]
                              /\ amount <= Purse[account]
      [] label = "withdraw" -> /\ ledger.status = "Active"
                               /\ account = Owner
                               /\ amount <= ledger.balance
      [] label = "cancel" -> ledger.status = "Active" /\ account = Owner
      [] label = "check-in" -> ledger.trigger # "none" /\ account = Owner
      [] label = "simulate" -> ledger.trigger = "demo" /\ account = Owner
      [] OTHER -> TRUE

Executes(label, account, amount) ==
    Block(CASE label = "deposit" ->
                   [ledger EXCEPT !.balance = @ + amount, !.allowance[account] = @ - amount]
            [] label = "approve" -> [ledger EXCEPT !.allowance[account] = amount]
            [] label = "withdraw" -> [ledger EXCEPT !.balance = @ - amount]
            [] label = "cancel" -> [ledger EXCEPT !.status = "Cancelled", !.balance = 0]
            [] OTHER -> ledger)

\* The policy is armed and executed by others; the owner may use another tab,
\* and what this page has sent and waits for no more is mined late.
Others ==
    /\ ledger.height < MaxHeight
    /\ \/ /\ ledger.status = "Active"
          /\ ledger.trigger # "none"
          /\ Block([ledger EXCEPT !.status = "Triggered"])
       \/ /\ ledger.status = "Triggered"
          /\ ledger.balance > 0
          /\ Block([ledger EXCEPT !.status = "Executed", !.balance = 0])
       \/ /\ ledger.status = "Active"
          /\ ledger.balance > 0
          /\ \/ Block([ledger EXCEPT !.balance = @ - 1])
             \/ Block([ledger EXCEPT !.status = "Cancelled", !.balance = 0])
       \/ \E account \in Accounts, amount \in Typed \ {0} :
             \/ Executes("approve", account, amount)
             \/ Works("deposit", account, amount) /\ Executes("deposit", account, amount)
    /\ UNCHANGED page

-----------------------------------------------------------------------------
(* refresh: readPolicy, and the configuration if the trigger has one       *)

\* The reads are sent together and may be answered at different blocks; the
\* earliest block of those after a transaction is remembered.
Read(r, field, value) ==
    /\ page.refresh[r].stage = "reading"
    /\ page.refresh[r][field] = Null
    /\ page' = [page EXCEPT !.refresh[r][field] = value,
                            !.op.asOf = IF r = "send" /\ ledger.height < @ THEN ledger.height
                                        ELSE @]
    /\ UNCHANGED ledger

ReadStatus(r) == Read(r, "status", ledger.status)
ReadBalance(r) == Read(r, "balance", ledger.balance)

\* The refresh that send awaits ends the operation; what was typed is cleared
\* whether it succeeded or not, and after cancel the page is read once more.
Ended(p) ==
    [p EXCEPT !.op = Idle,
              !.amount = IF p.op.label \in {"deposit", "withdraw"} THEN NoText ELSE @,
              !.refresh["send"] = NoRefresh,
              !.refresh["done"] = IF p.op.label = "cancel" THEN Reading ELSE @]

RefreshOver(r) == IF r = "send" THEN Ended(page) ELSE [page EXCEPT !.refresh[r] = NoRefresh]

\* The kind falls back to "unknown"; without a check-in to speak of, that is all.
ShowPolicy(r, kind) ==
    LET read == page.refresh[r]
    IN  /\ read.stage = "reading"
        /\ Null \notin {read.status, read.balance}
        /\ page' = [page EXCEPT !.shown = [status |-> read.status, balance |-> read.balance,
                                           kind |-> kind],
                                !.refresh[r] = [NoRefresh EXCEPT !.stage = "shown"],
                                !.amount = IF read.status = "Active" THEN @ ELSE NoText]
        /\ UNCHANGED ledger

ReadConfig(r, demo) ==
    /\ page.refresh[r].stage = "shown"
    /\ page' = [RefreshOver(r) EXCEPT !.demo = IF page.shown.kind = Manual THEN demo ELSE @]
    /\ UNCHANGED ledger

\* One of the reads was not answered: the error is shown, nothing else changes.
RefreshFails(r) ==
    /\ page.refresh[r].stage = "reading"
    /\ page' = RefreshOver(r)
    /\ UNCHANGED ledger

-----------------------------------------------------------------------------
(* What the page offers                                                    *)

Parsed == ParseAmount(page.amount, Null)
Shows(status) == page.shown # NotRead /\ page.shown.status = status

UsableUnparsed == page.op = Idle /\ page.amount # NoText  \* mutant: whatever is no number

Usable == page.op = Idle /\ Parsed \notin {Null, 0}

WithdrawOfferedUnchecked == Shows("Active") /\ Usable     \* mutant: the balance is not looked at

WithdrawOffered == Shows("Active") /\ Usable /\ Parsed <= page.shown.balance

\* Until the entry is handed off.  The vault has the entry, sealed for an enclave.
HandoffOffered == page.shown # NotRead /\ ~page.handedOff

\* To a connected account, on Coston2 or not.
Offered(label, onCoston2) ==
    /\ page.op = Idle
    /\ CASE label = "check-in" -> Shows("Active") /\ page.shown.kind = Manual /\ onCoston2
         [] label = "simulate" -> Shows("Active") /\ page.demo /\ onCoston2
         [] label = "handoff" -> HandoffOffered
         [] label = "deposit" -> Shows("Active") /\ Usable
         [] label = "withdraw" -> WithdrawOffered
         [] label = "cancel" -> Shows("Active")

TypeAmount(text) ==
    /\ Shows("Active")
    /\ page' = [page EXCEPT !.amount = text]
    /\ UNCHANGED ledger

\* A deposit asks for the allowance first.
Press(label, account, onCoston2) ==
    /\ Offered(label, onCoston2)
    /\ page' = [page EXCEPT !.op =
                   [Idle EXCEPT !.label = label, !.account = account,
                        !.stage = IF label = "deposit" THEN "allowance" ELSE "prompt",
                        !.amount = IF label \in {"deposit", "withdraw"} THEN Parsed ELSE 0]]
    /\ UNCHANGED ledger

-----------------------------------------------------------------------------
(* send                                                                    *)

Stage(stage) == page' = [page EXCEPT !.op.stage = stage]

ReadAllowance ==
    /\ page.op.stage = "allowance"
    /\ Stage(IF ledger.allowance[page.op.account] < page.op.amount THEN "approve" ELSE "prompt")
    /\ UNCHANGED ledger

\* The user signs; viem has made sure that the wallet is on Coston2.
Sign ==
    /\ page.op.stage \in {"approve", "prompt"}
    /\ Stage(IF page.op.stage = "approve" THEN "approving" ELSE "sent")
    /\ UNCHANGED ledger

\* The status of this receipt is not looked at.
ApproveMined ==
    /\ page.op.stage = "approving"
    /\ ledger.height < MaxHeight
    /\ Executes("approve", page.op.account, page.op.amount) \/ Block(ledger)
    /\ Stage("prompt")

Outcome(stage) == page' = [page EXCEPT !.op.stage = stage, !.op.receipt = ledger.height + 1]

\* The transaction is mined, or it reverts.
Mine ==
    /\ page.op.stage = "sent"
    /\ ledger.height < MaxHeight
    /\ \/ /\ Works(page.op.label, page.op.account, page.op.amount)
          /\ Executes(page.op.label, page.op.account, page.op.amount)
          /\ Outcome("mined")
       \/ Block(ledger) /\ Outcome("reverted")

\* The hand-off alone looks at the status of its receipt; it saves the entry and
\* reads it back, and then goes on as the others do.
HandoffSaved ==
    /\ page.op.stage = "mined"
    /\ page.op.label = "handoff"
    /\ page' = [page EXCEPT !.op.stage = "saved", !.handedOff = TRUE]
    /\ UNCHANGED ledger

RefreshAfterSend ==
    /\ page' = [page EXCEPT !.op.stage = "refresh", !.refresh["send"] = Reading]
    /\ UNCHANGED ledger

ConfirmedEarly ==                       \* mutant: the receipt is not awaited
    /\ page.op.stage \in {"sent", "mined", "reverted", "saved"}
    /\ RefreshAfterSend

\* send waits for the receipt, and refreshes whatever it says.
Confirmed ==
    /\ page.op.stage \in IF page.op.label = "handoff" THEN {"saved"} ELSE {"mined", "reverted"}
    /\ RefreshAfterSend

\* Rejected, refused by the simulation, on the wrong chain, a hand-off that
\* reverted, or a wait that threw: the sentence is shown and the page is not busy
\* any more.
SendFails ==
    /\ page.op.stage \in {"allowance", "approve", "approving", "prompt", "sent", "mined",
                         "reverted", "saved"}
    /\ page' = Ended(page)
    /\ UNCHANGED ledger

\* The page is left, or reloaded because the wallet is on another chain.
Remount ==
    /\ page' = MountedPage(page.handedOff)
    /\ UNCHANGED ledger

PageStep ==
    \/ Others
    \/ \E r \in Refreshes : \/ ReadStatus(r) \/ ReadBalance(r) \/ RefreshFails(r)
                            \/ \E kind \in {TriggerKind, "unknown"} : ShowPolicy(r, kind)
                            \/ \E demo \in {ledger.trigger = "demo", FALSE} : ReadConfig(r, demo)
    \/ \E text \in Texts : TypeAmount(text)
    \/ \E label \in Labels, account \in Accounts, onCoston2 \in BOOLEAN :
           Press(label, account, onCoston2)
    \/ ReadAllowance \/ Sign \/ ApproveMined \/ Mine \/ HandoffSaved \/ Confirmed
    \/ SendFails
    \/ Remount

PageTypeOK ==
    /\ ledger.status \in Statuses
    /\ ledger.balance \in Nat
    /\ ledger.allowance \in [Accounts -> Nat]
    /\ ledger.height \in 0..MaxHeight
    /\ ledger.trigger \in Configurations
    /\ page.shown # NotRead => /\ page.shown.status \in Statuses
                               /\ page.shown.balance \in Nat
                               /\ page.shown.kind \in Kinds
    /\ page.amount \in Texts
    /\ page.op # Idle => /\ page.op.label \in Labels
                         /\ page.op.account \in Accounts
                         /\ page.op.amount \in Nat
    /\ page.refresh \in [Refreshes -> [stage : {"none", "reading", "shown"},
                                       status : Statuses \cup {Null},
                                       balance : Nat \cup {Null}]]

-----------------------------------------------------------------------------
(* What must hold                                                          *)

\* The owner, shown the policy as it is, is offered nothing that the contract
\* then refuses.  (The page does not ask who the owner is, how much the wallet
\* holds, or whether the trigger is configured.)
OffersOnlyWhatWorks ==
    /\ page.shown # NotRead
    /\ page.shown.status = ledger.status
    /\ page.shown.balance = ledger.balance
    => \A label \in {"simulate", "withdraw", "cancel"} :
           Offered(label, TRUE) => Works(label, Owner, Parsed)

\* After a transaction of its own, the page shows the policy as it was at the
\* transaction's block or later: the reads never overtake what they are for.
SendShowsItsEffect ==
    [][page.refresh["send"].stage = "reading" /\ page'.refresh["send"].stage = "shown" =>
           page.op.receipt # 0 /\ page.op.asOf >= page.op.receipt]_policyVars
=============================================================================
