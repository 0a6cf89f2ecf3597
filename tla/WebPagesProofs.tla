--------------------------- MODULE WebPagesProofs ---------------------------
(***************************************************************************)
(* Theorems about the web pages, for any accounts, balances, vault and     *)
(* policies, and however often the user changes account or chain.          *)
(***************************************************************************)
EXTENDS WebPages, TLAPS

Hooks == [account : Accounts \cup {NoAccount}, chain : Chains \cup {Unknown},
          mount : {"accounts", "chain", "done"}, got : Accounts \cup {NoAccount},
          runs : SUBSET Runs, misled : BOOLEAN]

Known == Vault \cup UNION {Owned[a] : a \in Accounts}

Lists == [loaded : BOOLEAN, policies : SUBSET Known, loads : SUBSET Accounts,
          refused : SUBSET Known]

Dialogs == [held : Nat \cup {Null}, reads : SUBSET Accounts, probing : BOOLEAN,
            enclave : {Unknown, "ok", "unreachable"}, amount : Texts \cup Nat,
            phase : {"editing", "running", "failed", "done"}]

\* A switch that was granted and not yet answered is about the wallet's chain
\* too, or about one whose end has been announced.
WalletInv ==
    /\ provider \in Providers
    /\ hook \in Hooks
    /\ ChainIsTheWallets
    /\ \A run \in hook.runs :
           run.at = "switched" => provider.chain = "coston2" \/ "chainChanged" \in events

ListInv ==
    /\ list \in Lists
    /\ list.loaded => Vault \ list.refused \subseteq list.policies

\* What is awaited is awaited for the account that is connected; when nothing is,
\* the balance is its own.  A dialog that is not on the screen is as it opened.
DialogInv ==
    /\ dialog \in Dialogs
    /\ dialog.reads \subseteq (IF Ready(hook) THEN {hook.account} ELSE {})
    /\ Ready(hook) /\ dialog.reads = {} /\ dialog.held # Null =>
           dialog.held = Purse[hook.account]
    /\ ~On("dialog") => dialog = Opened

Ledgers == [status : Statuses, balance : Nat, height : 0..MaxHeight, trigger : Configurations,
            allowance : [Accounts -> Nat]]

Policy == [status : Statuses, balance : Nat, kind : Kinds]

Ops == [label : Labels, account : Accounts, amount : Nat, receipt : 0..MaxHeight,
        asOf : 0..MaxHeight,
        stage : {"allowance", "approve", "approving", "prompt", "sent", "mined", "reverted",
                 "saved", "refresh"}]

Refresh == [stage : {"none", "reading", "shown"}, status : Statuses \cup {Null},
            balance : Nat \cup {Null}]

Pages == [shown : Policy \cup {NotRead}, demo : BOOLEAN, op : Ops \cup {Idle}, amount : Texts,
          handedOff : BOOLEAN, refresh : [Refreshes -> Refresh]]

\* An operation, next to the chain: the refresh that ends it is under way only once
\* its receipt is there, and no read of that refresh is of a block before it.
OpInv ==
    /\ page.refresh["send"].stage # "none" => page.op.stage = "refresh"
    /\ page.op.stage \in {"mined", "reverted", "saved", "refresh"} =>
           page.op.receipt \in 1..ledger.height
    /\ page.op.asOf >= page.op.receipt
    /\ page.op.stage # "refresh" => page.op.asOf = MaxHeight

\* Demo mode is believed only of a trigger that is configured so, for good.
PageInv ==
    /\ ledger \in Ledgers
    /\ page \in Pages
    /\ OpInv
    /\ page.demo => ledger.trigger = "demo"

-----------------------------------------------------------------------------
(* The wallet and the hook                                                 *)

\* A hook that has just been mounted has every field of its type.
LEMMA MountedTyped == Mounted \in Hooks
BY DEF Mounted, Hooks, Unknown

\* A run that goes on to what it may wait for next; the others wait on.
LEMMA MovesTyped ==
    ASSUME hook \in Hooks, NEW run \in hook.runs,
           NEW to \in {"chain", "switch", "add", "switched", "added"},
           run.of = "connect" \/ to # "chain"
    PROVE  /\ Moves(run, to) \in SUBSET Runs
           /\ \A r \in Moves(run, to) : r \in hook.runs \/ r.at = to
<1>1. hook.runs \subseteq Runs /\ run \in Runs
    BY DEF Hooks
<1>2. [run EXCEPT !.at = to] \in Runs /\ [run EXCEPT !.at = to].at = to
    BY <1>1 DEF Runs
<1> QED
    BY <1>1, <1>2 DEF Moves

\* A hook that only goes on with its runs, or drops one, knows of the chain what it knew.
LEMMA RunsInv ==
    ASSUME WalletInv, NEW runs \in SUBSET Runs, UNCHANGED <<provider, events>>,
           hook' = [hook EXCEPT !.runs = runs],
           \A r \in runs : r \in hook.runs \/ r.at # "switched"
    PROVE  WalletInv'
<1>1. /\ hook' \in Hooks /\ hook'.chain = hook.chain /\ hook'.misled = hook.misled
      /\ hook'.runs = runs
    BY DEF WalletInv, Hooks
<1> QED
    BY <1>1 DEF WalletInv, ChainIsTheWallets

\* The wallet has gone to Coston2: every granted switch is about its chain, and a
\* hook that knows of another chain will hear of it.
LEMMA PutOnCoston2Inv ==
    ASSUME WalletInv, PutOnCoston2, NEW run \in hook.runs,
           hook' = [hook EXCEPT !.runs = Moves(run, "switched")]
    PROVE  WalletInv'
<1>1. provider' \in Providers /\ provider'.chain = "coston2"
    <2>1. provider' = [provider EXCEPT !.chain = "coston2", !.known = TRUE]
        BY DEF PutOnCoston2
    <2> QED
        BY <2>1 DEF WalletInv, Providers, Chains
<1>2. Moves(run, "switched") \in SUBSET Runs
    BY MovesTyped DEF WalletInv
<1>3. /\ hook' \in Hooks /\ hook'.chain = hook.chain /\ hook'.misled = hook.misled
    BY <1>2 DEF WalletInv, Hooks
<1>4. ChainIsTheWallets'
    BY <1>1, <1>3 DEF WalletInv, ChainIsTheWallets, PutOnCoston2
<1> QED
    BY <1>1, <1>3, <1>4 DEF WalletInv

\* The runs of connect and of switchToCoston2.
LEMMA RunStepInv ==
    ASSUME WalletInv, RunStep
    PROVE  WalletInv'
<1> USE DEF Chains, Unknown
<1> PICK run \in hook.runs :
        \/ \E a \in Accounts : Connected(run, a)
        \/ ConnectedChain(run)
        \/ Switched(run) \/ UnknownChain(run) \/ AddedAndSwitched(run) \/ Added(run)
        \/ SwitchAnswered(run) \/ Refused(run)
    BY DEF RunStep
<1>1. /\ hook \in Hooks /\ hook.runs \subseteq Runs /\ run \in Runs
      /\ run.at \in {"accounts", "chain"} => run.of = "connect"
    BY DEF WalletInv, Hooks, Runs
<1>2. hook.runs \ {run} \in SUBSET Runs
    BY <1>1
<1>3. ASSUME NEW a \in Accounts, Connected(run, a)
      PROVE  WalletInv'
    <2> DEFINE runs == Moves(run, "chain")
    <2>1. runs \in SUBSET Runs /\ \A r \in runs : r \in hook.runs \/ r.at = "chain"
        BY <1>1, <1>3, MovesTyped DEF Connected
    <2>2. /\ provider' = [provider EXCEPT !.account = a]
          /\ hook' = [hook EXCEPT !.account = a, !.runs = runs]
          /\ events \subseteq events'
        BY <1>3 DEF Connected
    <2> HIDE DEF runs
    <2>3. provider' \in Providers /\ provider'.chain = provider.chain
        BY <2>2 DEF WalletInv, Providers
    <2>4. /\ hook' \in Hooks /\ hook'.chain = hook.chain /\ hook'.misled = hook.misled
          /\ hook'.runs = runs
        BY <1>1, <2>1, <2>2 DEF Hooks
    <2> QED
        BY <2>1, <2>2, <2>3, <2>4 DEF WalletInv, ChainIsTheWallets
<1>4. ASSUME ConnectedChain(run)
      PROVE  WalletInv'
    <2>1. CASE provider.chain = "coston2"
        <3>1. /\ hook' = [hook EXCEPT !.chain = "coston2", !.misled = FALSE,
                                      !.runs = hook.runs \ {run}]
              /\ UNCHANGED <<provider, events>>
            BY <1>4, <2>1 DEF ConnectedChain
        <3>2. hook' \in Hooks /\ hook'.chain = "coston2"
            BY <1>1, <1>2, <3>1 DEF Hooks
        <3> QED
            BY <2>1, <3>1, <3>2 DEF WalletInv, ChainIsTheWallets
    <2>2. CASE provider.chain # "coston2"
        <3>1. /\ hook' = [hook EXCEPT !.runs = Moves(run, "switch")]
              /\ UNCHANGED <<provider, events>>
            BY <1>4, <2>2 DEF ConnectedChain
        <3>2. /\ Moves(run, "switch") \in SUBSET Runs
              /\ \A r \in Moves(run, "switch") : r \in hook.runs \/ r.at = "switch"
            BY <1>1, MovesTyped
        <3> QED
            BY <3>1, <3>2, RunsInv
    <2> QED
        BY <2>1, <2>2
<1>5. CASE Switched(run)
    BY <1>5, PutOnCoston2Inv DEF Switched
<1>6. CASE UnknownChain(run)
    <2>1. /\ Moves(run, "add") \in SUBSET Runs
          /\ \A r \in Moves(run, "add") : r \in hook.runs \/ r.at = "add"
        BY <1>1, MovesTyped
    <2> QED
        BY <1>6, <2>1, RunsInv DEF UnknownChain
<1>7. CASE AddedAndSwitched(run)
    BY <1>7, PutOnCoston2Inv DEF AddedAndSwitched
<1>8. CASE Added(run)
    <2>1. /\ provider' = [provider EXCEPT !.known = TRUE]
          /\ hook' = [hook EXCEPT !.runs = Moves(run, "added")] /\ UNCHANGED events
        BY <1>8 DEF Added
    <2>2. provider' \in Providers /\ provider'.chain = provider.chain
        BY <2>1 DEF WalletInv, Providers
    <2>3. /\ Moves(run, "added") \in SUBSET Runs
          /\ \A r \in Moves(run, "added") : r \in hook.runs \/ r.at = "added"
        BY <1>1, MovesTyped
    <2>4. /\ hook' \in Hooks /\ hook'.chain = hook.chain /\ hook'.misled = hook.misled
          /\ hook'.runs = Moves(run, "added")
        BY <1>1, <2>1, <2>3 DEF Hooks
    <2> QED
        BY <2>1, <2>2, <2>3, <2>4 DEF WalletInv, ChainIsTheWallets
<1>9. CASE SwitchAnswered(run)
    <2> DEFINE misled == run.at = "added"
    <2>1. /\ run.at \in {"switched", "added"} /\ UNCHANGED <<provider, events>>
          /\ hook' = [hook EXCEPT !.chain = "coston2", !.misled = misled,
                                  !.runs = hook.runs \ {run}]
        BY <1>9 DEF SwitchAnswered
    <2>2. misled \in BOOLEAN /\ (misled \/ run.at = "switched")
        BY <2>1
    <2> HIDE DEF misled
    <2>3. /\ hook' \in Hooks /\ hook'.chain = "coston2" /\ hook'.misled = misled
          /\ hook'.runs \subseteq hook.runs
        BY <1>1, <1>2, <2>1, <2>2 DEF Hooks
    <2> QED
        BY <2>1, <2>2, <2>3 DEF WalletInv, ChainIsTheWallets
<1>10. CASE Refused(run)
    BY <1>2, <1>10, RunsInv DEF Refused
<1> QED
    BY <1>3, <1>4, <1>5, <1>6, <1>7, <1>8, <1>9, <1>10

\* What the wallet tells the hook keeps the hook in step with its chain.
LEMMA WalletStepInv ==
    ASSUME WalletInv, NEW disabled \in BOOLEAN, WalletStep(disabled)
    PROVE  WalletInv'
<1> USE DEF Chains, Unknown
<1>1. ASSUME NEW a \in Accounts \cup {NoAccount}, SelectAccount(a)
      PROVE  WalletInv'
    <2>1. provider' \in Providers
        <3>1. provider.changes + 1 \in 0..MaxChanges
            BY <1>1, WalletAssumption DEF WalletInv, SelectAccount, Providers
        <3>2. provider' = [provider EXCEPT !.account = a, !.changes = provider.changes + 1]
            BY <1>1 DEF SelectAccount
        <3> QED
            BY <3>1, <3>2 DEF WalletInv, Providers
    <2> QED
        BY <1>1, <2>1 DEF WalletInv, SelectAccount, Providers, ChainIsTheWallets
<1>2. ASSUME NEW c \in Chains, SelectChain(c)
      PROVE  WalletInv'
    <2>1. provider' \in Providers
        <3>1. provider.changes + 1 \in 0..MaxChanges
            BY <1>2, WalletAssumption DEF WalletInv, SelectChain, Providers
        <3>2. provider' = [provider EXCEPT !.chain = c,
                                           !.known = provider.known \/ c = "coston2",
                                           !.changes = provider.changes + 1]
            BY <1>2 DEF SelectChain
        <3> QED
            BY <3>1, <3>2 DEF WalletInv, Providers
    <2> QED
        BY <1>2, <2>1 DEF WalletInv, SelectChain, ChainIsTheWallets
<1>3. ASSUME AnswerAccounts
      PROVE  WalletInv'
    BY <1>3 DEF WalletInv, AnswerAccounts, Providers, Hooks, ChainIsTheWallets
<1>4. ASSUME AnswerChain
      PROVE  WalletInv'
    BY <1>4 DEF WalletInv, AnswerChain, Providers, Hooks, ChainIsTheWallets
<1>5. ASSUME AccountsChanged
      PROVE  WalletInv'
    BY <1>5 DEF WalletInv, AccountsChanged, Providers, Hooks, ChainIsTheWallets
<1>6. ASSUME Connect(disabled) \/ SwitchToCoston2
      PROVE  WalletInv'
    <2> PICK run \in Runs :
            Starts(run) /\ run.at # "switched" /\ UNCHANGED <<provider, events>>
        BY <1>6 DEF Connect, SwitchToCoston2, Runs
    <2>1. hook.runs \cup {run} \in SUBSET Runs
        BY DEF WalletInv, Hooks
    <2> QED
        BY <2>1, RunsInv DEF Starts
<1> QED
    BY <1>1, <1>2, <1>3, <1>4, <1>5, <1>6, RunStepInv DEF WalletStep

\* A page that is mounted knows nothing of the chain, so nothing that is wrong.
LEMMA MountInv ==
    ASSUME WalletInv, hook' = Mounted, provider' = provider
    PROVE  WalletInv'
BY MountedTyped DEF WalletInv, ChainIsTheWallets, Mounted

\* Every step keeps what the hook knows of the chain.
LEMMA WalletInvNext ==
    ASSUME WalletInv, [Next]_webVars
    PROVE  WalletInv'
<1>1. CASE HookStep
    <2>1. WalletStep(On("dialog")) /\ On("dialog") \in BOOLEAN
        BY <1>1 DEF HookStep, On
    <2> QED
        BY <2>1, WalletStepInv
<1>2. CASE Reload
    BY <1>2, MountInv DEF Reload, ChainChanged
<1>3. CASE ScreenStep
    <2>1. CASE Dismiss
        BY <2>1, MountInv DEF Dismiss
    <2>2. CASE UNCHANGED walletVars
        BY <2>2 DEF walletVars, WalletInv, ChainIsTheWallets
    <2> QED
        BY <1>3, <2>1, <2>2 DEF ScreenStep
<1>4. CASE UNCHANGED webVars
    BY <1>4 DEF webVars, WalletInv, ChainIsTheWallets
<1> QED
    BY <1>1, <1>2, <1>3, <1>4 DEF Next

\* What the hook takes for the chain is the wallet's, or the reload is on its way
\* (wallet.ts:82-85): nothing that the user, the wallet and the hook do, in
\* whatever order and with however many requests under way, leaves a page up under
\* another chain, but for the addition of Coston2 that the code takes for a switch.
THEOREM KnowsItsChain == Spec => []ChainIsTheWallets
<1>1. Init => WalletInv
    BY MountedTyped DEF Init, WalletInit, WalletInv, ChainIsTheWallets, Mounted
<1>2. WalletInv /\ [Next]_webVars => WalletInv'
    BY WalletInvNext
<1>3. WalletInv => ChainIsTheWallets
    BY DEF WalletInv
<1> QED
    BY <1>1, <1>2, <1>3, PTL DEF Spec

-----------------------------------------------------------------------------
(* The list                                                                *)

\* A merged list has the vault's policies that could be read, and only known ones.
LEMMA Merged ==
    ASSUME NEW account \in Accounts, NEW logsServed \in BOOLEAN, NEW refused
    PROVE  /\ ListPolicies(account, logsServed, refused) \in SUBSET Known
           /\ Vault \ refused \subseteq ListPolicies(account, logsServed, refused)
BY DEF ListPolicies, Known

\* The list before its first load.
LEMMA EmptyListInv == EmptyList \in Lists /\ ~EmptyList.loaded
BY DEF EmptyList, Lists

\* Every step keeps a loaded list complete in the vault's policies.
LEMMA ListInvNext ==
    ASSUME ListInv, WalletInv, WalletInv', [Next]_webVars
    PROVE  ListInv'
<1>1. ASSUME LoadEffect
      PROVE  ListInv'
    <2>1. hook'.account \in Accounts \cup {NoAccount}
        BY DEF WalletInv, Hooks
    <2> QED
        BY <1>1, <2>1 DEF LoadEffect, ListInv, Lists
<1>2. ASSUME ListStep
      PROVE  ListInv'
    <2> PICK account \in Accounts, logsServed \in BOOLEAN :
            \E refused \in SUBSET (Vault \cup Owned[account]) :
                LoadAnswers(account, logsServed, refused)
        BY <1>2 DEF ListStep
    <2> PICK refused \in SUBSET (Vault \cup Owned[account]) :
            LoadAnswers(account, logsServed, refused)
        OBVIOUS
    <2>1. list' = [loaded |-> TRUE, policies |-> ListPolicies(account, logsServed, refused),
                   loads |-> list.loads \ {account}, refused |-> refused]
        BY DEF LoadAnswers
    <2>2. list.loads \ {account} \in SUBSET Accounts /\ refused \in SUBSET Known
        BY DEF ListInv, Lists, Known
    <2> QED
        BY <2>1, <2>2, Merged DEF ListInv, Lists
<1>3. CASE list' = EmptyList
    BY <1>3, EmptyListInv DEF ListInv
<1>4. CASE UNCHANGED list
    BY <1>4 DEF ListInv
<1>5. CASE HookStep
    BY <1>5, <1>1, <1>4 DEF HookStep
<1>6. CASE Reload
    BY <1>6, <1>3 DEF Reload
<1>7. CASE ScreenStep
    BY <1>7, <1>2, <1>4 DEF ScreenStep
<1> QED
    BY <1>4, <1>5, <1>6, <1>7 DEF Next, webVars

\* A policy of this browser is off the list, or the list is said to be empty, only
\* where the RPC refused to read the policy's own contract for what is shown: not
\* because it refused the logs, nor because a load of another account came last
\* (policies.ts:57-91).
THEOREM ListsWhatCouldBeRead == Spec => []VaultListedAsRead
<1>1. Init => WalletInv /\ ListInv
    BY MountedTyped, EmptyListInv
    DEF Init, WalletInit, WalletInv, ListInv, ChainIsTheWallets, Mounted
<1>2. WalletInv /\ ListInv /\ [Next]_webVars => (WalletInv /\ ListInv)'
    BY WalletInvNext, ListInvNext
<1>3. ListInv => VaultListedAsRead
    <2> SUFFICES ASSUME ListInv
                 PROVE  VaultListedAsRead
        OBVIOUS
    <2>1. ListView = "cards" \/ ListView = "no policies yet" => list.loaded
        BY DEF ListView, ListInv, Lists
    <2>2. ListView = "no policies yet" => list.policies = {}
        BY DEF ListView
    <2> QED
        BY <2>1, <2>2 DEF VaultListedAsRead, ListInv
<1> QED
    BY <1>1, <1>2, <1>3, PTL DEF Spec

-----------------------------------------------------------------------------
(* The dialog                                                              *)

\* The dialog as it opens has every field of its type.
LEMMA OpenedTyped == Opened \in Dialogs
BY DEF Opened, Dialogs, Texts, Unknown

\* Who is ready is connected.
LEMMA ReadyAccount ==
    ASSUME NEW h \in Hooks, Ready(h)
    PROVE  h.account \in Accounts
BY DEF Hooks, Ready

\* The effects ask anew for the account that is connected now.
LEMMA EffectsInv ==
    ASSUME DialogInv, WalletInv, WalletInv', DialogEffects, On("dialog"), UNCHANGED screen
    PROVE  DialogInv'
<1>1. On("dialog")'
    BY DEF On
<1>2. CASE hook'.account = hook.account /\ OnCoston2(hook') = OnCoston2(hook)
    <2>1. dialog' = dialog
        BY <1>2 DEF DialogEffects
    <2>2. Ready(hook)' = Ready(hook) /\ hook'.account = hook.account
        BY <1>2 DEF Ready
    <2> QED
        BY <1>1, <2>1, <2>2 DEF DialogInv
<1>3. CASE ~(hook'.account = hook.account /\ OnCoston2(hook') = OnCoston2(hook))
    <2>1. dialog' = [dialog EXCEPT !.reads = IF Ready(hook') THEN {hook'.account} ELSE {},
                                   !.probing = Ready(hook')]
        BY <1>3 DEF DialogEffects
    <2>2. Ready(hook') => hook'.account \in Accounts
        BY ReadyAccount DEF WalletInv
    <2>3. Ready(hook') \in BOOLEAN
        BY DEF Ready, OnCoston2
    <2>4. dialog' \in Dialogs
        BY <2>1, <2>2, <2>3 DEF DialogInv, Dialogs
    <2>5. dialog'.reads = IF Ready(hook') THEN {hook'.account} ELSE {}
        BY <2>1 DEF DialogInv, Dialogs
    <2> QED
        BY <1>1, <2>4, <2>5 DEF DialogInv
<1> QED
    BY <1>2, <1>3

\* A step of the dialog itself: nothing is awaited that was not, and the balance
\* that answers is of the account it was asked for.
LEMMA DialogStepInv ==
    ASSUME DialogInv, WalletInv, DialogStep, On("dialog"), UNCHANGED <<walletVars, screen>>
    PROVE  DialogInv'
<1> USE AmountAssumption
<1>1. hook' = hook /\ On("dialog")'
    BY DEF walletVars, On
<1>2. ASSUME NEW account \in Accounts, NEW balance \in {Purse[account], Null},
             BalanceAnswers(account, balance)
      PROVE  DialogInv'
    <2>1. Ready(hook) /\ account = hook.account
        BY <1>2 DEF BalanceAnswers, DialogInv
    <2>2. dialog' = [dialog EXCEPT !.reads = @ \ {account}, !.held = balance]
        BY <1>2 DEF BalanceAnswers
    <2>3. balance \in Nat \cup {Null}
        OBVIOUS
    <2>4. dialog' \in Dialogs /\ dialog'.held = balance /\ dialog'.reads = dialog.reads \ {account}
        BY <2>2, <2>3 DEF DialogInv, Dialogs
    <2> QED
        BY <1>1, <2>1, <2>4 DEF DialogInv
<1>3. ASSUME dialog' \in Dialogs, dialog'.held = dialog.held, dialog'.reads = dialog.reads
      PROVE  DialogInv'
    BY <1>1, <1>3 DEF DialogInv
<1>4. ASSUME NEW outcome \in {"ok", "unreachable"}, ProbeAnswers(outcome)
      PROVE  DialogInv'
    BY <1>3, <1>4 DEF ProbeAnswers, DialogInv, Dialogs
<1>5. ASSUME NEW amount \in Texts, TypeDeposit(amount)
      PROVE  DialogInv'
    BY <1>3, <1>5 DEF TypeDeposit, DialogInv, Dialogs
<1>6. ASSUME PressMax
      PROVE  DialogInv'
    BY <1>3, <1>6 DEF PressMax, DialogInv, Dialogs
<1>7. ASSUME PressDeploy
      PROVE  DialogInv'
    BY <1>3, <1>7 DEF PressDeploy, DialogInv, Dialogs
<1>8. ASSUME NEW phase \in {"editing", "failed", "done"}, RunEnds(phase)
      PROVE  DialogInv'
    BY <1>3, <1>8 DEF RunEnds, DialogInv, Dialogs
<1> QED
    BY <1>2, <1>4, <1>5, <1>6, <1>7, <1>8 DEF DialogStep

\* Every step keeps the balance shown that of the account connected.
LEMMA DialogInvNext ==
    ASSUME DialogInv, WalletInv, WalletInv', [Next]_webVars
    PROVE  DialogInv'
<1>1. CASE UNCHANGED <<dialog, hook, screen>>
    BY <1>1 DEF DialogInv, On
<1>2. CASE UNCHANGED <<dialog, screen>> /\ ~On("dialog")
    <2>1. dialog' = Opened
        BY <1>2 DEF DialogInv
    <2> QED
        BY <2>1, OpenedTyped DEF DialogInv, Opened
<1>3. CASE dialog' = Opened
    BY <1>3, OpenedTyped DEF DialogInv, Opened
<1>4. CASE HookStep
    BY <1>2, <1>4, EffectsInv DEF HookStep
<1>5. CASE Reload
    BY <1>3, <1>5 DEF Reload
<1>6. CASE ScreenStep
    BY <1>1, <1>3, <1>6, DialogStepInv DEF ScreenStep, walletVars, Dismiss
<1> QED
    BY <1>1, <1>4, <1>5, <1>6 DEF Next, webVars

\* Whichever accounts were connected before, and however late their balances
\* answered, the deposit that may be deployed is within the means of the account
\* that pays, as soon as its own balance is known (deploy-dialog.tsx:48-86).
THEOREM DepositsWithinMeans == Spec => []DepositWithinMeans
<1>1. Init => WalletInv /\ DialogInv
    <2> SUFFICES ASSUME Init
                 PROVE  WalletInv /\ DialogInv
        OBVIOUS
    <2>1. WalletInv
        BY MountedTyped DEF Init, WalletInit, WalletInv, ChainIsTheWallets, Mounted
    <2>2. DialogInv
        BY OpenedTyped DEF Init, DialogInv, Opened
    <2> QED
        BY <2>1, <2>2
<1>2. WalletInv /\ DialogInv /\ [Next]_webVars => (WalletInv /\ DialogInv)'
    BY WalletInvNext, DialogInvNext
<1>3. WalletInv /\ DialogInv => DepositWithinMeans
    <2> SUFFICES ASSUME WalletInv, DialogInv, CanDeploy, dialog.reads = {}, dialog.held # Null
                 PROVE  ParsedDeposit <= Purse[hook.account]
        BY DEF DepositWithinMeans
    <2>1. Ready(hook)
        BY DEF CanDeploy, Panel
    <2>2. dialog.held = Purse[hook.account] /\ Purse[hook.account] \in Nat
        BY <2>1, ReadyAccount, AmountAssumption DEF DialogInv, WalletInv
    <2>3. ParsedDeposit \in Nat
        BY AmountAssumption DEF CanDeploy, ParsedDeposit, ParseAmount, DialogInv, Dialogs, Texts
    <2> QED
        BY <2>2, <2>3 DEF CanDeploy, OverBalance
<1> QED
    BY <1>1, <1>2, <1>3, PTL DEF Spec

-----------------------------------------------------------------------------
(* The page of a policy                                                    *)

\* The records that the page starts from have every field of their types.
LEMMA PageRecords ==
    /\ Idle.stage = "none" /\ Idle.receipt = 0 /\ Idle.asOf = MaxHeight /\ Idle.label = "none"
    /\ NoRefresh \in Refresh /\ NoRefresh.stage = "none"
    /\ Reading \in Refresh /\ Reading.stage = "reading"
    /\ \A op \in Ops \cup {Idle} : op.receipt \in 0..MaxHeight /\ op.asOf \in 0..MaxHeight
    /\ MaxHeight \in Nat
BY PageAssumption DEF Idle, NoRefresh, Reading, Refresh, Ops

\* A page that has just been mounted waits for nothing but its first reads.
LEMMA MountedPageTyped ==
    ASSUME NEW handedOff \in BOOLEAN
    PROVE  /\ MountedPage(handedOff) \in Pages
           /\ MountedPage(handedOff).op = Idle
           /\ ~MountedPage(handedOff).demo
           /\ MountedPage(handedOff).refresh["send"] = NoRefresh
<1> DEFINE reads == [r \in Refreshes |-> IF r = "mount" THEN Reading ELSE NoRefresh]
<1>1. reads \in [Refreshes -> Refresh] /\ reads["send"] = NoRefresh
    BY PageRecords DEF Refreshes
<1> HIDE DEF reads
<1>2. MountedPage(handedOff) =
          [shown |-> NotRead, demo |-> FALSE, op |-> Idle, amount |-> NoText,
           handedOff |-> handedOff, refresh |-> reads]
    BY DEF MountedPage, reads
<1> QED
    BY <1>1, <1>2 DEF Pages, Texts

\* What a block may do to the policy.
LEMMA LedgerSteps ==
    ASSUME ledger \in Ledgers, ledger.height < MaxHeight, NEW l,
           l.status \in Statuses, l.balance \in Nat, l.allowance \in [Accounts -> Nat],
           l = [ledger EXCEPT !.status = l.status, !.balance = l.balance,
                              !.allowance = l.allowance],
           Block(l)
    PROVE  /\ ledger' \in Ledgers
           /\ ledger'.height = ledger.height + 1
           /\ ledger'.trigger = ledger.trigger
<1>1. ledger.height + 1 \in 0..MaxHeight
    BY PageRecords DEF Ledgers
<1>2. ledger' = [status |-> l.status, balance |-> l.balance, height |-> ledger.height + 1,
                 trigger |-> ledger.trigger, allowance |-> l.allowance]
    BY DEF Block, Ledgers
<1> QED
    BY <1>1, <1>2 DEF Ledgers

\* A block is one more, and leaves the trigger as it is configured.
LedgerStep ==
    /\ ledger' \in Ledgers
    /\ ledger'.height = ledger.height + 1
    /\ ledger'.trigger = ledger.trigger

\* A transaction that works leaves no account and no policy with less than nothing.
LEMMA ExecutesStep ==
    ASSUME ledger \in Ledgers, ledger.height < MaxHeight,
           NEW label, NEW account \in Accounts, NEW amount \in Nat,
           Executes(label, account, amount),
           label = "deposit" => amount <= ledger.allowance[account],
           label = "withdraw" => amount <= ledger.balance
    PROVE  LedgerStep
<1>1. /\ ledger.balance \in Nat /\ ledger.allowance \in [Accounts -> Nat]
      /\ ledger.allowance[account] \in Nat /\ ledger.status \in Statuses
    BY DEF Ledgers
<1>2. CASE label = "deposit"
    <2> DEFINE l == [ledger EXCEPT !.balance = @ + amount, !.allowance[account] = @ - amount]
    <2>1. Block(l)
        BY <1>2 DEF Executes
    <2>2. ledger.allowance[account] - amount \in Nat /\ ledger.balance + amount \in Nat
        BY <1>1, <1>2
    <2>3. /\ l.status = ledger.status /\ l.balance = ledger.balance + amount
          /\ l.allowance = [ledger.allowance EXCEPT ![account] = ledger.allowance[account] - amount]
          /\ l = [ledger EXCEPT !.status = l.status, !.balance = l.balance,
                                !.allowance = l.allowance]
        BY DEF Ledgers
    <2>4. l.allowance \in [Accounts -> Nat]
        BY <1>1, <2>2, <2>3
    <2> HIDE DEF l
    <2> QED
        BY <1>1, <2>1, <2>2, <2>3, <2>4, LedgerSteps DEF LedgerStep
<1>3. CASE label = "approve"
    <2> DEFINE l == [ledger EXCEPT !.allowance[account] = amount]
    <2>1. Block(l)
        BY <1>3 DEF Executes
    <2>2. /\ l.status = ledger.status /\ l.balance = ledger.balance
          /\ l.allowance = [ledger.allowance EXCEPT ![account] = amount]
          /\ l = [ledger EXCEPT !.status = l.status, !.balance = l.balance,
                                !.allowance = l.allowance]
        BY DEF Ledgers
    <2>3. l.allowance \in [Accounts -> Nat]
        BY <1>1, <2>2
    <2> HIDE DEF l
    <2> QED
        BY <1>1, <2>1, <2>2, <2>3, LedgerSteps DEF LedgerStep
<1>4. CASE label = "withdraw"
    <2> DEFINE l == [ledger EXCEPT !.balance = @ - amount]
    <2>1. Block(l)
        BY <1>4 DEF Executes
    <2>2. ledger.balance - amount \in Nat
        BY <1>1, <1>4
    <2>3. /\ l.status = ledger.status /\ l.balance = ledger.balance - amount
          /\ l.allowance = ledger.allowance
          /\ l = [ledger EXCEPT !.status = l.status, !.balance = l.balance,
                                !.allowance = l.allowance]
        BY DEF Ledgers
    <2> HIDE DEF l
    <2> QED
        BY <1>1, <2>1, <2>2, <2>3, LedgerSteps DEF LedgerStep
<1>5. CASE label = "cancel"
    <2> DEFINE l == [ledger EXCEPT !.status = "Cancelled", !.balance = 0]
    <2>1. Block(l)
        BY <1>5 DEF Executes
    <2>2. /\ l.status = "Cancelled" /\ l.balance = 0 /\ l.allowance = ledger.allowance
          /\ l = [ledger EXCEPT !.status = l.status, !.balance = l.balance,
                                !.allowance = l.allowance]
        BY DEF Ledgers
    <2>3. l.status \in Statuses /\ l.balance \in Nat
        BY <2>2 DEF Statuses
    <2> HIDE DEF l
    <2> QED
        BY <1>1, <2>1, <2>2, <2>3, LedgerSteps DEF LedgerStep
<1>6. CASE label \notin {"deposit", "approve", "withdraw", "cancel"}
    <2>1. Block(ledger)
        BY <1>6 DEF Executes
    <2>2. ledger = [ledger EXCEPT !.status = ledger.status, !.balance = ledger.balance,
                                  !.allowance = ledger.allowance]
        BY DEF Ledgers
    <2> QED
        BY <1>1, <2>1, <2>2, LedgerSteps DEF LedgerStep
<1> QED
    BY <1>2, <1>3, <1>4, <1>5, <1>6

\* So does a transaction that reverts, and whatever others do.
LEMMA RevertStep ==
    ASSUME ledger \in Ledgers, ledger.height < MaxHeight, Block(ledger)
    PROVE  LedgerStep
<1>1. /\ ledger.status \in Statuses /\ ledger.balance \in Nat
      /\ ledger.allowance \in [Accounts -> Nat]
      /\ ledger = [ledger EXCEPT !.status = ledger.status, !.balance = ledger.balance,
                                 !.allowance = ledger.allowance]
    BY DEF Ledgers
<1> QED
    BY <1>1, LedgerSteps DEF LedgerStep

\* So is what everybody else does to the policy.
LEMMA OthersStep ==
    ASSUME ledger \in Ledgers, Others
    PROVE  LedgerStep /\ page' = page
<1>1. /\ ledger.height < MaxHeight /\ page' = page
      /\ ledger.balance \in Nat /\ ledger.allowance \in [Accounts -> Nat]
      /\ ledger.status \in Statuses
    BY DEF Others, Ledgers
<1>2. ASSUME NEW l, NEW s \in Statuses, NEW b \in Nat, Block(l),
             l = [ledger EXCEPT !.status = s, !.balance = b]
      PROVE  LedgerStep
    <2>1. /\ l.status = s /\ l.balance = b /\ l.allowance = ledger.allowance
          /\ l = [ledger EXCEPT !.status = l.status, !.balance = l.balance,
                                !.allowance = l.allowance]
        BY <1>2 DEF Ledgers
    <2> QED
        BY <1>1, <1>2, <2>1, LedgerSteps DEF LedgerStep
<1>3. \/ Block([ledger EXCEPT !.status = "Triggered"])
      \/ Block([ledger EXCEPT !.status = "Executed", !.balance = 0])
      \/ ledger.balance > 0 /\ Block([ledger EXCEPT !.balance = @ - 1])
      \/ Block([ledger EXCEPT !.status = "Cancelled", !.balance = 0])
      \/ \E account \in Accounts, amount \in Typed \ {0} :
             \/ Executes("approve", account, amount)
             \/ Works("deposit", account, amount) /\ Executes("deposit", account, amount)
    BY DEF Others
<1>4. CASE Block([ledger EXCEPT !.status = "Triggered"])
    <2>1. [ledger EXCEPT !.status = "Triggered"]
              = [ledger EXCEPT !.status = "Triggered", !.balance = ledger.balance]
        BY DEF Ledgers
    <2> QED
        BY <1>1, <1>2, <1>4, <2>1 DEF Statuses
<1>5. CASE Block([ledger EXCEPT !.status = "Executed", !.balance = 0])
    <2> DEFINE l == [ledger EXCEPT !.status = "Executed", !.balance = 0]
    <2>1. /\ l.status = "Executed" /\ l.balance = 0 /\ l.allowance = ledger.allowance
          /\ l = [ledger EXCEPT !.status = l.status, !.balance = l.balance,
                                !.allowance = l.allowance]
        BY DEF Ledgers
    <2>2. Block(l) /\ l.status \in Statuses /\ l.balance \in Nat
        BY <1>5, <2>1 DEF Statuses
    <2> HIDE DEF l
    <2> QED
        BY <1>1, <2>1, <2>2, LedgerSteps DEF LedgerStep
<1>6. CASE ledger.balance > 0 /\ Block([ledger EXCEPT !.balance = @ - 1])
    <2>1. [ledger EXCEPT !.balance = @ - 1]
              = [ledger EXCEPT !.status = ledger.status, !.balance = ledger.balance - 1]
        BY DEF Ledgers
    <2>2. ledger.balance - 1 \in Nat
        BY <1>1, <1>6
    <2> QED
        BY <1>1, <1>2, <1>6, <2>1, <2>2
<1>7. CASE Block([ledger EXCEPT !.status = "Cancelled", !.balance = 0])
    <2> DEFINE l == [ledger EXCEPT !.status = "Cancelled", !.balance = 0]
    <2>1. /\ l.status = "Cancelled" /\ l.balance = 0 /\ l.allowance = ledger.allowance
          /\ l = [ledger EXCEPT !.status = l.status, !.balance = l.balance,
                                !.allowance = l.allowance]
        BY DEF Ledgers
    <2>2. Block(l) /\ l.status \in Statuses /\ l.balance \in Nat
        BY <1>7, <2>1 DEF Statuses
    <2> HIDE DEF l
    <2> QED
        BY <1>1, <2>1, <2>2, LedgerSteps DEF LedgerStep
<1>8. ASSUME NEW account \in Accounts, NEW amount \in Typed \ {0},
             \/ Executes("approve", account, amount)
             \/ Works("deposit", account, amount) /\ Executes("deposit", account, amount)
      PROVE  LedgerStep
    BY <1>1, <1>8, ExecutesStep, AmountAssumption DEF Works
<1> QED
    BY <1>1, <1>3, <1>4, <1>5, <1>6, <1>7, <1>8

\* A page whose operation is over waits for no refresh of it.
LEMMA EndedPage ==
    ASSUME page \in Pages
    PROVE  /\ Ended(page) \in Pages
           /\ Ended(page).op = Idle
           /\ Ended(page).refresh["send"] = NoRefresh
           /\ Ended(page).demo = page.demo
           /\ Ended(page).shown = page.shown
           /\ Ended(page).handedOff = page.handedOff
<1> DEFINE refresh == [page.refresh EXCEPT
                           !["send"] = NoRefresh,
                           !["done"] = IF page.op.label = "cancel" THEN Reading ELSE @]
           amount == IF page.op.label \in {"deposit", "withdraw"} THEN NoText ELSE page.amount
<1>1. refresh \in [Refreshes -> Refresh] /\ refresh["send"] = NoRefresh
    <2>1. page.refresh \in [Refreshes -> Refresh] /\ "send" \in Refreshes /\ "done" \in Refreshes
        BY DEF Pages, Refreshes
    <2> QED
        BY <2>1, PageRecords
<1>2. amount \in Texts
    BY DEF Pages, Texts
<1>3. DOMAIN page = {"shown", "demo", "op", "amount", "handedOff", "refresh"}
    BY DEF Pages
<1> DEFINE e == Ended(page)
<1>4. DOMAIN e = {"shown", "demo", "op", "amount", "handedOff", "refresh"} /\ e = [f \in DOMAIN page |-> e[f]]
    BY <1>3 DEF Ended
<1>5. e.op = Idle
    BY <1>3 DEF Ended
<1>6. e.shown = page.shown /\ e.demo = page.demo /\ e.handedOff = page.handedOff
    BY <1>3 DEF Ended
<1>7. e.amount = amount
    BY <1>3 DEF Ended
<1>8. e.refresh = refresh
    BY <1>3 DEF Ended
<1> HIDE DEF refresh, amount, e
<1>9. e \in Pages
    BY <1>1, <1>2, <1>3, <1>4, <1>5, <1>6, <1>7, <1>8 DEF Pages
<1> QED
    BY <1>1, <1>5, <1>6, <1>8, <1>9 DEF e

\* And it is as the invariant wants it, whatever the chain has done meanwhile.
LEMMA EndedInv ==
    ASSUME PageInv, page' \in Pages, page'.op = Idle, page'.refresh["send"] = NoRefresh,
           ledger' = ledger, page'.demo => ledger.trigger = "demo"
    PROVE  PageInv'
<1>1. OpInv'
    BY PageRecords DEF OpInv
<1> QED
    BY <1>1 DEF PageInv

\* A read of a policy; the refresh after a transaction reads no block before it.
LEMMA ReadInv ==
    ASSUME PageInv, NEW r \in Refreshes, ReadStatus(r) \/ ReadBalance(r)
    PROVE  PageInv'
<1>1. page \in Pages /\ ledger \in Ledgers /\ OpInv
    BY DEF PageInv
<1>2. PICK field \in {"status", "balance"}, value \in Statuses \cup Nat :
          /\ Read(r, field, value)
          /\ field = "status" => value \in Statuses
          /\ field = "balance" => value \in Nat
    <2>1. ledger.status \in Statuses /\ ledger.balance \in Nat
        BY <1>1 DEF Ledgers
    <2> QED
        BY <2>1 DEF ReadStatus, ReadBalance
<1> DEFINE asOf == IF r = "send" /\ ledger.height < page.op.asOf THEN ledger.height
                   ELSE page.op.asOf
           read == [page.refresh[r] EXCEPT ![field] = value]
           op == [page.op EXCEPT !.asOf = asOf]
           refresh == [page.refresh EXCEPT ![r] = read]
<1>3. page.refresh[r].stage = "reading" /\ UNCHANGED ledger
    BY <1>2 DEF Read
<1>4. /\ page'.shown = page.shown /\ page'.demo = page.demo /\ page'.op = op
      /\ page'.amount = page.amount /\ page'.handedOff = page.handedOff
      /\ page'.refresh = refresh
      /\ DOMAIN page' = DOMAIN page /\ page' = [f \in DOMAIN page |-> page'[f]]
    BY <1>1, <1>2 DEF Read, Pages
<1>5. page.refresh \in [Refreshes -> Refresh] /\ page.refresh[r] \in Refresh
    BY <1>1 DEF Pages
<1>6. read \in Refresh /\ read.stage = "reading"
    BY <1>2, <1>3, <1>5 DEF Refresh
<1>7. refresh \in [Refreshes -> Refresh] /\ (r # "send" => refresh["send"] = page.refresh["send"])
    <2> HIDE DEF read
    <2> QED
        BY <1>5, <1>6
<1>8. CASE r = "send"
    <2>1. page.op.stage = "refresh"
        BY <1>1, <1>3, <1>8 DEF OpInv
    <2>2. page.op \in Ops /\ page.op.receipt \in 1..ledger.height /\ page.op.asOf >= page.op.receipt
        BY <1>1, <2>1, PageRecords DEF Pages, OpInv
    <2>3. /\ ledger.height \in 0..MaxHeight /\ page.op.asOf \in 0..MaxHeight
          /\ page.op.receipt \in 0..MaxHeight
        BY <1>1, <2>2 DEF Ledgers, Ops
    <2>4. asOf \in 0..MaxHeight /\ asOf >= page.op.receipt
        BY <2>2, <2>3, PageRecords
    <2> HIDE DEF asOf
    <2>5. op \in Ops /\ op.stage = "refresh" /\ op.receipt = page.op.receipt /\ op.asOf = asOf
        BY <2>1, <2>2, <2>4 DEF Ops
    <2> HIDE DEF op, refresh, read
    <2>6. page' \in Pages
        BY <1>1, <1>4, <1>7, <2>5 DEF Pages
    <2>7. OpInv'
        BY <1>3, <1>4, <2>2, <2>4, <2>5 DEF OpInv
    <2> QED
        BY <1>3, <1>4, <2>6, <2>7 DEF PageInv
<1>9. CASE r # "send"
    <2>1. op = page.op
        <3>1. page.op = [f \in DOMAIN page.op |-> page.op[f]]
            BY <1>1 DEF Pages, Ops, Idle
        <3>2. asOf = page.op.asOf
            BY <1>9
        <3> QED
            BY <3>1, <3>2
    <2> HIDE DEF op, refresh, read
    <2>2. page' \in Pages
        BY <1>1, <1>4, <1>7, <2>1 DEF Pages
    <2>3. OpInv'
        BY <1>1, <1>3, <1>4, <1>7, <1>9, <2>1 DEF OpInv
    <2> QED
        BY <1>3, <1>4, <2>2, <2>3 DEF PageInv
<1> QED
    BY <1>8, <1>9

\* What is shown was read.
LEMMA ShowPolicyInv ==
    ASSUME PageInv, NEW r \in Refreshes, NEW kind \in {TriggerKind, "unknown"},
           ShowPolicy(r, kind)
    PROVE  PageInv'
<1>1. page \in Pages /\ ledger \in Ledgers /\ OpInv
    BY DEF PageInv
<1> DEFINE read == page.refresh[r]
           shown == [status |-> read.status, balance |-> read.balance, kind |-> kind]
           done == [NoRefresh EXCEPT !.stage = "shown"]
           refresh == [page.refresh EXCEPT ![r] = done]
           amount == IF read.status = "Active" THEN page.amount ELSE NoText
<1>2. /\ read.stage = "reading" /\ Null \notin {read.status, read.balance}
      /\ UNCHANGED ledger
    BY DEF ShowPolicy
<1>3. page' = [page EXCEPT !.shown = shown, !.refresh[r] = done, !.amount = amount]
    BY DEF ShowPolicy
<1>4. page.refresh \in [Refreshes -> Refresh] /\ read \in Refresh /\ page.amount \in Texts
    BY <1>1 DEF Pages
<1>5. shown \in Policy
    <2>1. read.status \in Statuses /\ read.balance \in Nat
        BY <1>2, <1>4 DEF Refresh
    <2>2. kind \in Kinds
        BY PageAssumption DEF Kinds
    <2> QED
        BY <2>1, <2>2 DEF Policy
<1>6. done \in Refresh /\ done.stage = "shown"
    BY PageRecords DEF Refresh
<1>7. amount \in Texts
    BY <1>4 DEF Texts
<1> HIDE DEF shown, done, amount
<1>8. refresh \in [Refreshes -> Refresh] /\ (r # "send" => refresh["send"] = page.refresh["send"])
    BY <1>4, <1>6
<1>9. /\ page'.shown = shown /\ page'.demo = page.demo /\ page'.op = page.op
      /\ page'.amount = amount /\ page'.handedOff = page.handedOff
      /\ page'.refresh = refresh
      /\ DOMAIN page' = DOMAIN page /\ page' = [f \in DOMAIN page |-> page'[f]]
    BY <1>1, <1>3 DEF Pages
<1>10. page' \in Pages
    <2> HIDE DEF refresh
    <2> QED
        BY <1>1, <1>5, <1>7, <1>8, <1>9 DEF Pages
<1>11. OpInv'
    <2>1. page'.refresh["send"].stage # "none" => page.refresh["send"].stage # "none"
        BY <1>2, <1>8, <1>9
    <2> QED
        BY <1>1, <1>2, <1>9, <2>1 DEF OpInv
<1> QED
    BY <1>2, <1>9, <1>10, <1>11 DEF PageInv

\* A refresh that is over, with or without the configuration of the trigger.
LEMMA RefreshOverInv ==
    ASSUME PageInv, NEW r \in Refreshes, NEW demo \in BOOLEAN, demo => ledger.trigger = "demo",
           page' = [RefreshOver(r) EXCEPT !.demo = demo], UNCHANGED ledger
    PROVE  PageInv'
<1>1. page \in Pages /\ ledger \in Ledgers /\ OpInv
    BY DEF PageInv
<1>2. CASE r = "send"
    <2> DEFINE e == Ended(page)
    <2>1. e \in Pages /\ e.op = Idle /\ e.refresh["send"] = NoRefresh
        BY <1>1, EndedPage
    <2>2. page' = [e EXCEPT !.demo = demo]
        BY <1>2 DEF RefreshOver
    <2> HIDE DEF e
    <2>3. /\ page' \in Pages /\ page'.op = Idle /\ page'.refresh["send"] = NoRefresh
          /\ page'.demo = demo
        BY <2>1, <2>2 DEF Pages
    <2> QED
        BY <2>3, EndedInv
<1>3. CASE r # "send"
    <2> DEFINE refresh == [page.refresh EXCEPT ![r] = NoRefresh]
    <2>1. page' = [[page EXCEPT !.refresh[r] = NoRefresh] EXCEPT !.demo = demo]
        BY <1>3 DEF RefreshOver
    <2>2. /\ page'.shown = page.shown /\ page'.demo = demo /\ page'.op = page.op
          /\ page'.amount = page.amount /\ page'.handedOff = page.handedOff
          /\ page'.refresh = refresh
          /\ DOMAIN page' = DOMAIN page /\ page' = [f \in DOMAIN page |-> page'[f]]
        BY <1>1, <2>1 DEF Pages
    <2>3. refresh \in [Refreshes -> Refresh] /\ refresh["send"] = page.refresh["send"]
        <3>1. page.refresh \in [Refreshes -> Refresh]
            BY <1>1 DEF Pages
        <3> QED
            BY <1>3, <3>1, PageRecords DEF Refreshes
    <2> HIDE DEF refresh
    <2>4. page' \in Pages
        BY <1>1, <2>2, <2>3 DEF Pages
    <2>5. OpInv'
        BY <1>1, <2>2, <2>3 DEF OpInv
    <2> QED
        BY <2>2, <2>4, <2>5 DEF PageInv
<1> QED
    BY <1>2, <1>3

\* The refreshes, whichever asked.
LEMMA RefreshInv ==
    ASSUME PageInv, NEW r \in Refreshes,
           \/ ReadStatus(r) \/ ReadBalance(r) \/ RefreshFails(r)
           \/ \E kind \in {TriggerKind, "unknown"} : ShowPolicy(r, kind)
           \/ \E demo \in {ledger.trigger = "demo", FALSE} : ReadConfig(r, demo)
    PROVE  PageInv'
<1>1. page \in Pages /\ page.demo \in BOOLEAN /\ (page.demo => ledger.trigger = "demo")
    BY DEF PageInv, Pages
<1>2. CASE RefreshFails(r)
    <2>1. page' = RefreshOver(r) /\ UNCHANGED ledger
        BY <1>2 DEF RefreshFails
    <2>2. RefreshOver(r) = [RefreshOver(r) EXCEPT !.demo = page.demo]
        <3> DEFINE e == RefreshOver(r)
        <3>1. e.demo = page.demo /\ e = [f \in DOMAIN e |-> e[f]]
            <4>1. CASE r = "send"
                <5>1. e = Ended(page) /\ Ended(page) \in Pages /\ Ended(page).demo = page.demo
                    BY <1>1, <4>1, EndedPage DEF RefreshOver
                <5> HIDE DEF e
                <5> QED
                    BY <5>1 DEF Pages
            <4>2. CASE r # "send"
                BY <1>1, <4>2 DEF RefreshOver, Pages
            <4> QED
                BY <4>1, <4>2
        <3> HIDE DEF e
        <3>2. e = [e EXCEPT !.demo = page.demo]
            BY <3>1
        <3> QED
            BY <3>2 DEF e
    <2> QED
        BY <1>1, <2>1, <2>2, RefreshOverInv
<1>3. ASSUME NEW demo \in {ledger.trigger = "demo", FALSE}, ReadConfig(r, demo)
      PROVE  PageInv'
    <2> DEFINE now == IF page.shown.kind = Manual THEN demo ELSE page.demo
    <2>1. UNCHANGED ledger /\ page' = [RefreshOver(r) EXCEPT !.demo =
                                          IF page.shown.kind = Manual THEN demo ELSE @]
        BY <1>3 DEF ReadConfig
    <2>2. RefreshOver(r).demo = page.demo
        BY <1>1, EndedPage DEF RefreshOver, Pages
    <2>3. page' = [RefreshOver(r) EXCEPT !.demo = now]
        BY <2>1, <2>2
    <2>4. demo \in BOOLEAN /\ (demo => ledger.trigger = "demo")
        OBVIOUS
    <2>5. now \in BOOLEAN /\ (now => ledger.trigger = "demo")
        BY <1>1, <2>4
    <2> HIDE DEF now
    <2> QED
        BY <2>1, <2>3, <2>5, RefreshOverInv
<1> QED
    BY <1>2, <1>3, ReadInv, ShowPolicyInv

\* The field, and the buttons: a page that is not busy begins an operation.
LEMMA FormInv ==
    ASSUME PageInv,
           \/ \E text \in Texts : TypeAmount(text)
           \/ \E label \in Labels, account \in Accounts, onCoston2 \in BOOLEAN :
                  Press(label, account, onCoston2)
    PROVE  PageInv'
<1>1. page \in Pages /\ ledger \in Ledgers /\ OpInv
    BY DEF PageInv
<1>2. ASSUME NEW text \in Texts, TypeAmount(text)
      PROVE  PageInv'
    <2>1. UNCHANGED ledger /\ page' = [page EXCEPT !.amount = text]
        BY <1>2 DEF TypeAmount
    <2>2. page' \in Pages
        BY <1>1, <2>1 DEF Pages
    <2>3. page'.op = page.op /\ page'.refresh = page.refresh /\ page'.demo = page.demo
        BY <1>1, <2>1 DEF Pages
    <2>4. OpInv'
        BY <1>1, <2>1, <2>3 DEF OpInv
    <2> QED
        BY <2>1, <2>2, <2>3, <2>4 DEF PageInv
<1>3. ASSUME NEW label \in Labels, NEW account \in Accounts, NEW onCoston2 \in BOOLEAN,
             Press(label, account, onCoston2)
      PROVE  PageInv'
    <2> DEFINE stage == IF label = "deposit" THEN "allowance" ELSE "prompt"
               amount == IF label \in {"deposit", "withdraw"} THEN Parsed ELSE 0
               op == [Idle EXCEPT !.label = label, !.account = account, !.stage = stage,
                                  !.amount = amount]
    <2>1. UNCHANGED ledger /\ page' = [page EXCEPT !.op = op] /\ Offered(label, onCoston2)
        BY <1>3 DEF Press
    <2>2. page.op = Idle /\ (label \in {"deposit", "withdraw"} => Parsed \notin {Null, 0})
        BY <2>1 DEF Offered, WithdrawOffered, Usable
    <2>3. amount \in Nat
        <3>1. Parsed = Null \/ Parsed \in Typed
            BY <1>1 DEF Parsed, ParseAmount, Pages, Texts
        <3> QED
            BY <2>2, <3>1, AmountAssumption
    <2>4. stage \in {"allowance", "prompt"}
        OBVIOUS
    <2> HIDE DEF amount, stage
    <2>5. op \in Ops /\ op.stage = stage /\ op.receipt = 0 /\ op.asOf = MaxHeight
        <3>1. op = [Idle EXCEPT !.label = label, !.account = account, !.stage = stage,
                                !.amount = amount]
            OBVIOUS
        <3> HIDE DEF op
        <3>2. op = [label |-> label, stage |-> stage, account |-> account, amount |-> amount,
                    receipt |-> 0, asOf |-> MaxHeight]
            BY <3>1 DEF Idle
        <3>3. 0 \in 0..MaxHeight /\ MaxHeight \in 0..MaxHeight
            BY PageAssumption
        <3> QED
            BY <2>3, <2>4, <3>2, <3>3 DEF Ops
    <2>6. page.refresh["send"].stage = "none"
        BY <1>1, <2>2, PageRecords DEF OpInv
    <2> HIDE DEF op
    <2>7. /\ page' \in Pages /\ page'.op = op /\ page'.refresh = page.refresh
          /\ page'.demo = page.demo
        BY <1>1, <2>1, <2>5 DEF Pages
    <2>8. OpInv'
        BY <2>4, <2>5, <2>6, <2>7, PageAssumption DEF OpInv
    <2> QED
        BY <2>1, <2>7, <2>8 DEF PageInv
<1> QED
    BY <1>2, <1>3

\* A step of the operation up to its transaction.
LEMMA StageInv ==
    ASSUME PageInv, NEW stage \in {"approve", "approving", "prompt", "sent"},
           page.op # Idle, page.op.stage # "refresh", Stage(stage),
           ledger' \in Ledgers, ledger'.trigger = ledger.trigger
    PROVE  PageInv'
<1>1. page \in Pages /\ ledger \in Ledgers /\ OpInv
    BY DEF PageInv
<1> DEFINE op == [page.op EXCEPT !.stage = stage]
<1>2. page.op \in Ops
    BY <1>1 DEF Pages
<1>3. /\ op \in Ops /\ op.stage = stage /\ op.receipt = page.op.receipt
      /\ op.asOf = page.op.asOf
    BY <1>2 DEF Ops
<1>4. page' = [page EXCEPT !.op.stage = stage]
    BY DEF Stage
<1>5. /\ page'.op = op /\ page'.refresh = page.refresh /\ page'.demo = page.demo
      /\ page'.shown = page.shown /\ page'.amount = page.amount
      /\ page'.handedOff = page.handedOff
      /\ DOMAIN page' = DOMAIN page /\ page' = [f \in DOMAIN page |-> page'[f]]
    BY <1>1, <1>4 DEF Pages
<1> HIDE DEF op
<1>6. page' \in Pages
    BY <1>1, <1>3, <1>5 DEF Pages
<1>7. page.refresh["send"].stage = "none"
    BY <1>1 DEF OpInv
<1>8. OpInv'
    BY <1>1, <1>3, <1>5, <1>7 DEF OpInv
<1> QED
    BY <1>5, <1>6, <1>8 DEF PageInv

\* A receipt is of the block that the transaction is in.
LEMMA OutcomeInv ==
    ASSUME PageInv, NEW stage \in {"mined", "reverted"}, page.op.stage = "sent",
           Outcome(stage), LedgerStep
    PROVE  PageInv'
<1>1. page \in Pages /\ ledger \in Ledgers /\ OpInv
    BY DEF PageInv
<1> DEFINE op == [page.op EXCEPT !.stage = stage, !.receipt = ledger.height + 1]
<1>2. page.op \in Ops
    BY <1>1, PageRecords DEF Pages
<1>3. /\ ledger.height \in Nat /\ ledger.height + 1 \in 0..MaxHeight
      /\ ledger'.height = ledger.height + 1
    BY <1>1 DEF LedgerStep, Ledgers
<1>4. /\ op \in Ops /\ op.stage = stage /\ op.receipt = ledger.height + 1
      /\ op.asOf = page.op.asOf
    BY <1>2, <1>3 DEF Ops
<1>5. page' = [page EXCEPT !.op.stage = stage, !.op.receipt = ledger.height + 1]
    BY DEF Outcome
<1>6. /\ page'.op = op /\ page'.refresh = page.refresh /\ page'.demo = page.demo
      /\ page'.shown = page.shown /\ page'.amount = page.amount
      /\ page'.handedOff = page.handedOff
      /\ DOMAIN page' = DOMAIN page /\ page' = [f \in DOMAIN page |-> page'[f]]
    BY <1>1, <1>5 DEF Pages
<1> HIDE DEF op
<1>7. page' \in Pages
    BY <1>1, <1>4, <1>6 DEF Pages
<1>8. page.refresh["send"].stage = "none" /\ page.op.asOf = MaxHeight
    BY <1>1 DEF OpInv
<1>9. OpInv'
    BY <1>3, <1>4, <1>6, <1>8, PageAssumption DEF OpInv
<1> QED
    BY <1>6, <1>7, <1>9 DEF PageInv, LedgerStep

\* The entry is saved when the receipt of the hand-off is there.
LEMMA HandoffSavedInv ==
    ASSUME PageInv, HandoffSaved
    PROVE  PageInv'
<1>1. page \in Pages /\ ledger \in Ledgers /\ OpInv
    BY DEF PageInv
<1> DEFINE op == [page.op EXCEPT !.stage = "saved"]
<1>2. /\ page.op.stage = "mined" /\ UNCHANGED ledger
      /\ page' = [page EXCEPT !.op.stage = "saved", !.handedOff = TRUE]
    BY DEF HandoffSaved
<1>3. page.op \in Ops /\ page.op.receipt \in 1..ledger.height
    BY <1>1, <1>2, PageRecords DEF Pages, OpInv
<1>4. /\ op \in Ops /\ op.stage = "saved" /\ op.receipt = page.op.receipt
      /\ op.asOf = page.op.asOf
    BY <1>3 DEF Ops
<1>5. /\ page'.op = op /\ page'.refresh = page.refresh /\ page'.demo = page.demo
      /\ page'.shown = page.shown /\ page'.amount = page.amount
      /\ page'.handedOff = TRUE
      /\ DOMAIN page' = DOMAIN page /\ page' = [f \in DOMAIN page |-> page'[f]]
    BY <1>1, <1>2 DEF Pages
<1> HIDE DEF op
<1>6. page' \in Pages
    BY <1>1, <1>4, <1>5 DEF Pages
<1>7. OpInv'
    BY <1>1, <1>2, <1>3, <1>4, <1>5 DEF OpInv
<1> QED
    BY <1>2, <1>5, <1>6, <1>7 DEF PageInv

\* The refresh begins when the receipt is there.
LEMMA ConfirmedInv ==
    ASSUME PageInv, Confirmed
    PROVE  PageInv'
<1>1. page \in Pages /\ ledger \in Ledgers /\ OpInv
    BY DEF PageInv
<1> DEFINE op == [page.op EXCEPT !.stage = "refresh"]
           refresh == [page.refresh EXCEPT !["send"] = Reading]
<1>2. page.op.stage \in {"mined", "reverted", "saved"} /\ UNCHANGED ledger
    BY DEF Confirmed, RefreshAfterSend
<1>3. page.op \in Ops /\ page.op.receipt \in 1..ledger.height /\ page.op.asOf >= page.op.receipt
    BY <1>1, <1>2, PageRecords DEF Pages, OpInv
<1>4. /\ op \in Ops /\ op.stage = "refresh" /\ op.receipt = page.op.receipt
      /\ op.asOf = page.op.asOf
    BY <1>3 DEF Ops
<1>5. refresh \in [Refreshes -> Refresh]
    BY <1>1, PageRecords DEF Pages
<1>6. page' = [page EXCEPT !.op.stage = "refresh", !.refresh["send"] = Reading]
    BY DEF Confirmed, RefreshAfterSend
<1>7. /\ page'.op = op /\ page'.refresh = refresh /\ page'.demo = page.demo
      /\ page'.shown = page.shown /\ page'.amount = page.amount
      /\ page'.handedOff = page.handedOff
      /\ DOMAIN page' = DOMAIN page /\ page' = [f \in DOMAIN page |-> page'[f]]
    BY <1>1, <1>6 DEF Pages
<1> HIDE DEF op, refresh
<1>8. page' \in Pages
    BY <1>1, <1>4, <1>5, <1>7 DEF Pages
<1>9. OpInv'
    BY <1>2, <1>3, <1>4, <1>7 DEF OpInv
<1> QED
    BY <1>2, <1>7, <1>8, <1>9 DEF PageInv

\* An operation, from the allowance to its end.
LEMMA SendInv ==
    ASSUME PageInv,
           \/ ReadAllowance \/ Sign \/ ApproveMined \/ Mine \/ HandoffSaved \/ Confirmed
           \/ SendFails
    PROVE  PageInv'
<1>1. page \in Pages /\ ledger \in Ledgers
    BY DEF PageInv
<1>2. page.op.stage \in {"allowance", "approve", "approving", "prompt", "sent"} => page.op # Idle
    BY PageRecords
<1>3. CASE ReadAllowance
    <2>1. /\ page.op.stage = "allowance" /\ UNCHANGED ledger
          /\ Stage("approve") \/ Stage("prompt")
        BY <1>3 DEF ReadAllowance
    <2> QED
        BY <1>1, <1>2, <2>1, StageInv
<1>4. CASE Sign
    <2>1. /\ page.op.stage \in {"approve", "prompt"} /\ UNCHANGED ledger
          /\ Stage("approving") \/ Stage("sent")
        BY <1>4 DEF Sign
    <2> QED
        BY <1>1, <1>2, <2>1, StageInv
<1>5. CASE ApproveMined
    <2>1. page.op.stage = "approving" /\ ledger.height < MaxHeight /\ Stage("prompt")
        BY <1>5 DEF ApproveMined
    <2>2. page.op \in Ops
        BY <1>1, <1>2, <2>1 DEF Pages
    <2>3. page.op.account \in Accounts /\ page.op.amount \in Nat
        BY <2>2 DEF Ops
    <2>4. LedgerStep
        BY <1>1, <1>5, <2>1, <2>3, ExecutesStep, RevertStep DEF ApproveMined
    <2> QED
        BY <1>2, <2>1, <2>4, StageInv DEF LedgerStep
<1>6. CASE Mine
    <2>1. page.op.stage = "sent" /\ ledger.height < MaxHeight
        BY <1>6 DEF Mine
    <2>2. page.op \in Ops
        BY <1>1, <1>2, <2>1 DEF Pages
    <2>3. page.op.account \in Accounts /\ page.op.amount \in Nat
        BY <2>2 DEF Ops
    <2>4. CASE /\ Works(page.op.label, page.op.account, page.op.amount)
               /\ Executes(page.op.label, page.op.account, page.op.amount)
               /\ Outcome("mined")
        <3>1. /\ page.op.label = "deposit" =>
                     page.op.amount <= ledger.allowance[page.op.account]
              /\ page.op.label = "withdraw" => page.op.amount <= ledger.balance
            BY <2>4 DEF Works
        <3>2. LedgerStep
            BY <1>1, <2>1, <2>3, <2>4, <3>1, ExecutesStep
        <3> QED
            BY <2>1, <2>4, <3>2, OutcomeInv
    <2>5. CASE Block(ledger) /\ Outcome("reverted")
        BY <1>1, <2>1, <2>5, RevertStep, OutcomeInv
    <2> QED
        BY <1>6, <2>4, <2>5 DEF Mine
<1>7. CASE SendFails
    <2>1. page' = Ended(page) /\ UNCHANGED ledger
        BY <1>7 DEF SendFails
    <2>2. page'.demo => ledger.trigger = "demo"
        BY <1>1, <2>1, EndedPage DEF PageInv
    <2> QED
        BY <1>1, <2>1, <2>2, EndedPage, EndedInv
<1> QED
    BY <1>3, <1>4, <1>5, <1>6, <1>7, HandoffSavedInv, ConfirmedInv

\* One part of the page at a time; the other screens leave it alone.
LEMMA PageInvNext ==
    ASSUME PageInv, [Next]_webVars
    PROVE  PageInv'
<1>1. page \in Pages /\ ledger \in Ledgers /\ OpInv
    BY DEF PageInv
<1>2. CASE UNCHANGED policyVars
    BY <1>2 DEF policyVars, PageInv, OpInv
<1>3. CASE Others
    <2>1. LedgerStep /\ page' = page
        BY <1>1, <1>3, OthersStep
    <2>2. OpInv'
        BY <1>1, <2>1 DEF OpInv, LedgerStep, Ledgers
    <2> QED
        BY <2>1, <2>2 DEF PageInv, LedgerStep
<1>4. CASE Remount
    <2>1. ledger' = ledger /\ page' = MountedPage(page.handedOff)
        BY <1>4 DEF Remount
    <2>2. page.handedOff \in BOOLEAN /\ ledger' \in Ledgers
        BY <1>1, <2>1 DEF Pages
    <2> QED
        BY <2>1, <2>2, MountedPageTyped, EndedInv
<1>5. CASE PageStep
    BY <1>3, <1>4, <1>5, RefreshInv, FormInv, SendInv DEF PageStep
<1> QED
    BY <1>2, <1>5 DEF Next, HookStep, Reload, ScreenStep, webVars, policyVars

\* On arrival nothing of the policy is shown, and nothing is asked of the chain but
\* the first reads.
LEMMA PageStart == Init => PageInv
<1> SUFFICES ASSUME Init
             PROVE  PageInv
    OBVIOUS
<1>1. ledger \in Ledgers
    BY PageAssumption DEF Init, Ledgers, Statuses
<1>2. /\ page \in Pages /\ page.op = Idle /\ ~page.demo /\ page.refresh["send"] = NoRefresh
    <2>1. FALSE \in BOOLEAN /\ page = MountedPage(FALSE)
        BY DEF Init
    <2> QED
        BY <2>1, MountedPageTyped, Zenon
<1>3. OpInv
    BY <1>2, PageRecords DEF OpInv
<1> QED
    BY <1>1, <1>2, <1>3 DEF PageInv

\* PageInv holds throughout.
LEMMA PageInvariant == Spec => []PageInv
BY PageStart, PageInvNext, PTL DEF Spec

\* The owner, shown the policy as it is, is offered nothing that the contract then
\* refuses: "Simulate inactivity" only where the trigger is in demo mode, and no
\* withdrawal of more than there is.
THEOREM OwnerIsOfferedWhatWorks == Spec => []OffersOnlyWhatWorks
<1>1. PageInv => OffersOnlyWhatWorks
    <2> SUFFICES ASSUME PageInv, page.shown # NotRead, page.shown.status = ledger.status,
                        page.shown.balance = ledger.balance,
                        NEW label \in {"simulate", "withdraw", "cancel"}, Offered(label, TRUE)
                 PROVE  Works(label, Owner, Parsed)
        BY DEF OffersOnlyWhatWorks
    <2>1. CASE label = "simulate"
        BY <2>1 DEF Offered, Works, PageInv
    <2>2. CASE label = "withdraw"
        BY <2>2 DEF Offered, WithdrawOffered, Shows, Works
    <2>3. CASE label = "cancel"
        BY <2>3 DEF Offered, Shows, Works
    <2> QED
        BY <2>1, <2>2, <2>3
<1> QED
    BY <1>1, PageInvariant, PTL

\* What is shown after a transaction of the page was read at its block or later.
THEOREM EverySendShowsItsEffect == Spec => SendShowsItsEffect
<1>1. PageInv =>
          (page.refresh["send"].stage = "reading" =>
               page.op.receipt # 0 /\ page.op.asOf >= page.op.receipt)
    <2> SUFFICES ASSUME PageInv, page.refresh["send"].stage = "reading"
                 PROVE  page.op.receipt # 0 /\ page.op.asOf >= page.op.receipt
        OBVIOUS
    <2>1. page.op.receipt \in 1..ledger.height /\ page.op.asOf >= page.op.receipt
        BY DEF PageInv, OpInv
    <2>2. ledger.height \in Nat
        BY PageRecords DEF PageInv, Ledgers
    <2> QED
        BY <2>1, <2>2
<1>2. PageInv /\ [Next]_webVars =>
          [page.refresh["send"].stage = "reading" /\ page'.refresh["send"].stage = "shown" =>
               page.op.receipt # 0 /\ page.op.asOf >= page.op.receipt]_policyVars
    BY <1>1
<1> QED
    BY <1>2, PageInvariant, PTL DEF Spec, SendShowsItsEffect

-----------------------------------------------------------------------------
(* Types                                                                   *)

\* The wallet announces two things only.
EventsInv == events \subseteq {"accountsChanged", "chainChanged"}

\* No step of the wallet announces anything else.
LEMMA EventsInvNext ==
    ASSUME EventsInv, [Next]_webVars
    PROVE  EventsInv'
<1>1. ASSUME NEW disabled \in BOOLEAN, WalletStep(disabled)
      PROVE  EventsInv'
    BY <1>1 DEF EventsInv, WalletStep, SelectAccount, SelectChain, AnswerAccounts, AnswerChain,
        AccountsChanged, Connect, SwitchToCoston2, RunStep, Connected, ConnectedChain, Switched,
        UnknownChain, AddedAndSwitched, Added, PutOnCoston2, SwitchAnswered, Refused
<1>2. CASE events' = {} \/ UNCHANGED events
    BY <1>2 DEF EventsInv
<1> QED
    BY <1>1, <1>2
    DEF Next, HookStep, On, Reload, ChainChanged, ScreenStep, Dismiss, walletVars, webVars

\* Type correctness of all three screens; in particular nothing is deposited or sent
\* that was not read as a number.
THEOREM PagesTyped == Spec => []TypeOK
<1> DEFINE Inv == WalletInv /\ DialogInv /\ EventsInv /\ PageInv /\ screen \in Screens
<1>1. Init => Inv
    <2> SUFFICES ASSUME Init
                 PROVE  WalletInv /\ DialogInv /\ EventsInv /\ screen \in Screens
        BY PageStart
    <2>1. WalletInv
        BY MountedTyped DEF Init, WalletInit, WalletInv, ChainIsTheWallets, Mounted
    <2>2. DialogInv
        BY OpenedTyped DEF Init, DialogInv, Opened
    <2> QED
        BY <2>1, <2>2 DEF Init, WalletInit, EventsInv
<1>2. Inv /\ [Next]_webVars => Inv'
    <2>1. [Next]_webVars => UNCHANGED screen
        BY DEF Next, HookStep, Reload, ScreenStep, webVars
    <2> QED
        BY <2>1, WalletInvNext, DialogInvNext, EventsInvNext, PageInvNext
<1>3. Inv => TypeOK
    <2> SUFFICES ASSUME Inv
                 PROVE  TypeOK
        OBVIOUS
    <2>1. WalletTypeOK
        BY DEF WalletInv, Hooks, EventsInv, WalletTypeOK
    <2>2. DialogTypeOK
        BY DEF DialogInv, Dialogs, DialogTypeOK
    <2>3. PageTypeOK
        BY DEF PageInv, Pages, Ledgers, Policy, Ops, Refresh, PageTypeOK
    <2> QED
        BY <2>1, <2>2, <2>3 DEF TypeOK
<1> HIDE DEF Inv
<1> QED
    BY <1>1, <1>2, <1>3, PTL DEF Spec
=============================================================================
