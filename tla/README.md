# Flare Studio: a TLA+ development

Flare Studio lets an owner lock tokens in a *confidential policy*: a vault
contract that knows only a commitment to the recipients and their shares. When
a trigger fires (the owner has fallen silent, a date has passed, a payment has
not arrived), anybody may arm the policy; a trusted machine (TEE) that was
handed the sealed share table then signs it, and anybody may execute the policy
with that signature, which pays the recipients.

This directory models the program whose source is under `src/`. TLC checks the
models on small instances; TLAPS proves for all values of the constants every
safety property that the passing runs check: of the vault contract, the FDC trigger, the
enclave, their composition, the studio, the deploy flow, the web pages and the
registration of machines. All paths below are relative to the repository; `page.tsx` is `src/apps/web/app/policies/[address]/page.tsx`.

1. [The system](#1-the-system): inventory of components
2. [Modules](#2-modules): what models what
3. [Runs](#3-runs): what is checked, with which bounds
4. [Fairness](#4-fairness)
5. [Proofs](#5-proofs)
6. [Where the code and its documentation disagree](#6-where-the-code-and-its-documentation-disagree)
7. [Abstractions and limits](#7-abstractions-and-limits)
8. [Plan](#8-plan)

## 1. The system

    browser (studio, policy page)          orchestrator (CLI)
      | draft, review, deploy,               | EVALUATE, poll     | execute
      | configure, approve,                  |                    |
      | deposit, STORE                       v                    v
      v                                 InstructionSender    ConfidentialPolicy
    PolicyFactory -> ConfidentialPolicy      | one random         | asks
      |                   ^   | arm asks     v machine            v
      |                   |   +-> trigger  TEE machines        TeeAttestorGate
      v                   |      (heartbeat, date, FDC)  --sign-->  |
    vault in localStorage +--- clone                        registry (external)

### Components that are modelled

| component | state | operations | what is hard | what makes it correct |
|---|---|---|---|---|
| **policy vault** `packages/contracts/src/ConfidentialPolicy.sol` | status, owner, commitment, triggeredAt, the clone's token balance | `initialize deposit withdraw cancel arm execute` | the asset is any contract and may call back out of the transfer loop; integer division; signatures of one clone shown to another; order of owner and permissionless calls | pays the committed split and nothing else, strands nothing, is paid out at most once, is locked once armed |
| **policy factory** `PolicyFactory.sol` | list of clones | `deploy` (clone and initialise in one transaction) | — | no clone is ever seen uninitialised |
| **attestor gate** `TeeAttestorGate.sol` | none: asks the TEE registry when it is called | `isAttested` | a machine may leave PRODUCTION between signing and execution | only machines in PRODUCTION at the time of `execute` count |
| **heartbeat trigger** `triggers/ManualHeartbeatTrigger.sol` | per policy: owner, interval, deadline, demo mode | `configure heartbeat simulateInactivity check` | a check-in races the call of `arm`; the deadline itself | fires only after a whole silent interval (or on the owner's request in demo mode), and then keeps firing |
| **timestamp trigger** `triggers/TimestampTrigger.sol` | per policy: a date | `configure check` | — | fires after the date only |
| **FDC nonexistence trigger** `triggers/FdcNonexistenceTrigger.sol` | per policy: owner, chain, destination, reference, minimum amount, interval, start | `configure check currentDeadline` | two chains whose clocks are not synchronised; many independent checks on a proof; boundary arithmetic | fires only on a silent interval of this policy's own schedule, always can after one, and for good |
| **instruction sender** `apps/extension/contracts/InstructionSender.sol` | the extension id | `setExtensionId sendStorePolicy sendEvaluatePolicy` | the registry picks one random machine | — |
| **enclave extension** `apps/extension/go/internal/extension` | per machine, in memory: policies, evaluation count, last policy | `processStore processEvaluate stateHandler` | parallel handlers and a lock that is not held while the node signs; duplicated, late or lost instructions; restarts | signs only what it was handed for that very policy, and only what `execute` would accept; an answer is consistent in itself |
| **orchestrator** `apps/orchestrator/src` | none that survives; one run polls for one result | `evaluatePolicy pollActionResult executePolicy` | the poll gives up after 180 s while the instruction is under way; what was read is stale by the time it is used; the wrong machine is asked | a policy that can be executed is executed if the orchestrator is run often enough |
| **deploy flow and vault** `apps/web/lib/deploy.ts`, `vault.ts`, `components/deploy-dialog.tsx` | the flow's step; entries in localStorage | `deployPolicy` (seal, deploy, configure, save, hand off, approve, deposit), retry | every `await` may fail or be the last; an abandoned transaction is mined all the same; there is one copy of the salt | what the vault holds opens what is on chain, and money follows the vault |
| **policy page** `page.tsx` | what it has read of the policy and when, the one transaction it waits for, the amount typed | check in, simulate, send to enclave, deposit, withdraw, cancel; `refresh` after each | reads sent together are answered at different blocks; refreshes overlap; runs next to the dialog and to everybody else on the chain | records a hand-off only if it happened, offers only what works, shows what its own transaction did |
| **policy compiler and schema** `packages/policy/src/schema.ts`, `compile.ts`, `commitment.ts`; **templates and assets** | none | `policyIRSchema`, `compile`, `resolveDistributions`, the templates | three implementations of one split (browser, enclave, contract), two languages for one table | what compiles is what the enclave accepts and the contract pays out |
| **studio builder** `apps/web/app/studio`, `components/policy-form.tsx`, **recipients editor**, **trigger editor**, **review drawer** | a draft: template, recipients, an edited trigger or none; what is reviewed or being deployed | every edit, moving between the steps, review, hand-over to the deploy dialog | the draft is derived anew at every render, partly from the clock; the kind of a trigger changes under its fields | what was read is what goes to the deploy dialog, although the draft can be edited behind every overlay; edits stick; nothing is entered that cannot be mended |
| **wallet hook** `apps/web/lib/wallet.ts`, `components/wallet-button.tsx` | account and chain, requests under way | silent reconnect, `connect`, `switchToCoston2`, events | the wallet changes in a window of its own; answers are later than questions; the buttons start runs that overlap; a wallet may add a chain without going there | no page goes on under another chain unheard |
| **policy list** `apps/web/app/policies/page.tsx`, `lib/policies.ts` | the list shown, loads under way | one load for every account | loads overlap; the RPC refuses logs, or contract reads | what this browser deployed is listed, as far as its contracts can be read |
| **deposit dialog** `components/deploy-dialog.tsx` (around the run) | balance and enclave status last answered, amount, phase | effects that follow the account, amount, "Max", deploy | answers for an account that is connected no more | deposits within the means of the account that pays |
| **node registration tool** `apps/extension/tools`: `cmd/register-tee`, `pkg/fccutils/registration.go`, `tee_calls.go`, `policy_consistency.go` | a state file; per run: the steps of its command, what was loaded, attestation and check it got | `RegisterNode`: steps r, R, a, p, each skipped or done, saved; `--resume` | a run may end between any two lines while its transaction is under way; saving may fail; the machine may get another key between two runs | what the file says is on chain, and whoever gets to the end has registered its machine |

Interactions: the browser and the orchestrator call the contracts by
transactions; `arm` calls the policy's trigger and conditions; `execute` calls
the gate, which calls the registry, and then the asset, which may call anything;
the instruction sender emits instructions that the (external) relay brings to a
machine's extension, which calls its own node for decryption and signatures; the
answer is fetched from a proxy by polling. The registration tool works on the
registry that the gate asks; none of the other models depends on it, because they let
machines enter and leave production at any time.

### Components that are not modelled

`PROJECT.json` lists them with their sources and reasons. *Sealing and keys*
(`ecies.ts`, `tee-info.ts`) and *payment references* (`chain-payments.ts`) are
cryptography and byte formats: the models say "can be opened by the machine it was sealed
for" and "is for this target". The *shell and primitives* of the web app are
layout, its *contract interfaces* (`abi.ts`) tables of signatures, the *enclave
info route* forwards one request (that it fails is an outcome in
`DepositDialog` and `DeployFlow`). The *orchestrator scripts* are linear programs
over operations that `PolicySystem` has, `fdc.ts` holds constants. The
*extension's scaffold servers* in other languages and the *deployment tools*
are not part of the running system.
*Conditions* are an interface that nothing implements: `Arm` in
`ConfidentialPolicy` may happen at any time, whatever they say. The Flare
*registries, data connector, TEE node and proxy* are external and appear as
environments.

## 2. Modules

| module | models | extends / instantiates |
|---|---|---|
| `ShareTables` | the arithmetic of share tables, used by browser, enclave and contract | |
| `Escrow` | abstract specification: what a vault promises | |
| `ConfidentialPolicy` | vault, factory, gate, asset, signatures | `ShareTables`, `Escrow` (refinement) |
| `ConfidentialPolicyProofs` | theorems about it | `ConfidentialPolicy` |
| `Triggers` | heartbeat and timestamp trigger | |
| `FdcNonexistenceTrigger` | FDC trigger, source chain, attestations | |
| `FdcTriggerProofs` | theorems about it | `FdcNonexistenceTrigger` |
| `Enclave` | instruction sender, extension, relay | `ShareTables` |
| `EnclaveProofs` | theorems about it | `Enclave` |
| `PolicySystem` | all of the above joined, with hand-off and orchestrator | `ConfidentialPolicy`, `Triggers`, `Enclave` |
| `PolicySystemProofs` | theorems about it | `PolicySystem`, `ConfidentialPolicyProofs`, `EnclaveProofs` (instance) |
| `PolicyDraft` | drafts, their schema, templates, durations, `compile` | `ShareTables` |
| `Studio` | gallery, builder, editors, review | `PolicyDraft` |
| `StudioProofs` | theorems about it | `Studio` |
| `DeployFlow` | the run of the deploy dialog, vault, the owner's transactions | |
| `DeployFlowProofs` | theorems about it | `DeployFlow` |
| `TypedAmounts` | accounts and amounts as typed | |
| `Wallet` | the wallet and `useWallet` | `TypedAmounts` |
| `PolicyList` | the list of policies | `Wallet` |
| `DepositDialog` | the deploy dialog around its run | `Wallet` |
| `PolicyPage` | the page of one policy | `TypedAmounts` |
| `WebPages` | the three screens, one of them in front | `PolicyList`, `DepositDialog`, `PolicyPage` |
| `WebPagesProofs` | theorems about it | `WebPages` |
| `NodeRegistration` | register-tee, its state file, the registry | |
| `NodeRegistrationProofs` | theorems about it | `NodeRegistration` |
| `MC*` | constants of the instances | |

**ConfidentialPolicy.** Each clone is an element of `Policies`. `bal` is the
asset's `balanceOf` for clones and accounts together, so that deposits,
withdrawals and payments between policies and people conserve tokens by
construction of `Move` and a payment can fail only for want of tokens. Every
function is one action, except `execute`: `Execute` performs all checks and the
effects before the loop (`status = Executed` first, as in the source), and `Pay`
is one turn of the transfer loop. Between two turns, any call to any policy may
happen: that is what a malicious asset can do. Such calls nest, so `calls` is a
stack and only the innermost loop advances; the clock, the registry and the
machines stand still until it is empty, because a transaction is atomic for
them. `payout` holds the loop's local variables and stays as a record. `Arm` is
permitted whenever the policy is Active: the trigger is an oracle in this
module. Machines sign anything: the vault's properties must not depend on honest
enclaves.

**Escrow** has three variables per vault (phase, money held, money owed) and
says that money leaves an open vault to its owner, a locked vault not at all,
and that a locked vault is released once and as a whole. `KeepsThePromise` is
the refinement; under its mapping `Arm` is `Lock`, `Execute` is `Release`, `Pay`
is `Disburse`, a deposit or a direct transfer is `Receive`.

**Triggers** has an action for each function of the two clock-driven triggers.
**FdcNonexistenceTrigger** has two clocks and the set of payments on the source
chain. A proof is not a step but a quantified variable: `Check(p, pr)` is the
function `check`, `Verified(pr)` is what the data connector is willing to
attest, which is the truth about `payments`. The properties quantify over *all*
proofs in *every* state, so nothing depends on which proof somebody thought of.

**Enclave.** An instruction is for one machine. `Store` is `processStore` in one step (it takes the lock once);
`processEvaluate` is `BeginEvaluate` (checks, copy under the read lock) and
`FinishEvaluate` or `SigningFails` (after the node's answer, second lock), or
`RefuseEvaluate`. `evaluating` is the set of handlers between those sections.
Delivery: an instruction in `sent` can be handled any number of times and need
not ever be. `Restart` empties one machine.

**PolicySystem** `EXTENDS ConfidentialPolicy` and `INSTANCE`s `Triggers` and
`Enclave` over shared variables (`now`, `Policies`, the openings). `ArmPolicy` is
`Arm` guarded by the configured trigger; `FinishEvaluate` is the enclave's
action joined with `Sign`, so that here only enclaves sign. An orchestrator is
`Idle`, `Polling` for one instruction, or `Holding` an answer: `EvaluatePolicy`
reads `triggeredAt` and sends, `Poll` and `PollTimesOut` end the wait,
`ExecutePolicy` and `ExecutionReverts` use what was found. `DeployPolicy` lets
the browser seal the table for a machine of its choice or not at all, and
`SendToEnclave` sends it to whichever machine the registry picks, which need not
be the one it was sealed for.

**DeployFlow** follows `deployPolicy` line by line: each step is *confirm the
prompt* (`Confirm`, or `Reject`), *wait for the receipt* (or `WaitThrows`) and
one action for what the code does with it (`Deployed`, `Configured`,
`HandedOff`, `Approved`, `Deposited`, or `Reverted`). `pending` is the queue of
the owner's transactions in nonce order. When the flow gives up, `Abandoned`
detaches its transaction, which stays in the queue and is mined later. The policy
page runs at the same time, in a second tab of the same browser.

**PolicyDraft** is the data of the builder and the pure functions on it: the
three kinds of triggers with their fields, `switchTriggerKind`, the two
functions that write a duration and the one that reads it, the schema as
`ValidPolicy`, `compile` and `resolveDistributions`. Addresses are
texts with a `Lower` case; an address may be well-formed for the schema and
still be refused by the library that encodes it (a wrong checksum).

**Studio** is the screen. As in the code, the draft is *derived*: `ir` combines
the recipients with the edited trigger, or, as long as none was edited, with what
the template fills in on the day it was last asked (`seededOn`). The editors
are `EditRecipients` and `EditTrigger`, each guarded by the step whose editor is
mounted; `Review` compiles, `Deploy` hands the compiled policy to the dialog,
behind which the draft stays. Review and dialog are laid over the form and do not
close it off: every edit, and the review button, may happen behind them (`Covered`).
Days pass at any time.

**Wallet** separates the wallet (`provider`), what it has announced (`events`)
and what the hook believes (`hook`). Each request of the hook is two steps, the
question and the answer, and the wallet may change between them and once more
before the page hears of it. `hook.runs` holds the runs of `connect` and
`switchToCoston2` under way; a run that switches asks the wallet, which may not know
Coston2 (`UnknownChain`) and then adds it, going there (`AddedAndSwitched`) or not
(`Added`). **PolicyList** and **DepositDialog** run their
effects in the step in which the hook changes (`LoadEffect`, `DialogEffects`):
the list's loads accumulate, the dialog's are dropped by the effects' clean-up. At
every load the RPC may refuse the logs and the reads of any contracts (`refused`).
**PolicyPage** has its own little chain (`ledger`) that others move too. `send` is
allowance, approval, prompt, transaction, receipt and refresh, one action for each (the
hand-off saves its entry between receipt and refresh, `HandoffSaved`); a
`refresh` reads status and balance at blocks of their own and there may be three
of them at a time. Of the wallet it takes an account and a chain at each press,
any of them. **WebPages** puts one of the three screens in front.

**NodeRegistration** has one process at a time, `run`, whose field `at` is the step of
its command. A step is passed over (`Skip`), or sends a transaction (`PreRegister`,
`RequestAttestation`, `RequestCheck`, `Promote`) and goes on when its receipt is there
(`Completed`, which saves, and `Promoted`). `Stop` is every error, every time-out and
a crash: the process is gone, the transaction stays in `pending` and is mined, or
reverts, at any later time, also between those of the next run. `Save` may fail, which is only a
warning, or leave half a file, on which `--resume` gives up. `Start` keeps
the file with `--resume`, or when it could not be removed. The chain (`Mine`), the proxy
and the machine are external.

The `map` of `PROJECT.json` gives the lines of every definition. An operator
whose comment starts with `mutant:` is not part of the specification: it is the
definition after it with a plausible bug, used to see that a property notices.

## 3. Runs

"Pass" runs finish exhaustively with no error; a "violation" run exhibits a
behaviour of the code that contradicts a sentence of its documentation
(section 6).

| run | module | properties | question |
|---|---|---|---|
| `policy_core` | `ConfidentialPolicy` | `TypeOK CommittedSplit OnlyStrayTokensStranded OneSignatureOnePolicy LockedOnceArmed KeepsThePromise` | do the contracts keep their promise whatever is called when, and whatever machines sign? |
| `fdc_trigger` | `FdcNonexistenceTrigger` | `TypeOK FiresOnlyOnSilence SilenceIsProvable DeadlineNotYetProvable FiresForGood` | are the nine checks on a proof enough, and not too many, and does the deadline shown agree with them? |
| `fdc_minimum` | same | `MinimumPaymentKeepsAlive` (violated) | does the minimum payment keep a policy alive? |
| `enclave` | `Enclave` | `TypeOK AnswerMatchesSignature SignedWasStored SignsOnlyExecutable StateReportConsistent` | what do machines sign when instructions come late, twice, or in the wrong order? |
| `policy_arming` | `PolicySystem` | `ArmedOnlyAfterSilence SilenceArms` | who is armed, and when? |
| `policy_release` | `PolicySystem` | `NeverStuck` | does an armed policy get paid out? |
| `policy_handoff` | `PolicySystem` | `HandoffReachesEnclave` (violated) | does "Holds this policy" mean so? |
| `deploy_flow` | `DeployFlow` | `TypeOK EntryOpensCommitment FundsOnlyTheRecoverable HandoffWasMined DoneMeansFunded` | can a failed, retried or abandoned deployment lose money? |
| `deploy_retry` | `DeployFlow` | `NothingRepeated` (violated) | does a retry repeat anything? |
| `studio` | `Studio` | `TypeOK DeploysWhatWasRead EnclaveAccepts PaysTheWholeBalance StatesTheInterval EditsStick` | is what is deployed what was read, and will enclave and contract accept it? |
| `web_pages` | `WebPages` | `TypeOK ChainIsTheWallets VaultListedAsRead DepositWithinMeans OffersOnlyWhatWorks SendShowsItsEffect` | do the screens stay true while wallet, chain and answers overtake each other? |
| `node_registration` | `NodeRegistration` | `TypeOK FileIsTrue FreshRunsHaveAChallenge RegistersItsMachine` | does a registration that was cut off, resumed or repeated say and do the right thing? |

### Bounds

* `policy_core`: two clones (the least for signatures across clones and for
  calls out of one loop into another), one owner with 3 units, two recipients, a
  table of three entries that leaves remainders on odd balances and names one
  recipient twice, and a table one basis point short. `MaxTime` 2, `MaxAmount` 2,
  two signatures. Symmetry on the clones. The proofs need none of these bounds.
* `fdc_trigger`, `fdc_minimum`: `MaxTime` 4 on each chain, intervals 1 and 2,
  starts 0 and 1: two to four intervals, windows on either side of each boundary;
  two payments; amounts 1 and 2 on either side of the minimum.
* `enclave`: two machines of which one has no `CHAIN_ID`, two
  policies and the zero address, all five kinds of share tables that
  `validateShares` tells apart, and something that is not a policy; three
  different instructions, each sent and delivered any number of times. Three is enough for two
  STOREs of the same policy around one EVALUATE.
* `policy_arming`: one policy, no machines (they play no part in arming), an
  owner and a stranger, `MaxTime` 6 and intervals 1 and 2: several deadlines.
  `configure` and check-ins are guarded so that the deadline still lies before
  `MaxTime`; otherwise the end of time would be the reason a trigger never fires.
* `policy_release`, `policy_handoff`: one policy, two machines
  of which one was sealed for, one orchestrator, `MaxTime` 3, two signatures, one
  unit of money. `Intervals` is empty, so the policy is armed by its date: how it
  is armed makes no difference afterwards. `MaxEarlyTimeouts` 1: round trips take
  30 to 90 s (`orchestrator/src/instructions.ts`) and the poll waits 180 s, so
  polls that give up too early are the exception; without this bound the
  environment could always make them. The bounds on
  instructions and signatures are never reached (one machine can open the
  ciphertext and a policy is armed once, so there is one signature).
* `deploy_flow`: two drafts, two clones, deposits of 0 or 1 out of 1 unit, two
  transactions under way; symmetry on drafts and clones. One unit makes dialog and
  page compete for the same allowance and money. `deploy_retry` has two units.
* `studio`: four edits between opening a template and leaving it, at most three
  recipients, two days. An edit behind an overlay must be one of the first two
  (`MaxEditsBehind`): that is enough to open the review on a draft and change it while it
  is read, or while an earlier version of it is being deployed. Four is enough to change the kind of a trigger, edit a
  field, change it back, and disturb the shares in between; three recipients make "Split
  evenly" leave a remainder. The texts typed include the same address in another case, one with a
  wrong checksum, the zero address and the empty text; shares of 0 and of more
  than the whole; durations in every unit, one of them not a whole number of months.
  The theorems of `StudioProofs` need none of these bounds.
* `web_pages`: two accounts, of which one has money; one change of account or chain by
  the user on their own (`MaxChanges`), next to those that a granted `connect` or switch makes,
  which is enough to undo either while an answer is on its way; two runs of `connect` and
  `switchToCoston2` at a time (`MaxRuns`), the least for one to end while another is under
  way; a wallet that knows Coston2 or does not; a vault
  of one policy and one logged for each account, so that logs, vault and refused reads
  come in every combination; the amount 1, which one account can pay and the other
  cannot, the empty text and what is no number. The policy holds 1 and at most three
  blocks change it: an
  approval, a deposit and somebody else's transaction, or one's own and two of
  others. Its trigger is a manual heartbeat in demo mode, or was never configured. The
  theorems of `WebPagesProofs` need none of these bounds.
* `node_registration`: two keys, that is one relaunch;
  the commands `rap` (the default), `rRap` (`post-build.sh`) and the single steps, as in
  `deployment-steps.md`; four
  instructions on chain, which is two attestations with their checks, or three
  attestations and one check; two transactions under way, one abandoned and one awaited. The theorems of
  `NodeRegistrationProofs` need none of these bounds.

Time bounds end a behaviour rather than block a step that would violate a
property: after the last tick everything else goes on.

`CHECK_DEADLOCK FALSE` is given for models that may stop: time and payments of
the FDC model run out, an executed policy has nothing left to do, a browser may
have used all drafts, a screen may wait for a wallet that never answers, the chain takes no
more than so many instructions. `policy_core`, `enclave` and `studio` check deadlock.

## 4. Fairness

Only `PolicySystem` states liveness. `Fairness` assumes

* time passes, and a transaction that was sent is mined (`TimePasses`, `PayNext`,
  `SetExtensionId` by the deployer);
* **somebody arms** a policy whose trigger fires, and **somebody runs the
  orchestrator again**. Both are permissionless, and nothing in the repository does
  them by itself: arming is a button and a script, the orchestrator a command that
  ends after one attempt. This is the assumption that the design makes
  (`ConfidentialPolicy.sol:155-157`), and the liveness results hold only under it;
* the registry, which picks a machine at random, picks every machine now and then
  when asked again and again (strong fairness on `EvaluatePolicy` per machine);
* the relay delivers an instruction that stays undelivered (weak fairness, per
  policy, machine and kind);
* a node that is asked to sign again and again succeeds at some time, and an
  answer stays long enough for a poll to see it (strong fairness on
  `AnswerSigned` and `PollFindsSignature`): machines may restart and signing may
  fail infinitely often, but not at every attempt.

Nothing is assumed of owners (they may never check in, deposit or send to the
enclave), of restarts or of the registry's opinion of machines. `EagerSpec` adds, for the run `policy_handoff`, owners
who press "Send to enclave" whenever it is offered: the counterexample is
then not due to an owner who does not care.

`NeverStuck` is the right strength for this environment: it does not say that
every armed policy is paid (no machine may hold it, see section 6), but that it
is not left unpaid *while* an attested machine holds it.

## 5. Proofs

### The vault

`ConfidentialPolicyProofs` proves, for any sets of policies, accounts, machines
and openings, any number of entries per table, any initial balances and any
bounds:

| theorem | statement |
|---|---|
| `TypeCorrect` | `Spec => []TypeOK`; balances are naturals, so `available - allocated` never underflows and no transfer of the loop fails half-way |
| `PaysTheCommittedSplit` | `Spec => []CommittedSplit` |
| `StrandsNothing` | `Spec => []OnlyStrayTokensStranded` |
| `SignatureForOnePolicy` | `Spec => []OneSignatureOnePolicy` |
| `ArmedMeansLocked` | `Spec => LockedOnceArmed` |
| `ImplementsEscrow` | `Spec => KeepsThePromise`, i.e. it implements `Escrow!EscrowSpec` |
| `Invariance` | `Spec => []IInv`, which the others rest on |

Assumptions: those named in `ConfidentialPolicy` (`AddressAssumption`,
`OpeningAssumption`, `BoundAssumption`): the sets are disjoint and tables are
tables (`IsShareTable` of `ShareTables`: running totals do not decrease, because a `uint16`
share is not negative; every table that comes out of the studio is one, see
`EveryPolicyHasAShareTable` below). That their total
is 10000 is *not* assumed: `execute` checks it.

*The inductive invariant.* `CommittedSplit` speaks of finished executions and
`OnlyStrayTokensStranded` of spent ones; neither says enough about an execution
in the middle of its loop to survive the next turn. `IInv` therefore adds

* `CallsDistinct`: a policy is on the call stack at most once (its status is the
  re-entrancy guard), so the turn of one loop is not a turn of another;
* `LoopInv(p)`: the table being paid is the committed one, its total is
  `TOTAL_BPS`, the amounts so far are the rounded shares, and what is allocated times
  `TOTAL_BPS` is at most `available` times the running total. This last
  inequality is what makes `available - allocated` non-negative, and, at the last
  entry, at least the last share;
* `OwnSignature(p)`: the signature a policy was executed with names it;
* `NoLoop(p)`: a policy that was not executed has no loop and is not on the stack;
* for spent policies, that the balance is what is owed plus what strangers sent,
  and for the others that nothing counts as stray.

The lemma `LoopArithmetic` is the one piece of arithmetic (the rounded amount
keeps the inequality), `TurnAmount` applies it to one turn. There is then one
lemma per action (`DepositInv`, ..., `ExecuteInv`, `PayInv`), combined in
`NextInv`. For the refinement, `CallCases` reduces a call to what happens to the
mapped phase, held and owed of one policy, and `CallPromise` finds the matching
step of `Escrow`.

### The FDC trigger

`FdcTriggerProofs`, for any policies, schedules, amounts and payments
(`TriggerAssumption`: intervals that may be configured, other than zero, are
positive; times and amounts are naturals):

| theorem | statement |
|---|---|
| `TypeCorrect` | `Spec => []TypeOK`: no interval in force is zero |
| `FiresOnSilenceAlone` | `Spec => []FiresOnlyOnSilence` |
| `SilenceCanBeProved` | `Spec => []SilenceIsProvable` |
| `ShowsTheFirstOpenDeadline` | `Spec => []DeadlineNotYetProvable`: `currentDeadline` is the first boundary that no accepted proof can be about |
| `LeavesOutTheBoundaryAtNow` | at a boundary `currentDeadline` is the one after it, `now + interval` |
| `FiredForGood` | `Spec => FiresForGood` |

`TypeOK` is inductive and the invariants follow from it in each state:
`BoundaryIsDeadline` turns the remainder that `check` computes into "the end of
the n-th interval", `ShownDeadline` (with `EarlierMultiple`) does the same for the
quotient of `currentDeadline`, and `CheckedInterval` shows that the accepted window contains
that interval. For `FiredForGood`, `AttestedForGood` shows that no payment to come is in
time for a deadline that FDC already attests, and a configuration with an owner
is final.

### The enclave

`EnclaveProofs`, for any number of policies, machines, ciphertexts and
instructions (`EnclaveAssumption`: a ciphertext is a record of a machine and a
content, the zero address is no policy):

| theorem | statement |
|---|---|
| `TypeCorrect` | `Spec => []TypeOK` |
| `AnswersAreConsistent` | `Spec => []AnswerMatchesSignature` |
| `SignsWhatItWasHanded` | `Spec => []SignedWasStored` |
| `SignsWhatExecuteAccepts` | `Spec => []SignsOnlyExecutable` |
| `ReportsThisLife` | `Spec => []StateReportConsistent` |
| `Invariance` | `Spec => []IInv`, which the others rest on |

*The inductive invariant.* The four properties speak of answers; where an answer
comes from is in a handler, and before that in a machine's memory. `IInv`
follows the configuration: what a machine holds was handed to it (`HeldInv`),
what a handler has copied was handed to its machine (`HandlerInv`), what an
answer reveals and what it signs are the same and were handed to the machine that
answered (`AnswerInv`). `HandedTo` is about `sent`, which only grows, so that
nothing else a machine does, and no restart, takes it back. `HandlerInv` also says that the
machine still holds *something* for the handler's policy: a restart takes the handlers
with it, and this is what makes the report after `FinishEvaluate` true.

### The system

`PolicySystemProofs`, for any policies, machines, owners, orchestrators and
ciphertexts (`SystemAssumption`: policies and machines are finitely many, which
is what gives the bound on instructions a value, a ciphertext is a record of a
machine and a content, intervals are naturals):

| theorem | statement |
|---|---|
| `ImplementsPolicy` | `SystemSpec => Spec` of `ConfidentialPolicy` |
| `ImplementsEnclave` | `SystemSpec => E!Spec` of `Enclave` |
| `SystemIsAnEscrow` | `SystemSpec => KeepsThePromise` |
| `SystemPaysTheCommittedSplit` | `SystemSpec => []CommittedSplit` |
| `ExecutesOnlyWhatWasHandedOver` | `SystemSpec => []ExecutedWasHandedOver` |
| `ArmsAfterSilenceOnly` | `SystemSpec => ArmedOnlyAfterSilence` |
| `SystemInvariance` | `SystemSpec => []SystemInv`, which the others rest on |

*The argument.* Every step of the system is a step of the contracts or leaves
them alone (`KeepsContracts`), and a step of the enclave or leaves it alone
(`KeepsEnclave`); `ConfidentialPolicy` with its arbitrary trigger and signers, and
`Enclave` with its arbitrary callers, therefore allow whatever happens when the
real ones are put in their place, and every theorem about either holds of the
whole. None of this is free: that a machine signs for a policy, an opening and an
arming that there may be needs the enclave's own invariant (`HandlerTyped`), that
execute is called with an opening needs the signature it checks
(`ExecutionAccepted`), and that an instruction is about an arming needs the
contracts' types. `SystemInv` is hence the two inductive invariants together with
`OffChainInv`, what browser and orchestrators hold, and `ProvenanceInv`, which
leads from an execution to its signature and from the signature to the STORE that
the machine was sent. The enclave is instantiated twice, in `PolicySystem` and,
with its theorems, as `EP`; `SameEnclave` says that the two are one.

*When a policy is armed.* `SilenceInv` ties a heartbeat's deadline to history: it
is an interval after the last sign of life unless inactivity was simulated since,
and then the policy is in demo mode. `ArmedByArm` shows that no other step arms.

### The studio

`StudioProofs`, for any addresses (and any `Lower` and checksum), shares, amounts, dates and
durations that may be typed, any initial recipients, and any number of recipients, edits and days:

| theorem | statement |
|---|---|
| `DialogGetsWhatWasRead` | `Spec => DeploysWhatWasRead` |
| `EnclaveAcceptsEveryPolicy` | `Spec => []EnclaveAccepts` |
| `EveryPolicyPaysTheWholeBalance` | `Spec => []PaysTheWholeBalance` |
| `ResolvesTheWholeBalance` | the same of `ResolveDistributions` itself, for every list of recipients that the schema lets through and *every* balance, where the run tries five |
| `EveryPolicyHasAShareTable` | the table of a deployed policy is an `IsShareTable` of total `TOTAL_BPS`: what `OpeningAssumption` of `ConfidentialPolicy` assumes of a commitment holds of those the studio makes |
| `IntervalIsStated` | `Spec => []StatesTheInterval` |
| `TriggerEditsStick` | `Spec => EditsStick` |
| `TypesHold` | `Spec => []TypeOK` |

Assumptions (`StudioAssumption`): the recipients that a template comes with are well-formed and have
integer shares, the durations typed are positive (`TriggerEditor` takes no other), amounts
are naturals, dates are integers, texts are not numbers, and the bounds are naturals.

*The inductive invariant.* `StudioInv` adds little to `TypeOK`: recipients are a
sequence of records with integer shares, the review and the dialog are open only over an
open template, and the policy in the dialog compiles from *some* draft that can be on the
screen (`WasReviewed`). It need not be the draft of now, which can be edited behind
the dialog; that the draft was the one shown when the button was pressed is the action
property `DeploysWhatWasRead`. The difficulty is in what follows from it, because the review, the
schema, the enclave and the contract each state a sum over the recipients in their own way.

*Sums.* The library's `SumFunction` is a fold, defined by recursion over a set. An
induction theorem cannot be cited for it (its parameter is an operator), so `Smallest`
replaces induction: among the subsets of a finite set for which an equation fails there
is one that is minimal. From it follow that the recursion has a solution
(`SumsExist`) and only one (`SumsAgree`), that a member may be split off at will
(`SumStep`), and comparisons of sums (`SumsOfEqual`, `SumsCompare`, `SumsGrow`).
With these, the running totals of `TableOf` are increasing and differ by the shares
(which gives `ShareBps` in the review, `ValidShares` in the enclave, and
`IsShareTable`), and the last amount of `ResolveDistributions`, the remainder, is
not negative, because the rounded shares of the others do not exceed theirs.

### The deploy flow

`DeployFlowProofs`, for any drafts, policies, amounts and number of transactions
under way:

| theorem | statement |
|---|---|
| `TypeCorrect` | `Spec => []TypeOK` |
| `EntriesOpen` | `Spec => []EntryOpensCommitment` |
| `EntryBeforeMoney` | `Spec => []FundsOnlyTheRecoverable` |
| `HandoffsWereMined` | `Spec => []HandoffWasMined` |
| `DoneIsFunded` | `Spec => DoneMeansFunded` |
| `Invariance` | `Spec => []IInv`, which the others rest on |

*The inductive invariant.* An entry is true because the receipt that led to it
was the one of this very run, although transactions of abandoned runs are still
being mined. `AwaitedInv` says so: what is under way for the flow, or for the page, is
exactly what it waits for, and there is one such transaction at a time; those that
nobody awaits change the chain and nothing else. `FlowInv` then follows the
run: from the receipt of `deploy` on it knows the clone that was made for its
draft, from `configure` on the trigger is set and the vault has the entry, and
after the receipt of the deposit the balance is there. `PageInv` does the
same for a hand-off from the policy page. The chain forgets nothing (`ChainGrows`), so
no transaction falsifies an entry.

### The web pages

`WebPagesProofs`, for any accounts, balances, vaults, and any number of changes and of
overlapping requests:

| theorem | statement |
|---|---|
| `KnowsItsChain` | `Spec => []ChainIsTheWallets` |
| `ListsWhatCouldBeRead` | `Spec => []VaultListedAsRead` |
| `DepositsWithinMeans` | `Spec => []DepositWithinMeans` |
| `OwnerIsOfferedWhatWorks` | `Spec => []OffersOnlyWhatWorks` |
| `EverySendShowsItsEffect` | `Spec => SendShowsItsEffect` |
| `PagesTyped` | `Spec => []TypeOK` |

Each is proved from an invariant of one screen. `WalletInv` adds the types of the
hook, and that a run whose switch was granted and not yet answered is about the
wallet's chain, or about one whose end has been announced (`PutOnCoston2Inv`); `ListInv`
says that a list that was ever loaded contains the vault but for the contracts whose
reads were refused for that very load;
`DialogInv` says that the dialog waits for no balance but the connected
account's, and that a balance it shows while it waits for none is that
account's. The last one is true only because the effects of an account clean up after
themselves (`EffectsInv`), for every step of the wallet.

`PageInv` is the invariant of the policy page, next to a chain that others move:

* `OpInv`: while an operation has no receipt its refresh has not begun; from then on the
  receipt is of a block that exists, and no read of that refresh is of an earlier block.
  This is what `SendShowsItsEffect` needs when the last read is in; the reads of the two
  other refreshes, which may be under way all along, do not count as its own;
* the page believes in demo mode only of a trigger that is in demo mode. No block changes the
  configuration of a trigger, so an answer that comes late is not a wrong one.
  `OffersOnlyWhatWorks` needs it for "Simulate inactivity"; withdrawing and cancelling
  need only that what is shown is what is on chain;
* the types of the ledger, of the operation and of the three refreshes.

There is one lemma for each group of steps: `ReadInv` and `EndedInv` for the refreshes,
`FormInv`, `StageInv`, `OutcomeInv`, `HandoffSavedInv` and `ConfirmedInv` for the operation, `LedgerSteps` for
what a block may do. `PageAssumption` says that the owner is an account and the trigger
is of a known kind.

### The registration of a machine

`NodeRegistrationProofs`, for any keys, commands, instructions and number of
transactions under way (`RegistrationAssumption`: commands are sets of the four steps):

| theorem | statement |
|---|---|
| `TypeCorrect` | `Spec => []TypeOK` |
| `FilesAreTrue` | `Spec => []FileIsTrue` |
| `FreshRunsAskAfresh` | `Spec => []FreshRunsHaveAChallenge` |
| `MachinesGetRegistered` | `Spec => []RegistersItsMachine` |
| `Invariance` | `Spec => []IInv`, which the others rest on |

*The inductive invariant.* `NextStepIs`, `FirstStep` and `StepAfter` say in which order
the steps of any command come; `PathInv` says what a run must have when it gets to each.
`PendingInv` ties the queue to the run: at most one transaction is awaited, it is
the one of the step, and those of former runs name only what was there when this run began
(`run.since`). This is why they cannot use up the challenge that a fresh run got
since (`FreshInv`). `OwnInv` follows the machine from attestation to check to
proof, as long as the state that was loaded is of this machine, which is exactly the
condition that `RegistersItsMachine` makes. `MinedInv` is the common part of
everything that the chain may do.

### Only model-checked

`SilenceArms` and `NeverStuck` of `PolicySystem`: they are liveness under fairness, which is out
of the prover's reach, as is `ENABLED`. The three violation runs of section 6 are
counterexamples, found by TLC. Everything else that a run checks is also proved.

## 6. Where the code and its documentation disagree

`PROJECT.json` has the quotations. Three are counterexamples of violation runs:

* `fdc_minimum`: `check` rejects proofs about amounts *below* the minimum. A true
  proof that no payment of a *larger* amount arrived is accepted although the
  owner paid the minimum in time; the comment at `FdcNonexistenceTrigger.sol:127`
  describes the opposite as excluded. `FiresOnlyOnSilence` states what does hold:
  silence for the amount *asked about*.
* `policy_handoff`: the page reports that the enclave holds the policy when the
  transaction is mined; the machine that got it may not be able to open it.
* `deploy_retry`: a comment says nothing is repeated on retry; "Try again" deploys
  a second contract for the same draft.

Three are exceptions of properties that hold. Each property states what the code does
do, and the comment's sentence in its place is violated in a few steps:

* `DeadlineNotYetProvable`: the comment at `FdcNonexistenceTrigger.sol:167` says that
  `currentDeadline` "returns the next boundary at or after now". At a boundary it returns
  the following one. The code is the better of the two: `check` already accepts a proof
  about the boundary at now, so a payment made then comes too late for it. The
  mutant of the property is the comment's reading, and `LeavesOutTheBoundaryAtNow` proves
  the difference.
* `ChainIsTheWallets`: "adding it is the whole remedy" (`wallet.ts:109`) takes the
  addition of a chain for a switch to it. A wallet that adds Coston2 and stays where
  it is leaves the hook on Coston2 over another chain, and no `chainChanged` corrects it:
  ask to switch, the wallet does not know the chain, it is added, the hook believes it
  is there. That is the exception `hook.misled`; without it TLC finds the violation in six
  steps.
* `VaultListedAsRead`: "neither failure produces an empty screen" (`policies.ts:22-25`) is
  true of refused logs. A policy whose contract could not be read is left out
  (`policies.ts:82`), and if none could be read the page says "No policies yet" over a
  vault that has some: the mount, its two answers, the load.

Met on the way:

* Review drawer and deploy dialog are laid over the form (`review-drawer.tsx:44-57`,
  `deploy-dialog.tsx:113-125`) and hold no focus: by keyboard the draft can be edited
  behind them, and even reviewed again; "Deploy" in that second review replaces the
  policy of the dialog that is open. What is handed over is what the review showed
  at that moment (`DeploysWhatWasRead`), but the page's "Deployed" may then stand over a draft
  that has changed since.
* The list page promises "everything you have deployed" (`policies/page.tsx:47`); no load
  is cancelled when the account changes, so the list of the account that was connected
  before may arrive last and stay. `PolicyList` has this behaviour.
* The registration tool's state file does not say which machine it is about. A run with
  `--resume` on a relaunched machine completes the registration of its former key and
  then names the new one, which is not even pre-registered (`main.go:72`).
  `RegistersItsMachine` therefore supposes that the state that was loaded is the machine's own.
* The file is kept "so registration can resume after failures"
  (`registration.go:25-26`), but a resumed run takes over a challenge that may be used
  or expired; then every further `--resume` fails at step a. `FreshRunsHaveAChallenge`
  is about runs that start afresh.
* `deployment-steps.md:194` has step r skip itself on a registered machine; the code
  asks for a fresh attestation (`registration.go:83-93`), so that the default command can
  be repeated.
* A draft without recipients has no step to add one in the builder
  (`policy-form.tsx:183` says every step is reachable); only leaving it brings the step back.

The comment at `extension.go:25-28`
says of the private half that no handler returns it, while the answer to EVALUATE
contains shares and salt (which `execute` needs, and another comment says so);
the same comment has restarted machines re-seeded by replaying STORE, which
nothing in the repository does, and the page stops offering to send once a
hand-off is recorded; `app/api/enclave/info/route.ts:22-24` says that the key is
also checked against the machine registered on chain, which nothing in
`apps/web` does.

## 7. Abstractions and limits

* Hashes are injective and encryption is perfect: a commitment *is* its opening,
  a ciphertext is the pair of the machine it is sealed for and its content, and a signature is the pair of
  signer and digest.
* A share table is given by recipients and running totals instead of shares; the two
  carry the same information, and the sum needs no recursion.
* The asset is a standard token except that it may call back, after the tokens
  have moved. Tokens that take a fee or lie about transfers are not modelled.
  Recipients are accounts, not policies.
* 256-bit overflow is not modelled: `available * shareBps` overflows only for
  balances above 2^240. Solidity's checked arithmetic would revert.
* Instructions are known by their content, where the chain gives each a new
  identifier: sending one again discards its former answer. Histories with two
  answers to the same question at once are merged, and an answer comes to the orchestrator that asked last.
* The instances of `PolicySystem` have one policy; the independence of clones is
  checked in `ConfidentialPolicy`, where machines sign anything, and carried over
  by `ImplementsPolicy`.
* The data connector attests only what is true, needs a block after the deadline,
  and its window includes both ends.
* `DeployFlow` leaves out withdrawals, cancelling and other accounts' deposits.
* In `DepositDialog` balances do not change while the dialog is open. In
  `Wallet` a granted request to switch puts the wallet on Coston2, runs of the same kind that wait
  for the same answer are one, and there is one wallet in the browser.
* In `PolicyPage` the policy has an entry in the vault that is sealed and the
  hand-off is configured; a transaction the page has given up is mined as one of
  `Others`. In `Studio` days are the unit of time and of every interval
  (`joinDuration` rounds to whole days), and the number typed for a duration is whole.
* Exceptions that the properties name rather than hide: the schema does not
  refuse the zero address as a recipient, which the enclave does
  (`EnclaveAccepts`); the page does not ask who the owner is, what the wallet holds or
  whether the trigger is configured (`OffersOnlyWhatWorks`); nobody refuses a date
  in the past.
* The first answer of the silent reconnect may be older than the event that
  follows it (`wallet.ts:76`): the account shown is then not the wallet's until the
  next event. `Wallet` has this behaviour; nothing in the repository promises the
  contrary, so no property is about it.
* In `NodeRegistration` a challenge lasts longer than the run that got it (one that
  expires under a run makes its check revert, which may happen anyway); a proof that the proxy hands out is good;
  the machine keeps its key during a wait for its answer only as far as it has to give one.
  A run whose command has step a without r or R, and resumes nothing, never has a
  challenge; its check reverts. Pausing machines, and setting up extension, versions and
  governance, are left out.
* Configuration and hand-off of the same policy by strangers: `configure` of the
  heartbeat trigger is modelled as callable by anybody, like the source.

## 8. Plan

Order of work, by importance. All steps are done.

1. `ShareTables`, `Escrow`, `ConfidentialPolicy`, its run and its proofs.
2. `FdcNonexistenceTrigger`: all proofs in all states.
3. `Enclave`: handlers, lock sections, delivery, restarts.
4. `Triggers` and `PolicySystem`: composition, orchestrator, liveness.
5. `DeployFlow`: partial failure and retries in the browser.
6. Proof of the vault's invariants and of its refinement of `Escrow`.
7. `PolicyDraft` and `Studio`: builder, schema and compiler against what enclave
   and contract do with the result.
8. `Wallet`, `PolicyList`, `DepositDialog`, `PolicyPage`, `WebPages`: the screens.
9. Proofs of the FDC trigger, of the enclave and of the web pages.
10. Proofs of the deploy flow.
11. `NodeRegistration`: the resumable registration of a machine, and its proofs.
12. `PolicySystemProofs`: `PolicySystem` implements `ConfidentialPolicy` and
    `Enclave` (its steps are steps or stutters of them), which carries the proved
    safety over to the whole system; and `ArmedOnlyAfterSilence`.
13. `StudioProofs`, with sums over sequences of any length, and the policy page in
    `WebPagesProofs`: no safety property is left that is only model-checked.
