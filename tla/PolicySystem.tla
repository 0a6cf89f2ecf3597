---------------------------- MODULE PolicySystem ----------------------------
(***************************************************************************)
(* Flare Studio from end to end: the vault contract, the trigger that arms *)
(* it, the machines that sign for it, the browser that hands them the      *)
(* sealed share table, and the orchestrator that asks for the signature    *)
(* and executes.                                                           *)
(*                                                                         *)
(* The steps of ConfidentialPolicy, Triggers and Enclave are joined here:  *)
(* arm asks the trigger, and the only signatures are those of enclaves.    *)
(***************************************************************************)
EXTENDS ConfidentialPolicy

CONSTANTS ZeroPolicy,
          WithChainId,
          Ciphertexts,
          EmptyCiphertext,
          Intervals,         \* what heartbeat triggers are configured with
          Orchestrators,     \* the processes that run evaluatePolicy
          MaxEarlyTimeouts   \* bound: how many polls end before their answer

ASSUME SystemAssumption ==
    /\ ZeroPolicy \notin Policies
    /\ WithChainId \subseteq Machines
    /\ EmptyCiphertext \notin Ciphertexts
    /\ \A c \in Ciphertexts : c = [sealedFor |-> c.sealedFor, plain |-> c.plain]
    /\ IsFiniteSet(Policies) /\ IsFiniteSet(Machines)
    /\ Intervals \subseteq Nat

VARIABLES
    configs, executeAfter,
    extensionSet, sent, undelivered, answers,
    policies, evaluating, evaluated, lastPolicy,
    trigger,        \* the kind of trigger each policy was deployed with
    ciphertext,     \* what the owner's browser sealed for each policy
    handoff,        \* the browser has recorded that the policy was sent
    orchestrator,   \* where each orchestrator is
    earlyTimeouts,
    lastSeen,       \* history: the owner's last sign of life
    simulated       \* history: it was followed by a simulated inactivity

T == INSTANCE Triggers WITH NoOwner <- Nobody
E == INSTANCE Enclave WITH
         ArmingTimes <- 1..MaxTime,
         MaxInstructions <- 2 * Cardinality(Policies) * Cardinality(Machines) * (MaxTime + 1)

triggerVars == <<configs, executeAfter>>
enclaveVars == <<extensionSet, sent, undelivered, answers, policies, evaluating,
                 evaluated, lastPolicy>>
browserVars == <<trigger, ciphertext, handoff>>
orchestratorVars == <<orchestrator, earlyTimeouts>>
triggerHistory == <<lastSeen, simulated>>
offChainVars == <<enclaveVars, orchestratorVars>>
systemVars == <<vars, triggerVars, offChainVars, browserVars, triggerHistory>>

Idle == [pc |-> "idle"]
Polling(i) == [pc |-> "polling", instruction |-> i]
Holding(p, result, m) == [pc |-> "holding", policy |-> p, result |-> result, machine |-> m]

-----------------------------------------------------------------------------
(* The owner                                                               *)

\* The browser seals for a machine whose key it was given, or not at all.
DeployPolicy(a, p, o, kind, c) ==
    /\ calls = <<>>
    /\ Deploy(a, p, o)
    /\ c # EmptyCiphertext => c.plain = o
    /\ trigger' = [trigger EXCEPT ![p] = kind]
    /\ ciphertext' = [ciphertext EXCEPT ![p] = c]
    /\ UNCHANGED <<handoff, triggerVars, offChainVars, triggerHistory>>

ConfigureHeartbeat(p, a, interval, demoMode) ==
    /\ trigger[p] = "heartbeat"
    /\ now + interval < MaxTime
    /\ T!ConfigureHeartbeat(p, a, interval, demoMode)
    /\ lastSeen' = [lastSeen EXCEPT ![p] = now]
    /\ UNCHANGED <<vars, simulated, offChainVars, browserVars>>

ConfigureTimestamp(p, date) ==
    /\ trigger[p] = "timestamp"
    /\ date < MaxTime
    /\ T!ConfigureTimestamp(p, date)
    /\ UNCHANGED <<vars, offChainVars, browserVars, triggerHistory>>

\* The bound on time makes owners stop checking in before it is over.
Heartbeat(a, p) ==
    /\ now + configs[p].interval < MaxTime
    /\ T!Heartbeat(a, p)
    /\ lastSeen' = [lastSeen EXCEPT ![p] = now]
    /\ simulated' = [simulated EXCEPT ![p] = FALSE]
    /\ UNCHANGED <<vars, offChainVars, browserVars>>

SimulateInactivity(a, p) ==
    /\ T!SimulateInactivity(a, p)
    /\ simulated' = [simulated EXCEPT ![p] = TRUE]
    /\ UNCHANGED <<vars, lastSeen, offChainVars, browserVars>>

Fund(a, p, n) ==
    /\ calls = <<>>
    /\ Deposit(a, p, n) \/ Withdraw(a, p, n)
    /\ UNCHANGED <<triggerVars, offChainVars, browserVars, triggerHistory>>

CancelPolicy(a, p) ==
    /\ calls = <<>>
    /\ Cancel(a, p)
    /\ UNCHANGED <<triggerVars, offChainVars, browserVars, triggerHistory>>

\* "Send to enclave": offered while the browser has no record of a hand-off,
\* which it writes when the transaction is mined, if it is still there.
SendToEnclave(p, m) ==
    /\ ciphertext[p] # EmptyCiphertext
    /\ ~handoff[p]
    /\ E!SendStore(p, ciphertext[p], m)
    /\ \/ handoff' = [handoff EXCEPT ![p] = TRUE]
       \/ UNCHANGED handoff
    /\ UNCHANGED <<vars, triggerVars, trigger, ciphertext, orchestratorVars, triggerHistory>>

-----------------------------------------------------------------------------
(* Anyone                                                                  *)

Fires(p) == \/ trigger[p] = "heartbeat" /\ T!HeartbeatCheck(p)
            \/ trigger[p] = "timestamp" /\ T!TimestampCheck(p)

ArmPolicy(p) ==
    /\ calls = <<>>
    /\ Fires(p)
    /\ Arm(p)
    /\ UNCHANGED <<triggerVars, offChainVars, browserVars, triggerHistory>>

\* evaluatePolicy reads triggeredAt and sends EVALUATE with it, to whichever
\* machine the registry picks.
EvaluatePolicyOnce(k, p, m) ==          \* mutant: what was asked is not asked again
    /\ orchestrator[k] = Idle
    /\ triggeredAt[p] # 0
    /\ ~\E i \in sent : i.op = "EVALUATE" /\ i.policy = p /\ i.machine = m
    /\ E!SendEvaluate(p, triggeredAt[p], m)
    /\ orchestrator' = [orchestrator EXCEPT ![k] =
                            Polling([op |-> "EVALUATE", policy |-> p,
                                     ciphertext |-> EmptyCiphertext,
                                     triggeredAt |-> triggeredAt[p], machine |-> m])]
    /\ UNCHANGED <<vars, triggerVars, browserVars, earlyTimeouts, triggerHistory>>

EvaluatePolicy(k, p, m) ==
    /\ orchestrator[k] = Idle
    /\ triggeredAt[p] # 0
    /\ E!SendEvaluate(p, triggeredAt[p], m)
    /\ orchestrator' = [orchestrator EXCEPT ![k] =
                            Polling([op |-> "EVALUATE", policy |-> p,
                                     ciphertext |-> EmptyCiphertext,
                                     triggeredAt |-> triggeredAt[p], machine |-> m])]
    /\ UNCHANGED <<vars, triggerVars, browserVars, earlyTimeouts, triggerHistory>>

\* The instruction an orchestrator polls for has not been answered, and may
\* still be: it is on its way, or a handler is working on it.
InFlight(i) == i \in undelivered \/ \E h \in evaluating : h.instruction = i

\* pollActionResult finds a result; decodeActionData throws unless its status
\* is 1.
PollFinds(k, results) ==
    /\ orchestrator[k].pc = "polling"
    /\ \E a \in answers :
           /\ a.instruction = orchestrator[k].instruction
           /\ a.result.status \in results
           /\ orchestrator' = [orchestrator EXCEPT ![k] =
                  IF a.result.status = 1
                  THEN Holding(a.instruction.policy, a.result, a.instruction.machine)
                  ELSE Idle]
    /\ UNCHANGED <<vars, triggerVars, enclaveVars, browserVars, earlyTimeouts,
                   triggerHistory>>

PollFindsSignature(k) == PollFinds(k, {1})
Poll(k) == PollFinds(k, {0, 1})

\* The 180 seconds are over.  The answer may still come, and comes too late.
PollTimesOut(k) ==
    /\ orchestrator[k].pc = "polling"
    /\ IF InFlight(orchestrator[k].instruction)
       THEN /\ earlyTimeouts < MaxEarlyTimeouts
            /\ earlyTimeouts' = earlyTimeouts + 1
       ELSE /\ ~\E a \in answers : a.instruction = orchestrator[k].instruction
            /\ UNCHANGED earlyTimeouts
    /\ orchestrator' = [orchestrator EXCEPT ![k] = Idle]
    /\ UNCHANGED <<vars, triggerVars, enclaveVars, browserVars, triggerHistory>>

\* executePolicy: the simulation throws what execute would revert with.
Signature(held) == [signer |-> held.machine, digest |-> held.result.digest]

ExecutePolicy(k) ==
    /\ calls = <<>>
    /\ orchestrator[k].pc = "holding"
    /\ LET held == orchestrator[k]
       IN  Execute(held.policy, held.result.revealed, Signature(held))
    /\ orchestrator' = [orchestrator EXCEPT ![k] = Idle]
    /\ UNCHANGED <<triggerVars, enclaveVars, browserVars, earlyTimeouts, triggerHistory>>

ExecutionReverts(k) ==
    /\ calls = <<>>
    /\ orchestrator[k].pc = "holding"
    /\ LET held == orchestrator[k]
       IN  ~ /\ status[held.policy] = "Triggered"
             /\ held.result.revealed = commitment[held.policy]
             /\ Accepted(held.policy, held.result.revealed, Signature(held))
             /\ bal[held.policy] > 0
    /\ orchestrator' = [orchestrator EXCEPT ![k] = Idle]
    /\ UNCHANGED <<vars, triggerVars, enclaveVars, browserVars, earlyTimeouts,
                   triggerHistory>>

-----------------------------------------------------------------------------
(* The machines, the registry and the clock                                *)

OnlyEnclave == UNCHANGED <<triggerVars, orchestratorVars, browserVars, triggerHistory>>

SetExtensionId == E!SetExtensionId /\ UNCHANGED vars /\ OnlyEnclave

Deliver(i) == E!Handle(i) /\ UNCHANGED vars /\ OnlyEnclave

\* A machine's signature exists from the moment its node has made it.
FinishEvaluate(h) ==
    /\ E!FinishEvaluate(h)
    /\ Sign(h.instruction.machine, h.instruction.policy, h.config, h.instruction.triggeredAt)
    /\ OnlyEnclave

\* The instruction that an orchestrator polls for is answered with a signature.
AnswerSigned(k) ==
    \E h \in evaluating : h.instruction = orchestrator[k].instruction /\ FinishEvaluate(h)

SigningFails(h) == E!SigningFails(h) /\ UNCHANGED vars /\ OnlyEnclave

Restart(m) == E!Restart(m) /\ UNCHANGED vars /\ OnlyEnclave

OffSystem == UNCHANGED <<triggerVars, offChainVars, browserVars, triggerHistory>>

PayNext(p) == Pay(p) /\ OffSystem
ChangeStatus(m) == ChangeAttestation(m) /\ OffSystem
TimePasses == Tick /\ OffSystem

-----------------------------------------------------------------------------
SystemInit ==
    /\ Init
    /\ T!TriggersInit
    /\ E!Init
    /\ trigger = [p \in Policies |-> "none"]
    /\ ciphertext = [p \in Policies |-> EmptyCiphertext]
    /\ handoff = [p \in Policies |-> FALSE]
    /\ orchestrator = [k \in Orchestrators |-> Idle]
    /\ earlyTimeouts = 0
    /\ lastSeen = [p \in Policies |-> 0]
    /\ simulated = [p \in Policies |-> FALSE]

OwnerStep ==
    \E a \in Accounts, p \in Policies :
        \/ \E o \in Openings, kind \in {"heartbeat", "timestamp"},
              c \in Ciphertexts \cup {EmptyCiphertext} : DeployPolicy(a, p, o, kind, c)
        \/ \E interval \in Intervals, demo \in BOOLEAN : ConfigureHeartbeat(p, a, interval, demo)
        \/ \E date \in 1..MaxTime : ConfigureTimestamp(p, date)
        \/ Heartbeat(a, p)
        \/ SimulateInactivity(a, p)
        \/ \E n \in 1..MaxAmount : Fund(a, p, n)
        \/ CancelPolicy(a, p)
        \/ \E m \in Machines : SendToEnclave(p, m)

OrchestratorStep ==
    \E k \in Orchestrators :
        \/ \E p \in Policies, m \in Machines : EvaluatePolicy(k, p, m)
        \/ Poll(k)
        \/ PollTimesOut(k)
        \/ ExecutePolicy(k)
        \/ ExecutionReverts(k)

MachineStep ==
    \/ SetExtensionId
    \/ \E i \in sent : Deliver(i)
    \/ \E h \in evaluating : FinishEvaluate(h) \/ SigningFails(h)
    \/ \E m \in Machines : Restart(m) \/ ChangeStatus(m)

SystemNext ==
    \/ OwnerStep
    \/ OrchestratorStep
    \/ MachineStep
    \/ \E p \in Policies : ArmPolicy(p) \/ PayNext(p)
    \/ TimePasses

About(i, p, m) == i.policy = p /\ i.machine = m

Awaits(k, p, m) ==
    orchestrator[k].pc = "polling" /\ About(orchestrator[k].instruction, p, m)

\* Time passes and transactions go on.  Somebody arms a policy whose trigger
\* fires, and the orchestrator is run again as long as it has not executed:
\* both are permissionless and nothing in the repository runs them by itself.
\* The registry picks every machine now and then, the relay delivers every
\* instruction, a node that is asked again and again signs, and an answer stays
\* long enough to be polled.
Fairness ==
    /\ WF_systemVars(TimePasses)
    /\ WF_systemVars(SetExtensionId)
    /\ \A p \in Policies :
           /\ WF_systemVars(PayNext(p))
           /\ WF_systemVars(ArmPolicy(p))
    /\ \A p \in Policies, m \in Machines, op \in {"STORE", "EVALUATE"} :
           WF_systemVars(\E i \in undelivered : About(i, p, m) /\ i.op = op /\ Deliver(i))
    /\ \A k \in Orchestrators :
           /\ WF_systemVars(Poll(k) \/ PollTimesOut(k))
           /\ WF_systemVars(ExecutePolicy(k) \/ ExecutionReverts(k))
           /\ \A p \in Policies, m \in Machines :
                  /\ SF_systemVars(EvaluatePolicy(k, p, m))
                  /\ SF_systemVars(Awaits(k, p, m) /\ AnswerSigned(k))
                  /\ SF_systemVars(Awaits(k, p, m) /\ PollFindsSignature(k))

SystemSpec == SystemInit /\ [][SystemNext]_systemVars /\ Fairness

\* The same with owners who press "Send to enclave" whenever it is offered.
EagerSpec ==
    /\ SystemSpec
    /\ \A p \in Policies, m \in Machines : SF_systemVars(SendToEnclave(p, m))

-----------------------------------------------------------------------------
(* What must hold                                                          *)

\* A policy is armed only on the terms its trigger was configured with: after a
\* whole interval without a sign of life, or, in demo mode, after the owner
\* asked for it and did not check in again; or after the date.  As long as the
\* owner checks in in time nobody can arm it ("the owner's remedy -- send a
\* heartbeat -- is always available", ManualHeartbeatTrigger.sol:79-80).
ArmedOnlyAfterSilence ==
    [][\A p \in Policies : status[p] = "Active" /\ status'[p] = "Triggered" =>
           \/ /\ trigger[p] = "heartbeat"
              /\ \/ now > lastSeen[p] + configs[p].interval
                 \/ configs[p].demoMode /\ simulated[p]
           \/ /\ trigger[p] = "timestamp"
              /\ executeAfter[p] \in 1..(now - 1)]_systemVars

\* Every policy whose trigger was configured is armed in the end unless its
\* owner cancels it: once the owner stops checking in, the deadline passes and
\* stays passed ("a policy that must work when the owner cannot act",
\* ConfidentialPolicy.sol:155-157).
SilenceArms ==
    \A p \in Policies :
        (status[p] = "Active" /\ (T!Configured(p) \/ executeAfter[p] # 0))
            ~> status[p] # "Active"

\* The machine m can answer for p, and its answer would be accepted.
Ready(m, p) ==
    /\ policies[m][p] = commitment[p]
    /\ m \in attested \cap WithChainId

\* An armed policy with money in it does not stay armed while some machine
\* holds it and is in PRODUCTION, whatever else restarts, is refused, comes
\* late or is asked of the wrong machine.
NeverStuck ==
    \A p \in Policies, m \in Machines :
        ~<>[](status[p] = "Triggered" /\ bal[p] > 0 /\ Ready(m, p))

\* "Holds this policy": a machine has answered that it stored it.
ReachedEnclave(p) ==
    \E a \in answers : /\ a.instruction.op = "STORE"
                       /\ a.instruction.policy = p
                       /\ a.result.status = 1

\* "The sealed recipient list reached the enclave on-chain.  It can now
\* evaluate this policy without you" (policies/[address]/page.tsx:392-393),
\* shown as soon as the browser has recorded that the transaction was mined.
HandoffReachesEnclave ==
    \A p \in Policies : handoff[p] ~> ReachedEnclave(p)
=============================================================================
