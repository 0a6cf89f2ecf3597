------------------------- MODULE PolicySystemProofs -------------------------
(***************************************************************************)
(* Theorems about the composition, for any policies, machines, owners and  *)
(* orchestrators: the vault contract and the enclave extension keep, when  *)
(* they run together, what was proved of each of them alone; and the two   *)
(* facts that only the whole can promise, when a policy is armed and whose *)
(* secret releases it.                                                     *)
(***************************************************************************)
EXTENDS PolicySystem, ConfidentialPolicyProofs, FiniteSetTheorems, TLAPS

EP == INSTANCE EnclaveProofs WITH
          ArmingTimes <- 1..MaxTime,
          MaxInstructions <- 2 * Cardinality(Policies) * Cardinality(Machines) * (MaxTime + 1)

-----------------------------------------------------------------------------
(* The inductive invariant                                                 *)

\* What the browser and the orchestrators hold is about policies there are.
OffChainInv ==
    /\ ciphertext \in [Policies -> Ciphertexts \cup {EmptyCiphertext}]
    /\ DOMAIN orchestrator = Orchestrators
    /\ \A k \in Orchestrators :
           /\ orchestrator[k].pc = "polling" => orchestrator[k].instruction.policy \in Policies
           /\ orchestrator[k].pc = "holding" => orchestrator[k].policy \in Policies

\* A machine signs what it was handed, and execute takes such a signature.
ProvenanceInv ==
    /\ \A s \in signed : EP!HandedTo(s.signer, s.digest.policy, s.digest.opening)
    /\ \A p \in Policies : status[p] = "Executed" => used[p] \in signed

SystemInv == IInv /\ EP!IInv /\ OffChainInv /\ ProvenanceInv

\* An executed policy: the shares and the salt it was executed with had been
\* sent, sealed for it, to the machine whose signature released it.
ExecutedWasHandedOver ==
    \A p \in Policies :
        status[p] = "Executed" => EP!HandedTo(used[p].signer, p, commitment[p])

-----------------------------------------------------------------------------
(* The enclave inside the system                                           *)

\* The composition gives the enclave constants that it may have.
LEMMA EnclaveMeant ==
    /\ WithChainId \subseteq Machines
    /\ EmptyCiphertext \notin Ciphertexts
    /\ \A c \in Ciphertexts : c = [sealedFor |-> c.sealedFor, plain |-> c.plain]
    /\ ZeroPolicy \notin Policies
    /\ NoOpening \notin Openings
    /\ 1..MaxTime \subseteq Nat
    /\ 2 * Cardinality(Policies) * Cardinality(Machines) * (MaxTime + 1) \in Nat
<1>1. Cardinality(Policies) \in Nat /\ Cardinality(Machines) \in Nat /\ MaxTime \in Nat
    BY FS_CardinalityType, SystemAssumption, BoundAssumption
<1> DEFINE a == Cardinality(Policies)
           b == Cardinality(Machines)
<1> HIDE DEF a, b
<1>2. a \in Nat /\ b \in Nat
    BY <1>1 DEF a, b
<1>3. 2 * a * b * (MaxTime + 1) \in Nat
    BY <1>1, <1>2
<1> QED
    BY <1>1, <1>3, SystemAssumption, OpeningAssumption DEF a, b

\* Both instances of the enclave make the same steps.
LEMMA SameEnclave ==
    /\ E!Init => EP!Init
    /\ [E!Next]_enclaveVars => [EP!Next]_(EP!enclaveVars)
<1>1. E!Init => EP!Init
    BY DEF E!Init, EP!Init, E!Addressed, EP!Addressed
<1>2. E!Next => EP!Next
    BY Zenon DEF E!Next, EP!Next, E!SetExtensionId, EP!SetExtensionId, E!machineVars,
        EP!machineVars, E!Addressed, EP!Addressed, E!SendStore, EP!SendStore,
        E!SendEvaluate, EP!SendEvaluate, E!Send, EP!Send, E!Handle, EP!Handle, E!Store,
        EP!Store, E!BeginEvaluate, EP!BeginEvaluate, E!RefuseEvaluate, EP!RefuseEvaluate,
        E!Acceptable, EP!Acceptable, E!Answer, EP!Answer, E!Deliver, EP!Deliver, E!Stored,
        EP!Stored, E!Refused, EP!Refused, E!NoDigest, EP!NoDigest, E!chainVars,
        EP!chainVars, E!Answerable, EP!Answerable, E!SignLater, EP!SignLater,
        E!FinishEvaluate, EP!FinishEvaluate, E!SigningFails, EP!SigningFails, E!Leave,
        EP!Leave, E!Count, EP!Count, E!SignedDigest, EP!SignedDigest, E!Signed, EP!Signed,
        E!Restart, EP!Restart, E!ValidShares, EP!ValidShares, E!TotalBps, EP!TotalBps,
        E!TOTAL_BPS, EP!TOTAL_BPS, E!RunningBps, EP!RunningBps, E!Cardinality,
        EP!Cardinality
<1>3. UNCHANGED enclaveVars => UNCHANGED EP!enclaveVars
    BY DEF enclaveVars, EP!enclaveVars
<1> QED
    BY <1>1, <1>2, <1>3

\* No step of the enclave takes an instruction back.
LEMMA SentForGood ==
    ASSUME [E!Next]_enclaveVars
    PROVE  sent \subseteq sent'
BY DEF E!Next, E!SetExtensionId, E!SendStore, E!SendEvaluate, E!Send, E!Handle, E!Store,
    E!BeginEvaluate, E!SignLater, E!RefuseEvaluate, E!FinishEvaluate, E!SigningFails,
    E!Leave, E!Restart, E!chainVars, enclaveVars

\* A handler's instruction is about a policy and an arming there are.
LEMMA HandlerTyped ==
    ASSUME SystemInv, NEW h \in evaluating
    PROVE  /\ h.instruction.machine \in Machines
           /\ h.instruction.policy \in Policies
           /\ h.config \in Openings
           /\ h.instruction.triggeredAt \in 1..MaxTime
           /\ EP!HandedTo(h.instruction.machine, h.instruction.policy, h.config)
<1>1. /\ evaluating \subseteq [instruction : sent, config : Openings]
      /\ sent \subseteq EP!Instructions
    BY DEF SystemInv, EP!IInv, EP!TypeOK
<1>2. /\ h.instruction.triggeredAt # 0
      /\ EP!HandedTo(h.instruction.machine, h.instruction.policy, h.config)
    BY DEF SystemInv, EP!IInv, EP!HandlerInv
<1>3. h.instruction.policy # ZeroPolicy
    BY <1>2 DEF EP!HandedTo
<1>4. h.instruction \in EP!Instructions /\ h.config \in Openings
    BY <1>1
<1> QED
    BY <1>2, <1>3, <1>4 DEF EP!Instructions, EP!Addressed

-----------------------------------------------------------------------------
(* Every step of the system is one of the contracts, or leaves them alone  *)

\* The owner calls the contracts, a trigger or the InstructionSender.
LEMMA OwnerKeepsContracts ==
    ASSUME OwnerStep PROVE [Next]_vars
<1> USE DEF PolicyCall, Next
<1>1. PICK a \in Accounts, p \in Policies :
        \/ \E o \in Openings, kind \in {"heartbeat", "timestamp"},
              c \in Ciphertexts \cup {EmptyCiphertext} : DeployPolicy(a, p, o, kind, c)
        \/ \E interval \in Intervals, demo \in BOOLEAN : ConfigureHeartbeat(p, a, interval, demo)
        \/ \E date \in 1..MaxTime : ConfigureTimestamp(p, date)
        \/ Heartbeat(a, p)
        \/ SimulateInactivity(a, p)
        \/ \E n \in 1..MaxAmount : Fund(a, p, n)
        \/ CancelPolicy(a, p)
        \/ \E m \in Machines : SendToEnclave(p, m)
    BY DEF OwnerStep
<1>2. CASE \E o \in Openings, kind \in {"heartbeat", "timestamp"},
              c \in Ciphertexts \cup {EmptyCiphertext} : DeployPolicy(a, p, o, kind, c)
    BY <1>2 DEF DeployPolicy
<1>3. CASE \E n \in 1..MaxAmount : Fund(a, p, n)
    BY <1>3 DEF Fund
<1>4. CASE CancelPolicy(a, p)
    BY <1>4 DEF CancelPolicy
<1> QED
    BY <1>1, <1>2, <1>3, <1>4
       DEF ConfigureHeartbeat, ConfigureTimestamp, Heartbeat, SimulateInactivity, SendToEnclave

\* An orchestrator executes with the shares the owner committed to and a
\* signature that a machine has produced, or the call reverts.
LEMMA ExecutionAccepted ==
    ASSUME IInv, OffChainInv, NEW k \in Orchestrators, ExecutePolicy(k)
    PROVE  \E p \in Policies, o \in Openings, sig \in signed : Execute(p, o, sig)
<1> DEFINE held == orchestrator[k]
           sig == Signature(held)
<1>1. Execute(held.policy, held.result.revealed, sig) /\ held.pc = "holding"
    BY DEF ExecutePolicy
<1>2. sig \in signed /\ sig.digest.opening = held.result.revealed
    BY <1>1 DEF Execute, Accepted, Digest
<1>3. sig.digest.opening \in Openings
    BY <1>2 DEF IInv, TypeOK, Signatures, Digests
<1>4. held.policy \in Policies
    BY <1>1 DEF OffChainInv
<1> QED
    BY <1>1, <1>2, <1>3, <1>4

\* Of an orchestrator's steps only execute reaches the contracts.
LEMMA OrchestratorKeepsContracts ==
    ASSUME IInv, OffChainInv, OrchestratorStep PROVE [Next]_vars
<1>1. PICK k \in Orchestrators :
        \/ \E p \in Policies, m \in Machines : EvaluatePolicy(k, p, m)
        \/ Poll(k)
        \/ PollTimesOut(k)
        \/ ExecutePolicy(k)
        \/ ExecutionReverts(k)
    BY DEF OrchestratorStep
<1>2. CASE ExecutePolicy(k)
    BY <1>2, ExecutionAccepted DEF Next, PolicyCall
<1> QED
    BY <1>1, <1>2 DEF EvaluatePolicy, Poll, PollFinds, PollTimesOut, ExecutionReverts

\* A machine signs for a policy and an arming that there may be.
LEMMA MachineKeepsContracts ==
    ASSUME SystemInv, MachineStep PROVE [Next]_vars
<1>1. CASE \E h \in evaluating : FinishEvaluate(h)
    <2>1. PICK h \in evaluating : FinishEvaluate(h)
        BY <1>1
    <2>2. Sign(h.instruction.machine, h.instruction.policy, h.config, h.instruction.triggeredAt)
        BY <2>1 DEF FinishEvaluate
    <2> QED
        BY <2>2, HandlerTyped DEF Next, World
<1>2. CASE \E m \in Machines : ChangeStatus(m)
    BY <1>2 DEF ChangeStatus, Next, World
<1> QED
    BY <1>1, <1>2 DEF MachineStep, SetExtensionId, Deliver, SigningFails, Restart

\* All of it together: [SystemNext] implies [Next].
LEMMA KeepsContracts ==
    ASSUME SystemInv, [SystemNext]_systemVars PROVE [Next]_vars
<1>1. CASE \E p \in Policies : ArmPolicy(p) \/ PayNext(p)
    BY <1>1 DEF ArmPolicy, PayNext, Next, PolicyCall
<1>2. CASE TimePasses
    BY <1>2 DEF TimePasses, Next, World
<1>3. CASE UNCHANGED systemVars
    BY <1>3 DEF systemVars
<1> QED
    BY <1>1, <1>2, <1>3, OwnerKeepsContracts, OrchestratorKeepsContracts,
       MachineKeepsContracts DEF SystemNext, SystemInv

-----------------------------------------------------------------------------
(* Every step of the system is one of the enclave, or leaves it alone      *)

\* The browser sends what it sealed, or nothing, in a STORE.
LEMMA OwnerKeepsEnclave ==
    ASSUME OffChainInv, OwnerStep PROVE [E!Next]_enclaveVars
<1>1. PICK a \in Accounts, p \in Policies :
        \/ \E o \in Openings, kind \in {"heartbeat", "timestamp"},
              c \in Ciphertexts \cup {EmptyCiphertext} : DeployPolicy(a, p, o, kind, c)
        \/ \E interval \in Intervals, demo \in BOOLEAN : ConfigureHeartbeat(p, a, interval, demo)
        \/ \E date \in 1..MaxTime : ConfigureTimestamp(p, date)
        \/ Heartbeat(a, p)
        \/ SimulateInactivity(a, p)
        \/ \E n \in 1..MaxAmount : Fund(a, p, n)
        \/ CancelPolicy(a, p)
        \/ \E m \in Machines : SendToEnclave(p, m)
    BY DEF OwnerStep
<1>2. CASE \E m \in Machines : SendToEnclave(p, m)
    BY <1>2 DEF SendToEnclave, E!Next, E!Addressed, OffChainInv
<1> QED
    BY <1>1, <1>2 DEF DeployPolicy, ConfigureHeartbeat, ConfigureTimestamp, Heartbeat,
        SimulateInactivity, Fund, CancelPolicy, offChainVars

\* An orchestrator sends an EVALUATE with the triggeredAt it has read.
LEMMA OrchestratorKeepsEnclave ==
    ASSUME IInv, OrchestratorStep PROVE [E!Next]_enclaveVars
<1>1. PICK k \in Orchestrators :
        \/ \E p \in Policies, m \in Machines : EvaluatePolicy(k, p, m)
        \/ Poll(k)
        \/ PollTimesOut(k)
        \/ ExecutePolicy(k)
        \/ ExecutionReverts(k)
    BY DEF OrchestratorStep
<1>2. CASE \E p \in Policies, m \in Machines : EvaluatePolicy(k, p, m)
    <2>1. PICK p \in Policies, m \in Machines :
            triggeredAt[p] # 0 /\ E!SendEvaluate(p, triggeredAt[p], m)
        BY <1>2 DEF EvaluatePolicy
    <2>2. triggeredAt[p] \in 1..MaxTime
        BY <2>1, BoundAssumption DEF IInv, TypeOK
    <2> QED
        BY <2>1, <2>2 DEF E!Next, E!Addressed
<1> QED
    BY <1>1, <1>2 DEF Poll, PollFinds, PollTimesOut, ExecutePolicy, ExecutionReverts

\* The machines' steps are those of Enclave, or the registry's.
LEMMA MachineKeepsEnclave ==
    ASSUME MachineStep PROVE [E!Next]_enclaveVars
BY DEF MachineStep, SetExtensionId, Deliver, FinishEvaluate, SigningFails, Restart,
    ChangeStatus, OffSystem, offChainVars, E!Next

\* All of it together: [SystemNext] implies the enclave's [Next].
LEMMA KeepsEnclave ==
    ASSUME SystemInv, [SystemNext]_systemVars PROVE [E!Next]_enclaveVars
<1>1. CASE \E p \in Policies : ArmPolicy(p) \/ PayNext(p)
    BY <1>1 DEF ArmPolicy, PayNext, OffSystem, offChainVars
<1>2. CASE TimePasses
    BY <1>2 DEF TimePasses, OffSystem, offChainVars
<1>3. CASE UNCHANGED systemVars
    BY <1>3 DEF systemVars, offChainVars
<1> QED
    BY <1>1, <1>2, <1>3, OwnerKeepsEnclave, OrchestratorKeepsEnclave, MachineKeepsEnclave
       DEF SystemNext, SystemInv

-----------------------------------------------------------------------------
(* The browser and the orchestrators                                       *)

\* An orchestrator only ever holds an answer to the question it had asked.
LEMMA OrchestratorHolds ==
    ASSUME IInv, OffChainInv, OrchestratorStep PROVE OffChainInv'
<1>1. PICK k \in Orchestrators :
        \/ \E p \in Policies, m \in Machines : EvaluatePolicy(k, p, m)
        \/ Poll(k)
        \/ PollTimesOut(k)
        \/ ExecutePolicy(k)
        \/ ExecutionReverts(k)
    BY DEF OrchestratorStep
<1>2. UNCHANGED ciphertext
    BY <1>1 DEF EvaluatePolicy, Poll, PollFinds, PollTimesOut, ExecutePolicy,
        ExecutionReverts, browserVars
<1>3. SUFFICES ASSUME NEW new, orchestrator' = [orchestrator EXCEPT ![k] = new]
               PROVE  /\ new.pc = "polling" => new.instruction.policy \in Policies
                      /\ new.pc = "holding" => new.policy \in Policies
    <2>1. \E new : orchestrator' = [orchestrator EXCEPT ![k] = new]
        BY <1>1 DEF EvaluatePolicy, Poll, PollFinds, PollTimesOut, ExecutePolicy,
            ExecutionReverts
    <2>2. PICK new : orchestrator' = [orchestrator EXCEPT ![k] = new]
        BY <2>1
    <2>3. /\ DOMAIN orchestrator' = Orchestrators
          /\ orchestrator'[k] = new
          /\ \A j \in Orchestrators \ {k} : orchestrator'[j] = orchestrator[j]
        BY <2>2 DEF OffChainInv
    <2>4. /\ new.pc = "polling" => new.instruction.policy \in Policies
          /\ new.pc = "holding" => new.policy \in Policies
        BY <1>3, <2>2
    <2> QED
        BY <1>2, <2>3, <2>4 DEF OffChainInv
<1>4. new = orchestrator'[k]
    BY <1>3 DEF OffChainInv
<1>5. CASE \E p \in Policies, m \in Machines : EvaluatePolicy(k, p, m)
    <2>1. PICK p \in Policies, m \in Machines : EvaluatePolicy(k, p, m)
        BY <1>5
    <2>2. new = Polling([op |-> "EVALUATE", policy |-> p, ciphertext |-> EmptyCiphertext,
                         triggeredAt |-> triggeredAt[p], machine |-> m])
        BY <1>4, <2>1 DEF EvaluatePolicy, OffChainInv
    <2> QED
        BY <2>2 DEF Polling
<1>6. CASE Poll(k)
    <2>1. PICK a \in answers :
            /\ orchestrator[k].pc = "polling"
            /\ a.instruction = orchestrator[k].instruction
            /\ orchestrator' = [orchestrator EXCEPT ![k] =
                   IF a.result.status = 1
                   THEN Holding(a.instruction.policy, a.result, a.instruction.machine)
                   ELSE Idle]
        BY <1>6 DEF Poll, PollFinds
    <2>2. \/ new = Idle
          \/ new = Holding(a.instruction.policy, a.result, a.instruction.machine)
        BY <1>4, <2>1 DEF OffChainInv
    <2>3. a.instruction.policy \in Policies
        BY <2>1 DEF OffChainInv
    <2> QED
        BY <2>2, <2>3 DEF Idle, Holding
<1>7. CASE PollTimesOut(k) \/ ExecutePolicy(k) \/ ExecutionReverts(k)
    <2>1. new = Idle
        BY <1>4, <1>7 DEF PollTimesOut, ExecutePolicy, ExecutionReverts, OffChainInv
    <2> QED
        BY <2>1 DEF Idle
<1> QED
    BY <1>1, <1>5, <1>6, <1>7

\* Nobody but the owner seals, and nobody but the orchestrators poll.
LEMMA OffChainKept ==
    ASSUME SystemInv, [SystemNext]_systemVars PROVE OffChainInv'
<1> USE DEF SystemInv
<1>1. CASE OwnerStep
    <2>1. UNCHANGED orchestrator
        BY <1>1 DEF OwnerStep, DeployPolicy, ConfigureHeartbeat, ConfigureTimestamp,
            Heartbeat, SimulateInactivity, Fund, CancelPolicy, SendToEnclave, offChainVars,
            orchestratorVars
    <2>2. \/ UNCHANGED ciphertext
          \/ \E p \in Policies, c \in Ciphertexts \cup {EmptyCiphertext} :
                 ciphertext' = [ciphertext EXCEPT ![p] = c]
        BY <1>1 DEF OwnerStep, DeployPolicy, ConfigureHeartbeat, ConfigureTimestamp,
            Heartbeat, SimulateInactivity, Fund, CancelPolicy, SendToEnclave, browserVars
    <2> QED
        BY <2>1, <2>2 DEF OffChainInv
<1>2. CASE OrchestratorStep
    BY <1>2, OrchestratorHolds
<1>3. CASE MachineStep
    <2>1. UNCHANGED <<orchestrator, ciphertext>>
        BY <1>3 DEF MachineStep, SetExtensionId, Deliver, FinishEvaluate, SigningFails,
            Restart, ChangeStatus, OffSystem, OnlyEnclave, offChainVars, orchestratorVars,
            browserVars
    <2> QED
        BY <2>1 DEF OffChainInv
<1>4. CASE (\E p \in Policies : ArmPolicy(p) \/ PayNext(p)) \/ TimePasses
    <2>1. UNCHANGED <<orchestrator, ciphertext>>
        BY <1>4 DEF ArmPolicy, PayNext, TimePasses, OffSystem, offChainVars,
            orchestratorVars, browserVars
    <2> QED
        BY <2>1 DEF OffChainInv
<1>5. CASE UNCHANGED systemVars
    BY <1>5 DEF systemVars, offChainVars, orchestratorVars, browserVars, OffChainInv
<1> QED
    BY <1>1, <1>2, <1>3, <1>4, <1>5 DEF SystemNext

-----------------------------------------------------------------------------
(* Where signatures come from, and where they go                           *)

\* A signature appears when a handler is done, and is over what it copied.
LEMMA SignatureAppears ==
    ASSUME SystemInv, [SystemNext]_systemVars,
           NEW s \in signed', s \notin signed
    PROVE  EP!HandedTo(s.signer, s.digest.policy, s.digest.opening)
<1>1. CASE \E h \in evaluating : FinishEvaluate(h)
    <2>1. PICK h \in evaluating : FinishEvaluate(h)
        BY <1>1
    <2>2. s = [signer |-> h.instruction.machine,
               digest |-> Digest(h.instruction.policy, h.config, h.instruction.triggeredAt)]
        BY <2>1 DEF FinishEvaluate, Sign
    <2>3. /\ s.signer = h.instruction.machine
          /\ s.digest.policy = h.instruction.policy
          /\ s.digest.opening = h.config
        BY <2>2 DEF Digest
    <2> QED
        BY <2>3, HandlerTyped
<1>2. CASE OwnerStep
    <2>1. UNCHANGED signed
        BY <1>2 DEF OwnerStep, DeployPolicy, ConfigureHeartbeat, ConfigureTimestamp,
            Heartbeat, SimulateInactivity, Fund, CancelPolicy, SendToEnclave, vars,
            Deploy, Deposit, Withdraw, Cancel
    <2> QED
        BY <2>1
<1>3. CASE OrchestratorStep
    <2>1. UNCHANGED signed
        BY <1>3 DEF OrchestratorStep, EvaluatePolicy, Poll, PollFinds, PollTimesOut,
            ExecutePolicy, ExecutionReverts, vars, Execute
    <2> QED
        BY <2>1
<1>4. CASE MachineStep /\ ~\E h \in evaluating : FinishEvaluate(h)
    <2>1. UNCHANGED signed
        BY <1>4 DEF MachineStep, SetExtensionId, Deliver, SigningFails, Restart,
            ChangeStatus, ChangeAttestation, vars
    <2> QED
        BY <2>1
<1>5. CASE \E p \in Policies : ArmPolicy(p) \/ PayNext(p)
    <2>1. UNCHANGED signed
        BY <1>5 DEF ArmPolicy, PayNext, Arm, Pay
    <2> QED
        BY <2>1
<1>6. CASE TimePasses \/ UNCHANGED systemVars
    <2>1. UNCHANGED signed
        BY <1>6 DEF TimePasses, Tick, systemVars, vars
    <2> QED
        BY <2>1
<1> QED
    BY <1>1, <1>2, <1>3, <1>4, <1>5, <1>6 DEF SystemNext

\* No step of the contracts takes a signature back, and execute is the only one
\* that brings a policy to Executed.
LEMMA SignatureUsed ==
    ASSUME IInv, [Next]_vars
    PROVE  /\ signed \subseteq signed'
           /\ \A p \in Policies : status'[p] = "Executed" =>
                  \/ status[p] = "Executed" /\ used'[p] = used[p]
                  \/ used'[p] \in signed
<1> DEFINE Kept == /\ signed \subseteq signed'
                   /\ used' = used
                   /\ \A p \in Policies : status'[p] = "Executed" => status[p] = "Executed"
<1>1. IInv => DOMAIN status = Policies /\ DOMAIN used = Policies
    BY DEF IInv, TypeOK
<1>2. CASE World
    <2>1. Kept
        BY <1>2 DEF World, Sign, ChangeAttestation, Tick, chainVars, historyVars
    <2> QED
        BY <2>1
<1>3. ASSUME NEW q \in Policies, PolicyCall(q)
      PROVE  Kept \/ \E o \in Openings, sig \in signed : Execute(q, o, sig)
    BY <1>1, <1>3 DEF PolicyCall, Deploy, Deposit, Withdraw, Cancel, Arm, Pay,
        DirectTransfer, chainVars, historyVars
<1>4. ASSUME NEW q \in Policies, NEW o \in Openings, NEW sig \in signed, Execute(q, o, sig)
      PROVE  /\ signed' = signed
             /\ \A p \in Policies : status'[p] = "Executed" =>
                    \/ status[p] = "Executed" /\ used'[p] = used[p]
                    \/ used'[p] \in signed
    BY <1>1, <1>4 DEF Execute
<1>5. CASE UNCHANGED vars
    BY <1>5 DEF vars
<1> QED
    BY <1>2, <1>3, <1>4, <1>5 DEF Next

\* Signatures, instructions and executions are all for good.
LEMMA ProvenanceKept ==
    ASSUME SystemInv, [SystemNext]_systemVars PROVE ProvenanceInv'
<1>1. signed \subseteq signed' /\ sent \subseteq sent'
    BY SignatureUsed, KeepsContracts, SentForGood, KeepsEnclave DEF SystemInv
<1>2. ASSUME NEW s \in signed'
      PROVE  EP!HandedTo(s.signer, s.digest.policy, s.digest.opening)'
    <2>1. EP!HandedTo(s.signer, s.digest.policy, s.digest.opening)
        BY SignatureAppears DEF SystemInv, ProvenanceInv
    <2> QED
        BY <1>1, <2>1 DEF EP!HandedTo
<1>3. \A p \in Policies : status'[p] = "Executed" => used'[p] \in signed'
    BY <1>1, SignatureUsed, KeepsContracts DEF SystemInv, ProvenanceInv
<1> QED
    BY <1>2, <1>3 DEF ProvenanceInv

-----------------------------------------------------------------------------
(* What was proved of the parts holds of the whole                         *)

\* Before anything has happened the invariant holds.
LEMMA SystemInitInv == SystemInit => SystemInv
<1>1. SystemInit => IInv
    BY InitInv DEF SystemInit
<1>2. SystemInit => EP!IInv
    BY EP!InitInv, EnclaveMeant, SameEnclave DEF SystemInit
<1>3. SystemInit => OffChainInv
    BY DEF SystemInit, OffChainInv, Idle
<1>4. SystemInit => ProvenanceInv
    BY DEF SystemInit, Init, ProvenanceInv
<1> QED
    BY <1>1, <1>2, <1>3, <1>4 DEF SystemInv

\* The contracts' part comes from ConfidentialPolicyProofs, the enclave's from
\* EnclaveProofs.
LEMMA SystemNextInv == SystemInv /\ [SystemNext]_systemVars => SystemInv'
<1> SUFFICES ASSUME SystemInv, [SystemNext]_systemVars PROVE SystemInv'
    OBVIOUS
<1>1. IInv'
    BY KeepsContracts, NextInv DEF SystemInv
<1>2. EP!IInv'
    BY KeepsEnclave, SameEnclave, EP!NextInv, EnclaveMeant DEF SystemInv
<1> QED
    BY <1>1, <1>2, OffChainKept, ProvenanceKept DEF SystemInv

\* The invariant of the composition: those of the contracts and the enclave,
\* and what ties a signature on chain to an instruction on chain.
THEOREM SystemInvariance == SystemSpec => []SystemInv
<1>1. SystemInit => SystemInv
    BY SystemInitInv
<1>2. SystemInv /\ [SystemNext]_systemVars => SystemInv'
    BY SystemNextInv
<1> QED
    BY <1>1, <1>2, PTL DEF SystemSpec

\* The whole system, with its triggers, browsers, orchestrators and machines,
\* runs the contracts only as ConfidentialPolicy lets them run: whatever was
\* shown there for an arbitrary trigger and arbitrary signers holds here.
THEOREM ImplementsPolicy == SystemSpec => Spec
<1>1. SystemInit => Init
    BY DEF SystemInit
<1>2. SystemInv /\ [SystemNext]_systemVars => [Next]_vars
    BY KeepsContracts
<1> QED
    BY <1>1, <1>2, SystemInvariance, PTL DEF SystemSpec, Spec

\* And it runs the enclave extension only as Enclave lets it run.
THEOREM ImplementsEnclave == SystemSpec => E!Spec
<1>1. SystemInit => E!Init
    BY DEF SystemInit
<1>2. SystemInv /\ [SystemNext]_systemVars => [E!Next]_(E!enclaveVars)
    BY KeepsEnclave DEF enclaveVars, E!enclaveVars
<1> QED
    BY <1>1, <1>2, SystemInvariance, PTL DEF SystemSpec, E!Spec

\* Every behaviour of the whole system is one of the escrow: released once, as
\* a whole, and only after it was locked (ConfidentialPolicy.sol:52-57).
THEOREM SystemIsAnEscrow == SystemSpec => KeepsThePromise
BY ImplementsPolicy, ImplementsEscrow

\* Whatever machine answers whichever orchestrator, an execution pays the split
\* that the owner committed to (ConfidentialPolicy.sol:43-46).
THEOREM SystemPaysTheCommittedSplit == SystemSpec => []CommittedSplit
BY ImplementsPolicy, PaysTheCommittedSplit

\* No execution reveals a secret that its machine was not handed: the shares
\* and the salt were sealed for the machine whose signature execute accepted
\* and were sent to it, on chain, by a STORE about this very policy
\* (InstructionSender.sol, extension.go processStore and processEvaluate).
THEOREM ExecutesOnlyWhatWasHandedOver == SystemSpec => []ExecutedWasHandedOver
<1>1. SystemInv => ExecutedWasHandedOver
    <2> SUFFICES ASSUME SystemInv, NEW p \in Policies, status[p] = "Executed"
                 PROVE  EP!HandedTo(used[p].signer, p, commitment[p])
        BY DEF ExecutedWasHandedOver
    <2>1. used[p] \in signed /\ used[p].digest = Digest(p, commitment[p], triggeredAt[p])
        BY DEF SystemInv, IInv, OwnSignature, ProvenanceInv
    <2>2. used[p].digest.policy = p /\ used[p].digest.opening = commitment[p]
        BY <2>1 DEF Digest
    <2>3. EP!HandedTo(used[p].signer, used[p].digest.policy, used[p].digest.opening)
        BY <2>1 DEF SystemInv, ProvenanceInv
    <2> QED
        BY <2>2, <2>3
<1> QED
    BY <1>1, SystemInvariance, PTL

-----------------------------------------------------------------------------
(* When a policy is armed                                                  *)

\* A heartbeat's deadline is an interval after the owner's last sign of life,
\* unless the owner has simulated inactivity since, which demo mode allows.
SilenceInv ==
    /\ now \in Nat
    /\ simulated \in [Policies -> BOOLEAN]
    /\ lastSeen \in [Policies -> Nat]
    /\ executeAfter \in [Policies -> Nat]
    /\ configs \in [Policies -> [owner : Accounts \cup {Nobody}, interval : Nat,
                                 deadline : Int, demoMode : BOOLEAN]]
    /\ \A p \in Policies :
           /\ simulated[p] => T!Configured(p) /\ configs[p].demoMode
           /\ T!Configured(p) /\ ~simulated[p] =>
                  configs[p].deadline = lastSeen[p] + configs[p].interval

\* No heartbeat is configured at the beginning.
LEMMA SilenceInit == SystemInit => SilenceInv
BY DEF SystemInit, Init, SilenceInv, T!TriggersInit, T!NoConfig, T!Configured

\* The triggers' own steps.
TriggerStep ==
    \E a \in Accounts, p \in Policies :
        \/ \E interval \in Intervals, demo \in BOOLEAN : ConfigureHeartbeat(p, a, interval, demo)
        \/ \E date \in 1..MaxTime : ConfigureTimestamp(p, date)
        \/ Heartbeat(a, p)
        \/ SimulateInactivity(a, p)

\* A step is one of a trigger, or leaves all triggers as they are.
LEMMA TriggerCases ==
    ASSUME [SystemNext]_systemVars
    PROVE  \/ TriggerStep
           \/ /\ UNCHANGED <<triggerVars, triggerHistory>>
              /\ UNCHANGED now \/ Tick
<1>1. CASE OwnerStep
    BY <1>1 DEF OwnerStep, TriggerStep, DeployPolicy, Fund, CancelPolicy, SendToEnclave,
        Deploy, Deposit, Withdraw, Cancel, vars
<1>2. CASE OrchestratorStep
    BY <1>2 DEF OrchestratorStep, EvaluatePolicy, Poll, PollFinds, PollTimesOut,
        ExecutePolicy, ExecutionReverts, Execute, vars
<1>3. CASE MachineStep
    BY <1>3 DEF MachineStep, SetExtensionId, Deliver, FinishEvaluate, SigningFails,
        Restart, ChangeStatus, OffSystem, OnlyEnclave, Sign, ChangeAttestation, vars
<1>4. CASE \E p \in Policies : ArmPolicy(p) \/ PayNext(p)
    BY <1>4 DEF ArmPolicy, PayNext, OffSystem, Arm, Pay
<1>5. CASE TimePasses
    BY <1>5 DEF TimePasses, OffSystem
<1>6. CASE UNCHANGED systemVars
    BY <1>6 DEF systemVars, vars
<1> QED
    BY <1>1, <1>2, <1>3, <1>4, <1>5, <1>6 DEF SystemNext

\* One case per step of the triggers.
LEMMA SilenceKept ==
    ASSUME SilenceInv, [SystemNext]_systemVars PROVE SilenceInv'
<1>1. CASE UNCHANGED <<triggerVars, triggerHistory>> /\ (UNCHANGED now \/ Tick)
    BY <1>1 DEF SilenceInv, T!Configured, Tick, triggerVars, triggerHistory
<1>2. ASSUME NEW a \in Accounts, NEW p \in Policies, NEW interval \in Intervals,
             NEW demo \in BOOLEAN, ConfigureHeartbeat(p, a, interval, demo)
      PROVE  SilenceInv'
    <2>1. /\ ~T!Configured(p)
          /\ configs' = [configs EXCEPT ![p] = [owner |-> a, interval |-> interval,
                             deadline |-> now + interval, demoMode |-> demo]]
          /\ lastSeen' = [lastSeen EXCEPT ![p] = now]
          /\ UNCHANGED <<executeAfter, now, simulated>>
        BY <1>2 DEF ConfigureHeartbeat, T!ConfigureHeartbeat, vars
    <2>2. interval \in Nat
        BY SystemAssumption
    <2> QED
        BY <2>1, <2>2 DEF SilenceInv, T!Configured
<1>3. ASSUME NEW p \in Policies, NEW date \in 1..MaxTime, ConfigureTimestamp(p, date)
      PROVE  SilenceInv'
    BY <1>3, BoundAssumption DEF ConfigureTimestamp, T!ConfigureTimestamp, SilenceInv,
        T!Configured, vars, triggerHistory
<1>4. ASSUME NEW a \in Accounts, NEW p \in Policies, Heartbeat(a, p)
      PROVE  SilenceInv'
    <2>1. /\ T!Configured(p)
          /\ configs' = [configs EXCEPT ![p].deadline = now + configs[p].interval]
          /\ lastSeen' = [lastSeen EXCEPT ![p] = now]
          /\ simulated' = [simulated EXCEPT ![p] = FALSE]
          /\ UNCHANGED <<executeAfter, now>>
        BY <1>4 DEF Heartbeat, T!Heartbeat, vars
    <2> QED
        BY <2>1 DEF SilenceInv, T!Configured
<1>5. ASSUME NEW a \in Accounts, NEW p \in Policies, SimulateInactivity(a, p)
      PROVE  SilenceInv'
    <2>1. /\ T!Configured(p)
          /\ configs[p].demoMode
          /\ configs' = [configs EXCEPT ![p].deadline = now - 1]
          /\ simulated' = [simulated EXCEPT ![p] = TRUE]
          /\ UNCHANGED <<executeAfter, now, lastSeen>>
        BY <1>5 DEF SimulateInactivity, T!SimulateInactivity, vars
    <2> QED
        BY <2>1 DEF SilenceInv, T!Configured
<1> QED
    BY <1>1, <1>2, <1>3, <1>4, <1>5, TriggerCases DEF TriggerStep

\* Only arm arms.
LEMMA ArmedByArm ==
    ASSUME IInv, [SystemNext]_systemVars, NEW p \in Policies,
           status[p] = "Active", status'[p] = "Triggered"
    PROVE  ArmPolicy(p)
<1>1. DOMAIN status = Policies
    BY DEF IInv, TypeOK
<1>2. CASE OwnerStep
    BY <1>1, <1>2 DEF OwnerStep, DeployPolicy, ConfigureHeartbeat, ConfigureTimestamp,
        Heartbeat, SimulateInactivity, Fund, CancelPolicy, SendToEnclave, vars, chainVars,
        Deploy, Deposit, Withdraw, Cancel
<1>3. CASE OrchestratorStep
    BY <1>1, <1>3 DEF OrchestratorStep, EvaluatePolicy, Poll, PollFinds, PollTimesOut,
        ExecutePolicy, ExecutionReverts, Execute, vars
<1>4. CASE MachineStep
    BY <1>4 DEF MachineStep, SetExtensionId, Deliver, FinishEvaluate, SigningFails,
        Restart, ChangeStatus, Sign, ChangeAttestation, chainVars, vars
<1>5. CASE \E q \in Policies : ArmPolicy(q) \/ PayNext(q)
    BY <1>1, <1>5 DEF ArmPolicy, PayNext, Arm, Pay, chainVars
<1>6. CASE TimePasses \/ UNCHANGED systemVars
    BY <1>6 DEF TimePasses, Tick, chainVars, systemVars, vars
<1> QED
    BY <1>2, <1>3, <1>4, <1>5, <1>6 DEF SystemNext

\* Nobody can arm a policy before its time (ManualHeartbeatTrigger.sol:79-80),
\* whatever the owner, strangers and the clock do in between.
THEOREM ArmsAfterSilenceOnly == SystemSpec => ArmedOnlyAfterSilence
<1>1. SystemInit => SilenceInv
    BY SilenceInit
<1>2. SilenceInv /\ [SystemNext]_systemVars => SilenceInv'
    BY SilenceKept
<1>3. SystemInv /\ SilenceInv /\ [SystemNext]_systemVars =>
        [\A p \in Policies : status[p] = "Active" /\ status'[p] = "Triggered" =>
             \/ /\ trigger[p] = "heartbeat"
                /\ \/ now > lastSeen[p] + configs[p].interval
                   \/ configs[p].demoMode /\ simulated[p]
             \/ /\ trigger[p] = "timestamp"
                /\ executeAfter[p] \in 1..(now - 1)]_systemVars
    <2> SUFFICES ASSUME SystemInv, SilenceInv, [SystemNext]_systemVars, NEW p \in Policies,
                        status[p] = "Active", status'[p] = "Triggered"
                 PROVE  \/ /\ trigger[p] = "heartbeat"
                           /\ \/ now > lastSeen[p] + configs[p].interval
                              \/ configs[p].demoMode /\ simulated[p]
                        \/ /\ trigger[p] = "timestamp"
                           /\ executeAfter[p] \in 1..(now - 1)
        OBVIOUS
    <2>1. Fires(p)
        BY ArmedByArm DEF SystemInv, ArmPolicy
    <2>2. CASE trigger[p] = "heartbeat" /\ T!HeartbeatCheck(p)
        BY <2>2 DEF T!HeartbeatCheck, SilenceInv
    <2>3. CASE trigger[p] = "timestamp" /\ T!TimestampCheck(p)
        BY <2>3 DEF T!TimestampCheck, SilenceInv
    <2> QED
        BY <2>1, <2>2, <2>3 DEF Fires
<1> QED
    BY <1>1, <1>2, <1>3, SystemInvariance, PTL DEF SystemSpec, ArmedOnlyAfterSilence
=============================================================================
