------------------------------- MODULE Enclave -------------------------------
(***************************************************************************)
(* The confidential half of Flare Studio: the InstructionSender contract,  *)
(* which sends STORE and EVALUATE instructions each to one random machine, *)
(* and the extension that runs in every machine and answers them.          *)
(*                                                                         *)
(* The extension serves requests in parallel; its lock protects a map, a   *)
(* counter and a name, and is not held while the node decrypts or signs.   *)
(* STORE touches the shared state once, so it is one step; EVALUATE reads  *)
(* the map, has its answer signed, and comes back for the counter.         *)
(*                                                                         *)
(* The relay between chain and machines (external) delivers an instruction *)
(* late, more than once or never.  Machines lose their memory when they    *)
(* restart.  An instruction is known by its content: one that is sent      *)
(* again has no result until it is delivered again.                        *)
(***************************************************************************)
EXTENDS ShareTables, FiniteSets

CONSTANTS Policies,
          ZeroPolicy,       \* the address 0
          Machines,
          WithChainId,      \* the machines whose CHAIN_ID is set
          Openings,         \* (shares, salt) pairs, not all of them valid
          ZeroAddress,
          NoOpening,
          Ciphertexts,      \* [sealedFor : machine, plain : opening or garbage]
          EmptyCiphertext,
          ArmingTimes,      \* the triggeredAt values callers send, 0 among them
          MaxInstructions   \* bound: how many different instructions are sent

ASSUME EnclaveAssumption ==
    /\ WithChainId \subseteq Machines
    /\ EmptyCiphertext \notin Ciphertexts
    /\ \A c \in Ciphertexts : c = [sealedFor |-> c.sealedFor, plain |-> c.plain]
    /\ ZeroPolicy \notin Policies
    /\ NoOpening \notin Openings
    /\ ArmingTimes \subseteq Nat
    /\ MaxInstructions \in Nat

VARIABLES
    extensionSet,     \* InstructionSender knows its extension id
    sent,             \* the instructions on chain
    undelivered,      \* those whose newest sending has not been delivered
    answers,          \* the result of the newest sending of each, if any
    policies,         \* what each machine holds for each policy
    evaluating,       \* the EVALUATE handlers between their two lock sections
    evaluated,        \* evaluationCount is not zero
    lastPolicy

enclaveVars == <<extensionSet, sent, undelivered, answers, policies, evaluating,
                 evaluated, lastPolicy>>
chainVars == <<extensionSet, sent>>
machineVars == <<policies, evaluating, evaluated, lastPolicy>>

Addressed == Policies \cup {ZeroPolicy}

NoDigest == [policy |-> ZeroPolicy, opening |-> NoOpening, triggeredAt |-> 0]

\* A result carries what it reveals and the digest that was signed.
Refused  == [status |-> 0, revealed |-> NoOpening, digest |-> NoDigest]
Stored   == [status |-> 1, revealed |-> NoOpening, digest |-> NoDigest]
Signed(opening, d) == [status |-> 1, revealed |-> opening, digest |-> d]

-----------------------------------------------------------------------------
(* InstructionSender                                                       *)

SetExtensionId ==
    /\ ~extensionSet
    /\ extensionSet' = TRUE
    /\ UNCHANGED <<sent, undelivered, answers, machineVars>>

\* getRandomTeeIds picks one machine; nothing ties it to the machine the
\* ciphertext was sealed for, or to the one that holds the policy.
Send(instruction) ==
    /\ extensionSet
    /\ instruction \in sent \/ Cardinality(sent) < MaxInstructions
    /\ sent' = sent \cup {instruction}
    /\ undelivered' = undelivered \cup {instruction}
    /\ answers' = {a \in answers : a.instruction # instruction}
    /\ UNCHANGED <<extensionSet, machineVars>>

SendStore(p, c, m) ==
    Send([op |-> "STORE", policy |-> p, ciphertext |-> c, triggeredAt |-> 0, machine |-> m])

SendEvaluate(p, time, m) ==
    Send([op |-> "EVALUATE", policy |-> p, ciphertext |-> EmptyCiphertext,
          triggeredAt |-> time, machine |-> m])

-----------------------------------------------------------------------------
(* The extension                                                           *)

ValidSharesOfAnySum(s) ==               \* mutant: the sum is not checked
    /\ Len(s.to) > 0
    /\ \A i \in 1..Len(s.to) : s.to[i] # ZeroAddress

\* validateShares
ValidShares(s) ==
    /\ Len(s.to) > 0
    /\ \A i \in 1..Len(s.to) : s.to[i] # ZeroAddress
    /\ TotalBps(s) = TOTAL_BPS

\* A STORE request that gets past every check of processStore: the node can
\* decrypt what was sealed for its own key, and finds a valid policy.
Acceptable(i) ==
    /\ i.policy # ZeroPolicy
    /\ i.ciphertext # EmptyCiphertext
    /\ i.ciphertext.sealedFor = i.machine
    /\ i.ciphertext.plain \in Openings
    /\ ValidShares(i.ciphertext.plain.shares)

Deliver(i) == undelivered' = undelivered \ {i}

Answer(i, a) ==
    answers' = {x \in answers : x.instruction # i} \cup {[instruction |-> i, result |-> a]}

\* processStore
StoreRecordedFirst(i) ==                \* mutant: lastPolicy before the checks
    /\ i.op = "STORE"
    /\ Deliver(i)
    /\ lastPolicy' = [lastPolicy EXCEPT ![i.machine] = i.policy]
    /\ IF Acceptable(i)
       THEN /\ policies' = [policies EXCEPT ![i.machine][i.policy] = i.ciphertext.plain]
            /\ Answer(i, Stored)
       ELSE /\ Answer(i, Refused)
            /\ UNCHANGED policies
    /\ UNCHANGED <<chainVars, evaluating, evaluated>>

Store(i) ==
    /\ i.op = "STORE"
    /\ Deliver(i)
    /\ IF Acceptable(i)
       THEN /\ policies' = [policies EXCEPT ![i.machine][i.policy] = i.ciphertext.plain]
            /\ lastPolicy' = [lastPolicy EXCEPT ![i.machine] = i.policy]
            /\ Answer(i, Stored)
       ELSE /\ Answer(i, Refused)
            /\ UNCHANGED <<policies, lastPolicy>>
    /\ UNCHANGED <<chainVars, evaluating, evaluated>>

\* The checks of processEvaluate, and the handler that goes on to sign a
\* configuration it has copied under the read lock.
Answerable(i) ==
    /\ i.machine \in WithChainId
    /\ i.triggeredAt # 0
    /\ policies[i.machine][i.policy] # NoOpening

SignLater(i, config) ==
    /\ i.op = "EVALUATE"
    /\ Deliver(i)
    /\ evaluating' = evaluating \cup {[instruction |-> i, config |-> config]}
    /\ UNCHANGED <<chainVars, answers, policies, evaluated, lastPolicy>>

BeginEvaluateLast(i) ==                 \* mutant: the newest policy's config
    /\ Answerable(i)
    /\ SignLater(i, policies[i.machine][lastPolicy[i.machine]])

BeginEvaluateUnchecked(i) ==            \* mutant: the policy need not be held
    /\ i.machine \in WithChainId
    /\ i.triggeredAt # 0
    /\ SignLater(i, policies[i.machine][i.policy])

BeginEvaluate(i) ==
    /\ Answerable(i)
    /\ SignLater(i, policies[i.machine][i.policy])

RefuseEvaluate(i) ==
    /\ i.op = "EVALUATE"
    /\ ~Answerable(i)
    /\ Deliver(i)
    /\ Answer(i, Refused)
    /\ UNCHANGED <<chainVars, machineVars>>

\* The node has signed, or has failed to: the rest of processEvaluate.
Leave(h) ==
    /\ evaluating' = evaluating \ {h}
    /\ UNCHANGED <<chainVars, undelivered, policies>>

Count(i) ==
    /\ evaluated' = [evaluated EXCEPT ![i.machine] = TRUE]
    /\ lastPolicy' = [lastPolicy EXCEPT ![i.machine] = i.policy]

SignedDigest(h) ==
    [policy |-> h.instruction.policy, opening |-> h.config,
     triggeredAt |-> h.instruction.triggeredAt]

FinishRereading(h) ==                   \* mutant: answers with what is held by now
    /\ Leave(h)
    /\ Count(h.instruction)
    /\ Answer(h.instruction,
              Signed(policies[h.instruction.machine][h.instruction.policy], SignedDigest(h)))

FinishEvaluate(h) ==
    /\ Leave(h)
    /\ Count(h.instruction)
    /\ Answer(h.instruction, Signed(h.config, SignedDigest(h)))

SigningFails(h) ==
    /\ Leave(h)
    /\ Answer(h.instruction, Refused)
    /\ UNCHANGED <<evaluated, lastPolicy>>

\* A restart loses the memory and the requests that were being served.
Restart(m) ==
    /\ policies' = [policies EXCEPT ![m] = [p \in Addressed |-> NoOpening]]
    /\ evaluated' = [evaluated EXCEPT ![m] = FALSE]
    /\ lastPolicy' = [lastPolicy EXCEPT ![m] = ZeroPolicy]
    /\ evaluating' = {h \in evaluating : h.instruction.machine # m}
    /\ UNCHANGED <<chainVars, undelivered, answers>>

-----------------------------------------------------------------------------
Init ==
    /\ extensionSet = FALSE
    /\ sent = {}
    /\ undelivered = {}
    /\ answers = {}
    /\ policies = [m \in Machines |-> [p \in Addressed |-> NoOpening]]
    /\ evaluating = {}
    /\ evaluated = [m \in Machines |-> FALSE]
    /\ lastPolicy = [m \in Machines |-> ZeroPolicy]

\* Every delivery of an instruction starts a handler of its own.
Handle(i) == Store(i) \/ BeginEvaluate(i) \/ RefuseEvaluate(i)

Next ==
    \/ SetExtensionId
    \/ \E p \in Addressed, m \in Machines :
           \/ \E c \in Ciphertexts \cup {EmptyCiphertext} : SendStore(p, c, m)
           \/ \E time \in ArmingTimes : SendEvaluate(p, time, m)
    \/ \E i \in sent : Handle(i)
    \/ \E h \in evaluating : FinishEvaluate(h) \/ SigningFails(h)
    \/ \E m \in Machines : Restart(m)

Spec == Init /\ [][Next]_enclaveVars

-----------------------------------------------------------------------------
(* What must hold                                                          *)

Instructions == [op : {"STORE", "EVALUATE"}, policy : Addressed,
                 ciphertext : Ciphertexts \cup {EmptyCiphertext},
                 triggeredAt : ArmingTimes \cup {0}, machine : Machines]

Digests == [policy : Addressed, opening : Openings \cup {NoOpening}, triggeredAt : Nat]

Results == [status : {0, 1}, revealed : Openings \cup {NoOpening}, digest : Digests]

\* Type invariant; only a configuration that is held is ever signed.
TypeOK ==
    /\ extensionSet \in BOOLEAN
    /\ sent \subseteq Instructions
    /\ undelivered \subseteq sent
    /\ answers \subseteq [instruction : sent, result : Results]
    /\ policies \in [Machines -> [Addressed -> Openings \cup {NoOpening}]]
    /\ evaluating \subseteq [instruction : sent, config : Openings]
    /\ evaluated \in [Machines -> BOOLEAN]
    /\ lastPolicy \in [Machines -> Addressed]

\* The results that carry a signature.
Signings == {a \in answers : a.result.digest # NoDigest}

\* An answer to EVALUATE is consistent in itself: the shares and the salt it
\* reveals are those the signature is over, even when another STORE replaced
\* the policy while the node was signing, and the signature is for the policy
\* and the arming that were asked about; otherwise execute would reject it.
AnswerMatchesSignature ==
    \A a \in Signings :
        /\ a.result.digest.opening = a.result.revealed
        /\ a.result.digest.policy = a.instruction.policy
        /\ a.result.digest.triggeredAt = a.instruction.triggeredAt

\* Whatever is signed for a policy was handed to that very machine, sealed for
\* its key, by a STORE about that very policy: no policy's secret answers for
\* another, in whatever order instructions arrive.
SignedWasStored ==
    \A a \in Signings :
        \E i \in sent :
            /\ i.op = "STORE"
            /\ i.policy = a.result.digest.policy
            /\ i.machine = a.instruction.machine
            /\ i.ciphertext = [sealedFor |-> i.machine, plain |-> a.result.digest.opening]

\* The enclave signs nothing that execute would refuse because of its shares:
\* their sum is exact, there is at least one, no recipient is the zero address
\* ("enforces what ConfidentialPolicy.execute will enforce anyway",
\* extension.go:214-217).
SignsOnlyExecutable ==
    \A a \in Signings :
        LET s == a.result.digest.opening.shares
        IN  /\ a.result.digest.policy # ZeroPolicy
            /\ a.result.digest.triggeredAt > 0
            /\ Len(s.to) > 0
            /\ TotalBps(s) = TOTAL_BPS
            /\ \A i \in 1..Len(s.to) : s.to[i] # ZeroAddress

\* What GET /state reports is about this life of the machine: the last policy
\* is one that it holds, and it has evaluated nothing if it holds nothing.
\* Neither a refused STORE nor a handler that outlives a restart shows up.
StateReportConsistent ==
    \A m \in Machines :
        /\ lastPolicy[m] # ZeroPolicy => policies[m][lastPolicy[m]] # NoOpening
        /\ evaluated[m] => lastPolicy[m] # ZeroPolicy
=============================================================================
