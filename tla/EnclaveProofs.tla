---------------------------- MODULE EnclaveProofs ----------------------------
(***************************************************************************)
(* Theorems about the enclave extension, for any machines, policies and    *)
(* ciphertexts, and any number of instructions that are lost, repeated or  *)
(* overtake each other.                                                    *)
(***************************************************************************)
EXTENDS Enclave, TLAPS

\* Machine m was sent the configuration o of p, sealed for it, and it is valid.
HandedTo(m, p, o) ==
    /\ p # ZeroPolicy
    /\ ValidShares(o.shares)
    /\ \E i \in sent : /\ i.op = "STORE"
                       /\ i.policy = p
                       /\ i.machine = m
                       /\ i.ciphertext = [sealedFor |-> m, plain |-> o]

Holds(m, p) == policies[m][p] # NoOpening

HeldInv ==
    \A m \in Machines, p \in Addressed : Holds(m, p) => HandedTo(m, p, policies[m][p])

\* A handler has copied what was handed to its machine; the machine may hold
\* something newer for the policy by now, but it does hold something.
HandlerInv ==
    \A h \in evaluating :
        /\ h.instruction.triggeredAt # 0
        /\ HandedTo(h.instruction.machine, h.instruction.policy, h.config)
        /\ Holds(h.instruction.machine, h.instruction.policy)

AnswerInv ==
    \A a \in Signings :
        /\ a.result.digest = [policy      |-> a.instruction.policy,
                              opening     |-> a.result.revealed,
                              triggeredAt |-> a.instruction.triggeredAt]
        /\ a.instruction.triggeredAt # 0
        /\ HandedTo(a.instruction.machine, a.instruction.policy, a.result.revealed)

IInv == TypeOK /\ HeldInv /\ HandlerInv /\ AnswerInv /\ StateReportConsistent

-----------------------------------------------------------------------------
(* What all steps have in common                                           *)

\* What was handed to a machine stays so: instructions are never taken back.
LEMMA HandedForGood ==
    ASSUME NEW m, NEW p, NEW o, HandedTo(m, p, o), sent \subseteq sent'
    PROVE  HandedTo(m, p, o)'
BY DEF HandedTo

\* The answers that carry no signature.
LEMMA RefusedTyped ==
    /\ Refused \in Results /\ Refused.digest = NoDigest
    /\ Stored \in Results /\ Stored.digest = NoDigest
BY DEF Refused, Stored, Results, Digests, NoDigest, Addressed

\* An answer without a signature leaves all the others what they were.
LEMMA UnsignedAnswer ==
    ASSUME IInv, NEW i \in sent, NEW r \in {Refused, Stored}, Answer(i, r), UNCHANGED sent
    PROVE  /\ answers' \subseteq [instruction : sent', result : Results]
           /\ AnswerInv'
<1>1. answers' = {x \in answers : x.instruction # i} \cup {[instruction |-> i, result |-> r]}
    BY DEF Answer
<1>2. answers \subseteq [instruction : sent, result : Results]
    BY DEF IInv, TypeOK
<1>3. r \in Results /\ r.digest = NoDigest
    BY RefusedTyped
<1>4. answers' \subseteq [instruction : sent', result : Results]
    BY <1>1, <1>2, <1>3
<1>5. Signings' \subseteq Signings
    BY <1>1, <1>3 DEF Signings
<1>6. AnswerInv'
    BY <1>5, HandedForGood DEF AnswerInv, IInv
<1> QED
    BY <1>4, <1>6

-----------------------------------------------------------------------------
(* InstructionSender                                                       *)

\* A sending adds an instruction and forgets the answer to its last sending.
LEMMA SendInv ==
    ASSUME IInv, NEW i \in Instructions, Send(i)
    PROVE  IInv'
<1>1. /\ sent' = sent \cup {i}
      /\ undelivered' = undelivered \cup {i}
      /\ answers' \subseteq answers
      /\ UNCHANGED <<extensionSet, policies, evaluating, evaluated, lastPolicy>>
    BY DEF Send, machineVars
<1>2. TypeOK'
    <2>1. answers' \subseteq [instruction : sent', result : Results]
        BY <1>1 DEF IInv, TypeOK
    <2>2. evaluating' \subseteq [instruction : sent', config : Openings]
        BY <1>1 DEF IInv, TypeOK
    <2> QED
        BY <1>1, <2>1, <2>2 DEF IInv, TypeOK
<1>3. HeldInv'
    BY <1>1, HandedForGood DEF IInv, HeldInv, Holds
<1>4. HandlerInv'
    BY <1>1, HandedForGood DEF IInv, HandlerInv, Holds
<1>5. AnswerInv'
    BY <1>1, HandedForGood DEF IInv, AnswerInv, Signings
<1>6. StateReportConsistent'
    BY <1>1 DEF IInv, StateReportConsistent
<1> QED
    BY <1>2, <1>3, <1>4, <1>5, <1>6 DEF IInv

\* What the contract sends is an instruction.
LEMMA SentTyped ==
    ASSUME NEW p \in Addressed, NEW m \in Machines
    PROVE  /\ \A c \in Ciphertexts \cup {EmptyCiphertext} :
                  [op |-> "STORE", policy |-> p, ciphertext |-> c, triggeredAt |-> 0,
                   machine |-> m] \in Instructions
           /\ \A time \in ArmingTimes :
                  [op |-> "EVALUATE", policy |-> p, ciphertext |-> EmptyCiphertext,
                   triggeredAt |-> time, machine |-> m] \in Instructions
BY DEF Instructions

-----------------------------------------------------------------------------
(* The extension                                                           *)

\* processStore: what enters the map was handed over and is valid.
LEMMA StoreInv ==
    ASSUME IInv, NEW i \in sent, Store(i)
    PROVE  IInv'
<1> DEFINE m == i.machine
           p == i.policy
           o == i.ciphertext.plain
<1>1. i \in Instructions /\ m \in Machines /\ p \in Addressed
    BY DEF IInv, TypeOK, Instructions
<1>2. UNCHANGED <<sent, extensionSet, evaluating, evaluated>> /\ undelivered' \subseteq undelivered
    BY DEF Store, Deliver, chainVars
<1>3. CASE Acceptable(i)
    <2>1. /\ policies' = [policies EXCEPT ![m][p] = o]
          /\ lastPolicy' = [lastPolicy EXCEPT ![m] = p]
          /\ Answer(i, Stored)
        BY <1>3 DEF Store
    <2>2. o \in Openings /\ o # NoOpening /\ p # ZeroPolicy
        BY <1>3, EnclaveAssumption DEF Acceptable
    <2>3. HandedTo(m, p, o)
        <3>1. i.ciphertext \in Ciphertexts
            BY <1>1, <1>3 DEF Acceptable, Instructions
        <3>2. i.ciphertext = [sealedFor |-> m, plain |-> o]
            BY <3>1, <1>3, EnclaveAssumption DEF Acceptable
        <3> QED
            BY <1>3, <3>2, <2>2 DEF Acceptable, HandedTo, Store
    <2>4. /\ policies' \in [Machines -> [Addressed -> Openings \cup {NoOpening}]]
          /\ policies'[m][p] = o
          /\ \A mm \in Machines, pp \in Addressed :
                 mm # m \/ pp # p => policies'[mm][pp] = policies[mm][pp]
        BY <1>1, <2>1, <2>2 DEF IInv, TypeOK
    <2>5. /\ lastPolicy' \in [Machines -> Addressed]
          /\ lastPolicy'[m] = p
          /\ \A mm \in Machines : mm # m => lastPolicy'[mm] = lastPolicy[mm]
        BY <1>1, <2>1 DEF IInv, TypeOK
    <2>6. answers' \subseteq [instruction : sent', result : Results] /\ AnswerInv'
        BY <1>2, <2>1, UnsignedAnswer
    <2>7. TypeOK'
        BY <1>2, <2>4, <2>5, <2>6 DEF IInv, TypeOK
    <2>8. \A mm \in Machines, pp \in Addressed : Holds(mm, pp) => Holds(mm, pp)'
        BY <2>2, <2>4 DEF Holds
    <2>9. HeldInv'
        <3> SUFFICES ASSUME NEW mm \in Machines, NEW pp \in Addressed, Holds(mm, pp)'
                     PROVE  HandedTo(mm, pp, policies[mm][pp])'
            BY DEF HeldInv
        <3>1. CASE mm = m /\ pp = p
            BY <1>2, <2>3, <2>4, <3>1, HandedForGood
        <3>2. CASE mm # m \/ pp # p
            <4>1. policies'[mm][pp] = policies[mm][pp]
                BY <2>4, <3>2
            <4>2. HandedTo(mm, pp, policies[mm][pp])
                BY <4>1 DEF IInv, HeldInv, Holds
            <4> QED
                BY <1>2, <4>1, <4>2 DEF HandedTo
        <3> QED
            BY <3>1, <3>2
    <2>10. HandlerInv'
        <3> SUFFICES ASSUME NEW h \in evaluating
                     PROVE  /\ h.instruction.triggeredAt # 0
                            /\ HandedTo(h.instruction.machine, h.instruction.policy, h.config)'
                            /\ Holds(h.instruction.machine, h.instruction.policy)'
            BY <1>2 DEF HandlerInv
        <3>1. h.instruction.machine \in Machines /\ h.instruction.policy \in Addressed
            BY DEF IInv, TypeOK, Instructions
        <3> QED
            BY <1>2, <2>8, <3>1, HandedForGood DEF IInv, HandlerInv
    <2>11. StateReportConsistent'
        BY <1>2, <2>2, <2>4, <2>5, <2>8 DEF IInv, TypeOK, StateReportConsistent, Holds
    <2> QED
        BY <2>6, <2>7, <2>9, <2>10, <2>11 DEF IInv
<1>4. CASE ~Acceptable(i)
    <2>1. Answer(i, Refused) /\ UNCHANGED <<policies, lastPolicy>>
        BY <1>4 DEF Store
    <2>2. answers' \subseteq [instruction : sent', result : Results] /\ AnswerInv'
        BY <1>2, <2>1, UnsignedAnswer
    <2>3. TypeOK'
        BY <1>2, <2>1, <2>2 DEF IInv, TypeOK
    <2>4. HeldInv' /\ HandlerInv' /\ StateReportConsistent'
        BY <1>2, <2>1 DEF IInv, HeldInv, HandlerInv, StateReportConsistent, Holds, HandedTo
    <2> QED
        BY <2>2, <2>3, <2>4 DEF IInv
<1> QED
    BY <1>3, <1>4

\* processEvaluate up to the end of its read lock: the copy is what is held.
LEMMA BeginEvaluateInv ==
    ASSUME IInv, NEW i \in sent, BeginEvaluate(i)
    PROVE  IInv'
<1> DEFINE config == policies[i.machine][i.policy]
<1>1. i.machine \in Machines /\ i.policy \in Addressed
    BY DEF IInv, TypeOK, Instructions
<1>2. /\ evaluating' = evaluating \cup {[instruction |-> i, config |-> config]}
      /\ undelivered' \subseteq undelivered
      /\ UNCHANGED <<extensionSet, sent, answers, policies, evaluated, lastPolicy>>
    BY DEF BeginEvaluate, SignLater, Deliver, chainVars
<1>3. i.triggeredAt # 0 /\ config # NoOpening
    BY DEF BeginEvaluate, Answerable
<1>4. config \in Openings
    BY <1>1, <1>3 DEF IInv, TypeOK
<1>5. HandedTo(i.machine, i.policy, config) /\ Holds(i.machine, i.policy)
    BY <1>1, <1>3 DEF IInv, HeldInv, Holds
<1>6. TypeOK'
    BY <1>2, <1>4 DEF IInv, TypeOK
<1>7. HandlerInv'
    BY <1>2, <1>3, <1>5 DEF IInv, HandlerInv, Holds, HandedTo
<1>8. HeldInv' /\ StateReportConsistent'
    BY <1>2 DEF IInv, HeldInv, StateReportConsistent, Holds, HandedTo
<1>9. AnswerInv'
    BY <1>2 DEF IInv, AnswerInv, Signings, HandedTo
<1> QED
    BY <1>6, <1>7, <1>8, <1>9 DEF IInv

\* processEvaluate when it answers with an error at once.
LEMMA RefuseEvaluateInv ==
    ASSUME IInv, NEW i \in sent, RefuseEvaluate(i)
    PROVE  IInv'
<1>1. /\ Answer(i, Refused)
      /\ undelivered' \subseteq undelivered
      /\ UNCHANGED <<extensionSet, sent, policies, evaluating, evaluated, lastPolicy>>
    BY DEF RefuseEvaluate, Deliver, chainVars, machineVars
<1>2. answers' \subseteq [instruction : sent', result : Results] /\ AnswerInv'
    BY <1>1, UnsignedAnswer
<1>3. TypeOK'
    BY <1>1, <1>2 DEF IInv, TypeOK
<1>4. HeldInv' /\ HandlerInv' /\ StateReportConsistent'
    BY <1>1 DEF IInv, HeldInv, HandlerInv, StateReportConsistent, Holds, HandedTo
<1> QED
    BY <1>2, <1>3, <1>4 DEF IInv

\* processEvaluate when the node does not sign.
LEMMA SigningFailsInv ==
    ASSUME IInv, NEW h \in evaluating, SigningFails(h)
    PROVE  IInv'
<1>1. /\ Answer(h.instruction, Refused)
      /\ evaluating' \subseteq evaluating
      /\ UNCHANGED <<extensionSet, sent, undelivered, policies, evaluated, lastPolicy>>
    BY DEF SigningFails, Leave, chainVars
<1>2. h.instruction \in sent
    BY DEF IInv, TypeOK
<1>3. answers' \subseteq [instruction : sent', result : Results] /\ AnswerInv'
    BY <1>1, <1>2, UnsignedAnswer
<1>4. TypeOK'
    BY <1>1, <1>3 DEF IInv, TypeOK
<1>5. HeldInv' /\ HandlerInv' /\ StateReportConsistent'
    BY <1>1 DEF IInv, HeldInv, HandlerInv, StateReportConsistent, Holds, HandedTo
<1> QED
    BY <1>3, <1>4, <1>5 DEF IInv

\* The answer reveals the very configuration that the handler copied, and the
\* report names a policy that the machine still holds.
LEMMA FinishEvaluateInv ==
    ASSUME IInv, NEW h \in evaluating, FinishEvaluate(h)
    PROVE  IInv'
<1> DEFINE i == h.instruction
           r == Signed(h.config, SignedDigest(h))
           a == [instruction |-> i, result |-> r]
<1>1. /\ evaluating' \subseteq evaluating
      /\ evaluated' = [evaluated EXCEPT ![i.machine] = TRUE]
      /\ lastPolicy' = [lastPolicy EXCEPT ![i.machine] = i.policy]
      /\ answers' = {x \in answers : x.instruction # i} \cup {a}
      /\ UNCHANGED <<extensionSet, sent, undelivered, policies>>
    BY DEF FinishEvaluate, Leave, Count, Answer, chainVars
<1>2. /\ i \in sent
      /\ h.config \in Openings
      /\ i.machine \in Machines
      /\ i.policy \in Addressed
      /\ i.triggeredAt \in Nat
    BY EnclaveAssumption DEF IInv, TypeOK, Instructions
<1>3. /\ i.triggeredAt # 0
      /\ HandedTo(i.machine, i.policy, h.config)
      /\ Holds(i.machine, i.policy)
    BY DEF IInv, HandlerInv
<1>4. /\ r.revealed = h.config
      /\ r.digest = [policy |-> i.policy, opening |-> h.config, triggeredAt |-> i.triggeredAt]
      /\ r \in Results
    BY <1>2 DEF Signed, SignedDigest, Results, Digests
<1>5. TypeOK'
    <2>1. answers' \subseteq [instruction : sent', result : Results]
        BY <1>1, <1>2, <1>4 DEF IInv, TypeOK
    <2> QED
        BY <1>1, <1>2, <2>1 DEF IInv, TypeOK
<1>6. HeldInv' /\ HandlerInv'
    BY <1>1 DEF IInv, HeldInv, HandlerInv, Holds, HandedTo
<1>7. AnswerInv'
    <2> SUFFICES ASSUME NEW x \in Signings'
                 PROVE  /\ x.result.digest = [policy      |-> x.instruction.policy,
                                              opening     |-> x.result.revealed,
                                              triggeredAt |-> x.instruction.triggeredAt]
                        /\ x.instruction.triggeredAt # 0
                        /\ HandedTo(x.instruction.machine, x.instruction.policy,
                                    x.result.revealed)'
        BY DEF AnswerInv
    <2>1. CASE x \in Signings
        BY <1>1, <2>1, HandedForGood DEF IInv, AnswerInv
    <2>2. CASE x = a
        BY <1>1, <1>3, <1>4, <2>2, HandedForGood
    <2> QED
        BY <1>1, <2>1, <2>2 DEF Signings
<1>8. StateReportConsistent'
    <2>1. i.policy # ZeroPolicy
        BY <1>3 DEF HandedTo
    <2> QED
        BY <1>1, <1>2, <1>3, <2>1 DEF IInv, TypeOK, StateReportConsistent, Holds
<1> QED
    BY <1>5, <1>6, <1>7, <1>8 DEF IInv

\* A restart empties one machine and drops its handlers, and no other's.
LEMMA RestartInv ==
    ASSUME IInv, NEW m \in Machines, Restart(m)
    PROVE  IInv'
<1>1. /\ policies' = [policies EXCEPT ![m] = [p \in Addressed |-> NoOpening]]
      /\ evaluated' = [evaluated EXCEPT ![m] = FALSE]
      /\ lastPolicy' = [lastPolicy EXCEPT ![m] = ZeroPolicy]
      /\ evaluating' = {h \in evaluating : h.instruction.machine # m}
      /\ UNCHANGED <<extensionSet, sent, undelivered, answers>>
    BY DEF Restart, chainVars
<1>2. TypeOK'
    <2>1. ZeroPolicy \in Addressed
        BY DEF Addressed
    <2> QED
        BY <1>1, <2>1 DEF IInv, TypeOK
<1>3. /\ \A p \in Addressed : policies'[m][p] = NoOpening
      /\ \A mm \in Machines : mm # m => policies'[mm] = policies[mm]
    BY <1>1 DEF IInv, TypeOK
<1>4. HeldInv'
    BY <1>1, <1>3 DEF IInv, HeldInv, Holds, HandedTo
<1>5. HandlerInv'
    <2> SUFFICES ASSUME NEW h \in evaluating, h.instruction.machine # m
                 PROVE  /\ h.instruction.triggeredAt # 0
                        /\ HandedTo(h.instruction.machine, h.instruction.policy, h.config)'
                        /\ Holds(h.instruction.machine, h.instruction.policy)'
        BY <1>1 DEF HandlerInv
    <2>1. h.instruction.machine \in Machines
        BY DEF IInv, TypeOK, Instructions
    <2> QED
        BY <1>1, <1>3, <2>1, HandedForGood DEF IInv, HandlerInv, Holds
<1>6. AnswerInv'
    BY <1>1 DEF IInv, AnswerInv, Signings, HandedTo
<1>7. StateReportConsistent'
    BY <1>1, <1>3 DEF IInv, TypeOK, StateReportConsistent
<1> QED
    BY <1>2, <1>4, <1>5, <1>6, <1>7 DEF IInv

-----------------------------------------------------------------------------
(* The invariant                                                           *)

\* The invariant holds at the start.
LEMMA InitInv == Init => IInv
<1> SUFFICES ASSUME Init
             PROVE  IInv
    OBVIOUS
<1>1. TypeOK /\ StateReportConsistent
    BY DEF Init, TypeOK, StateReportConsistent, Addressed
<1>2. HeldInv /\ HandlerInv /\ AnswerInv
    BY DEF Init, HeldInv, HandlerInv, AnswerInv, Signings, Holds
<1> QED
    BY <1>1, <1>2 DEF IInv

\* Every step keeps it, one case for each action.
LEMMA NextInv == IInv /\ [Next]_enclaveVars => IInv'
<1> SUFFICES ASSUME IInv, [Next]_enclaveVars
             PROVE  IInv'
    OBVIOUS
<1>1. CASE SetExtensionId
    BY <1>1 DEF SetExtensionId, machineVars, IInv, TypeOK, HeldInv, HandlerInv, AnswerInv,
                StateReportConsistent, Signings, Holds, HandedTo
<1>2. ASSUME NEW p \in Addressed, NEW m \in Machines,
             \/ \E c \in Ciphertexts \cup {EmptyCiphertext} : SendStore(p, c, m)
             \/ \E time \in ArmingTimes : SendEvaluate(p, time, m)
      PROVE  IInv'
    BY <1>2, SentTyped, SendInv DEF SendStore, SendEvaluate
<1>3. ASSUME NEW i \in sent, Handle(i)
      PROVE  IInv'
    BY <1>3, StoreInv, BeginEvaluateInv, RefuseEvaluateInv DEF Handle
<1>4. ASSUME NEW h \in evaluating, FinishEvaluate(h) \/ SigningFails(h)
      PROVE  IInv'
    BY <1>4, FinishEvaluateInv, SigningFailsInv
<1>5. ASSUME NEW m \in Machines, Restart(m)
      PROVE  IInv'
    BY <1>5, RestartInv
<1>6. CASE UNCHANGED enclaveVars
    BY <1>6 DEF enclaveVars, IInv, TypeOK, HeldInv, HandlerInv, AnswerInv,
                StateReportConsistent, Signings, Holds, HandedTo
<1> QED
    BY <1>1, <1>2, <1>3, <1>4, <1>5, <1>6 DEF Next

\* What the extension signs for, it was asked about; and it had been handed it.
LEMMA SigningFields ==
    ASSUME IInv, NEW a \in Signings
    PROVE  /\ a.result.digest.policy = a.instruction.policy
           /\ a.result.digest.opening = a.result.revealed
           /\ a.result.digest.triggeredAt = a.instruction.triggeredAt
           /\ a.instruction.triggeredAt # 0
           /\ HandedTo(a.instruction.machine, a.instruction.policy, a.result.revealed)
<1>1. /\ a.result.digest = [policy      |-> a.instruction.policy,
                            opening     |-> a.result.revealed,
                            triggeredAt |-> a.instruction.triggeredAt]
      /\ a.instruction.triggeredAt # 0
      /\ HandedTo(a.instruction.machine, a.instruction.policy, a.result.revealed)
    BY Zenon DEF IInv, AnswerInv
<1> DEFINE d == a.result.digest
           p == a.instruction.policy
           o == a.result.revealed
           t == a.instruction.triggeredAt
<1>2. d = [policy |-> p, opening |-> o, triggeredAt |-> t]
    BY <1>1
<1> HIDE DEF d, p, o, t
<1>3. d.policy = p /\ d.opening = o /\ d.triggeredAt = t
    BY <1>2
<1> QED
    BY <1>1, <1>3 DEF d, p, o, t

\* The invariant holds in every state of the contract and the machines.
THEOREM Invariance == Spec => []IInv
BY InitInv, NextInv, PTL DEF Spec

\* Every instruction, answer and handler has its form; what a handler is
\* signing is a configuration (processEvaluate copies it out of the map only
\* after the lookup has succeeded).
THEOREM TypeCorrect == Spec => []TypeOK
<1>1. IInv => TypeOK
    BY DEF IInv
<1> QED
    BY <1>1, Invariance, PTL

\* An answer to EVALUATE reveals the very shares and salt its signature is
\* over, for the policy and the arming that were asked about, however many
\* STOREs ran while the node was signing (processEvaluate's copy).
THEOREM AnswersAreConsistent == Spec => []AnswerMatchesSignature
<1>1. ASSUME IInv
      PROVE  AnswerMatchesSignature
    BY <1>1, SigningFields DEF AnswerMatchesSignature
<1> QED
    BY <1>1, Invariance, PTL

\* What a machine signs for a policy was handed to that machine in a STORE
\* about that policy, sealed for its key (processStore is the only writer of
\* the map, and it decrypts before it writes).
THEOREM SignsWhatItWasHanded == Spec => []SignedWasStored
<1>1. ASSUME IInv
      PROVE  SignedWasStored
    <2> SUFFICES ASSUME NEW a \in Signings
                 PROVE  \E i \in sent :
                            /\ i.op = "STORE"
                            /\ i.policy = a.result.digest.policy
                            /\ i.machine = a.instruction.machine
                            /\ i.ciphertext = [sealedFor |-> i.machine,
                                               plain |-> a.result.digest.opening]
        BY DEF SignedWasStored
    <2>1. PICK i \in sent : /\ i.op = "STORE"
                            /\ i.policy = a.instruction.policy
                            /\ i.machine = a.instruction.machine
                            /\ i.ciphertext = [sealedFor |-> a.instruction.machine,
                                               plain |-> a.result.revealed]
        BY <1>1, SigningFields, Zenon DEF HandedTo
    <2> QED
        BY <1>1, <2>1, SigningFields
<1> QED
    BY <1>1, Invariance, PTL

\* The extension signs nothing that ConfidentialPolicy.execute would refuse
\* because of its shares or its time (validateShares runs on every STORE, and
\* an EVALUATE of the time 0 is refused).
THEOREM SignsWhatExecuteAccepts == Spec => []SignsOnlyExecutable
<1>1. ASSUME IInv
      PROVE  SignsOnlyExecutable
    <2> SUFFICES ASSUME NEW a \in Signings
                 PROVE  LET s == a.result.digest.opening.shares
                        IN  /\ a.result.digest.policy # ZeroPolicy
                            /\ a.result.digest.triggeredAt > 0
                            /\ Len(s.to) > 0
                            /\ TotalBps(s) = TOTAL_BPS
                            /\ \A i \in 1..Len(s.to) : s.to[i] # ZeroAddress
        BY DEF SignsOnlyExecutable
    <2>1. /\ a.result.digest.policy = a.instruction.policy
          /\ a.result.digest.opening = a.result.revealed
          /\ a.result.digest.triggeredAt = a.instruction.triggeredAt
          /\ a.instruction.triggeredAt # 0
          /\ HandedTo(a.instruction.machine, a.instruction.policy, a.result.revealed)
        BY <1>1, SigningFields
    <2>2. a.result.digest.triggeredAt \in Nat
        BY <1>1 DEF IInv, TypeOK, Signings, Results, Digests
    <2> QED
        BY <2>1, <2>2 DEF HandedTo, ValidShares
<1> QED
    BY <1>1, Invariance, PTL

\* GET /state speaks of this life of the machine: the policy it names last is
\* held, and no handler that was signing when the machine restarted is counted
\* (the map, the counter, the name and the handlers die with the process).
THEOREM ReportsThisLife == Spec => []StateReportConsistent
<1>1. IInv => StateReportConsistent
    BY DEF IInv
<1> QED
    BY <1>1, Invariance, PTL
=============================================================================
