-------------------------- MODULE FdcTriggerProofs --------------------------
(***************************************************************************)
(* Theorems about the nonexistence trigger, for any policies, intervals,   *)
(* starts and amounts, any payments, and clocks that drift arbitrarily.    *)
(***************************************************************************)
EXTENDS FdcNonexistenceTrigger, TLAPS

\* What is known of a configuration that names an owner.
LEMMA ConfiguredTyped ==
    ASSUME TypeOK, NEW p \in Policies, Configured(p)
    PROVE  /\ configs[p] \in Configs
           /\ configs[p].interval \in Nat \ {0}
           /\ configs[p].start \in Nat
           /\ configs[p].minimumAmount \in Nat
<1>1. configs[p] \in Configs \/ configs[p] = NoConfig
    BY DEF TypeOK
<1>2. configs[p] # NoConfig
    BY DEF Configured, NoConfig
<1> QED
    BY <1>1, <1>2, TriggerAssumption DEF Configs, ConfigsWith

-----------------------------------------------------------------------------
(* Types                                                                   *)

\* Every step of the program and of the two chains keeps the types.
LEMMA TypeOKNext == TypeOK /\ [Next]_fdcVars => TypeOK'
<1> SUFFICES ASSUME TypeOK, [Next]_fdcVars
             PROVE  TypeOK'
    OBVIOUS
<1>1. ASSUME NEW p \in Policies, NEW c \in ConfigsWith(Intervals \cup {0}), Configure(p, c)
      PROVE  TypeOK'
    <2>1. c \in Configs
        BY <1>1 DEF Configure, Configs, ConfigsWith
    <2> QED
        BY <1>1, <2>1 DEF Configure, TypeOK
<1>2. ASSUME NEW pay \in Payments, Pay(pay)
      PROVE  TypeOK'
    BY <1>2 DEF Pay, TypeOK
<1>3. CASE Tick \/ SourceTick
    BY <1>3, TriggerAssumption DEF Tick, SourceTick, TypeOK, Times
<1>4. CASE UNCHANGED fdcVars
    BY <1>4 DEF fdcVars, TypeOK
<1> QED
    BY <1>1, <1>2, <1>3, <1>4 DEF Next

\* Times and configurations are what the program can have; in particular check
\* and currentDeadline never divide by zero (configure's IntervalTooShort).
THEOREM TypeCorrect == Spec => []TypeOK
<1>1. Init => TypeOK
    BY TriggerAssumption DEF Init, TypeOK, Times
<1> QED
    BY <1>1, TypeOKNext, PTL DEF Spec

-----------------------------------------------------------------------------
(* Boundaries                                                              *)

\* A time on a boundary is the end of some interval of the schedule.
LEMMA BoundaryIsDeadline ==
    ASSUME NEW start \in Nat, NEW interval \in Nat \ {0}, NEW time \in Nat,
           time > start, (time - start) % interval = 0
    PROVE  \E n \in 1..time : time = start + n * interval
<1> DEFINE n == (time - start) \div interval
<1>1. time - start \in Nat
    OBVIOUS
<1>2. n \in Nat /\ time - start = n * interval
    BY <1>1
<1>3. n # 0
    BY <1>2
<1> HIDE DEF n
<1>4. n * interval >= n
    BY <1>2
<1>5. n \in 1..time /\ time = start + n * interval
    BY <1>2, <1>3, <1>4
<1> QED
    BY <1>5

\* The end of the interval that a time lies in.
LEMMA NextBoundary ==
    ASSUME NEW start \in Nat, NEW interval \in Nat \ {0}, NEW time \in Nat, time >= start
    PROVE  LET end == start + ((time - start) \div interval + 1) * interval
           IN  /\ end > start /\ (end - start) % interval = 0
               /\ end > time /\ end - interval <= time
<1> DEFINE n == (time - start) \div interval
           r == (time - start) % interval
<1>1. /\ n \in Nat /\ r \in 0..(interval - 1)
      /\ time - start = n * interval + r
    OBVIOUS
<1> HIDE DEF n, r
<1>2. (n + 1) * interval = n * interval + interval
    BY <1>1
<1>3. n * interval \in Nat
    BY <1>1
<1>4. ((n + 1) * interval) % interval = 0
    BY <1>1
<1> QED
    BY <1>1, <1>2, <1>3, <1>4 DEF n

-----------------------------------------------------------------------------
(* What fires the trigger                                                  *)

\* check accepts a proof only about a whole interval of the policy's own
\* schedule, and the proof is about payments to that policy from anybody.
LEMMA CheckedInterval ==
    ASSUME TypeOK, NEW p \in Policies, NEW pr \in Proofs, Check(p, pr)
    PROVE  /\ Silent(p, pr.deadline, pr.amount)
           /\ pr.deadline <= now
           /\ pr.deadline \in Times
           /\ \E n \in 1..pr.deadline :
                  pr.deadline = configs[p].start + n * configs[p].interval
<1>1. /\ configs[p].start \in Nat /\ configs[p].interval \in Nat \ {0}
      /\ pr.deadline \in Nat /\ pr.minimalBlockTimestamp \in Nat
      /\ pr.deadline \in Times
    BY ConfiguredTyped, TriggerAssumption DEF Check, Proofs, Times
<1>2. \E n \in 1..pr.deadline : pr.deadline = configs[p].start + n * configs[p].interval
    BY <1>1, BoundaryIsDeadline DEF Check, OnBoundary
<1>3. Silent(p, pr.deadline, pr.amount)
    <2> SUFFICES ASSUME NEW pay \in payments,
                        pay.target = configs[p].target, pay.amount >= pr.amount
                 PROVE  pay.time \notin (pr.deadline - configs[p].interval)..pr.deadline
        BY DEF Silent
    <2>1. pay.time \notin pr.minimalBlockTimestamp..pr.deadline
        BY DEF Check, Verified
    <2>2. pr.minimalBlockTimestamp <= pr.deadline - configs[p].interval
        BY DEF Check
    <2> QED
        BY <1>1, <2>1, <2>2
<1> QED
    BY <1>1, <1>2, <1>3 DEF Check

\* Whatever attestation check is shown, it says yes only after an interval of
\* this policy's schedule in which nothing of the amount asked about was paid
\* to it (checks 1 to 7 of check).
THEOREM FiresOnSilenceAlone == Spec => []FiresOnlyOnSilence
<1>1. ASSUME TypeOK
      PROVE  FiresOnlyOnSilence
    <2> SUFFICES ASSUME NEW p \in Policies, NEW pr \in Proofs, Check(p, pr)
                 PROVE  \E n \in 1..MaxTime :
                            LET deadline == configs[p].start + n * configs[p].interval
                            IN  deadline <= now /\ Silent(p, deadline, pr.amount)
        BY DEF FiresOnlyOnSilence
    <2>1. PICK n \in 1..pr.deadline :
                   pr.deadline = configs[p].start + n * configs[p].interval
        BY <1>1, CheckedInterval
    <2>2. /\ pr.deadline \in Times /\ pr.deadline <= now
          /\ Silent(p, pr.deadline, pr.amount)
        BY <1>1, CheckedInterval
    <2>3. n \in 1..MaxTime
        BY <2>2, TriggerAssumption DEF Times
    <2> QED
        BY <2>1, <2>2, <2>3
<1> QED
    BY <1>1, TypeCorrect, PTL

\* Whenever an interval went by without a sufficient payment, and the source
\* chain is past it, there is an attestation that check accepts: its seven
\* conditions do not contradict each other, whatever the schedule.
THEOREM SilenceCanBeProved == Spec => []SilenceIsProvable
<1>1. ASSUME TypeOK
      PROVE  SilenceIsProvable
    <2> SUFFICES ASSUME NEW p \in Policies, NEW deadline \in Times,
                        Configured(p), OnBoundary(p, deadline), deadline <= now,
                        deadline < sourceNow,
                        Silent(p, deadline, configs[p].minimumAmount)
                 PROVE  \E pr \in Proofs : Check(p, pr)
        BY DEF SilenceIsProvable
    <2> DEFINE pr == [attestationType       |-> "ReferencedPaymentNonexistence",
                      target                |-> configs[p].target,
                      amount                |-> configs[p].minimumAmount,
                      checkSourceAddresses  |-> FALSE,
                      deadline              |-> deadline,
                      minimalBlockTimestamp |-> deadline - configs[p].interval]
    <2>1. /\ configs[p] \in Configs /\ configs[p].minimumAmount \in Nat
          /\ configs[p].start \in Nat /\ configs[p].interval \in Nat \ {0}
        BY <1>1, ConfiguredTyped
    <2>2. PICK n \in 1..deadline : deadline = configs[p].start + n * configs[p].interval
        BY <2>1, BoundaryIsDeadline, TriggerAssumption DEF OnBoundary, Times
    <2>3. n * configs[p].interval >= configs[p].interval
        BY <2>1, <2>2 DEF Times
    <2>4. deadline - configs[p].interval \in Times
        BY <2>1, <2>2, <2>3, TriggerAssumption DEF Times
    <2>5. pr \in Proofs
        BY <2>1, <2>4 DEF Proofs, Configs, ConfigsWith
    <2>6. Verified(pr)
        BY <2>1 DEF Verified, Silent
    <2>7. Check(p, pr)
        BY <2>1, <2>6, TriggerAssumption DEF Check, Times, OnBoundary
    <2> QED
        BY <2>5, <2>7
<1> QED
    BY <1>1, TypeCorrect, PTL

\* Multiples of the interval are ordered like their factors.
LEMMA EarlierMultiple ==
    ASSUME NEW m \in Nat, NEW n \in Nat, NEW interval \in Nat \ {0},
           n * interval < (m + 1) * interval
    PROVE  n * interval <= m * interval
<1>1. CASE n <= m
    BY <1>1
<1>2. CASE n >= m + 1
    <2>1. PICK k \in Nat : n = (m + 1) + k
        BY <1>2
    <2>2. n * interval = (m + 1) * interval + k * interval
        BY <2>1
    <2>3. k * interval \in Nat /\ (m + 1) * interval \in Nat
        OBVIOUS
    <2> QED
        BY <2>2, <2>3
<1> QED
    BY <1>1, <1>2

\* What currentDeadline returns is a boundary after now, and the boundaries before
\* it are not after now.
LEMMA ShownDeadline ==
    ASSUME TypeOK, NEW p \in Policies, Configured(p)
    PROVE  /\ OnBoundary(p, CurrentDeadline(p))
           /\ CurrentDeadline(p) \in Nat
           /\ CurrentDeadline(p) > now
           /\ \A deadline \in Times :
                  OnBoundary(p, deadline) /\ deadline < CurrentDeadline(p) => deadline <= now
<1> DEFINE start == configs[p].start
           interval == configs[p].interval
<1>1. start \in Nat /\ interval \in Nat \ {0} /\ now \in Nat
    BY ConfiguredTyped, TriggerAssumption DEF TypeOK, Times
<1>2. ASSUME NEW deadline \in Times, OnBoundary(p, deadline)
      PROVE  \E n \in Nat \ {0} : deadline = start + n * interval
    <2>1. deadline \in Nat
        BY TriggerAssumption DEF Times
    <2>2. deadline > start /\ (deadline - start) % interval = 0
        BY <1>2 DEF OnBoundary
    <2> HIDE DEF start, interval
    <2>3. PICK n \in 1..deadline : deadline = start + n * interval
        BY <1>1, <2>1, <2>2, BoundaryIsDeadline
    <2> QED
        BY <2>3
<1>3. CASE now <= start
    <2>1. CurrentDeadline(p) = start + interval
        BY <1>3 DEF CurrentDeadline
    <2>2. ASSUME NEW deadline \in Times, OnBoundary(p, deadline)
          PROVE  deadline >= start + interval
        <3>1. PICK n \in Nat \ {0} : deadline = start + n * interval
            BY <1>2, <2>2
        <3>2. n * interval >= interval
            BY <1>1
        <3> QED
            BY <1>1, <3>1, <3>2
    <2> QED
        BY <1>1, <1>3, <2>1, <2>2, TriggerAssumption DEF OnBoundary, Times
<1>4. CASE now > start
    <2> DEFINE passed == (now - start) \div interval
               end == start + (passed + 1) * interval
    <2>1. CurrentDeadline(p) = end
        BY <1>1, <1>4 DEF CurrentDeadline
    <2>2. /\ end > start /\ (end - start) % interval = 0
          /\ end > now
          /\ passed \in Nat
          /\ start + passed * interval <= now
        <3> HIDE DEF start, interval
        <3>1. now >= start
            BY <1>1, <1>4
        <3>2. end > start /\ (end - start) % interval = 0 /\ end > now
            BY <1>1, <3>1, NextBoundary
        <3> QED
            BY <1>1, <3>1, <3>2
    <2>3. end \in Nat
        <3> HIDE DEF start, interval, passed
        <3> QED
            BY <1>1, <2>2
    <2>4. ASSUME NEW deadline \in Times, OnBoundary(p, deadline), deadline < end
          PROVE  deadline <= now
        <3>1. PICK n \in Nat \ {0} : deadline = start + n * interval
            BY <1>2, <2>4
        <3> HIDE DEF start, interval, passed
        <3>2. n * interval \in Nat /\ (passed + 1) * interval \in Nat /\ passed * interval \in Nat
            BY <1>1, <2>2
        <3>3. n * interval < (passed + 1) * interval
            BY <1>1, <2>4, <3>1, <3>2
        <3>4. n * interval <= passed * interval
            BY <1>1, <2>2, <3>3, EarlierMultiple
        <3> QED
            BY <1>1, <2>2, <3>1, <3>2, <3>4
    <2> HIDE DEF end
    <2> QED
        BY <2>1, <2>2, <2>3, <2>4 DEF OnBoundary
<1> QED
    BY <1>1, <1>3, <1>4

\* The deadline shown is the first one that check cannot be asked about yet (the
\* division and the "+ 1" of currentDeadline against the "deadline >
\* block.timestamp" of check).
THEOREM ShowsTheFirstOpenDeadline == Spec => []DeadlineNotYetProvable
<1>1. ASSUME TypeOK
      PROVE  DeadlineNotYetProvable
    <2> SUFFICES ASSUME NEW p \in Policies, Configured(p)
                 PROVE  /\ OnBoundary(p, CurrentDeadline(p))
                        /\ \A pr \in Proofs : Check(p, pr) => pr.deadline < CurrentDeadline(p)
                        /\ \A deadline \in Times :
                               OnBoundary(p, deadline) /\ deadline < CurrentDeadline(p)
                                   => deadline <= now
        BY DEF DeadlineNotYetProvable
    <2>1. ASSUME NEW pr \in Proofs, Check(p, pr)
          PROVE  pr.deadline <= now /\ pr.deadline \in Nat
        BY <2>1, TriggerAssumption DEF Check, Proofs, Times
    <2>2. now \in Nat
        BY <1>1, TriggerAssumption DEF TypeOK, Times
    <2> QED
        BY <1>1, <2>1, <2>2, ShownDeadline
<1> QED
    BY <1>1, TypeCorrect, PTL

\* At the very end of an interval the deadline shown is the end of the next one,
\* not the one "at or after now" of the comment (FdcNonexistenceTrigger.sol:167).
THEOREM LeavesOutTheBoundaryAtNow ==
    Spec => [](\A p \in Policies : Configured(p) /\ OnBoundary(p, now) =>
                   CurrentDeadline(p) = now + configs[p].interval)
<1>1. ASSUME TypeOK
      PROVE  \A p \in Policies : Configured(p) /\ OnBoundary(p, now) =>
                 CurrentDeadline(p) = now + configs[p].interval
    <2> SUFFICES ASSUME NEW p \in Policies, Configured(p), OnBoundary(p, now)
                 PROVE  CurrentDeadline(p) = now + configs[p].interval
        OBVIOUS
    <2> DEFINE start == configs[p].start
               interval == configs[p].interval
               passed == (now - start) \div interval
    <2>1. start \in Nat /\ interval \in Nat \ {0} /\ now \in Nat
        BY <1>1, ConfiguredTyped, TriggerAssumption DEF TypeOK, Times
    <2>2. now > start /\ (now - start) % interval = 0
        BY DEF OnBoundary
    <2>3. CurrentDeadline(p) = start + (passed + 1) * interval
        BY <2>1, <2>2 DEF CurrentDeadline
    <2> HIDE DEF start, interval
    <2>4. now - start = passed * interval /\ passed \in Nat
        BY <2>1, <2>2
    <2> HIDE DEF passed
    <2>5. (passed + 1) * interval = passed * interval + interval
        BY <2>1, <2>4
    <2> QED
        BY <2>1, <2>3, <2>4, <2>5 DEF interval
<1> QED
    BY <1>1, TypeCorrect, PTL

-----------------------------------------------------------------------------
(* Nothing takes a proof back                                              *)

\* A payment that is made now is later than every deadline that FDC attests.
LEMMA AttestedForGood ==
    ASSUME TypeOK, NEW pr \in Proofs, Verified(pr), [Next]_fdcVars
    PROVE  Verified(pr)'
<1>1. pr.deadline \in Nat /\ sourceNow \in Nat
    BY TriggerAssumption DEF TypeOK, Proofs, Times
<1>2. ASSUME NEW pay \in Payments, Pay(pay)
      PROVE  Verified(pr)'
    BY <1>1, <1>2 DEF Pay, Verified
<1>3. CASE UNCHANGED payments
    <2>1. sourceNow' >= sourceNow
        BY <1>1 DEF Next, Configure, Pay, Tick, SourceTick, fdcVars
    <2>2. sourceNow' \in Nat
        BY TypeOKNext, TriggerAssumption DEF TypeOK, Times
    <2> QED
        BY <1>1, <1>3, <2>1, <2>2 DEF Verified
<1>4. \/ \E pay \in Payments : Pay(pay)
      \/ UNCHANGED payments
    BY DEF Next, Configure, Tick, SourceTick, fdcVars
<1> QED
    BY <1>2, <1>3, <1>4

\* What check accepts once it accepts ever after: payments come too late, the
\* configuration is final (AlreadyConfigured), and time only helps.
THEOREM FiredForGood == Spec => FiresForGood
<1>1. TypeOK /\ [Next]_fdcVars
        => [\A p \in Policies, pr \in Proofs : Check(p, pr) => Check(p, pr)']_fdcVars
    <2> SUFFICES ASSUME TypeOK, [Next]_fdcVars,
                        NEW p \in Policies, NEW pr \in Proofs, Check(p, pr)
                 PROVE  Check(p, pr)'
        OBVIOUS
    <2>1. configs'[p] = configs[p]
        BY DEF Check, Configured, Next, Configure, Pay, Tick, SourceTick, fdcVars, TypeOK
    <2>2. now \in Nat /\ now' \in Nat /\ now' >= now
        BY TriggerAssumption
        DEF TypeOK, Times, Next, Configure, Pay, Tick, SourceTick, fdcVars
    <2>3. Verified(pr)'
        BY AttestedForGood DEF Check
    <2>4. pr.deadline \in Nat
        BY TriggerAssumption DEF Proofs, Times
    <2> QED
        BY <2>1, <2>2, <2>3, <2>4 DEF Check, Configured, OnBoundary
<1> QED
    BY <1>1, TypeCorrect, PTL DEF Spec, FiresForGood
=============================================================================
