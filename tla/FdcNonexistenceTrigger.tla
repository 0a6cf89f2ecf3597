----------------------- MODULE FdcNonexistenceTrigger -----------------------
(***************************************************************************)
(* The trigger that fires when Flare's Data Connector attests that the     *)
(* owner's payment did not arrive.  Two chains with a clock each: Flare,   *)
(* where the trigger is configured and checked, and the source chain,      *)
(* where anybody may pay anything at any time.                             *)
(*                                                                         *)
(* A target stands for the source chain, the destination and the payment   *)
(* reference together: the trigger compares all three for equality and     *)
(* does nothing else with them.                                            *)
(***************************************************************************)
EXTENDS Integers, FiniteSets

CONSTANTS Policies,
          Owners,         \* who a configuration may name, NoOwner among them
          NoOwner,        \* address(0)
          Targets,
          NoTarget,       \* the target of a policy without a configuration
          Amounts,        \* what is paid, asked about and required
          Intervals,
          Starts,         \* where a configuration may start its clock
          MaxTime,        \* bound: the last timestamp of either chain
          MaxPayments     \* bound: how many payments are ever made

ASSUME TriggerAssumption ==
    /\ NoOwner \in Owners
    /\ Amounts \subseteq Nat
    /\ Intervals \subseteq Nat \ {0}
    /\ Starts \subseteq Nat
    /\ MaxTime \in Nat
    /\ MaxPayments \in Nat

VARIABLES
    now,          \* block.timestamp on Flare
    sourceNow,    \* the timestamp of the newest block of the source chain
    configs,      \* the configuration of each policy
    payments      \* what was paid on the source chain, and when

fdcVars == <<now, sourceNow, configs, payments>>

Times == 0..MaxTime

ConfigsWith(intervals) == [owner : Owners, target : Targets, minimumAmount : Amounts,
                           interval : intervals, start : Starts]
Configs == ConfigsWith(Intervals)

Payments == [target : Targets, amount : Amounts, time : Times]

Proofs == [attestationType : {"ReferencedPaymentNonexistence", "Payment"},
           target : Targets,
           amount : Amounts,
           checkSourceAddresses : BOOLEAN,
           deadline : Times,
           minimalBlockTimestamp : Times]

-----------------------------------------------------------------------------
(* The data connector (external)                                           *)

\* What Flare attests is true of the source chain.  An attestation about
\* nonexistence needs a block after the deadline, and speaks of the payments
\* of at least "amount" between the request's first block and the deadline;
\* one that is restricted to chosen senders can always be had.
Verified(pr) ==
    pr.attestationType = "ReferencedPaymentNonexistence" =>
        /\ sourceNow > pr.deadline
        /\ pr.checkSourceAddresses \/
           \A pay \in payments :
               pay.target = pr.target /\ pay.amount >= pr.amount =>
                   pay.time \notin pr.minimalBlockTimestamp..pr.deadline

-----------------------------------------------------------------------------
(* The trigger                                                             *)

Configured(p) == configs[p].owner # NoOwner

OnBoundary(p, time) ==
    /\ time > configs[p].start
    /\ (time - configs[p].start) % configs[p].interval = 0

CheckAnyWindow(p, pr) ==                \* mutant: the window may be shorter
    /\ Configured(p)
    /\ Verified(pr)
    /\ pr.attestationType = "ReferencedPaymentNonexistence"
    /\ pr.target = configs[p].target
    /\ pr.amount >= configs[p].minimumAmount
    /\ ~pr.checkSourceAddresses
    /\ pr.deadline <= now
    /\ OnBoundary(p, pr.deadline)

CheckAfterDeadline(p, pr) ==            \* mutant: refuses the exact window
    /\ CheckAnyWindow(p, pr)
    /\ pr.minimalBlockTimestamp < pr.deadline - configs[p].interval

\* check answers true; in every other case it reverts.
Check(p, pr) ==
    /\ Configured(p)
    /\ Verified(pr)
    /\ pr.attestationType = "ReferencedPaymentNonexistence"
    /\ pr.target = configs[p].target
    /\ pr.amount >= configs[p].minimumAmount
    /\ ~pr.checkSourceAddresses
    /\ pr.deadline <= now
    /\ OnBoundary(p, pr.deadline)
    /\ pr.minimalBlockTimestamp <= pr.deadline - configs[p].interval

BoundaryAtOrAfterNow(p) ==              \* mutant: the boundary at or after now
    LET passed == (now - configs[p].start) \div configs[p].interval
        last == configs[p].start + passed * configs[p].interval
    IN  IF now <= configs[p].start
        THEN configs[p].start + configs[p].interval
        ELSE IF last = now THEN last ELSE last + configs[p].interval

\* currentDeadline, the time the user interface tells the owner to pay by.
CurrentDeadline(p) ==
    IF now <= configs[p].start
    THEN configs[p].start + configs[p].interval
    ELSE configs[p].start + ((now - configs[p].start) \div configs[p].interval + 1)
                                * configs[p].interval

ConfigureAgain(p, c) ==                 \* mutant: no AlreadyConfigured
    /\ c.interval # 0
    /\ configs' = [configs EXCEPT ![p] = c]
    /\ UNCHANGED <<now, sourceNow, payments>>

ConfigureAnyInterval(p, c) ==           \* mutant: no IntervalTooShort
    /\ ~Configured(p)
    /\ configs' = [configs EXCEPT ![p] = c]
    /\ UNCHANGED <<now, sourceNow, payments>>

\* Anyone may configure a policy, until a configuration names an owner.
Configure(p, c) ==
    /\ ~Configured(p)
    /\ c.interval # 0
    /\ configs' = [configs EXCEPT ![p] = c]
    /\ UNCHANGED <<now, sourceNow, payments>>

-----------------------------------------------------------------------------
(* The world                                                               *)

Pay(pay) ==
    /\ Cardinality(payments) < MaxPayments
    /\ pay.time = sourceNow
    /\ payments' = payments \cup {pay}
    /\ UNCHANGED <<now, sourceNow, configs>>

Tick ==
    /\ now < MaxTime
    /\ now' = now + 1
    /\ UNCHANGED <<sourceNow, configs, payments>>

SourceTick ==
    /\ sourceNow < MaxTime
    /\ sourceNow' = sourceNow + 1
    /\ UNCHANGED <<now, configs, payments>>

NoConfig == [owner |-> NoOwner, target |-> NoTarget, minimumAmount |-> 0,
             interval |-> 0, start |-> 0]

Init ==
    /\ now = 0
    /\ sourceNow = 0
    /\ configs = [p \in Policies |-> NoConfig]
    /\ payments = {}

Next ==
    \/ \E p \in Policies, c \in ConfigsWith(Intervals \cup {0}) : Configure(p, c)
    \/ \E pay \in Payments : Pay(pay)
    \/ Tick
    \/ SourceTick

Spec == Init /\ [][Next]_fdcVars

-----------------------------------------------------------------------------
(* What must hold                                                          *)

\* Type invariant; no configuration has a zero interval, by which check and
\* currentDeadline divide.
TypeOK ==
    /\ now \in Times
    /\ sourceNow \in Times
    /\ configs \in [Policies -> Configs \cup {NoConfig}]
    /\ payments \subseteq Payments

\* No payment of at least "amount" counts for p in the interval that ends at
\* the deadline.
Silent(p, deadline, amount) ==
    \A pay \in payments :
        pay.target = configs[p].target /\ pay.amount >= amount =>
            pay.time \notin (deadline - configs[p].interval)..deadline

\* Whatever proof the trigger is shown, it says yes only if one whole interval
\* of this policy's own schedule is over in which nothing of the amount asked
\* about was paid to it: not a quiet hour, not another policy's silence, not
\* the silence of senders nobody uses ("Dropping any one of them lets a proof
\* that is perfectly valid in itself fire a policy it has nothing to do with",
\* FdcNonexistenceTrigger.sol:88-91).
FiresOnlyOnSilence ==
    \A p \in Policies, pr \in Proofs : Check(p, pr) =>
        \E n \in 1..MaxTime :
            LET deadline == configs[p].start + n * configs[p].interval
            IN  deadline <= now /\ Silent(p, deadline, pr.amount)

\* The checks do not shut out the honest proof: whenever an interval passed
\* without a sufficient payment, on both chains, there is an attestation that
\* fires the trigger, so that a policy whose owner has gone silent can be armed
\* (the "provable statement" of IReferencedPaymentNonexistence.sol:15-17).
SilenceIsProvable ==
    \A p \in Policies, deadline \in Times :
        /\ Configured(p)
        /\ OnBoundary(p, deadline)
        /\ deadline <= now
        /\ deadline < sourceNow
        /\ Silent(p, deadline, configs[p].minimumAmount)
        => \E pr \in Proofs : Check(p, pr)

\* A proof that fires the trigger fires it for ever: no later payment and no
\* later configuration takes it back, so an arm that was sent in time cannot
\* fail because it was mined late.  (It also means that an owner who comes
\* back after one missed interval can no longer save the policy by paying.)
FiresForGood ==
    [][\A p \in Policies, pr \in Proofs : Check(p, pr) => Check(p, pr)']_fdcVars

\* The deadline the owner is shown is the first end of an interval that no
\* attestation can be about yet: check accepts none about it or a later one, and
\* every earlier one is over, so that it is neither too late to pay for it nor too
\* early to look at it ("The deadline the owner must pay by, given the current
\* time", FdcNonexistenceTrigger.sol:166).  At an end of an interval that is the
\* following one, because check accepts the one at now; the comment at line 167,
\* "at or after now", says otherwise.
DeadlineNotYetProvable ==
    \A p \in Policies : Configured(p) =>
        LET shown == CurrentDeadline(p)
        IN  /\ OnBoundary(p, shown)
            /\ \A pr \in Proofs : Check(p, pr) => pr.deadline < shown
            /\ \A deadline \in Times :
                   OnBoundary(p, deadline) /\ deadline < shown => deadline <= now

\* "A proof that no payment of 1000 XRP arrived must not fire a policy whose
\* heartbeat is 0.1 XRP -- the owner may well have paid the smaller sum"
\* (FdcNonexistenceTrigger.sol:127-129).
MinimumPaymentKeepsAlive ==
    \A p \in Policies, pr \in Proofs :
        Check(p, pr) => Silent(p, pr.deadline, configs[p].minimumAmount)
=============================================================================
