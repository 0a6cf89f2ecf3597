---------------------------- MODULE PolicyDraft ----------------------------
(***************************************************************************)
(* Policies before they are on chain: the drafts that the builder edits,   *)
(* the schema they must pass, and compile, which splits one into what goes *)
(* on chain and what only the enclave may read.  Times and intervals are   *)
(* in days; every interval a user can enter is a whole number of them.     *)
(***************************************************************************)
EXTENDS ShareTables, Functions

CONSTANTS WellFormed,    \* the texts that the pattern of an address accepts
          Encodable,     \* of those, the ones that viem encodes: a mixed-case
                         \* address must have the right checksum
          Lower,         \* toLowerCase
          ZeroAddress,
          Empty,         \* the empty text
          LongLabels,    \* labels longer than the schema allows
          Salt,
          NoSalt

ASSUME DraftAssumption ==
    /\ Encodable \subseteq WellFormed
    /\ Lower \in [WellFormed -> WellFormed]
    /\ Empty \notin WellFormed
    /\ Salt # NoSalt

YEAR == 365
Kinds == {"manualHeartbeat", "chainProofOfLife", "timestamp"}

-----------------------------------------------------------------------------
(* Triggers (TRIGGER_KINDS) and durations                                  *)

Fields == [manualHeartbeat  |-> {"intervalSeconds", "demoMode"},
           chainProofOfLife |-> {"intervalSeconds", "destinationAddress", "minimumAmount"},
           timestamp        |-> {"executeAfter"}]

HeartbeatTrigger(interval, demoMode) ==
    [kind |-> "manualHeartbeat", intervalSeconds |-> interval, demoMode |-> demoMode]
TimestampTrigger(date) == [kind |-> "timestamp", executeAfter |-> date]

\* The one asset there is, FXRP, gives the source and the smallest payment.
MinimumHeartbeat == 100000

Defaults(kind, now) ==
    CASE kind = "manualHeartbeat" -> HeartbeatTrigger(YEAR, FALSE)
      [] kind = "chainProofOfLife" ->
             [kind |-> kind, intervalSeconds |-> YEAR, sourceId |-> "testXRP",
              destinationAddress |-> Empty, minimumAmount |-> MinimumHeartbeat]
      [] kind = "timestamp" -> TimestampTrigger(now + YEAR)

SwitchKeepingAll(current, kind, now) == \* mutant: nothing is dropped
    [f \in DOMAIN current \cup DOMAIN Defaults(kind, now) |->
        IF f \in DOMAIN current \ {"kind"} THEN current[f] ELSE Defaults(kind, now)[f]]

SwitchToDefaults(current, kind, now) == \* mutant: nothing is carried over
    Defaults(kind, now)

\* What the new kind has a field for is carried over, the rest is dropped.
SwitchTriggerKind(current, kind, now) ==
    LET next == Defaults(kind, now)
        carried == {f \in Fields[kind] \cap DOMAIN current : current[f] # Empty}
    IN  [f \in DOMAIN next |-> IF f \in carried THEN current[f] ELSE next[f]]

DaysIn == [days |-> 1, months |-> 30, years |-> 365]

JoinDuration(d) == IF d.value < 1 THEN 1 ELSE d.value * DaysIn[d.unit]

\* The coarsest unit that is exact, in the editor ...
SplitDuration(days) ==
    LET unit == CASE days % 365 = 0 -> "years"
                  [] days % 365 # 0 /\ days % 30 = 0 -> "months"
                  [] OTHER -> "days"
    IN  [value |-> days \div DaysIn[unit], unit |-> unit]

FormatRounded(days) ==                  \* mutant: whole months, more or less
    LET unit == CASE days >= 365 -> "years"
                  [] days < 365 /\ days >= 30 -> "months"
                  [] OTHER -> "days"
    IN  [value |-> days \div DaysIn[unit], unit |-> unit]

\* ... and, written once more, in the review and on the policy's steps.
FormatInterval(days) ==
    LET unit == CASE days >= 365 /\ days % 365 = 0 -> "years"
                  [] days % 365 # 0 /\ days >= 30 /\ days % 30 = 0 -> "months"
                  [] OTHER -> "days"
    IN  [value |-> days \div DaysIn[unit], unit |-> unit]

-----------------------------------------------------------------------------
(* Templates                                                               *)

XrpInheritance(demoMode) == HeartbeatTrigger(YEAR, demoMode)
ScheduledDistribution(now) == TimestampTrigger(now + YEAR)

Templates == {"xrp-inheritance", "scheduled-distribution"}

\* The builder asks every template for demo mode.
SeededTrigger(template, now) ==
    IF template = "xrp-inheritance" THEN XrpInheritance(TRUE) ELSE ScheduledDistribution(now)

-----------------------------------------------------------------------------
(* The schema                                                              *)

Total(recipients) == SumFunction([k \in DOMAIN recipients |-> recipients[k].shareBps])

ValidTrigger(t) ==
    /\ t.kind \in Kinds
    /\ t.kind = "timestamp" => t.executeAfter > 0
    /\ t.kind # "timestamp" => t.intervalSeconds > 0
    /\ t.kind = "chainProofOfLife" => t.minimumAmount > 0

ValidRecipient(r) ==
    /\ r.address \in WellFormed
    /\ r.shareBps \in 1..TOTAL_BPS
    /\ r.label \notin LongLabels

\* The total is that of all shares, and no recipient is named twice.
ValidRecipients(recipients) ==
    /\ Len(recipients) > 0
    /\ \A k \in DOMAIN recipients : ValidRecipient(recipients[k])
    /\ Total(recipients) = TOTAL_BPS
    /\ \A j, k \in DOMAIN recipients :
           Lower[recipients[j].address] = Lower[recipients[k].address] => j = k

ValidPolicy(ir) == ValidTrigger(ir.trigger) /\ ValidRecipients(ir.recipients)

-----------------------------------------------------------------------------
(* compile                                                                 *)

\* Addresses are encoded as bytes, which have no case.
ComputeCommitment(shares, salt) ==
    [shares |-> [k \in DOMAIN shares |-> [shares[k] EXCEPT !.recipient = Lower[@]]],
     salt   |-> salt]

Shares(recipients) ==
    [k \in DOMAIN recipients |->
        [recipient |-> recipients[k].address, bps |-> recipients[k].shareBps]]

EnclaveConfigUnsalted(recipients) ==    \* mutant: the enclave is not given the salt
    [shares |-> Shares(recipients), salt |-> NoSalt]

\* What the enclave receives, sealed: no names, no labels.
EnclaveConfig(recipients) == [shares |-> Shares(recipients), salt |-> Salt]

Compiles(ir) ==
    /\ ValidPolicy(ir)
    /\ \A k \in DOMAIN ir.recipients : ir.recipients[k].address \in Encodable

Compile(ir) ==
    [trigger       |-> ir.trigger,
     recipients    |-> ir.recipients,
     commitment    |-> ComputeCommitment(Shares(ir.recipients), Salt),
     enclaveConfig |-> EnclaveConfig(ir.recipients)]

ResolveRounded(recipients, balance) ==  \* mutant: nobody gets the remainder
    [k \in DOMAIN recipients |-> (balance * recipients[k].shareBps) \div TOTAL_BPS]

\* What each recipient will get: the last one takes what rounding leaves.
ResolveDistributions(recipients, balance) ==
    LET share(k) == (balance * recipients[k].shareBps) \div TOTAL_BPS
        last == Len(recipients)
    IN  [k \in DOMAIN recipients |->
            IF k < last THEN share(k)
            ELSE balance - SumFunction([j \in 1..(last - 1) |-> share(j)])]

\* The recipients as the table that the contract pays out by.
TableOf(recipients) ==
    [to   |-> [k \in DOMAIN recipients |-> recipients[k].address],
     upTo |-> [k \in DOMAIN recipients |-> Total(SubSeq(recipients, 1, k))]]

\* What the enclave's validateShares accepts.
ValidShares(s) ==
    /\ Len(s.to) > 0
    /\ \A k \in DOMAIN s.to : s.to[k] # ZeroAddress
    /\ TotalBps(s) = TOTAL_BPS
=============================================================================
