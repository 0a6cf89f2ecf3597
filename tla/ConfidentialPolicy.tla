------------------------- MODULE ConfidentialPolicy -------------------------
(***************************************************************************)
(* The vault contract of Flare Studio: any number of ConfidentialPolicy    *)
(* clones, the factory that creates them, the ERC-20 balances they hold,   *)
(* the attestor gate they ask, and the signatures machines have produced.  *)
(*                                                                         *)
(* The asset is an arbitrary token: once it has moved tokens it may hand   *)
(* control to other code, which may call any policy back.  For a function  *)
(* that ends with its transfer that is the same as calls one after the     *)
(* other, so a call is one step; only the transfer loop of execute has     *)
(* something left to do and is one step per recipient.  "calls" is the     *)
(* stack of executions still inside their loop, innermost first.           *)
(*                                                                         *)
(* The trigger and the conditions are an oracle here: arm may be called    *)
(* with success whenever the policy is Active.  PolicySystem replaces the  *)
(* oracle by the heartbeat trigger.  The machines may sign any digest at   *)
(* all: what an honest enclave signs is the subject of Enclave.            *)
(*                                                                         *)
(* Hashes are injective, so a commitment is the pair (shares, salt) it is  *)
(* the hash of.                                                            *)
(***************************************************************************)
EXTENDS ShareTables, FiniteSets

CONSTANTS Policies,        \* the addresses at which the factory creates clones
          Accounts,        \* every other holder of the asset
          Machines,        \* the TEE machines, by their signing address
          Openings,        \* the (shares, salt) pairs that owners commit to
          ZeroAddress,     \* address(0), which no ERC-20 transfer accepts
          Nobody,          \* the owner of a policy that does not exist yet
          NoOpening,       \* the commitment of such a policy
          Funds,           \* what every account holds at the beginning
          MaxTime,         \* bound: the last block timestamp
          MaxAmount,       \* bound: the largest amount of one transfer
          MaxSignatures    \* bound: how many signatures are ever produced

Addresses == Policies \cup Accounts

Recipients == Accounts \cup {ZeroAddress}

IsShares(s) == IsShareTable(s, Recipients)

ASSUME AddressAssumption ==
    /\ Policies \cap Accounts = {}
    /\ Nobody \notin Accounts
    /\ ZeroAddress \notin Addresses
    /\ Funds \in [Accounts -> Nat]

ASSUME OpeningAssumption ==
    /\ NoOpening \notin Openings
    /\ \A o \in Openings : IsShares(o.shares)

ASSUME BoundAssumption ==
    /\ MaxTime \in Nat \ {0}
    /\ MaxAmount \in Nat
    /\ MaxSignatures \in Nat

VARIABLES
    now,           \* block.timestamp
    bal,           \* the asset's balanceOf
    status,        \* "None" until the factory has created the clone
    owner,
    commitment,
    triggeredAt,
    attested,      \* the machines the TEE registry reports as PRODUCTION
    signed,        \* every signature a machine has produced
    calls,         \* the executions inside their transfer loop, innermost first
    payout,        \* the loop variables of each policy's execution; they stay
                   \* as its record when it is over
    used,          \* history: the signature each policy was executed with
    stray          \* history: tokens transferred straight to a policy whose
                   \* money had already been given away

vars == <<now, bal, status, owner, commitment, triggeredAt, attested, signed,
          calls, payout, used, stray>>

chainVars == <<status, owner, commitment, triggeredAt>>
historyVars == <<payout, used, stray>>

-----------------------------------------------------------------------------
(* Executions                                                              *)

NoPayout == [shares |-> [to |-> <<>>, upTo |-> <<>>], available |-> 0,
             allocated |-> 0, amounts |-> <<>>]

\* The policies whose execution is still inside its loop.
Elements(c) == {c[k] : k \in 1..Len(c)}
Open == Elements(calls)

Owed(p) == payout[p].available - payout[p].allocated

\* A policy that has given its money away can never move a token again.
Spent(p) == status[p] \in {"Executed", "Cancelled"}

-----------------------------------------------------------------------------
(* Signatures                                                              *)

\* What a machine signs: the domain separator of the clone, the commitment
\* and the shares (both determined by the opening), and the arming.
DigestWithoutDomain(p, o, time) ==       \* mutant: no address(this) in it
    [policy |-> Nobody, opening |-> o, triggeredAt |-> time]

Digest(p, o, time) == [policy |-> p, opening |-> o, triggeredAt |-> time]

NoSignature == [signer |-> Nobody, digest |-> Digest(Nobody, NoOpening, 0)]

\* ECDSA.recover yields the signer of exactly this digest, and the gate asks
\* the registry about it at the time of the call.
Accepted(p, o, sig) ==
    /\ sig \in signed
    /\ sig.digest = Digest(p, o, triggeredAt[p])
    /\ sig.signer \in attested

-----------------------------------------------------------------------------
(* The ERC-20 asset (external)                                             *)

Move(from, to, amount) ==
    bal' = [bal EXCEPT ![from] = @ - amount, ![to] = @ + amount]

\* Anyone may transfer tokens to a policy's address, whatever its status.
DirectTransfer(a, p, amount) ==
    /\ amount <= bal[a]
    /\ Move(a, p, amount)
    /\ stray' = IF Spent(p) THEN [stray EXCEPT ![p] = @ + amount] ELSE stray
    /\ UNCHANGED <<now, chainVars, attested, signed, calls, payout, used>>

-----------------------------------------------------------------------------
(* PolicyFactory.deploy: clone and initialize in one call                  *)

Deploy(a, p, o) ==
    /\ status[p] = "None"
    /\ status' = [status EXCEPT ![p] = "Active"]
    /\ owner' = [owner EXCEPT ![p] = a]
    /\ commitment' = [commitment EXCEPT ![p] = o]
    /\ UNCHANGED <<now, bal, triggeredAt, attested, signed, calls, historyVars>>

(* The policy's own functions                                              *)

Deposit(a, p, amount) ==
    /\ status[p] = "Active"
    /\ amount <= bal[a]
    /\ Move(a, p, amount)
    /\ UNCHANGED <<now, chainVars, attested, signed, calls, historyVars>>

WithdrawInAnyStatus(a, p, amount) ==     \* mutant: no inStatus(Active)
    /\ a = owner[p]
    /\ amount <= bal[p]
    /\ Move(p, a, amount)
    /\ UNCHANGED <<now, chainVars, attested, signed, calls, historyVars>>

Withdraw(a, p, amount) ==
    /\ a = owner[p]
    /\ status[p] = "Active"
    /\ amount <= bal[p]
    /\ Move(p, a, amount)
    /\ UNCHANGED <<now, chainVars, attested, signed, calls, historyVars>>

CancelUntilExecuted(a, p) ==             \* mutant: the hatch stays open when armed
    /\ a = owner[p]
    /\ status[p] \in {"Active", "Triggered"}
    /\ status' = [status EXCEPT ![p] = "Cancelled"]
    /\ Move(p, a, bal[p])
    /\ UNCHANGED <<now, owner, commitment, triggeredAt, attested, signed, calls,
                   historyVars>>

Cancel(a, p) ==
    /\ a = owner[p]
    /\ status[p] = "Active"
    /\ status' = [status EXCEPT ![p] = "Cancelled"]
    /\ Move(p, a, bal[p])
    /\ UNCHANGED <<now, owner, commitment, triggeredAt, attested, signed, calls,
                   historyVars>>

\* Permissionless; trigger.check and the conditions answered yes.
Arm(p) ==
    /\ status[p] = "Active"
    /\ status' = [status EXCEPT ![p] = "Triggered"]
    /\ triggeredAt' = [triggeredAt EXCEPT ![p] = now]
    /\ UNCHANGED <<now, bal, owner, commitment, attested, signed, calls, historyVars>>

ExecuteAnyShares(p, o, sig) ==           \* mutant: no commitment check
    /\ status[p] = "Triggered"
    /\ Accepted(p, o, sig)
    /\ TotalBps(o.shares) = TOTAL_BPS
    /\ bal[p] > 0
    /\ \A i \in 1..Len(o.shares.to) : o.shares.to[i] # ZeroAddress
    /\ status' = [status EXCEPT ![p] = "Executed"]
    /\ calls' = <<p>> \o calls
    /\ payout' = [payout EXCEPT ![p] = [shares |-> o.shares, available |-> bal[p],
                                        allocated |-> 0, amounts |-> <<>>]]
    /\ used' = [used EXCEPT ![p] = sig]
    /\ UNCHANGED <<now, bal, owner, commitment, triggeredAt, attested, signed, stray>>

\* Permissionless; the checks of execute, and its effects before the loop.
\* The status is the re-entrancy guard.  A zero recipient makes the asset
\* revert the whole call.
Execute(p, o, sig) ==
    /\ status[p] = "Triggered"
    /\ o = commitment[p]
    /\ Accepted(p, o, sig)
    /\ TotalBps(o.shares) = TOTAL_BPS
    /\ bal[p] > 0
    /\ \A i \in 1..Len(o.shares.to) : o.shares.to[i] # ZeroAddress
    /\ status' = [status EXCEPT ![p] = "Executed"]
    /\ calls' = <<p>> \o calls
    /\ payout' = [payout EXCEPT ![p] = [shares |-> o.shares, available |-> bal[p],
                                        allocated |-> 0, amounts |-> <<>>]]
    /\ used' = [used EXCEPT ![p] = sig]
    /\ UNCHANGED <<now, bal, owner, commitment, triggeredAt, attested, signed, stray>>

\* One turn of the innermost transfer loop: the last recipient absorbs the
\* remainder of the integer divisions.
LoopIndex(p) == Len(payout[p].amounts) + 1
IsLast(p) == LoopIndex(p) = Len(payout[p].shares.to)

AmountRoundedUp(p) ==                    \* mutant: divides upwards
    IF IsLast(p) THEN Owed(p)
    ELSE (payout[p].available * ShareBps(payout[p].shares, LoopIndex(p)) + TOTAL_BPS - 1)
             \div TOTAL_BPS
AmountLeavingDust(p) ==                  \* mutant: the last is rounded down too
    Floor(payout[p].available, payout[p].shares, LoopIndex(p))

Amount(p) == IF IsLast(p) THEN Owed(p)
                          ELSE Floor(payout[p].available, payout[p].shares, LoopIndex(p))

Pay(p) ==
    /\ calls # <<>>
    /\ p = Head(calls)
    /\ Move(p, payout[p].shares.to[LoopIndex(p)], Amount(p))
    /\ payout' = [payout EXCEPT ![p].allocated = @ + Amount(p),
                                ![p].amounts = Append(@, Amount(p))]
    /\ calls' = IF IsLast(p) THEN Tail(calls) ELSE calls
    /\ UNCHANGED <<now, chainVars, attested, signed, used, stray>>

-----------------------------------------------------------------------------
(* The world around the contracts: it acts between transactions            *)

Sign(m, p, o, time) ==
    /\ calls = <<>>
    /\ Cardinality(signed) < MaxSignatures
    /\ signed' = signed \cup {[signer |-> m, digest |-> Digest(p, o, time)]}
    /\ UNCHANGED <<now, bal, chainVars, attested, calls, historyVars>>

\* The TEE registry moves a machine into PRODUCTION or out of it.
ChangeAttestation(m) ==
    /\ calls = <<>>
    /\ attested' = IF m \in attested THEN attested \ {m} ELSE attested \cup {m}
    /\ UNCHANGED <<now, bal, chainVars, signed, calls, historyVars>>

Tick ==
    /\ calls = <<>>
    /\ now < MaxTime
    /\ now' = now + 1
    /\ UNCHANGED <<bal, chainVars, attested, signed, calls, historyVars>>

-----------------------------------------------------------------------------
Init ==
    /\ now = 1
    /\ bal = [x \in Addresses |-> IF x \in Accounts THEN Funds[x] ELSE 0]
    /\ status = [p \in Policies |-> "None"]
    /\ owner = [p \in Policies |-> Nobody]
    /\ commitment = [p \in Policies |-> NoOpening]
    /\ triggeredAt = [p \in Policies |-> 0]
    /\ attested = {}
    /\ signed = {}
    /\ calls = <<>>
    /\ payout = [p \in Policies |-> NoPayout]
    /\ used = [p \in Policies |-> NoSignature]
    /\ stray = [p \in Policies |-> 0]

PolicyCall(p) ==
    \/ \E a \in Accounts, o \in Openings : Deploy(a, p, o)
    \/ \E a \in Accounts, n \in 1..MaxAmount : Deposit(a, p, n)
    \/ \E a \in Accounts, n \in 1..MaxAmount : Withdraw(a, p, n)
    \/ \E a \in Accounts : Cancel(a, p)
    \/ Arm(p)
    \/ \E o \in Openings, sig \in signed : Execute(p, o, sig)
    \/ Pay(p)
    \/ \E a \in Accounts, n \in 1..MaxAmount : DirectTransfer(a, p, n)

World ==
    \/ \E m \in Machines, p \in Policies, o \in Openings, time \in 1..MaxTime :
           Sign(m, p, o, time)
    \/ \E m \in Machines : ChangeAttestation(m)
    \/ Tick

Next == World \/ \E p \in Policies : PolicyCall(p)

Spec == Init /\ [][Next]_vars

-----------------------------------------------------------------------------
(* What must hold                                                          *)

Payouts == [shares : {o.shares : o \in Openings} \cup {NoPayout.shares},
            available : Nat, allocated : Nat, amounts : Seq(Nat)]

Digests == [policy : Policies, opening : Openings, triggeredAt : Nat]
Signatures == [signer : Machines, digest : Digests]

\* Type invariant.  That balances are naturals says that no transfer the
\* contracts make can fail for want of tokens: in particular "available -
\* allocated" (ConfidentialPolicy.sol:222) cannot underflow half-way through
\* the loop and revert an execution that passed every check.
TypeOK ==
    /\ now \in 1..MaxTime
    /\ bal \in [Addresses -> Nat]
    /\ status \in [Policies -> {"None", "Active", "Triggered", "Executed", "Cancelled"}]
    /\ owner \in [Policies -> Accounts \cup {Nobody}]
    /\ commitment \in [Policies -> Openings \cup {NoOpening}]
    /\ triggeredAt \in [Policies -> 0..MaxTime]
    /\ attested \subseteq Machines
    /\ signed \subseteq Signatures
    /\ calls \in Seq(Policies)
    /\ payout \in [Policies -> Payouts]
    /\ used \in [Policies -> Signatures \cup {NoSignature}]
    /\ stray \in [Policies -> Nat]

\* An execution, whoever calls it and whatever the machines sign, pays out the
\* split the owner committed to and nothing else: every recipient but the last
\* gets its share rounded down, the last no less than its share, and together
\* they get all the policy held ("Even a fully compromised enclave cannot
\* redirect funds or alter proportions", ConfidentialPolicy.sol:43-46).
CommittedSplit ==
    \A p \in Policies : status[p] = "Executed" /\ p \notin Open =>
        LET s == commitment[p].shares
            n == Len(s.to)
        IN  /\ payout[p].shares = s
            /\ Len(payout[p].amounts) = n
            /\ \A i \in 1..(n - 1) : payout[p].amounts[i] = Floor(payout[p].available, s, i)
            /\ payout[p].amounts[n] >= Floor(payout[p].available, s, n)
            /\ payout[p].allocated = payout[p].available

\* What a spent policy still holds is what its running loop has yet to pay and
\* what strangers sent to its address afterwards: the contract itself strands
\* nothing ("Dust left behind would be stranded forever",
\* ConfidentialPolicy.sol:216-218), in whatever order deposits, calls made
\* from inside a transfer and executions of other policies fall.
OnlyStrayTokensStranded ==
    \A p \in Policies : Spent(p) =>
        bal[p] = stray[p] + (IF p \in Open THEN Owed(p) ELSE 0)

\* No signature executes two policies, not even two with the same commitment
\* armed in the same block ("what makes a signature for one policy useless
\* against another", ConfidentialPolicy.sol:109-111).
OneSignatureOnePolicy ==
    \A p, q \in Policies :
        p # q /\ status[p] = "Executed" /\ status[q] = "Executed" => used[p] # used[q]

\* Once a policy is armed, tokens leave it only in the transfer loop of its
\* own execution, and its owner, its commitment and its arming never change:
\* withdraw and cancel are the owner's escape hatch only "while the policy has
\* not yet fired" (ConfidentialPolicy.sol:143).
LockedOnceArmed ==
    [][\A p \in Policies : status[p] \in {"Triggered", "Executed"} =>
           /\ status'[p] \in {"Triggered", "Executed"}
           /\ owner'[p] = owner[p]
           /\ commitment'[p] = commitment[p]
           /\ triggeredAt'[p] = triggeredAt[p]
           /\ bal'[p] < bal[p] => /\ status[p] = "Executed"
                                  /\ p \in Open]_vars

-----------------------------------------------------------------------------
(* The refinement mapping                                                  *)

EscrowPhase == [None |-> "none", Active |-> "open", Triggered |-> "locked",
                Executed |-> "released", Cancelled |-> "closed"]

\* What a policy has yet to pay in its loop is owed; the rest of its balance
\* is held.
Promise == INSTANCE Escrow WITH
    Vaults <- Policies,
    phase  <- [p \in Policies |-> EscrowPhase[status[p]]],
    held   <- [p \in Policies |-> bal[p] - Owed(p)],
    owed   <- [p \in Policies |-> Owed(p)]

\* Every behaviour of the contracts is one of the escrow: whatever calls are
\* made in whatever order and from inside whatever transfer, a policy is
\* released at most once, only after it was locked, and then as a whole; the
\* owner takes money back only while it is open (the life cycle that
\* ConfidentialPolicy.sol:52-57 declares and inStatus enforces).
KeepsThePromise == Promise!EscrowSpec
=============================================================================
