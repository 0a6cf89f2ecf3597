---------------------- MODULE ConfidentialPolicyProofs ----------------------
(***************************************************************************)
(* Theorems about ConfidentialPolicy, for any number of policies, accounts *)
(* and machines, any amounts and any share tables.                         *)
(***************************************************************************)
EXTENDS ConfidentialPolicy, TLAPS

-----------------------------------------------------------------------------
(* The inductive invariant                                                 *)

\* No policy is twice on the stack of executions.
CallsDistinct == \A j, k \in 1..Len(calls) : j # k => calls[j] # calls[k]

\* The loop of p's execution after its first m turns.
LoopInv(p) ==
    LET d == payout[p]
        s == d.shares
        m == Len(d.amounts)
        n == Len(s.to)
    IN  /\ commitment[p] \in Openings
        /\ s = commitment[p].shares
        /\ TotalBps(s) = TOTAL_BPS
        /\ \A i \in 1..n : s.to[i] \in Accounts
        /\ m <= n
        /\ p \in Open <=> m < n
        /\ m < n => d.allocated * TOTAL_BPS <= d.available * RunningBps(s, m)
        /\ \A i \in 1..(n - 1) : i <= m => d.amounts[i] = Floor(d.available, s, i)
        /\ m = n => /\ d.allocated = d.available
                    /\ d.amounts[n] >= Floor(d.available, s, n)

\* A policy that was not executed has no loop.
NoLoop(p) == payout[p] = NoPayout /\ p \notin Open

\* The signature an execution was accepted with is over this policy.
OwnSignature(p) == used[p].digest = Digest(p, commitment[p], triggeredAt[p])

IInv ==
    /\ TypeOK
    /\ CallsDistinct
    /\ \A p \in Policies : status[p] = "Executed" => LoopInv(p) /\ OwnSignature(p)
    /\ \A p \in Policies : status[p] # "Executed" => NoLoop(p)
    /\ \A p \in Policies : ~Spent(p) => stray[p] = 0
    /\ OnlyStrayTokensStranded

-----------------------------------------------------------------------------
(* The stack of executions                                                 *)

\* Entering an execution puts its policy on the stack.
LEMMA PushElements ==
    ASSUME NEW S, NEW c \in Seq(S), NEW p \in S
    PROVE  /\ <<p>> \o c \in Seq(S)
           /\ Elements(<<p>> \o c) = {p} \cup Elements(c)
           /\ Len(<<p>> \o c) = Len(c) + 1
           /\ (<<p>> \o c)[1] = p
           /\ \A k \in 1..Len(c) : (<<p>> \o c)[k + 1] = c[k]
<1> DEFINE d == <<p>> \o c
<1>1. /\ d \in Seq(S)
      /\ Len(d) = Len(c) + 1
      /\ d[1] = p
      /\ \A k \in 1..Len(c) : d[k + 1] = c[k]
  OBVIOUS
<1>2. ASSUME NEW x \in Elements(d) PROVE x \in {p} \cup Elements(c)
  <2>1. PICK k \in 1..Len(d) : x = d[k]
    BY <1>2 DEF Elements
  <2>2. CASE k = 1
    BY <2>1, <2>2, <1>1
  <2>3. CASE k # 1
    <3>1. k - 1 \in 1..Len(c) /\ d[(k - 1) + 1] = c[k - 1]
      BY <2>3, <1>1
    <3>2. QED
      BY <3>1, <2>1 DEF Elements
  <2>4. QED
    BY <2>2, <2>3
<1>3. ASSUME NEW x \in {p} \cup Elements(c) PROVE x \in Elements(d)
  <2>1. CASE x = p
    BY <2>1, <1>1 DEF Elements
  <2>2. CASE x \in Elements(c)
    <3>1. PICK k \in 1..Len(c) : x = c[k]
      BY <2>2 DEF Elements
    <3>2. k + 1 \in 1..Len(d) /\ d[k + 1] = x
      BY <3>1, <1>1
    <3>3. QED
      BY <3>2 DEF Elements
  <2>3. QED
    BY <2>1, <2>2
<1>4. QED
  BY <1>1, <1>2, <1>3

\* Leaving the innermost execution takes exactly its policy off a stack
\* without repetitions.
LEMMA PopElements ==
    ASSUME NEW S, NEW c \in Seq(S), c # <<>>,
           \A j, k \in 1..Len(c) : j # k => c[j] # c[k]
    PROVE  /\ Head(c) \in S
           /\ Head(c) = c[1]
           /\ Tail(c) \in Seq(S)
           /\ Elements(Tail(c)) = Elements(c) \ {Head(c)}
           /\ \A j, k \in 1..Len(Tail(c)) : j # k => Tail(c)[j] # Tail(c)[k]
<1> DEFINE d == Tail(c)
<1>1. /\ Head(c) \in S
      /\ Head(c) = c[1]
      /\ d \in Seq(S)
      /\ Len(d) = Len(c) - 1
      /\ 1 \in 1..Len(c)
      /\ \A k \in 1..Len(d) : d[k] = c[k + 1]
  OBVIOUS
<1>2. ASSUME NEW x \in Elements(d) PROVE x \in Elements(c) \ {Head(c)}
  <2>1. PICK k \in 1..Len(d) : x = d[k]
    BY <1>2 DEF Elements
  <2>2. k + 1 \in 1..Len(c) /\ x = c[k + 1] /\ k + 1 # 1
    BY <2>1, <1>1
  <2>3. QED
    BY <2>2, <1>1 DEF Elements
<1>3. ASSUME NEW x \in Elements(c), x # Head(c) PROVE x \in Elements(d)
  <2>1. PICK k \in 1..Len(c) : x = c[k]
    BY <1>3 DEF Elements
  <2>2. k - 1 \in 1..Len(d) /\ d[k - 1] = c[(k - 1) + 1]
    BY <2>1, <1>1, <1>3
  <2>3. QED
    BY <2>1, <2>2 DEF Elements
<1>4. ASSUME NEW j \in 1..Len(d), NEW k \in 1..Len(d), j # k PROVE d[j] # d[k]
  <2>1. j + 1 \in 1..Len(c) /\ k + 1 \in 1..Len(c) /\ j + 1 # k + 1
    BY <1>1, <1>4
  <2>2. QED
    BY <1>1, <2>1
<1>5. QED
  BY <1>1, <1>2, <1>3, <1>4

-----------------------------------------------------------------------------
(* Shares of a balance                                                     *)

\* The quotient of the transfer loop.
LEMMA Quotient ==
    ASSUME NEW x \in Nat
    PROVE  /\ x \div TOTAL_BPS \in Nat
           /\ (x \div TOTAL_BPS) * TOTAL_BPS <= x
BY DEF TOTAL_BPS

\* Running totals grow up to the total.
LEMMA Running ==
    ASSUME NEW s, IsShares(s), NEW i \in 1..Len(s.to)
    PROVE  /\ Len(s.to) \in Nat
           /\ RunningBps(s, i) \in Nat
           /\ RunningBps(s, i - 1) \in Nat
           /\ ShareBps(s, i) \in Nat
           /\ RunningBps(s, i) = RunningBps(s, i - 1) + ShareBps(s, i)
           /\ RunningBps(s, i) <= TotalBps(s)
<1>1. Len(s.to) \in Nat /\ Len(s.to) \in 1..Len(s.to) /\ i \in Nat /\ i # 0
  BY DEF IsShares, IsShareTable
<1>2. \A k \in 1..Len(s.to) : s.upTo[k] \in Nat
  BY DEF IsShares, IsShareTable
<1>3. RunningBps(s, i) = s.upTo[i] /\ RunningBps(s, Len(s.to)) = s.upTo[Len(s.to)]
  BY <1>1 DEF RunningBps
<1>4. s.upTo[i] <= s.upTo[Len(s.to)]
  BY <1>1 DEF IsShares, IsShareTable
<1>5. RunningBps(s, i - 1) \in Nat /\ RunningBps(s, i - 1) <= s.upTo[i]
  <2>1. CASE i = 1
    BY <2>1, <1>2 DEF RunningBps
  <2>2. CASE i # 1
    <3>1. i - 1 \in 1..Len(s.to) /\ i - 1 # 0
      BY <2>2, <1>1
    <3>2. s.upTo[i - 1] <= s.upTo[i]
      BY <3>1 DEF IsShares, IsShareTable
    <3>3. QED
      BY <3>1, <3>2, <1>2 DEF RunningBps
  <2>3. QED
    BY <2>1, <2>2
<1>6. QED
  BY <1>1, <1>2, <1>3, <1>4, <1>5 DEF ShareBps, TotalBps

\* A turn of the loop keeps what was allocated within the running total.
LEMMA LoopArithmetic ==
    ASSUME NEW available \in Nat, NEW allocated \in Nat,
           NEW before \in Nat, NEW share \in Nat,
           before + share <= TOTAL_BPS,
           allocated * TOTAL_BPS <= available * before
    PROVE  LET amount == (available * share) \div TOTAL_BPS
           IN  /\ amount \in Nat
               /\ (allocated + amount) * TOTAL_BPS <= available * (before + share)
               /\ allocated + amount <= available
               /\ before + share = TOTAL_BPS => amount <= available - allocated
<1> DEFINE x == available * share
           amount == x \div TOTAL_BPS
<1>1. x \in Nat
  OBVIOUS
<1>2. amount \in Nat /\ amount * TOTAL_BPS <= x
  BY <1>1, Quotient
<1>3. available * (before + share) = available * before + x
  OBVIOUS
<1>4. available * (before + share) <= available * TOTAL_BPS
  BY DEF TOTAL_BPS
<1>5. (allocated + amount) * TOTAL_BPS = allocated * TOTAL_BPS + amount * TOTAL_BPS
  BY <1>2 DEF TOTAL_BPS
<1> HIDE DEF amount, x
<1> DEFINE ab == available * before
<1>6. ab \in Nat
  OBVIOUS
<1>7. allocated * TOTAL_BPS <= ab /\ available * (before + share) = ab + x
  BY <1>3
<1>8. (allocated + amount) * TOTAL_BPS <= ab + x
  <2> HIDE DEF ab
  <2> QED BY <1>1, <1>2, <1>5, <1>6, <1>7 DEF TOTAL_BPS
<1>9. ab + x <= available * TOTAL_BPS
  BY <1>4, <1>7
<1>10. allocated + amount <= available
  <2> HIDE DEF ab
  <2> QED BY <1>1, <1>2, <1>6, <1>8, <1>9 DEF TOTAL_BPS
<1>11. QED
  BY <1>2, <1>7, <1>8, <1>10 DEF amount, x

-----------------------------------------------------------------------------
(* The invariant holds initially and every action keeps it                 *)

LEMMA InitInv == Init => IInv
<1> SUFFICES ASSUME Init PROVE IInv
  OBVIOUS
<1>1. TypeOK
  BY AddressAssumption, BoundAssumption
  DEF Init, TypeOK, Addresses, Payouts, NoPayout
<1>2. Open = {} /\ CallsDistinct
  BY DEF Init, Open, Elements, CallsDistinct
<1>3. QED
  BY <1>1, <1>2 DEF Init, IInv, NoLoop, OnlyStrayTokensStranded, Spent

\* Moving tokens between two holders leaves naturals if the payer has enough.
LEMMA MoveType ==
    ASSUME bal \in [Addresses -> Nat], NEW from \in Addresses, NEW to \in Addresses,
           from # to, NEW amount \in Nat, amount <= bal[from], Move(from, to, amount)
    PROVE  /\ bal' \in [Addresses -> Nat]
           /\ bal'[from] = bal[from] - amount
           /\ bal'[to] = bal[to] + amount
           /\ \A x \in Addresses : x # from /\ x # to => bal'[x] = bal[x]
BY DEF Move

\* A step that enters and leaves no loop and rewrites no executed policy keeps
\* what the invariant says of loops.
LEMMA KeepsLoops ==
    ASSUME IInv, UNCHANGED <<payout, calls, used>>,
           \A p \in Policies :
               /\ status'[p] = "Executed" <=> status[p] = "Executed"
               /\ status[p] = "Executed" => /\ commitment'[p] = commitment[p]
                                            /\ triggeredAt'[p] = triggeredAt[p]
    PROVE  /\ CallsDistinct'
           /\ \A p \in Policies : status'[p] = "Executed" => LoopInv(p)' /\ OwnSignature(p)'
           /\ \A p \in Policies : status'[p] # "Executed" => NoLoop(p)'
           /\ Open' = Open
<1>1. Open' = Open /\ CallsDistinct'
  BY DEF IInv, CallsDistinct, Open, Elements
<1>2. ASSUME NEW p \in Policies, status'[p] = "Executed"
      PROVE  LoopInv(p)' /\ OwnSignature(p)'
  BY <1>1, <1>2 DEF IInv, LoopInv, OwnSignature
<1>3. ASSUME NEW p \in Policies, status'[p] # "Executed"
      PROVE  NoLoop(p)'
  BY <1>1, <1>3 DEF IInv, NoLoop
<1>4. QED
  BY <1>1, <1>2, <1>3

LEMMA WorldInv == ASSUME IInv, World PROVE IInv'
<1>1. UNCHANGED <<bal, chainVars, calls, payout, used, stray>>
  BY DEF World, Sign, ChangeAttestation, Tick, historyVars
<1>2. /\ CallsDistinct'
      /\ \A p \in Policies : status'[p] = "Executed" => LoopInv(p)' /\ OwnSignature(p)'
      /\ \A p \in Policies : status'[p] # "Executed" => NoLoop(p)'
      /\ Open' = Open
  BY <1>1, KeepsLoops DEF chainVars
<1>3. TypeOK'
  <2>1. now' \in 1..MaxTime
    BY BoundAssumption DEF World, Sign, ChangeAttestation, Tick, IInv, TypeOK
  <2>2. attested' \subseteq Machines
    BY DEF World, Sign, ChangeAttestation, Tick, IInv, TypeOK
  <2>3. signed' \subseteq Signatures
    BY DEF World, Sign, ChangeAttestation, Tick, IInv, TypeOK, Signatures, Digests, Digest
  <2>4. QED
    BY <1>1, <2>1, <2>2, <2>3 DEF IInv, TypeOK, chainVars
<1>4. /\ \A p \in Policies : ~Spent(p)' => stray'[p] = 0
      /\ OnlyStrayTokensStranded'
  BY <1>1, <1>2 DEF IInv, OnlyStrayTokensStranded, Spent, Owed, chainVars
<1>5. QED
  BY <1>2, <1>3, <1>4 DEF IInv

LEMMA DeployInv ==
    ASSUME IInv, NEW a \in Accounts, NEW p \in Policies, NEW o \in Openings, Deploy(a, p, o)
    PROVE  IInv'
<1>1. TypeOK'
  BY DEF Deploy, IInv, TypeOK, historyVars
<1>2. /\ CallsDistinct'
      /\ \A q \in Policies : status'[q] = "Executed" => LoopInv(q)' /\ OwnSignature(q)'
      /\ \A q \in Policies : status'[q] # "Executed" => NoLoop(q)'
      /\ Open' = Open
  <2>1. /\ UNCHANGED <<payout, calls, used, triggeredAt>>
        /\ \A q \in Policies : /\ status'[q] = "Executed" <=> status[q] = "Executed"
                               /\ status[q] = "Executed" => commitment'[q] = commitment[q]
    BY DEF Deploy, IInv, TypeOK, historyVars
  <2>2. QED
    BY <2>1, KeepsLoops
<1>3. /\ \A q \in Policies : ~Spent(q)' => stray'[q] = 0
      /\ OnlyStrayTokensStranded'
  <2>1. UNCHANGED <<bal, payout, stray>>
    BY DEF Deploy, historyVars
  <2>2. \A q \in Policies : Spent(q)' <=> Spent(q)
    BY DEF Deploy, IInv, TypeOK, Spent
  <2>3. QED
    BY <1>2, <2>1, <2>2 DEF IInv, OnlyStrayTokensStranded, Owed
<1>4. QED
  BY <1>1, <1>2, <1>3 DEF IInv

\* The four calls that move tokens outside a loop: in each, the only spent
\* policies whose balance changes are paid directly, or are emptied.
LEMMA DepositInv ==
    ASSUME IInv, NEW a \in Accounts, NEW p \in Policies, NEW n \in 1..MaxAmount,
           Deposit(a, p, n)
    PROVE  IInv'
<1>1. a \in Addresses /\ p \in Addresses /\ a # p /\ n \in Nat
  BY AddressAssumption, BoundAssumption DEF Addresses
<1>2. /\ bal' \in [Addresses -> Nat]
      /\ \A x \in Addresses : x # a /\ x # p => bal'[x] = bal[x]
  BY <1>1, MoveType DEF Deposit, IInv, TypeOK
<1>3. TypeOK'
  BY <1>2 DEF Deposit, IInv, TypeOK, chainVars, historyVars
<1>4. UNCHANGED <<status, commitment, triggeredAt, payout, calls, used, stray>>
  BY DEF Deposit, chainVars, historyVars
<1>5. /\ CallsDistinct'
      /\ \A q \in Policies : status'[q] = "Executed" => LoopInv(q)' /\ OwnSignature(q)'
      /\ \A q \in Policies : status'[q] # "Executed" => NoLoop(q)'
      /\ Open' = Open
  BY <1>4, KeepsLoops
<1>6. OnlyStrayTokensStranded'
  <2>1. \A q \in Policies : Spent(q) => q # p /\ q # a /\ q \in Addresses
    BY AddressAssumption DEF Deposit, Spent, Addresses
  <2>2. QED
    BY <1>2, <1>4, <1>5, <2>1 DEF IInv, OnlyStrayTokensStranded, Spent, Owed
<1>7. QED
  BY <1>3, <1>4, <1>5, <1>6 DEF IInv, Spent

LEMMA WithdrawInv ==
    ASSUME IInv, NEW a \in Accounts, NEW p \in Policies, NEW n \in 1..MaxAmount,
           Withdraw(a, p, n)
    PROVE  IInv'
<1>1. a \in Addresses /\ p \in Addresses /\ a # p /\ n \in Nat
  BY AddressAssumption, BoundAssumption DEF Addresses
<1>2. /\ bal' \in [Addresses -> Nat]
      /\ \A x \in Addresses : x # a /\ x # p => bal'[x] = bal[x]
  BY <1>1, MoveType DEF Withdraw, IInv, TypeOK
<1>3. TypeOK'
  BY <1>2 DEF Withdraw, IInv, TypeOK, chainVars, historyVars
<1>4. UNCHANGED <<status, commitment, triggeredAt, payout, calls, used, stray>>
  BY DEF Withdraw, chainVars, historyVars
<1>5. /\ CallsDistinct'
      /\ \A q \in Policies : status'[q] = "Executed" => LoopInv(q)' /\ OwnSignature(q)'
      /\ \A q \in Policies : status'[q] # "Executed" => NoLoop(q)'
      /\ Open' = Open
  BY <1>4, KeepsLoops
<1>6. OnlyStrayTokensStranded'
  <2>1. \A q \in Policies : Spent(q) => q # p /\ q # a /\ q \in Addresses
    BY AddressAssumption DEF Withdraw, Spent, Addresses
  <2>2. QED
    BY <1>2, <1>4, <1>5, <2>1 DEF IInv, OnlyStrayTokensStranded, Spent, Owed
<1>7. QED
  BY <1>3, <1>4, <1>5, <1>6 DEF IInv, Spent

LEMMA DirectTransferInv ==
    ASSUME IInv, NEW a \in Accounts, NEW p \in Policies, NEW n \in 1..MaxAmount,
           DirectTransfer(a, p, n)
    PROVE  IInv'
<1>1. a \in Addresses /\ p \in Addresses /\ a # p /\ n \in Nat
  BY AddressAssumption, BoundAssumption DEF Addresses
<1>2. /\ bal' \in [Addresses -> Nat]
      /\ bal'[p] = bal[p] + n
      /\ \A x \in Addresses : x # a /\ x # p => bal'[x] = bal[x]
  BY <1>1, MoveType DEF DirectTransfer, IInv, TypeOK
<1>3. stray' = IF Spent(p) THEN [stray EXCEPT ![p] = @ + n] ELSE stray
  BY DEF DirectTransfer
<1>4. stray' \in [Policies -> Nat]
  BY <1>1, <1>3 DEF IInv, TypeOK
<1>5. TypeOK'
  BY <1>2, <1>4 DEF DirectTransfer, IInv, TypeOK, chainVars
<1>6. UNCHANGED <<status, commitment, triggeredAt, payout, calls, used>>
  BY DEF DirectTransfer, chainVars
<1>7. /\ CallsDistinct'
      /\ \A q \in Policies : status'[q] = "Executed" => LoopInv(q)' /\ OwnSignature(q)'
      /\ \A q \in Policies : status'[q] # "Executed" => NoLoop(q)'
      /\ Open' = Open
  BY <1>6, KeepsLoops
<1>8. \A q \in Policies : ~Spent(q)' => stray'[q] = 0
  BY <1>3, <1>6 DEF IInv, TypeOK, Spent
<1>9. ASSUME NEW q \in Policies, Spent(q)'
      PROVE  bal'[q] = stray'[q] + (IF q \in Open' THEN Owed(q)' ELSE 0)
  <2>1. Owed(q)' = Owed(q) /\ Owed(q) \in Int /\ Spent(q) /\ q \in Addresses /\ q # a
    BY <1>6, <1>9, AddressAssumption
    DEF Owed, IInv, TypeOK, Payouts, Spent, Addresses
  <2>2. bal[q] = stray[q] + (IF q \in Open THEN Owed(q) ELSE 0)
    BY <2>1 DEF IInv, OnlyStrayTokensStranded
  <2>3. CASE q = p
    BY <1>1, <1>2, <1>3, <1>7, <2>1, <2>2, <2>3 DEF IInv, TypeOK
  <2>4. CASE q # p
    BY <1>2, <1>3, <1>7, <2>1, <2>2, <2>4 DEF IInv, TypeOK
  <2>5. QED
    BY <2>3, <2>4
<1>10. QED
  BY <1>5, <1>7, <1>8, <1>9 DEF IInv, OnlyStrayTokensStranded

LEMMA CancelInv ==
    ASSUME IInv, NEW a \in Accounts, NEW p \in Policies, Cancel(a, p)
    PROVE  IInv'
<1>1. a \in Addresses /\ p \in Addresses /\ a # p
  BY AddressAssumption DEF Addresses
<1>2. bal[p] \in Nat /\ bal[p] <= bal[p]
  BY <1>1 DEF IInv, TypeOK
<1>3. /\ bal' \in [Addresses -> Nat]
      /\ bal'[p] = bal[p] - bal[p]
      /\ \A x \in Addresses : x # a /\ x # p => bal'[x] = bal[x]
  BY <1>1, <1>2, MoveType DEF Cancel, IInv, TypeOK
<1>4. TypeOK'
  BY <1>3 DEF Cancel, IInv, TypeOK, historyVars
<1>5. /\ UNCHANGED <<commitment, triggeredAt, payout, calls, used, stray>>
      /\ status[p] = "Active"
      /\ status'[p] = "Cancelled"
      /\ \A q \in Policies : q # p => status'[q] = status[q]
  BY DEF Cancel, historyVars, IInv, TypeOK
<1>6. /\ CallsDistinct'
      /\ \A q \in Policies : status'[q] = "Executed" => LoopInv(q)' /\ OwnSignature(q)'
      /\ \A q \in Policies : status'[q] # "Executed" => NoLoop(q)'
      /\ Open' = Open
  <2>1. \A q \in Policies : status'[q] = "Executed" <=> status[q] = "Executed"
    BY <1>5
  <2>2. QED
    BY <1>5, <2>1, KeepsLoops
<1>7. \A q \in Policies : ~Spent(q)' => stray'[q] = 0
  BY <1>5 DEF IInv, Spent
<1>8. OnlyStrayTokensStranded'
  <2>1. stray[p] = 0 /\ p \notin Open
    BY <1>5 DEF IInv, Spent, NoLoop
  <2>2. \A q \in Policies : q # p /\ Spent(q)' => Spent(q) /\ q # a /\ q \in Addresses
    BY <1>5, AddressAssumption DEF Spent, Addresses
  <2>3. QED
    BY <1>2, <1>3, <1>5, <1>6, <2>1, <2>2 DEF IInv, OnlyStrayTokensStranded, Owed
<1>9. QED
  BY <1>4, <1>6, <1>7, <1>8 DEF IInv

LEMMA ArmInv ==
    ASSUME IInv, NEW p \in Policies, Arm(p)
    PROVE  IInv'
<1>1. TypeOK'
  BY BoundAssumption DEF Arm, IInv, TypeOK, historyVars
<1>2. /\ UNCHANGED <<bal, commitment, payout, calls, used, stray>>
      /\ status[p] = "Active"
      /\ status'[p] = "Triggered"
      /\ \A q \in Policies : q # p => status'[q] = status[q] /\ triggeredAt'[q] = triggeredAt[q]
  BY DEF Arm, historyVars, IInv, TypeOK
<1>3. /\ CallsDistinct'
      /\ \A q \in Policies : status'[q] = "Executed" => LoopInv(q)' /\ OwnSignature(q)'
      /\ \A q \in Policies : status'[q] # "Executed" => NoLoop(q)'
      /\ Open' = Open
  <2>1. \A q \in Policies : /\ status'[q] = "Executed" <=> status[q] = "Executed"
                            /\ status[q] = "Executed" => triggeredAt'[q] = triggeredAt[q]
    BY <1>2
  <2>2. QED
    BY <1>2, <2>1, KeepsLoops
<1>4. \A q \in Policies : Spent(q)' <=> Spent(q)
  BY <1>2 DEF Spent
<1>5. QED
  BY <1>1, <1>2, <1>3, <1>4 DEF IInv, OnlyStrayTokensStranded, Owed

LEMMA ExecuteInv ==
    ASSUME IInv, NEW p \in Policies, NEW o \in Openings, NEW sig \in signed,
           Execute(p, o, sig)
    PROVE  IInv'
<1> DEFINE s == o.shares
           d == [shares |-> s, available |-> bal[p], allocated |-> 0, amounts |-> <<>>]
<1>1. /\ p \in Addresses
      /\ bal[p] \in Nat
      /\ IsShares(s)
      /\ o = commitment[p]
      /\ TotalBps(s) = TOTAL_BPS
  BY OpeningAssumption DEF Execute, IInv, TypeOK, Addresses
<1>2. /\ UNCHANGED <<bal, commitment, triggeredAt, stray>>
      /\ status[p] = "Triggered"
      /\ status' = [status EXCEPT ![p] = "Executed"]
      /\ calls' = <<p>> \o calls
      /\ payout' = [payout EXCEPT ![p] = d]
      /\ used' = [used EXCEPT ![p] = sig]
  BY DEF Execute
<1>3. d \in Payouts
  BY <1>1 DEF Payouts
<1>4. /\ status'[p] = "Executed"
      /\ payout'[p] = d
      /\ used'[p] = sig
      /\ \A q \in Policies : q # p => /\ status'[q] = status[q]
                                      /\ payout'[q] = payout[q]
                                      /\ used'[q] = used[q]
  BY <1>2 DEF IInv, TypeOK
<1>5. /\ calls' \in Seq(Policies)
      /\ Open' = {p} \cup Open
      /\ Len(calls') = Len(calls) + 1
      /\ calls'[1] = p
      /\ \A k \in 1..Len(calls) : calls'[k + 1] = calls[k]
  BY <1>2, PushElements DEF IInv, TypeOK, Open
<1>6. TypeOK'
  <2>1. payout' \in [Policies -> Payouts]
    BY <1>2, <1>3 DEF IInv, TypeOK
  <2>2. used' \in [Policies -> Signatures \cup {NoSignature}]
    BY <1>2 DEF IInv, TypeOK
  <2>3. QED
    BY <1>5, <2>1, <2>2 DEF Execute, IInv, TypeOK
<1>7. p \notin Open
  BY <1>2 DEF IInv, NoLoop
<1>8. CallsDistinct'
  <2> SUFFICES ASSUME NEW j \in 1..Len(calls'), NEW k \in 1..Len(calls'), j # k
               PROVE  calls'[j] # calls'[k]
    BY DEF CallsDistinct
  <2>1. Len(calls) \in Nat
    BY DEF IInv, TypeOK
  <2>2. \A i \in 1..Len(calls') : i # 1 => /\ i - 1 \in 1..Len(calls)
                                           /\ calls'[i] = calls[i - 1]
                                           /\ calls'[i] \in Open
    <3> SUFFICES ASSUME NEW i \in 1..Len(calls'), i # 1
                 PROVE  /\ i - 1 \in 1..Len(calls)
                        /\ calls'[i] = calls[i - 1]
                        /\ calls'[i] \in Open
      OBVIOUS
    <3>1. i - 1 \in 1..Len(calls) /\ (i - 1) + 1 = i
      BY <1>5, <2>1
    <3>2. calls'[i] = calls[i - 1]
      BY <3>1, <1>5
    <3>3. QED
      BY <3>1, <3>2 DEF Open, Elements
  <2>3. CASE j = 1
    BY <1>5, <1>7, <2>2, <2>3
  <2>4. CASE k = 1
    BY <1>5, <1>7, <2>2, <2>4
  <2>5. CASE j # 1 /\ k # 1
    <3>1. j - 1 # k - 1
      BY <1>5, <2>1
    <3>2. QED
      BY <2>2, <2>5, <3>1 DEF IInv, CallsDistinct
  <2>6. QED
    BY <2>3, <2>4, <2>5
<1>9. Len(s.to) \in Nat /\ Len(s.to) # 0
  <2>1. Len(s.to) \in Nat
    BY <1>1 DEF IsShares, IsShareTable
  <2>2. QED
    BY <1>1, <2>1 DEF TotalBps, RunningBps, TOTAL_BPS
<1>10. LoopInv(p)'
  <2>1. \A i \in 1..Len(s.to) : s.to[i] \in Accounts
    BY <1>1 DEF Execute, IsShares, IsShareTable, Recipients
  <2>2. /\ Len(d.amounts) = 0
        /\ d.allocated * TOTAL_BPS <= d.available * RunningBps(s, 0)
    BY <1>1 DEF RunningBps, TOTAL_BPS
  <2>3. commitment'[p] = o
    BY <1>1, <1>2
  <2>4. QED
    BY <1>1, <1>4, <1>5, <1>9, <2>1, <2>2, <2>3 DEF LoopInv
<1>11. OwnSignature(p)'
  BY <1>1, <1>2, <1>4 DEF Execute, Accepted, OwnSignature
<1>12. ASSUME NEW q \in Policies, q # p
       PROVE  /\ status'[q] = "Executed" => LoopInv(q)' /\ OwnSignature(q)'
              /\ status'[q] # "Executed" => NoLoop(q)'
  <2>1. q \in Open' <=> q \in Open
    BY <1>5, <1>12
  <2>2. QED
    BY <1>2, <1>4, <1>12, <2>1 DEF IInv, LoopInv, OwnSignature, NoLoop
<1>13. \A q \in Policies : ~Spent(q)' => stray'[q] = 0
  BY <1>2, <1>4 DEF IInv, Spent
<1>14. OnlyStrayTokensStranded'
  <2>1. bal'[p] = stray'[p] + Owed(p)' /\ p \in Open'
    BY <1>1, <1>2, <1>4, <1>5 DEF IInv, Spent, Owed
  <2>2. \A q \in Policies : q # p => /\ Spent(q)' <=> Spent(q)
                                     /\ Owed(q)' = Owed(q)
                                     /\ q \in Open' <=> q \in Open
    BY <1>4, <1>5 DEF Spent, Owed
  <2>3. QED
    BY <1>2, <2>1, <2>2 DEF IInv, OnlyStrayTokensStranded
<1>15. QED
  BY <1>4, <1>6, <1>8, <1>10, <1>11, <1>12, <1>13, <1>14 DEF IInv

\* What a turn of the loop pays, and what it leaves.
LEMMA TurnAmount ==
    ASSUME IInv, NEW p \in Policies, p \in Open
    PROVE  LET d == payout[p]
               i == LoopIndex(p)
               n == Len(d.shares.to)
           IN  /\ status[p] = "Executed"
               /\ i \in 1..n
               /\ n \in Nat
               /\ Amount(p) \in Nat
               /\ d.available \in Nat
               /\ d.allocated \in Nat
               /\ d.allocated + Amount(p) <= d.available
               /\ i < n => /\ Amount(p) = Floor(d.available, d.shares, i)
                           /\ (d.allocated + Amount(p)) * TOTAL_BPS
                                  <= d.available * RunningBps(d.shares, i)
               /\ i = n => /\ d.allocated + Amount(p) = d.available
                           /\ Amount(p) >= Floor(d.available, d.shares, i)
<1> DEFINE d == payout[p]
           s == d.shares
           m == Len(d.amounts)
           n == Len(s.to)
           i == m + 1
           fl == Floor(d.available, s, i)
<1>1. status[p] = "Executed" /\ LoopInv(p)
  BY DEF IInv, NoLoop
<1>2. /\ d.available \in Nat
      /\ d.allocated \in Nat
      /\ m \in Nat
  BY DEF IInv, TypeOK, Payouts
<1>3. IsShares(s) /\ TotalBps(s) = TOTAL_BPS
  BY <1>1, OpeningAssumption DEF LoopInv
<1>4. n \in Nat /\ i \in 1..n
  <2>1. n \in Nat
    BY <1>3 DEF IsShares, IsShareTable
  <2>2. m < n
    BY <1>1 DEF LoopInv
  <2>3. QED
    BY <1>2, <2>1, <2>2
<1>5. /\ RunningBps(s, i) \in Nat
      /\ RunningBps(s, m) \in Nat
      /\ ShareBps(s, i) \in Nat
      /\ RunningBps(s, i) = RunningBps(s, m) + ShareBps(s, i)
      /\ RunningBps(s, i) <= TOTAL_BPS
  <2>1. i - 1 = m
    BY <1>2
  <2>2. QED
    BY <1>3, <1>4, <2>1, Running
<1>6. d.allocated * TOTAL_BPS <= d.available * RunningBps(s, m)
  BY <1>1, <1>4 DEF LoopInv
<1>7. /\ fl \in Nat
      /\ (d.allocated + fl) * TOTAL_BPS <= d.available * RunningBps(s, i)
      /\ d.allocated + fl <= d.available
      /\ RunningBps(s, i) = TOTAL_BPS => fl <= d.available - d.allocated
  <2> HIDE DEF d, m, n, i
  <2> QED
    BY <1>2, <1>5, <1>6, LoopArithmetic DEF Floor
<1>8. LoopIndex(p) = i
  BY DEF LoopIndex
<1>9. CASE i < n
  <2>1. Amount(p) = fl
    BY <1>4, <1>8, <1>9 DEF Amount, IsLast
  <2>2. QED
    BY <1>1, <1>2, <1>4, <1>7, <1>8, <1>9, <2>1
<1>10. CASE i = n
  <2>1. Amount(p) = d.available - d.allocated
    BY <1>8, <1>10 DEF Amount, IsLast, Owed
  <2>2. RunningBps(s, i) = TOTAL_BPS
    BY <1>3, <1>10 DEF TotalBps
  <2>3. fl <= d.available - d.allocated
    BY <1>7, <2>2
  <2>4. Amount(p) \in Nat /\ d.allocated + Amount(p) = d.available /\ Amount(p) >= fl
    <3> HIDE DEF fl, d
    <3> QED BY <1>2, <1>7, <2>1, <2>3
  <2>5. QED
    BY <1>1, <1>2, <1>4, <1>8, <1>10, <2>4
<1>11. QED
  BY <1>4, <1>9, <1>10

\* The policy whose turn it is to pay is on the stack.
LEMMA HeadOpen ==
    ASSUME IInv, NEW p \in Policies, Pay(p)
    PROVE  /\ calls \in Seq(Policies)
           /\ calls # <<>>
           /\ p = Head(calls)
           /\ p \in Open
<1>1. calls \in Seq(Policies) /\ calls # <<>> /\ p = Head(calls)
  BY DEF Pay, IInv, TypeOK
<1>2. 1 \in 1..Len(calls) /\ p = calls[1]
  BY <1>1
<1>3. QED
  BY <1>1, <1>2 DEF Open, Elements

LEMMA PayInv ==
    ASSUME IInv, NEW p \in Policies, Pay(p)
    PROVE  IInv'
<1> DEFINE d == payout[p]
           s == d.shares
           i == LoopIndex(p)
           n == Len(s.to)
           to == s.to[i]
           amt == Amount(p)
           e == payout'[p]
<1>1. /\ calls \in Seq(Policies)
      /\ calls # <<>>
      /\ p = Head(calls)
      /\ p \in Open
  BY HeadOpen
<1>2. /\ status[p] = "Executed"
      /\ i \in 1..n
      /\ n \in Nat
      /\ amt \in Nat
      /\ d.available \in Nat
      /\ d.allocated \in Nat
      /\ d.allocated + amt <= d.available
      /\ i < n => /\ amt = Floor(d.available, s, i)
                  /\ (d.allocated + amt) * TOTAL_BPS <= d.available * RunningBps(s, i)
      /\ i = n => /\ d.allocated + amt = d.available
                  /\ amt >= Floor(d.available, s, i)
  BY <1>1, TurnAmount
<1>3. LoopInv(p) /\ OwnSignature(p)
  BY <1>2 DEF IInv
<1>4. to \in Addresses /\ p \in Addresses /\ to # p /\ to \in Accounts
  BY <1>2, <1>3, AddressAssumption DEF LoopInv, Addresses
<1>5. bal[p] = stray[p] + (d.available - d.allocated) /\ stray[p] \in Nat
  BY <1>1, <1>2 DEF IInv, OnlyStrayTokensStranded, Spent, Owed, TypeOK
<1>6. /\ bal' \in [Addresses -> Nat]
      /\ bal'[p] = bal[p] - amt
      /\ \A x \in Addresses : x # p /\ x # to => bal'[x] = bal[x]
  <2>1. amt <= bal[p]
    <3> HIDE DEF amt, d
    <3> QED BY <1>2, <1>5
  <2>2. Move(p, to, amt)
    BY DEF Pay
  <2>3. QED
    BY <1>2, <1>4, <2>1, <2>2, MoveType DEF IInv, TypeOK
<1>7. /\ payout' = [payout EXCEPT ![p].allocated = @ + amt,
                                  ![p].amounts = Append(@, amt)]
      /\ UNCHANGED <<status, owner, commitment, triggeredAt, used, stray,
                     now, attested, signed>>
  BY DEF Pay, chainVars
<1>8. d \in Payouts /\ d.amounts \in Seq(Nat) /\ payout \in [Policies -> Payouts]
  BY DEF IInv, TypeOK, Payouts
<1>9. /\ e.shares = s
      /\ e.available = d.available
      /\ e.allocated = d.allocated + amt
      /\ e.amounts = Append(d.amounts, amt)
      /\ payout' \in [Policies -> Payouts]
      /\ \A q \in Policies : q # p => payout'[q] = payout[q]
  <2> DEFINE f == [d EXCEPT !.allocated = d.allocated + amt,
                            !.amounts = Append(d.amounts, amt)]
  <2>1. payout' = [payout EXCEPT ![p] = f]
    <3> HIDE DEF amt
    <3> QED BY <1>7, <1>8
  <2>2. d.allocated + amt \in Nat /\ Append(d.amounts, amt) \in Seq(Nat)
    <3> HIDE DEF amt
    <3> QED BY <1>2, <1>8
  <2>3. /\ f \in Payouts
        /\ f.shares = s
        /\ f.available = d.available
        /\ f.allocated = d.allocated + amt
        /\ f.amounts = Append(d.amounts, amt)
    <3> DEFINE a == d.allocated + amt
               b == Append(d.amounts, amt)
    <3>1. a \in Nat /\ b \in Seq(Nat) /\ d \in Payouts
      BY <1>8, <2>2
    <3> HIDE DEF a, b, d
    <3>2. LET r == [d EXCEPT !.allocated = a, !.amounts = b]
          IN  /\ r \in Payouts
              /\ r.shares = d.shares
              /\ r.available = d.available
              /\ r.allocated = a
              /\ r.amounts = b
      BY <3>1 DEF Payouts
    <3>3. QED
      BY <3>2 DEF a, b
  <2> HIDE DEF f
  <2>4. QED
    BY <1>8, <2>1, <2>3
<1>10. /\ Len(e.amounts) = i
       /\ i - 1 = Len(d.amounts)
       /\ e.amounts[i] = amt
       /\ \A k \in 1..(i - 1) : e.amounts[k] = d.amounts[k]
  <2>1. i = Len(d.amounts) + 1 /\ Len(d.amounts) \in Nat
    BY <1>8 DEF LoopIndex
  <2> HIDE DEF amt, d, i
  <2>2. QED
    BY <1>8, <1>9, <2>1
<1>11. /\ calls' \in Seq(Policies)
       /\ CallsDistinct'
       /\ Open' = IF i = n THEN Open \ {p} ELSE Open
  <2>1. calls' = IF i = n THEN Tail(calls) ELSE calls
    BY DEF Pay, IsLast
  <2>2. CASE i = n
    <3>1. \A j, k \in 1..Len(calls) : j # k => calls[j] # calls[k]
      BY DEF IInv, CallsDistinct
    <3>2. /\ Tail(calls) \in Seq(Policies)
          /\ Elements(Tail(calls)) = Elements(calls) \ {Head(calls)}
          /\ \A j, k \in 1..Len(Tail(calls)) : j # k => Tail(calls)[j] # Tail(calls)[k]
      <4> HIDE DEF i, n
      <4> QED BY <1>1, <3>1, PopElements
    <3>3. calls' = Tail(calls)
      BY <2>1, <2>2
    <3> HIDE DEF i, n
    <3>4. QED
      BY <1>1, <2>2, <3>2, <3>3 DEF CallsDistinct, Open
  <2>3. CASE i # n
    BY <1>1, <2>1, <2>3 DEF IInv, CallsDistinct, Open, Elements
  <2>4. QED
    BY <2>2, <2>3
<1>12. TypeOK'
  BY <1>6, <1>7, <1>9, <1>11 DEF IInv, TypeOK
<1>13. LoopInv(p)'
  <2>1. /\ e.shares = s
        /\ e.available = d.available
        /\ e.allocated = d.allocated + amt
    BY <1>9
  <2>2. /\ commitment'[p] \in Openings
        /\ s = commitment'[p].shares
        /\ TotalBps(s) = TOTAL_BPS
        /\ \A k \in 1..n : s.to[k] \in Accounts
    BY <1>3, <1>7 DEF LoopInv
  <2>3. p \in Open' <=> i < n
    BY <1>1, <1>2, <1>11
  <2>4. i < n => (d.allocated + amt) * TOTAL_BPS <= d.available * RunningBps(s, i)
    BY <1>2
  <2>5. ASSUME NEW k \in 1..(n - 1), k <= i
        PROVE  e.amounts[k] = Floor(d.available, s, k)
    <3>1. CASE k = i
      BY <1>2, <1>10, <2>5, <3>1
    <3>2. CASE k # i
      <4>1. k \in 1..(i - 1) /\ k <= Len(d.amounts)
        BY <1>2, <1>10, <2>5, <3>2
      <4>2. d.amounts[k] = Floor(d.available, s, k)
        BY <1>3, <4>1 DEF LoopInv
      <4>3. QED
        BY <1>10, <4>1, <4>2
    <3>3. QED
      BY <3>1, <3>2
  <2>6. i = n => /\ d.allocated + amt = d.available
                 /\ e.amounts[n] >= Floor(d.available, s, n)
    BY <1>2, <1>10
  <2> HIDE DEF amt, s, i, d
  <2>7. QED
    BY <1>2, <1>10, <2>1, <2>2, <2>3, <2>4, <2>5, <2>6 DEF LoopInv
<1>14. OwnSignature(p)'
  BY <1>3, <1>7 DEF OwnSignature
<1>15. ASSUME NEW q \in Policies, q # p
       PROVE  /\ status'[q] = "Executed" => LoopInv(q)' /\ OwnSignature(q)'
              /\ status'[q] # "Executed" => NoLoop(q)'
  <2>1. (q \in Open' <=> q \in Open) /\ payout'[q] = payout[q]
    BY <1>9, <1>11, <1>15
  <2>2. /\ status'[q] = status[q]
        /\ commitment'[q] = commitment[q]
        /\ triggeredAt'[q] = triggeredAt[q]
        /\ used'[q] = used[q]
    BY <1>7
  <2>3. LoopInv(q) => LoopInv(q)'
    BY <2>1, <2>2 DEF LoopInv
  <2>4. (OwnSignature(q) => OwnSignature(q)') /\ (NoLoop(q) => NoLoop(q)')
    BY <2>1, <2>2 DEF OwnSignature, NoLoop
  <2>5. QED
    BY <2>2, <2>3, <2>4 DEF IInv
<1>16. \A q \in Policies : ~Spent(q)' => stray'[q] = 0
  BY <1>7 DEF IInv, Spent
<1>17. OnlyStrayTokensStranded'
  <2>1. bal'[p] = stray'[p] + (IF p \in Open' THEN Owed(p)' ELSE 0)
    <3>1. Owed(p)' = d.available - (d.allocated + amt)
      BY <1>9 DEF Owed
    <3>2. i = n => p \notin Open' /\ d.allocated + amt = d.available
      BY <1>2, <1>11
    <3>3. i # n => p \in Open'
      BY <1>1, <1>11
    <3>4. stray'[p] = stray[p]
      BY <1>7
    <3> HIDE DEF amt, d, i, n
    <3>5. QED
      BY <1>2, <1>5, <1>6, <3>1, <3>2, <3>3, <3>4
  <2>2. ASSUME NEW q \in Policies, q # p, Spent(q)'
        PROVE  bal'[q] = stray'[q] + (IF q \in Open' THEN Owed(q)' ELSE 0)
    <3>1. /\ Spent(q)
          /\ Owed(q)' = Owed(q)
          /\ q \in Open' <=> q \in Open
          /\ q \in Addresses
          /\ q # to
      BY <1>4, <1>7, <1>9, <1>11, <2>2, AddressAssumption DEF Spent, Owed, Addresses
    <3>2. bal'[q] = bal[q] /\ stray'[q] = stray[q]
      BY <1>6, <1>7, <2>2, <3>1
    <3>3. QED
      BY <3>1, <3>2 DEF IInv, OnlyStrayTokensStranded
  <2>3. QED
    BY <2>1, <2>2 DEF OnlyStrayTokensStranded
<1>18. QED
  BY <1>2, <1>7, <1>12, <1>11, <1>13, <1>14, <1>15, <1>16, <1>17 DEF IInv

LEMMA NextInv == IInv /\ [Next]_vars => IInv'
<1> SUFFICES ASSUME IInv, [Next]_vars PROVE IInv'
  OBVIOUS
<1>1. CASE World
  BY <1>1, WorldInv
<1>2. ASSUME NEW p \in Policies, PolicyCall(p) PROVE IInv'
  BY <1>2, DeployInv, DepositInv, WithdrawInv, CancelInv, ArmInv, ExecuteInv,
     PayInv, DirectTransferInv DEF PolicyCall
<1>3. CASE UNCHANGED vars
  BY <1>3 DEF vars, IInv, TypeOK, CallsDistinct, LoopInv, OwnSignature, NoLoop,
     Spent, Owed, Open, OnlyStrayTokensStranded
<1>4. QED
  BY <1>1, <1>2, <1>3 DEF Next

\* The inductive invariant: what the loop of every execution has paid so far,
\* and where every token of a spent policy is.
THEOREM Invariance == Spec => []IInv
BY InitInv, NextInv, PTL DEF Spec

-----------------------------------------------------------------------------
(* What it implies                                                         *)

\* Type correctness: the contracts never move more than the payer holds, so an
\* execution that passed its checks cannot fail in its loop.
THEOREM TypeCorrect == Spec => []TypeOK
BY Invariance, PTL DEF IInv

\* Every execution pays the committed split, all of it and to the unit,
\* whatever the machines sign and whatever is called from inside a transfer.
THEOREM PaysTheCommittedSplit == Spec => []CommittedSplit
<1>1. IInv => CommittedSplit
  <2> SUFFICES ASSUME IInv, NEW p \in Policies, status[p] = "Executed", p \notin Open
               PROVE  LET s == commitment[p].shares
                          n == Len(s.to)
                      IN  /\ payout[p].shares = s
                          /\ Len(payout[p].amounts) = n
                          /\ \A i \in 1..(n - 1) :
                                 payout[p].amounts[i] = Floor(payout[p].available, s, i)
                          /\ payout[p].amounts[n] >= Floor(payout[p].available, s, n)
                          /\ payout[p].allocated = payout[p].available
    BY DEF CommittedSplit
  <2>1. LoopInv(p)
    BY DEF IInv
  <2>2. Len(payout[p].amounts) \in Nat /\ Len(commitment[p].shares.to) \in Nat
    BY <2>1, OpeningAssumption DEF IInv, TypeOK, Payouts, LoopInv, IsShares, IsShareTable
  <2>3. Len(payout[p].amounts) = Len(commitment[p].shares.to)
    BY <2>1, <2>2 DEF LoopInv
  <2>4. payout[p].shares = commitment[p].shares
    BY <2>1 DEF LoopInv
  <2>5. \A i \in 1..(Len(commitment[p].shares.to) - 1) :
            payout[p].amounts[i] = Floor(payout[p].available, commitment[p].shares, i)
    BY <2>1, <2>2, <2>3, <2>4 DEF LoopInv
  <2>6. /\ payout[p].amounts[Len(commitment[p].shares.to)]
               >= Floor(payout[p].available, commitment[p].shares,
                        Len(commitment[p].shares.to))
        /\ payout[p].allocated = payout[p].available
    BY <2>1, <2>3, <2>4 DEF LoopInv
  <2>7. QED
    BY <2>3, <2>4, <2>5, <2>6
<1>2. QED
  BY <1>1, Invariance, PTL

\* No token of a policy is stranded but what arrives after it was spent.
THEOREM StrandsNothing == Spec => []OnlyStrayTokensStranded
BY Invariance, PTL DEF IInv

\* A signature is good for one policy.
THEOREM SignatureForOnePolicy == Spec => []OneSignatureOnePolicy
<1>1. IInv => OneSignatureOnePolicy
  <2> SUFFICES ASSUME IInv, NEW p \in Policies, NEW q \in Policies, p # q,
                      status[p] = "Executed", status[q] = "Executed"
               PROVE  used[p] # used[q]
    BY DEF OneSignatureOnePolicy
  <2>1. OwnSignature(p) /\ OwnSignature(q)
    BY DEF IInv
  <2>2. used[p].digest.policy = p /\ used[q].digest.policy = q
    BY <2>1 DEF OwnSignature, Digest
  <2>3. QED
    BY <2>2
<1>2. QED
  BY <1>1, Invariance, PTL

-----------------------------------------------------------------------------
(* What no step may do                                                     *)

\* What a step does to the policies other than the one it calls.
LEMMA OthersUntouched ==
    ASSUME IInv, NEW p \in Policies, PolicyCall(p), NEW q \in Policies, q # p
    PROVE  /\ status'[q] = status[q]
           /\ owner'[q] = owner[q]
           /\ commitment'[q] = commitment[q]
           /\ triggeredAt'[q] = triggeredAt[q]
           /\ payout'[q] = payout[q]
           /\ bal'[q] = bal[q]
<1> USE DEF chainVars, historyVars
<1>1. p \in Addresses /\ q \in Addresses /\ q \notin Accounts /\ bal \in [Addresses -> Nat]
  BY AddressAssumption DEF IInv, TypeOK, Addresses
<1>2. ASSUME NEW a \in Accounts, NEW o \in Openings, Deploy(a, p, o)
      PROVE  /\ status'[q] = status[q] /\ owner'[q] = owner[q]
             /\ commitment'[q] = commitment[q] /\ triggeredAt'[q] = triggeredAt[q]
             /\ payout'[q] = payout[q] /\ bal'[q] = bal[q]
  BY <1>2 DEF Deploy, IInv, TypeOK
<1>3. ASSUME NEW a \in Accounts, NEW n \in 1..MaxAmount,
             Deposit(a, p, n) \/ Withdraw(a, p, n) \/ DirectTransfer(a, p, n)
      PROVE  /\ status'[q] = status[q] /\ owner'[q] = owner[q]
             /\ commitment'[q] = commitment[q] /\ triggeredAt'[q] = triggeredAt[q]
             /\ payout'[q] = payout[q] /\ bal'[q] = bal[q]
  BY <1>1, <1>3 DEF Deposit, Withdraw, DirectTransfer, Move
<1>4. ASSUME NEW a \in Accounts, Cancel(a, p)
      PROVE  /\ status'[q] = status[q] /\ owner'[q] = owner[q]
             /\ commitment'[q] = commitment[q] /\ triggeredAt'[q] = triggeredAt[q]
             /\ payout'[q] = payout[q] /\ bal'[q] = bal[q]
  BY <1>1, <1>4 DEF Cancel, Move, IInv, TypeOK
<1>5. ASSUME Arm(p)
      PROVE  /\ status'[q] = status[q] /\ owner'[q] = owner[q]
             /\ commitment'[q] = commitment[q] /\ triggeredAt'[q] = triggeredAt[q]
             /\ payout'[q] = payout[q] /\ bal'[q] = bal[q]
  BY <1>5 DEF Arm, IInv, TypeOK
<1>6. ASSUME NEW o \in Openings, NEW sig \in signed, Execute(p, o, sig)
      PROVE  /\ status'[q] = status[q] /\ owner'[q] = owner[q]
             /\ commitment'[q] = commitment[q] /\ triggeredAt'[q] = triggeredAt[q]
             /\ payout'[q] = payout[q] /\ bal'[q] = bal[q]
  BY <1>6 DEF Execute, IInv, TypeOK
<1>7. ASSUME Pay(p)
      PROVE  /\ status'[q] = status[q] /\ owner'[q] = owner[q]
             /\ commitment'[q] = commitment[q] /\ triggeredAt'[q] = triggeredAt[q]
             /\ payout'[q] = payout[q] /\ bal'[q] = bal[q]
  <2>1. p \in Open
    BY <1>7, HeadOpen
  <2>2. payout[p].shares.to[LoopIndex(p)] \in Accounts
    BY <2>1, TurnAmount DEF IInv, LoopInv
  <2>3. bal'[q] = bal[q]
    BY <1>1, <1>7, <2>2 DEF Pay, Move
  <2>4. QED
    BY <1>7, <2>3 DEF Pay, IInv, TypeOK
<1>8. QED
  BY <1>2, <1>3, <1>4, <1>5, <1>6, <1>7 DEF PolicyCall

\* What the calls do to the status and the balance of the policy they call.
LEMMA CallEffect ==
    ASSUME IInv, NEW p \in Policies, PolicyCall(p),
           status[p] \in {"Triggered", "Executed"}
    PROVE  /\ status'[p] \in {"Triggered", "Executed"}
           /\ owner'[p] = owner[p]
           /\ commitment'[p] = commitment[p]
           /\ triggeredAt'[p] = triggeredAt[p]
           /\ bal'[p] < bal[p] => status[p] = "Executed" /\ p \in Open
<1> USE DEF chainVars, historyVars
<1>1. /\ p \in Addresses /\ p \notin Accounts
      /\ bal[p] \in Int
      /\ bal \in [Addresses -> Nat]
  BY AddressAssumption DEF IInv, TypeOK, Addresses
<1>2. ASSUME NEW a \in Accounts, NEW n \in 1..MaxAmount, DirectTransfer(a, p, n)
      PROVE  bal'[p] >= bal[p] /\ UNCHANGED <<status, owner, commitment, triggeredAt>>
  <2>1. bal'[p] = bal[p] + n /\ n \in Nat
    BY <1>1, <1>2, BoundAssumption DEF DirectTransfer, Move
  <2>2. QED
    BY <1>1, <1>2, <2>1 DEF DirectTransfer
<1>3. ASSUME NEW o \in Openings, NEW sig \in signed, Execute(p, o, sig)
      PROVE  /\ status'[p] = "Executed"
             /\ UNCHANGED <<bal, owner, commitment, triggeredAt>>
  BY <1>3 DEF Execute, IInv, TypeOK
<1>4. ASSUME Pay(p)
      PROVE  /\ status[p] = "Executed"
             /\ p \in Open
             /\ UNCHANGED <<status, owner, commitment, triggeredAt>>
  <2>1. p \in Open
    BY <1>4, HeadOpen
  <2>2. QED
    BY <1>4, <2>1, TurnAmount DEF Pay
<1>5. \/ \E a \in Accounts, n \in 1..MaxAmount : DirectTransfer(a, p, n)
      \/ \E o \in Openings, sig \in signed : Execute(p, o, sig)
      \/ Pay(p)
  BY DEF PolicyCall, Deploy, Deposit, Withdraw, Cancel, Arm
<1>6. CASE \E a \in Accounts, n \in 1..MaxAmount : DirectTransfer(a, p, n)
  <2>1. bal'[p] >= bal[p] /\ UNCHANGED <<status, owner, commitment, triggeredAt>>
    BY <1>2, <1>6
  <2>2. bal'[p] \in Int
    BY <1>1, <1>6, BoundAssumption DEF DirectTransfer, Move
  <2>3. QED
    BY <1>1, <2>1, <2>2
<1>7. CASE \E o \in Openings, sig \in signed : Execute(p, o, sig)
  BY <1>1, <1>3, <1>7
<1>8. CASE Pay(p)
  BY <1>4, <1>8
<1>9. QED
  BY <1>5, <1>6, <1>7, <1>8

\* An armed policy pays only by its own execution, and nothing about it can be
\* taken back or rewritten.
THEOREM ArmedMeansLocked == Spec => LockedOnceArmed
<1> DEFINE Locked(p) ==
        status[p] \in {"Triggered", "Executed"} =>
            /\ status'[p] \in {"Triggered", "Executed"}
            /\ owner'[p] = owner[p]
            /\ commitment'[p] = commitment[p]
            /\ triggeredAt'[p] = triggeredAt[p]
            /\ bal'[p] < bal[p] => /\ status[p] = "Executed"
                                   /\ p \in Open
<1>1. ASSUME IInv, Next, NEW p \in Policies PROVE Locked(p)
  <2>1. bal[p] \in Int
    BY <1>1 DEF IInv, TypeOK, Addresses
  <2>2. CASE World
    BY <2>1, <2>2 DEF World, Sign, ChangeAttestation, Tick, chainVars
  <2>3. ASSUME NEW q \in Policies, PolicyCall(q), q # p PROVE Locked(p)
    BY <1>1, <2>1, <2>3, OthersUntouched
  <2>4. ASSUME PolicyCall(p) PROVE Locked(p)
    BY <1>1, <2>4, CallEffect
  <2>5. QED
    BY <1>1, <2>2, <2>3, <2>4 DEF Next
<1>2. IInv /\ [Next]_vars => [\A p \in Policies : Locked(p)]_vars
  BY <1>1
<1>3. QED
  BY <1>2, Invariance, PTL DEF Spec, LockedOnceArmed

-----------------------------------------------------------------------------
(* The contracts implement the escrow                                      *)

Held(p) == bal[p] - Owed(p)

LEMMA InitPromise == Init => Promise!EscrowInit
<1> SUFFICES ASSUME Init PROVE Promise!EscrowInit
  OBVIOUS
<1>1. \A p \in Policies : /\ status[p] = "None"
                          /\ Owed(p) = 0
                          /\ bal[p] = 0
  BY AddressAssumption DEF Init, Owed, NoPayout, Addresses
<1>2. QED
  BY <1>1 DEF Promise!EscrowInit, EscrowPhase

\* A call on p maps to an escrow action on p when it does so for p alone.
LEMMA OthersMapped ==
    ASSUME IInv, NEW p \in Policies, PolicyCall(p)
    PROVE  \A q \in Policies : q # p =>
               /\ EscrowPhase[status'[q]] = EscrowPhase[status[q]]
               /\ Held(q)' = Held(q)
               /\ Owed(q)' = Owed(q)
BY OthersUntouched DEF Held, Owed

\* The mapped variables, as functions of their own.
MPhase == [p \in Policies |-> EscrowPhase[status[p]]]
MHeld == [p \in Policies |-> Held(p)]
MOwed == [p \in Policies |-> Owed(p)]

\* A call on p changes the mapped variables at p only.
LEMMA MappedExcept ==
    ASSUME IInv, NEW p \in Policies, PolicyCall(p)
    PROVE  /\ MPhase' = [MPhase EXCEPT ![p] = MPhase'[p]]
           /\ MHeld' = [MHeld EXCEPT ![p] = MHeld'[p]]
           /\ MOwed' = [MOwed EXCEPT ![p] = MOwed'[p]]
           /\ MPhase[p] = EscrowPhase[status[p]]
           /\ MPhase'[p] = EscrowPhase[status'[p]]
           /\ MHeld[p] = Held(p)
           /\ MHeld'[p] = Held(p)'
           /\ MOwed[p] = Owed(p)
           /\ MOwed'[p] = Owed(p)'
BY OthersMapped DEF MPhase, MHeld, MOwed

\* The status, balance and debt of p after each call on it.
LEMMA CallCases ==
    ASSUME IInv, NEW p \in Policies, PolicyCall(p)
    PROVE  \/ /\ status[p] = "None" /\ status'[p] = "Active"
              /\ Held(p)' = Held(p) /\ Owed(p)' = Owed(p)
           \/ /\ status'[p] = status[p]
              /\ Held(p)' > Held(p) /\ Owed(p)' = Owed(p)
           \/ /\ status[p] = "Active" /\ status'[p] = "Active"
              /\ Held(p)' \in 0..Held(p) /\ Owed(p)' = Owed(p)
           \/ /\ status[p] = "Active" /\ status'[p] = "Cancelled"
              /\ Held(p)' = 0 /\ Owed(p)' = Owed(p)
           \/ /\ status[p] = "Active" /\ status'[p] = "Triggered"
              /\ Held(p)' = Held(p) /\ Owed(p)' = Owed(p)
           \/ /\ status[p] = "Triggered" /\ status'[p] = "Executed"
              /\ Held(p) > 0 /\ Held(p)' = 0 /\ Owed(p)' = Held(p)
           \/ /\ status[p] = "Executed" /\ status'[p] = "Executed"
              /\ Held(p)' = Held(p) /\ Owed(p)' \in 0..Owed(p)
<1> USE DEF chainVars, historyVars
<1>1. /\ p \in Addresses /\ p \notin Accounts
      /\ bal[p] \in Nat
      /\ bal \in [Addresses -> Nat]
      /\ Owed(p) \in Int
      /\ payout \in [Policies -> Payouts]
  BY AddressAssumption DEF IInv, TypeOK, Addresses, Owed, Payouts
<1>2. status[p] # "Executed" => Owed(p) = 0
  BY DEF IInv, NoLoop, NoPayout, Owed
<1>3. ASSUME NEW a \in Accounts, NEW o \in Openings, Deploy(a, p, o)
      PROVE  /\ status[p] = "None" /\ status'[p] = "Active"
             /\ Held(p)' = Held(p) /\ Owed(p)' = Owed(p)
  BY <1>3 DEF Deploy, IInv, TypeOK, Held, Owed
<1>4. ASSUME NEW a \in Accounts, NEW n \in 1..MaxAmount,
             Deposit(a, p, n) \/ DirectTransfer(a, p, n)
      PROVE  /\ status'[p] = status[p]
             /\ Held(p)' > Held(p) /\ Owed(p)' = Owed(p)
  <2>1. bal'[p] = bal[p] + n /\ n \in Nat /\ n > 0
    BY <1>1, <1>4, BoundAssumption DEF Deposit, DirectTransfer, Move
  <2>2. UNCHANGED <<status, payout>>
    BY <1>4 DEF Deposit, DirectTransfer
  <2>3. QED
    BY <1>1, <2>1, <2>2 DEF Held, Owed
<1>5. ASSUME NEW a \in Accounts, NEW n \in 1..MaxAmount, Withdraw(a, p, n)
      PROVE  /\ status[p] = "Active" /\ status'[p] = "Active"
             /\ Held(p)' \in 0..Held(p) /\ Owed(p)' = Owed(p)
  <2>1. bal'[p] = bal[p] - n /\ n \in Nat /\ n <= bal[p]
    BY <1>1, <1>5, BoundAssumption DEF Withdraw, Move
  <2>2. UNCHANGED <<status, payout>> /\ status[p] = "Active"
    BY <1>5 DEF Withdraw
  <2>3. QED
    BY <1>1, <1>2, <2>1, <2>2 DEF Held, Owed
<1>6. ASSUME NEW a \in Accounts, Cancel(a, p)
      PROVE  /\ status[p] = "Active" /\ status'[p] = "Cancelled"
             /\ Held(p)' = 0 /\ Owed(p)' = Owed(p)
  <2>1. bal'[p] = 0
    BY <1>1, <1>6 DEF Cancel, Move
  <2>2. UNCHANGED payout /\ status[p] = "Active" /\ status'[p] = "Cancelled"
    BY <1>6 DEF Cancel, IInv, TypeOK
  <2>3. Owed(p)' = Owed(p) /\ Owed(p) = 0
    BY <1>2, <2>2 DEF Owed
  <2>4. QED
    BY <2>1, <2>2, <2>3 DEF Held
<1>7. ASSUME Arm(p)
      PROVE  /\ status[p] = "Active" /\ status'[p] = "Triggered"
             /\ Held(p)' = Held(p) /\ Owed(p)' = Owed(p)
  BY <1>7 DEF Arm, IInv, TypeOK, Held, Owed
<1>8. ASSUME NEW o \in Openings, NEW sig \in signed, Execute(p, o, sig)
      PROVE  /\ status[p] = "Triggered" /\ status'[p] = "Executed"
             /\ Held(p) > 0 /\ Held(p)' = 0 /\ Owed(p)' = Held(p)
  <2>1. /\ status[p] = "Triggered" /\ status'[p] = "Executed"
        /\ bal[p] > 0 /\ bal'[p] = bal[p]
        /\ payout'[p].available = bal[p] /\ payout'[p].allocated = 0
    BY <1>1, <1>8 DEF Execute, IInv, TypeOK
  <2>2. Owed(p) = 0 /\ Owed(p)' = bal[p]
    BY <1>1, <1>2, <2>1 DEF Owed
  <2>3. QED
    BY <1>1, <2>1, <2>2 DEF Held
<1>9. ASSUME Pay(p)
      PROVE  /\ status[p] = "Executed" /\ status'[p] = "Executed"
             /\ Held(p)' = Held(p) /\ Owed(p)' \in 0..Owed(p)
  <2>1. p \in Open
    BY <1>9, HeadOpen
  <2>2. /\ status[p] = "Executed"
        /\ LoopIndex(p) \in 1..Len(payout[p].shares.to)
        /\ Amount(p) \in Nat
        /\ payout[p].available \in Nat
        /\ payout[p].allocated \in Nat
        /\ payout[p].allocated + Amount(p) <= payout[p].available
    BY <2>1, TurnAmount
  <2>3. payout[p].shares.to[LoopIndex(p)] \in Accounts
    BY <2>2 DEF IInv, LoopInv
  <2>4. bal'[p] = bal[p] - Amount(p)
    BY <1>1, <1>9, <2>3 DEF Pay, Move
  <2>5. /\ payout'[p].available = payout[p].available
        /\ payout'[p].allocated = payout[p].allocated + Amount(p)
    BY <1>1, <1>9 DEF Pay, Payouts
  <2>6. status'[p] = status[p]
    BY <1>9 DEF Pay
  <2>7. QED
    BY <1>1, <2>2, <2>4, <2>5, <2>6 DEF Held, Owed
<1>10. QED
  BY <1>3, <1>4, <1>5, <1>6, <1>7, <1>8, <1>9 DEF PolicyCall

LEMMA PhaseNames ==
    /\ EscrowPhase["None"] = "none"
    /\ EscrowPhase["Active"] = "open"
    /\ EscrowPhase["Triggered"] = "locked"
    /\ EscrowPhase["Executed"] = "released"
    /\ EscrowPhase["Cancelled"] = "closed"
BY DEF EscrowPhase

\* Every call on a policy is one action of the escrow on its vault.
LEMMA CallPromise ==
    ASSUME IInv, NEW p \in Policies, PolicyCall(p)
    PROVE  Promise!EscrowNext \/ UNCHANGED <<MPhase, MHeld, MOwed>>
<1>1. /\ MPhase' = [MPhase EXCEPT ![p] = MPhase'[p]]
      /\ MHeld' = [MHeld EXCEPT ![p] = MHeld'[p]]
      /\ MOwed' = [MOwed EXCEPT ![p] = MOwed'[p]]
      /\ MPhase[p] = EscrowPhase[status[p]]
      /\ MPhase'[p] = EscrowPhase[status'[p]]
      /\ MHeld[p] = Held(p)
      /\ MHeld'[p] = Held(p)'
      /\ MOwed[p] = Owed(p)
      /\ MOwed'[p] = Owed(p)'
  BY MappedExcept
<1>2. /\ MPhase'[p] = MPhase[p] => MPhase' = MPhase
      /\ MHeld'[p] = MHeld[p] => MHeld' = MHeld
      /\ MOwed'[p] = MOwed[p] => MOwed' = MOwed
  <2>1. /\ [MPhase EXCEPT ![p] = MPhase[p]] = MPhase
        /\ [MHeld EXCEPT ![p] = MHeld[p]] = MHeld
        /\ [MOwed EXCEPT ![p] = MOwed[p]] = MOwed
    BY DEF MPhase, MHeld, MOwed
  <2>2. QED
    BY <1>1, <2>1
<1>3. CASE /\ status[p] = "None" /\ status'[p] = "Active"
           /\ Held(p)' = Held(p) /\ Owed(p)' = Owed(p)
  <2>1. /\ MPhase[p] = "none" /\ MPhase' = [MPhase EXCEPT ![p] = "open"]
        /\ MHeld' = MHeld /\ MOwed' = MOwed
    BY <1>1, <1>2, <1>3, PhaseNames
  <2>2. Promise!Open(p)
    BY <2>1 DEF Promise!Open, Promise!MoveTo, MPhase, MHeld, MOwed, Held
  <2>3. QED
    BY <2>2 DEF Promise!EscrowNext
<1>4. CASE /\ status'[p] = status[p]
           /\ Held(p)' > Held(p) /\ Owed(p)' = Owed(p)
  <2>1. /\ MPhase' = MPhase
        /\ MHeld' = [MHeld EXCEPT ![p] = MHeld'[p]] /\ MHeld'[p] > MHeld[p]
        /\ MOwed' = MOwed
    BY <1>1, <1>2, <1>4, PhaseNames
  <2>2. Promise!Receive(p)
    BY <2>1 DEF Promise!Receive, Promise!Only, MPhase, MHeld, MOwed, Held
  <2>3. QED
    BY <2>2 DEF Promise!EscrowNext
<1>5. CASE /\ status[p] = "Active" /\ status'[p] = "Active"
           /\ Held(p)' \in 0..Held(p) /\ Owed(p)' = Owed(p)
  <2>1. /\ MPhase[p] = "open" /\ MPhase' = MPhase
        /\ MHeld' = [MHeld EXCEPT ![p] = MHeld'[p]] /\ MHeld'[p] \in 0..MHeld[p]
        /\ MOwed' = MOwed
    BY <1>1, <1>2, <1>5, PhaseNames
  <2>2. Promise!TakeBack(p)
    BY <2>1 DEF Promise!TakeBack, Promise!Only, MPhase, MHeld, MOwed, Held
  <2>3. QED
    BY <2>2 DEF Promise!EscrowNext
<1>6. CASE /\ status[p] = "Active" /\ status'[p] = "Cancelled"
           /\ Held(p)' = 0 /\ Owed(p)' = Owed(p)
  <2>1. /\ MPhase[p] = "open" /\ MPhase' = [MPhase EXCEPT ![p] = "closed"]
        /\ MHeld' = [MHeld EXCEPT ![p] = 0] /\ MOwed' = MOwed
    BY <1>1, <1>2, <1>6, PhaseNames
  <2>2. Promise!Close(p)
    BY <2>1 DEF Promise!Close, Promise!MoveTo, MPhase, MHeld, MOwed, Held
  <2>3. QED
    BY <2>2 DEF Promise!EscrowNext
<1>7. CASE /\ status[p] = "Active" /\ status'[p] = "Triggered"
           /\ Held(p)' = Held(p) /\ Owed(p)' = Owed(p)
  <2>1. /\ MPhase[p] = "open" /\ MPhase' = [MPhase EXCEPT ![p] = "locked"]
        /\ MHeld' = MHeld /\ MOwed' = MOwed
    BY <1>1, <1>2, <1>7, PhaseNames
  <2>2. Promise!Lock(p)
    BY <2>1 DEF Promise!Lock, Promise!MoveTo, MPhase, MHeld, MOwed, Held
  <2>3. QED
    BY <2>2 DEF Promise!EscrowNext
<1>8. CASE /\ status[p] = "Triggered" /\ status'[p] = "Executed"
           /\ Held(p) > 0 /\ Held(p)' = 0 /\ Owed(p)' = Held(p)
  <2>1. /\ MPhase[p] = "locked" /\ MPhase' = [MPhase EXCEPT ![p] = "released"]
        /\ MHeld[p] > 0 /\ MHeld' = [MHeld EXCEPT ![p] = 0]
        /\ MOwed' = [MOwed EXCEPT ![p] = MHeld[p]]
    BY <1>1, <1>2, <1>8, PhaseNames
  <2>2. Promise!Release(p)
    BY <2>1 DEF Promise!Release, Promise!MoveTo, MPhase, MHeld, MOwed, Held
  <2>3. QED
    BY <2>2 DEF Promise!EscrowNext
<1>9. CASE /\ status[p] = "Executed" /\ status'[p] = "Executed"
           /\ Held(p)' = Held(p) /\ Owed(p)' \in 0..Owed(p)
  <2>1. /\ MPhase[p] = "released" /\ MPhase' = MPhase
        /\ MHeld' = MHeld
        /\ MOwed' = [MOwed EXCEPT ![p] = MOwed'[p]] /\ MOwed'[p] \in 0..MOwed[p]
    BY <1>1, <1>2, <1>9, PhaseNames
  <2>2. Promise!Disburse(p)
    BY <2>1 DEF Promise!Disburse, Promise!Only, MPhase, MHeld, MOwed, Held
  <2>3. QED
    BY <2>2 DEF Promise!EscrowNext
<1>10. QED
  BY <1>3, <1>4, <1>5, <1>6, <1>7, <1>8, <1>9, CallCases

\* The contracts, with arbitrary tokens, signers and callers, are an escrow.
THEOREM ImplementsEscrow == Spec => KeepsThePromise
<1>1. IInv /\ [Next]_vars => [Promise!EscrowNext]_(Promise!escrowVars)
  <2> SUFFICES ASSUME IInv, [Next]_vars
               PROVE  Promise!EscrowNext \/ UNCHANGED Promise!escrowVars
    OBVIOUS
  <2>1. UNCHANGED <<MPhase, MHeld, MOwed>> => UNCHANGED Promise!escrowVars
    BY DEF MPhase, MHeld, MOwed, Held, Promise!escrowVars
  <2>2. CASE World
    BY <2>2 DEF World, Sign, ChangeAttestation, Tick, chainVars, historyVars,
       Promise!escrowVars, Owed
  <2>3. CASE \E p \in Policies : PolicyCall(p)
    BY <2>1, <2>3, CallPromise
  <2>4. CASE UNCHANGED vars
    BY <2>4 DEF vars, Promise!escrowVars, Owed
  <2>5. QED
    BY <2>2, <2>3, <2>4 DEF Next
<1>2. QED
  BY <1>1, InitPromise, Invariance, PTL DEF Spec, KeepsThePromise, Promise!EscrowSpec
=============================================================================
