-------------------------- MODULE DeployFlowProofs --------------------------
(***************************************************************************)
(* Theorems about the deploy flow, for any number of drafts, policies and  *)
(* transactions under way, and any amounts.                                *)
(***************************************************************************)
EXTENDS DeployFlow, SequenceTheorems, TLAPS

FlowSteps == {"closed", "review", "seal", "done", "failed", "deploy", "configure", "handoff",
              "approve", "deposit"}
TxStates == {NotSent, "sent", "success", "reverted"}
Kinds == {"deploy", "configure", "handoff", "approve", "deposit"}

Flows == [step : FlowSteps, tx : TxStates, salt : Salts \cup {NoSalt}, sealed : BOOLEAN,
          policy : Policies \cup {NoPolicy}, deposit : Nat]

Pages == [step : {"away", "handoff", "approve", "deposit"}, tx : TxStates,
          policy : Policies \cup {NoPolicy}, amount : Nat]

\* A transaction under way creates a policy for a draft, or is about a policy.
WellFormed(t) ==
    /\ t.kind = "deploy" => t.salt \in Salts
    /\ t.kind # "deploy" => t.policy \in Policies

Txs == {t \in [kind : Kinds, policy : Policies \cup {NoPolicy}, salt : Salts \cup {NoSalt},
               amount : Nat, from : {"flow", "page", "nobody"}] : WellFormed(t)}

Typed ==
    /\ flow \in Flows
    /\ page \in Pages
    /\ vault \subseteq Entries
    /\ pending \in Seq(Txs)
    /\ commitment \in [Policies -> Salts \cup {NoSalt}]
    /\ configured \subseteq Policies
    /\ stored \subseteq Policies
    /\ allowance \in [Policies -> Nat]
    /\ wallet \in Nat
    /\ bal \in [Policies -> Nat]

\* The transaction that the flow waits for, and the page's.
FlowTx == [kind   |-> flow.step,
           policy |-> flow.policy,
           salt   |-> IF flow.step = "deploy" THEN flow.salt ELSE NoSalt,
           amount |-> IF flow.step \in {"approve", "deposit"} THEN flow.deposit ELSE 0,
           from   |-> "flow"]

PageTx == [kind |-> page.step, policy |-> page.policy, salt |-> NoSalt, amount |-> page.amount,
           from |-> "page"]

\* What is under way for the flow is what the flow waits for, and there is one.
AwaitedInv ==
    \A k \in 1..Len(pending) :
        /\ pending[k].from = "flow" => flow.tx = "sent" /\ pending[k] = FlowTx
        /\ pending[k].from = "page" => page.tx = "sent" /\ pending[k] = PageTx
        /\ \A j \in 1..Len(pending) :
               pending[j].from = pending[k].from /\ pending[k].from # "nobody" => j = k

\* A policy that the flow knows is the one that was created for its draft.
Known ==
    /\ flow.policy \in Policies
    /\ flow.salt \in Salts
    /\ commitment[flow.policy] = flow.salt

\* Up to the first entry nobody else has one for the policy; from then on there
\* is one, and the trigger is set.
Recorded == flow.policy \in configured /\ EntryOf(flow.policy) # {}

FlowInv ==
    /\ flow.tx # NotSent => flow.step \in Kinds
    /\ flow.step # "closed" => flow.salt \in Salts
    /\ flow.step = "deploy" /\ flow.tx = "success" => Known /\ EntryOf(flow.policy) = {}
    /\ flow.step = "configure" => Known /\ EntryOf(flow.policy) = {}
    /\ flow.step = "configure" /\ flow.tx = "success" => flow.policy \in configured
    /\ flow.step \in {"handoff", "approve", "deposit", "done"} => Known /\ Recorded
    /\ flow.step = "handoff" => flow.sealed
    /\ flow.step = "handoff" /\ flow.tx = "success" => flow.policy \in stored
    /\ flow.step = "deposit" /\ flow.tx = "success" => bal[flow.policy] >= flow.deposit

PageInv ==
    /\ page.tx # NotSent => page.step # "away"
    /\ page.step # "away" => page.policy \in Policies
    /\ page.step = "handoff" => \E e \in EntryOf(page.policy) : e.sealed
    /\ page.step = "handoff" /\ page.tx = "success" => page.policy \in stored

VaultInv == EntryOpensCommitment /\ HandoffWasMined

IInv == Typed /\ AwaitedInv /\ FlowInv /\ PageInv /\ VaultInv

-----------------------------------------------------------------------------
(* The queue of transactions                                               *)

\* The steps that send a transaction, and so the kinds of transactions.
LEMMA StepNames == Elements(Steps) = Kinds
BY DEF Elements, Steps, Kinds

\* The transactions that nobody awaits any more change nothing else.
LEMMA AbandonedTyped ==
    ASSUME Typed, NEW from \in {"flow", "page"}
    PROVE  /\ Abandoned(from) \in Seq(Txs)
           /\ Len(Abandoned(from)) = Len(pending)
           /\ \A k \in 1..Len(pending) :
                  /\ Abandoned(from)[k].from # from
                  /\ Abandoned(from)[k].from # "nobody" => Abandoned(from)[k] = pending[k]
<1>1. pending \in Seq(Txs) /\ Len(pending) \in Nat
    BY DEF Typed
<1>2. \A k \in 1..Len(pending) : pending[k] \in Txs
    BY <1>1
<1>3. \A t \in Txs : [t EXCEPT !.from = "nobody"] \in Txs
    BY DEF Txs, WellFormed
<1>4. \A k \in 1..Len(pending) : Abandoned(from)[k] \in Txs
    BY <1>2, <1>3 DEF Abandoned
<1>5. Abandoned(from) \in Seq(Txs) /\ Len(Abandoned(from)) = Len(pending)
    BY <1>1, <1>4 DEF Abandoned
<1>6. \A t \in Txs : [t EXCEPT !.from = "nobody"].from = "nobody"
    BY DEF Txs
<1>7. ASSUME NEW k \in 1..Len(pending)
      PROVE  /\ Abandoned(from)[k].from # from
             /\ Abandoned(from)[k].from # "nobody" => Abandoned(from)[k] = pending[k]
    BY <1>2, <1>6, <1>7 DEF Abandoned
<1> QED
    BY <1>5, <1>7

\* The queue when the head of it is taken off.
LEMMA TailOfPending ==
    ASSUME Typed, pending # <<>>
    PROVE  /\ Head(pending) \in Txs /\ Head(pending) = pending[1]
           /\ Len(pending) \in Nat \ {0}
           /\ Tail(pending) \in Seq(Txs)
           /\ Len(Tail(pending)) = Len(pending) - 1
           /\ \A k \in 1..(Len(pending) - 1) : Tail(pending)[k] = pending[k + 1]
BY DEF Typed

\* The queue with another transaction.
LEMMA AppendToPending ==
    ASSUME Typed, NEW t \in Txs
    PROVE  /\ Append(pending, t) \in Seq(Txs)
           /\ Len(pending) \in Nat
           /\ Len(Append(pending, t)) = Len(pending) + 1
           /\ \A k \in 1..Len(pending) : Append(pending, t)[k] = pending[k]
           /\ Append(pending, t)[Len(pending) + 1] = t
BY DEF Typed
\* Where the flow does not wait, nothing is under way for it, whatever it does.
LEMMA FlowNotWaiting ==
    ASSUME AwaitedInv, flow.tx # "sent", UNCHANGED <<page, pending>>
    PROVE  AwaitedInv'
BY DEF AwaitedInv, PageTx

\* Nor for the page.
LEMMA PageNotWaiting ==
    ASSUME AwaitedInv, page.tx # "sent", UNCHANGED <<flow, pending>>
    PROVE  AwaitedInv'
BY DEF AwaitedInv, FlowTx

\* When the flow, or the page, stops waiting, it may do whatever it does next.
LEMMA FlowStopsWaiting ==
    ASSUME Typed, AwaitedInv, pending' = Abandoned("flow"), UNCHANGED page
    PROVE  pending' \in Seq(Txs) /\ AwaitedInv'
<1>1. /\ pending' \in Seq(Txs) /\ Len(pending') = Len(pending)
      /\ \A k \in 1..Len(pending) :
             /\ pending'[k].from # "flow"
             /\ pending'[k].from # "nobody" => pending'[k] = pending[k]
    BY AbandonedTyped
<1> QED
    BY <1>1 DEF AwaitedInv, PageTx

\* The same for the page: once it stops waiting, nothing under way is its own.
LEMMA PageStopsWaiting ==
    ASSUME Typed, AwaitedInv, pending' = Abandoned("page"), UNCHANGED flow
    PROVE  pending' \in Seq(Txs) /\ AwaitedInv'
<1>1. /\ pending' \in Seq(Txs) /\ Len(pending') = Len(pending)
      /\ \A k \in 1..Len(pending) :
             /\ pending'[k].from # "page"
             /\ pending'[k].from # "nobody" => pending'[k] = pending[k]
    BY AbandonedTyped
<1> QED
    BY <1>1 DEF AwaitedInv, FlowTx

\* What the flow, or the page, sends is what it then waits for.
LEMMA FlowSends ==
    ASSUME Typed, AwaitedInv, flow.tx = NotSent, FlowTx \in Txs,
           pending' = Append(pending, FlowTx), flow' = [flow EXCEPT !.tx = "sent"],
           UNCHANGED page
    PROVE  pending' \in Seq(Txs) /\ AwaitedInv'
<1>1. /\ pending' \in Seq(Txs) /\ Len(pending) \in Nat /\ Len(pending') = Len(pending) + 1
      /\ \A k \in 1..Len(pending) : pending'[k] = pending[k]
      /\ pending'[Len(pending) + 1] = FlowTx
    BY AppendToPending
<1>2. \A k \in 1..Len(pending) : pending[k].from # "flow"
    BY DEF AwaitedInv, NotSent
<1>3. FlowTx' = FlowTx /\ flow'.tx = "sent"
    BY DEF FlowTx, Typed, Flows
<1>4. FlowTx.from = "flow"
    BY DEF FlowTx
<1>5. \A k \in 1..Len(pending') : k \in 1..Len(pending) \/ k = Len(pending) + 1
    BY <1>1
<1> QED
    BY <1>1, <1>2, <1>3, <1>4, <1>5 DEF AwaitedInv, PageTx

\* The same for the page: the transaction it has just sent is what it waits for.
LEMMA PageSends ==
    ASSUME Typed, AwaitedInv, page.tx = NotSent, PageTx \in Txs,
           pending' = Append(pending, PageTx), page' = [page EXCEPT !.tx = "sent"],
           UNCHANGED flow
    PROVE  pending' \in Seq(Txs) /\ AwaitedInv'
<1>1. /\ pending' \in Seq(Txs) /\ Len(pending) \in Nat /\ Len(pending') = Len(pending) + 1
      /\ \A k \in 1..Len(pending) : pending'[k] = pending[k]
      /\ pending'[Len(pending) + 1] = PageTx
    BY AppendToPending
<1>2. \A k \in 1..Len(pending) : pending[k].from # "page"
    BY DEF AwaitedInv, NotSent
<1>3. PageTx' = PageTx /\ page'.tx = "sent"
    BY DEF PageTx, Typed, Pages
<1>4. PageTx.from = "page"
    BY DEF PageTx
<1>5. \A k \in 1..Len(pending') : k \in 1..Len(pending) \/ k = Len(pending) + 1
    BY <1>1
<1> QED
    BY <1>1, <1>2, <1>3, <1>4, <1>5 DEF AwaitedInv, FlowTx

\* The outcome of the first transaction goes to who waits for it, and he waits
\* for no other.
LEMMA MinedOne ==
    ASSUME Typed, AwaitedInv, pending # <<>>, NEW outcome \in Receipts, NEW p,
           Mined(outcome, p)
    PROVE  /\ pending' \in Seq(Txs) /\ AwaitedInv'
           /\ Head(pending) \in Txs
           /\ Head(pending).from = "flow" =>
                  /\ flow.tx = "sent" /\ Head(pending) = FlowTx
                  /\ flow' = [flow EXCEPT !.tx = outcome, !.policy = p] /\ page' = page
           /\ Head(pending).from = "page" =>
                  /\ page.tx = "sent" /\ Head(pending) = PageTx
                  /\ page' = [page EXCEPT !.tx = outcome] /\ flow' = flow
           /\ Head(pending).from = "nobody" => UNCHANGED <<flow, page>>
           /\ UNCHANGED vault
<1>1. /\ Head(pending) \in Txs /\ Head(pending) = pending[1] /\ Len(pending) \in Nat \ {0}
      /\ Tail(pending) \in Seq(Txs) /\ Len(Tail(pending)) = Len(pending) - 1
      /\ \A k \in 1..(Len(pending) - 1) : Tail(pending)[k] = pending[k + 1]
    BY TailOfPending
<1>2. /\ pending' = Tail(pending) /\ UNCHANGED vault
      /\ flow' = IF Head(pending).from = "flow"
                 THEN [flow EXCEPT !.tx = outcome, !.policy = p] ELSE flow
      /\ page' = IF Head(pending).from = "page" THEN [page EXCEPT !.tx = outcome] ELSE page
    BY DEF Mined
<1>3. \A k \in 1..(Len(pending) - 1) :
          /\ Tail(pending)[k].from = Head(pending).from => Head(pending).from = "nobody"
          /\ Tail(pending)[k].from = "flow" => flow.tx = "sent" /\ Tail(pending)[k] = FlowTx
          /\ Tail(pending)[k].from = "page" => page.tx = "sent" /\ Tail(pending)[k] = PageTx
    <2> SUFFICES ASSUME NEW k \in 1..(Len(pending) - 1)
                 PROVE  /\ pending[k + 1].from = pending[1].from => pending[1].from = "nobody"
                        /\ pending[k + 1].from = "flow" =>
                               flow.tx = "sent" /\ pending[k + 1] = FlowTx
                        /\ pending[k + 1].from = "page" =>
                               page.tx = "sent" /\ pending[k + 1] = PageTx
        BY <1>1
    <2>1. k + 1 \in 1..Len(pending) /\ 1 \in 1..Len(pending) /\ k + 1 # 1
        BY <1>1
    <2> QED
        BY <2>1 DEF AwaitedInv
<1>4. \A j, k \in 1..(Len(pending) - 1) :
          Tail(pending)[j].from = Tail(pending)[k].from /\ Tail(pending)[k].from # "nobody"
              => j = k
    <2> SUFFICES ASSUME NEW j \in 1..(Len(pending) - 1), NEW k \in 1..(Len(pending) - 1),
                        pending[j + 1].from = pending[k + 1].from,
                        pending[k + 1].from # "nobody"
                 PROVE  j = k
        BY <1>1
    <2>1. j + 1 \in 1..Len(pending) /\ k + 1 \in 1..Len(pending)
        BY <1>1
    <2>2. j + 1 = k + 1
        BY <2>1 DEF AwaitedInv
    <2> QED
        BY <2>2
<1>5. AwaitedInv'
    <2>1. Head(pending).from # "flow" => FlowTx' = FlowTx /\ flow' = flow
        BY <1>2 DEF FlowTx
    <2>2. Head(pending).from # "page" => PageTx' = PageTx /\ page' = page
        BY <1>2 DEF PageTx
    <2> QED
        BY <1>1, <1>2, <1>3, <1>4, <2>1, <2>2 DEF AwaitedInv
<1>6. 1 \in 1..Len(pending)
    BY <1>1
<1>7. /\ Head(pending).from = "flow" => flow.tx = "sent" /\ Head(pending) = FlowTx
      /\ Head(pending).from = "page" => page.tx = "sent" /\ Head(pending) = PageTx
    BY <1>1, <1>6 DEF AwaitedInv
<1> QED
    BY <1>1, <1>2, <1>5, <1>7
-----------------------------------------------------------------------------
(* Steps of the flow                                                       *)

\* A step of the flow that leaves vault and chain alone disturbs nothing else.
LEMMA FlowAlone ==
    ASSUME IInv, UNCHANGED <<page, vault, chain>>,
           flow' \in Flows, pending' \in Seq(Txs), AwaitedInv', FlowInv'
    PROVE  IInv'
<1>1. /\ page' = page /\ vault' = vault /\ commitment' = commitment
      /\ configured' = configured /\ stored' = stored /\ allowance' = allowance
      /\ wallet' = wallet /\ bal' = bal
    BY DEF chain
<1>2. Typed'
    BY <1>1 DEF IInv, Typed
<1>3. PageInv'
    BY <1>1 DEF IInv, PageInv, EntryOf
<1>4. VaultInv'
    BY <1>1 DEF IInv, VaultInv, EntryOpensCommitment, HandoffWasMined, EntryOf
<1> QED
    BY <1>2, <1>3, <1>4 DEF IInv

\* The dialog before a run, after one, or gone.
LEMMA FlowRests ==
    ASSUME NEW step \in {"closed", "review", "failed"}, NEW salt \in Salts \cup {NoSalt},
           \/ flow' = [Closed EXCEPT !.step = step, !.salt = salt]
           \/ flow' = Closed /\ step = "closed" /\ salt = NoSalt,
           step # "closed" => salt \in Salts
    PROVE  flow' \in Flows /\ FlowInv'
<1> DEFINE r == [step |-> step, tx |-> NotSent, salt |-> salt, sealed |-> FALSE,
                 policy |-> NoPolicy, deposit |-> 0]
<1>1. flow' = r
    BY DEF Closed
<1>2. r \in Flows
    BY DEF Flows, FlowSteps, TxStates
<1>3. r.step = step /\ r.salt = salt /\ r.tx = NotSent
    OBVIOUS
<1> HIDE DEF r
<1> QED
    BY <1>1, <1>2, <1>3 DEF FlowInv

\* The next step of a run.
LEMMA NextStep ==
    ASSUME Typed, NEW step \in FlowSteps
    PROVE  /\ Goto(step) \in Flows
           /\ Goto(step).step = step /\ Goto(step).tx = NotSent
           /\ Goto(step).salt = flow.salt /\ Goto(step).sealed = flow.sealed
           /\ Goto(step).policy = flow.policy /\ Goto(step).deposit = flow.deposit
BY DEF Goto, Typed, Flows, TxStates

\* A run goes on with a policy that is known and in the vault.
LEMMA RunGoesOn ==
    ASSUME Typed, Known, NEW step \in {"handoff", "approve", "deposit", "done"},
           flow' = Goto(step), step = "handoff" => flow.sealed, UNCHANGED commitment,
           flow.policy \in configured', \E e \in vault' : e.policy = flow.policy
    PROVE  flow' \in Flows /\ FlowInv'
<1>1. step \in FlowSteps
    BY DEF FlowSteps
<1>2. /\ flow' \in Flows /\ flow'.step = step /\ flow'.tx = NotSent
      /\ flow'.salt = flow.salt /\ flow'.sealed = flow.sealed /\ flow'.policy = flow.policy
    BY <1>1, NextStep
<1>3. Known' /\ Recorded'
    BY <1>2 DEF Known, Recorded, EntryOf
<1>4. step \in Kinds \cup {"done"}
    BY DEF Kinds
<1> QED
    BY <1>2, <1>3, <1>4 DEF FlowInv, NotSent, Known

\* What comes after the hand-off, whether it happened or not.
LEMMA AfterHandoffGoesOn ==
    ASSUME Typed, Known, flow' = AfterHandoff, UNCHANGED commitment,
           flow.policy \in configured', \E e \in vault' : e.policy = flow.policy
    PROVE  flow' \in Flows /\ FlowInv'
<1>1. flow' = Goto("done") \/ flow' = Goto("approve")
    BY DEF AfterHandoff
<1> QED
    BY <1>1, RunGoesOn

\* A run that fails ends, but for a hand-off, without which it goes on.
LEMMA FailedInv ==
    ASSUME IInv, InFlow, Fail, UNCHANGED <<page, vault, chain>>,
           pending' \in Seq(Txs), AwaitedInv'
    PROVE  IInv'
<1>1. flow.step \in Kinds
    BY StepNames DEF InFlow
<1>2. CASE flow.step = "handoff"
    <2>1. Known /\ Recorded
        BY <1>2 DEF IInv, FlowInv
    <2>2. flow' = AfterHandoff
        BY <1>2 DEF Fail
    <2>3. Typed /\ UNCHANGED commitment /\ flow.policy \in configured'
        BY <2>1 DEF IInv, chain, Recorded
    <2>4. \E e \in vault' : e.policy = flow.policy
        BY <2>1 DEF Recorded, EntryOf
    <2> QED
        BY <2>1, <2>2, <2>3, <2>4, AfterHandoffGoesOn, FlowAlone
<1>3. CASE flow.step # "handoff"
    <2>1. flow' = [Closed EXCEPT !.step = "failed", !.salt = flow.salt]
        BY <1>3 DEF Fail
    <2>2. flow.salt \in Salts
        BY <1>1 DEF IInv, FlowInv, Kinds
    <2> QED
        BY <2>1, <2>2, FlowRests, FlowAlone
<1> QED
    BY <1>2, <1>3

\* Rejected prompts, waits that throw, transactions that revert.
LEMMA FailingInv ==
    ASSUME IInv, Reject \/ WaitThrows \/ \E step \in Elements(Steps) : Reverted(step)
    PROVE  IInv'
<1>1. CASE Reject
    <2>1. pending' \in Seq(Txs) /\ AwaitedInv'
        BY <1>1, FlowNotWaiting DEF Reject, IInv, Typed, NotSent
    <2> QED
        BY <1>1, <2>1, FailedInv DEF Reject
<1>2. CASE WaitThrows
    <2>1. pending' \in Seq(Txs) /\ AwaitedInv'
        BY <1>2, FlowStopsWaiting DEF WaitThrows, IInv
    <2> QED
        BY <1>2, <2>1, FailedInv DEF WaitThrows
<1>3. ASSUME NEW step \in Elements(Steps), Reverted(step)
      PROVE  IInv'
    <2>1. flow.tx = "reverted" /\ InFlow
        BY <1>3 DEF Reverted, Receipt, InFlow
    <2>2. pending' \in Seq(Txs) /\ AwaitedInv'
        BY <1>3, <2>1, FlowNotWaiting DEF Reverted, IInv, Typed
    <2> QED
        BY <1>3, <2>1, <2>2, FailedInv DEF Reverted
<1> QED
    BY <1>1, <1>2, <1>3

\* OpenStudio, NotDeployed, CloseDialog and CloseTab.
LEMMA RestingInv ==
    ASSUME IInv,
           (\E salt \in Salts : OpenStudio(salt)) \/ NotDeployed \/ CloseDialog \/ CloseTab
    PROVE  IInv'
<1>1. CASE CloseTab
    <2>1. pending' \in Seq(Txs) /\ AwaitedInv'
        BY <1>1, FlowStopsWaiting DEF CloseTab, IInv
    <2>2. flow' \in Flows /\ FlowInv'
        BY <1>1, FlowRests DEF CloseTab
    <2> QED
        BY <1>1, <2>1, <2>2, FlowAlone DEF CloseTab
<1>2. ASSUME NEW step \in {"review", "failed"}, NEW salt \in Salts,
             flow' = [Closed EXCEPT !.step = step, !.salt = salt],
             flow.step \in {"closed", "seal", "done", "failed"},
             UNCHANGED <<page, vault, pending, chain>>
      PROVE  IInv'
    <2>1. flow.tx # "sent"
        BY <1>2 DEF IInv, FlowInv, Kinds, NotSent
    <2>2. pending' \in Seq(Txs) /\ AwaitedInv'
        BY <1>2, <2>1, FlowNotWaiting DEF IInv, Typed
    <2> QED
        BY <1>2, <2>2, FlowRests, FlowAlone
<1>3. flow.step # "closed" => flow.salt \in Salts
    BY DEF IInv, FlowInv
<1>4. CASE \E salt \in Salts : OpenStudio(salt)
    BY <1>2, <1>4 DEF OpenStudio
<1>5. CASE NotDeployed
    BY <1>2, <1>3, <1>5 DEF NotDeployed
<1>6. CASE CloseDialog
    BY <1>2, <1>3, <1>6 DEF CloseDialog
<1> QED
    BY <1>1, <1>4, <1>5, <1>6
\* Up to the prompt of the first transaction.
LEMMA StartInv ==
    ASSUME IInv,
           (\E deposit \in Deposits : Run(deposit)) \/ (\E sealed \in BOOLEAN : Seal(sealed))
    PROVE  IInv'
<1>1. ASSUME NEW f \in Flows, flow' = f, f.tx = NotSent, f.salt = flow.salt,
             f.step \in {"seal", "deploy"}, flow.step \in {"review", "failed", "seal"},
             UNCHANGED <<page, vault, pending, chain>>
      PROVE  IInv'
    <2>1. flow.tx # "sent" /\ flow.salt \in Salts
        BY <1>1 DEF IInv, FlowInv, Kinds, NotSent
    <2>2. pending' \in Seq(Txs) /\ AwaitedInv'
        BY <1>1, <2>1, FlowNotWaiting DEF IInv, Typed
    <2>3. FlowInv'
        BY <1>1, <2>1 DEF FlowInv, NotSent
    <2> QED
        BY <1>1, <2>2, <2>3, FlowAlone
<1>2. ASSUME NEW deposit \in Deposits, Run(deposit)
      PROVE  IInv'
    <2> DEFINE f == [step |-> "seal", tx |-> NotSent, salt |-> flow.salt, sealed |-> FALSE,
                     policy |-> NoPolicy, deposit |-> deposit]
    <2>1. flow' = f
        BY <1>2 DEF Run, Closed
    <2>2. f \in Flows
        BY FlowAssumption DEF IInv, Typed, Flows, FlowSteps, TxStates
    <2>3. f.tx = NotSent /\ f.salt = flow.salt /\ f.step = "seal"
        OBVIOUS
    <2> HIDE DEF f
    <2> QED
        BY <1>1, <1>2, <2>1, <2>2, <2>3 DEF Run
<1>3. ASSUME NEW sealed \in BOOLEAN, Seal(sealed)
      PROVE  IInv'
    <2> DEFINE f == [flow EXCEPT !.step = "deploy", !.sealed = sealed]
    <2>1. f \in Flows /\ f.salt = flow.salt /\ f.step = "deploy" /\ f.tx = flow.tx
        BY DEF IInv, Typed, Flows, FlowSteps
    <2>2. flow.tx = NotSent
        BY <1>3 DEF Seal, IInv, FlowInv, Kinds
    <2> HIDE DEF f
    <2>3. flow' = f
        BY <1>3 DEF Seal, f
    <2> QED
        BY <1>1, <1>3, <2>1, <2>2, <2>3 DEF Seal
<1> QED
    BY <1>2, <1>3

\* The prompt is confirmed.
LEMMA ConfirmInv ==
    ASSUME IInv, Confirm
    PROVE  IInv'
<1>1. flow.step \in Kinds /\ flow.tx = NotSent
    BY StepNames DEF Confirm, InFlow
<1>2. flow' = [flow EXCEPT !.tx = "sent"] /\ UNCHANGED <<page, vault, chain>>
    BY DEF Confirm
<1>3. pending' = Append(pending, FlowTx)
    BY DEF Confirm, Submit, FlowTx
<1>4. FlowTx \in Txs
    <2>1. flow.step # "deploy" => flow.policy \in Policies
        BY <1>1 DEF IInv, FlowInv, Kinds, Known
    <2>2. flow.salt \in Salts
        BY <1>1 DEF IInv, FlowInv, Kinds
    <2>3. flow.policy \in Policies \cup {NoPolicy} /\ flow.deposit \in Nat
        BY DEF IInv, Typed, Flows
    <2> QED
        BY <1>1, <2>1, <2>2, <2>3 DEF FlowTx, Txs, WellFormed
<1>5. pending' \in Seq(Txs) /\ AwaitedInv'
    BY <1>1, <1>2, <1>3, <1>4, FlowSends DEF IInv
<1>6. /\ flow' \in Flows /\ flow'.step = flow.step /\ flow'.tx = "sent"
      /\ flow'.salt = flow.salt /\ flow'.sealed = flow.sealed /\ flow'.policy = flow.policy
    BY <1>2 DEF IInv, Typed, Flows, TxStates
<1>7. FlowInv'
    BY <1>1, <1>2, <1>6 DEF IInv, FlowInv, Known, Recorded, EntryOf, chain
<1> QED
    BY <1>2, <1>5, <1>6, <1>7, FlowAlone

\* The policy is taken from the receipt.
LEMMA DeployedInv ==
    ASSUME IInv, Deployed
    PROVE  IInv'
<1>1. flow.step = "deploy" /\ flow.tx = "success" /\ flow' = Goto("configure")
      /\ UNCHANGED <<page, vault, pending, chain>>
    BY DEF Deployed, Receipt
<1>2. Known /\ EntryOf(flow.policy) = {}
    BY <1>1 DEF IInv, FlowInv
<1>3. /\ flow' \in Flows /\ flow'.step = "configure" /\ flow'.tx = NotSent
      /\ flow'.salt = flow.salt /\ flow'.policy = flow.policy
    BY <1>1, NextStep DEF IInv, FlowSteps
<1>4. FlowInv'
    BY <1>1, <1>2, <1>3 DEF FlowInv, Known, EntryOf, Kinds, chain, NotSent
<1>5. pending' \in Seq(Txs) /\ AwaitedInv'
    BY <1>1, FlowNotWaiting DEF IInv, Typed
<1> QED
    BY <1>1, <1>3, <1>4, <1>5, FlowAlone

\* Approved goes on whatever the receipt says, Deposited if it says success.
LEMMA MoneyInv ==
    ASSUME IInv, Approved \/ Deposited
    PROVE  IInv'
<1>1. /\ flow.step \in {"approve", "deposit"} /\ flow.tx \in Receipts
      /\ flow' = Goto("deposit") \/ flow' = Goto("done")
      /\ UNCHANGED <<page, vault, pending, chain>>
    BY DEF Approved, Deposited, Receipt
<1>2. Known /\ Recorded
    BY <1>1 DEF IInv, FlowInv
<1>3. flow' \in Flows /\ FlowInv'
    BY <1>1, <1>2, RunGoesOn DEF IInv, Recorded, EntryOf, chain
<1>4. pending' \in Seq(Txs) /\ AwaitedInv'
    BY <1>1, FlowNotWaiting DEF IInv, Typed, Receipts
<1> QED
    BY <1>1, <1>3, <1>4, FlowAlone
-----------------------------------------------------------------------------
(* The vault                                                               *)

\* An entry that opens its policy may replace the one there is.
LEMMA SaveInv ==
    ASSUME VaultInv, vault \subseteq Entries, UNCHANGED chain, NEW e \in Entries, Save(e),
           commitment[e.policy] = e.salt, e.policy \in configured,
           e.handoff => e.sealed /\ e.policy \in stored
    PROVE  /\ VaultInv' /\ vault' \subseteq Entries
           /\ \A p : {x \in vault' : x.policy = p} =
                         IF p = e.policy THEN {e} ELSE {x \in vault : x.policy = p}
<1>1. vault' = {x \in vault : x.policy # e.policy} \cup {e}
    BY DEF Save
<1>2. vault' \subseteq Entries
    BY <1>1
<1>3. \A p : {x \in vault' : x.policy = p} =
                 IF p = e.policy THEN {e} ELSE {x \in vault : x.policy = p}
    BY <1>1
<1>4. UNCHANGED <<commitment, configured, stored>>
    BY DEF chain
<1>5. EntryOpensCommitment'
    <2> SUFFICES ASSUME NEW x \in vault'
                 PROVE  /\ commitment'[x.policy] = x.salt
                        /\ x.policy \in configured'
                        /\ {y \in vault' : y.policy = x.policy} = {x}
        BY DEF EntryOpensCommitment, EntryOf
    <2>1. CASE x = e
        BY <1>3, <1>4, <2>1
    <2>2. CASE x # e
        <3>1. x \in vault /\ x.policy # e.policy
            BY <1>1, <2>2
        <3>2. /\ commitment[x.policy] = x.salt /\ x.policy \in configured
              /\ {y \in vault : y.policy = x.policy} = {x}
            BY <3>1 DEF VaultInv, EntryOpensCommitment, EntryOf
        <3> QED
            BY <1>3, <1>4, <3>1, <3>2
    <2> QED
        BY <2>1, <2>2
<1>6. HandoffWasMined'
    BY <1>1, <1>4 DEF VaultInv, HandoffWasMined
<1> QED
    BY <1>2, <1>3, <1>5, <1>6 DEF VaultInv

\* The flow saves its entry, or saves it again.
LEMMA FlowSavesInv ==
    ASSUME IInv, NEW handoff \in BOOLEAN, Save(Entry(handoff)), Known,
           flow.policy \in configured, flow.sealed \/ EntryOf(flow.policy) = {},
           handoff => flow.sealed /\ flow.policy \in stored,
           flow.tx # "sent", UNCHANGED <<page, pending, chain>>,
           \/ flow' = AfterHandoff
           \/ flow' = Goto("handoff") /\ flow.sealed
    PROVE  IInv'
<1> PICK e : e = Entry(handoff)
    OBVIOUS
<1>1. /\ e \in Entries /\ e.policy = flow.policy /\ e.salt = flow.salt
      /\ e.sealed = flow.sealed /\ e.handoff = handoff
    BY DEF Entry, Entries, Known, IInv, Typed, Flows
<1>2. /\ VaultInv' /\ vault' \subseteq Entries
      /\ \A p : {x \in vault' : x.policy = p} =
                    IF p = flow.policy THEN {e} ELSE {x \in vault : x.policy = p}
    <2>1. /\ VaultInv /\ vault \subseteq Entries /\ UNCHANGED chain /\ Save(e)
          /\ commitment[e.policy] = e.salt /\ e.policy \in configured
          /\ e.handoff => e.sealed /\ e.policy \in stored
        BY <1>1 DEF IInv, Typed, Known
    <2> QED
        BY <1>1, <2>1, SaveInv
<1>3. \E x \in vault' : x.policy = flow.policy
    <2>1. {x \in vault' : x.policy = flow.policy} = {e}
        BY <1>2
    <2> QED
        BY <2>1
<1>4. flow' \in Flows /\ FlowInv'
    BY <1>3, RunGoesOn, AfterHandoffGoesOn DEF IInv, chain
<1>5. PageInv'
    <2>1. UNCHANGED <<page, stored>>
        BY DEF chain
    <2>2. ASSUME page.step = "handoff"
          PROVE  \E x \in {y \in vault' : y.policy = page.policy} : x.sealed
        <3>1. \E x \in {y \in vault : y.policy = page.policy} : x.sealed
            BY <2>2 DEF IInv, PageInv, EntryOf
        <3>2. CASE page.policy = flow.policy
            <4>1. EntryOf(flow.policy) # {}
                BY <3>1, <3>2 DEF EntryOf
            <4>2. e.sealed
                BY <1>1, <4>1
            <4>3. {y \in vault' : y.policy = page.policy} = {e}
                BY <1>2, <3>2
            <4> QED
                BY <4>2, <4>3
        <3>3. CASE page.policy # flow.policy
            BY <1>2, <3>1, <3>3
        <3> QED
            BY <3>2, <3>3
    <2> QED
        BY <2>1, <2>2 DEF IInv, PageInv, EntryOf
<1>6. AwaitedInv'
    BY FlowNotWaiting DEF IInv
<1>7. Typed'
    BY <1>2, <1>4 DEF IInv, Typed, chain
<1> QED
    BY <1>2, <1>4, <1>5, <1>6, <1>7 DEF IInv

\* The first entry is saved when the trigger is set, the second when the
\* hand-off is on chain.
LEMMA SavingInv ==
    ASSUME IInv, Configured \/ HandedOff
    PROVE  IInv'
<1>1. CASE Configured
    <2>1. /\ flow.step = "configure" /\ flow.tx = "success" /\ Save(Entry(FALSE))
          /\ UNCHANGED <<page, pending, chain>>
          /\ flow' = IF flow.sealed /\ HandoffConfigured THEN Goto("handoff") ELSE AfterHandoff
        BY <1>1 DEF Configured, Receipt
    <2>3. \/ flow' = AfterHandoff
          \/ flow' = Goto("handoff") /\ flow.sealed
        BY <2>1
    <2>2. Known /\ EntryOf(flow.policy) = {} /\ flow.policy \in configured
        BY <2>1 DEF IInv, FlowInv
    <2> QED
        BY <2>1, <2>2, <2>3, FlowSavesInv
<1>2. CASE HandedOff
    <2>1. /\ flow.step = "handoff" /\ flow.tx = "success" /\ Save(Entry(TRUE))
          /\ UNCHANGED <<page, pending, chain>> /\ flow' = AfterHandoff
        BY <1>2 DEF HandedOff, Receipt
    <2>2. Known /\ Recorded /\ flow.sealed /\ flow.policy \in stored
        BY <2>1 DEF IInv, FlowInv
    <2> QED
        BY <2>1, <2>2, FlowSavesInv DEF Recorded
<1> QED
    BY <1>1, <1>2

-----------------------------------------------------------------------------
(* Steps of the page                                                       *)

\* A step of the page that leaves vault and chain alone disturbs nothing else.
LEMMA PageAlone ==
    ASSUME IInv, UNCHANGED <<flow, vault, chain>>,
           page' \in Pages, pending' \in Seq(Txs), AwaitedInv', PageInv'
    PROVE  IInv'
<1>1. /\ flow' = flow /\ vault' = vault /\ commitment' = commitment
      /\ configured' = configured /\ stored' = stored /\ allowance' = allowance
      /\ wallet' = wallet /\ bal' = bal
    BY DEF chain
<1>2. Typed'
    BY <1>1 DEF IInv, Typed
<1>3. FlowInv'
    BY <1>1 DEF IInv, FlowInv, EntryOf, Known, Recorded
<1>4. VaultInv'
    BY <1>1 DEF IInv, VaultInv, EntryOpensCommitment, HandoffWasMined, EntryOf
<1> QED
    BY <1>2, <1>3, <1>4 DEF IInv

\* The page with nothing going on.
LEMMA AwayTyped == Away \in Pages /\ Away.step = "away" /\ Away.tx = NotSent
BY DEF Away, Pages, TxStates

\* Every step of the policy page; only PageHandedOff writes to the vault.
LEMMA PageStepInv ==
    ASSUME IInv, PageStep
    PROVE  IInv'
<1>1. ASSUME NEW p \in Policies, PageSend(p) \/ \E amount \in Deposits : PageFund(p, amount)
      PROVE  IInv'
    <2>1. page.tx # "sent" /\ UNCHANGED <<flow, vault, pending, chain>>
        BY <1>1 DEF PageSend, PageFund, IInv, PageInv, NotSent
    <2>2. pending' \in Seq(Txs) /\ AwaitedInv'
        BY <2>1, PageNotWaiting DEF IInv, Typed
    <2>3. /\ page' \in Pages /\ page'.policy = p /\ page'.tx = NotSent
          /\ page'.step = "handoff" => \E e \in EntryOf(p) : e.sealed
        <3>1. CASE PageSend(p)
            <4>1. /\ page' = [step |-> "handoff", tx |-> NotSent, policy |-> p, amount |-> 0]
                  /\ \E e \in EntryOf(p) : e.sealed
                BY <3>1 DEF PageSend, Away
            <4> QED
                BY <4>1 DEF Pages, TxStates
        <3>2. ASSUME NEW amount \in Deposits, PageFund(p, amount)
              PROVE  /\ page' \in Pages /\ page'.policy = p /\ page'.tx = NotSent
                     /\ page'.step # "handoff"
            <4>1. PICK step \in {"approve", "deposit"} :
                      page' = [step |-> step, tx |-> NotSent, policy |-> p, amount |-> amount]
                BY <3>2 DEF PageFund
            <4>2. amount \in Nat
                BY FlowAssumption
            <4> QED
                BY <4>1, <4>2 DEF Pages, TxStates
        <3> QED
            BY <1>1, <3>1, <3>2
    <2>4. PageInv'
        BY <2>1, <2>3 DEF PageInv, EntryOf, NotSent
    <2> QED
        BY <2>1, <2>2, <2>3, <2>4, PageAlone
<1>2. CASE PageConfirm
    <2>1. /\ page.step # "away" /\ page.tx = NotSent /\ UNCHANGED <<flow, vault, chain>>
          /\ pending' = Append(pending, PageTx) /\ page' = [page EXCEPT !.tx = "sent"]
        BY <1>2 DEF PageConfirm, Submit, PageTx
    <2>2. PageTx \in Txs
        BY <2>1 DEF PageTx, Txs, WellFormed, IInv, Typed, Pages, PageInv, Kinds
    <2>3. pending' \in Seq(Txs) /\ AwaitedInv'
        BY <2>1, <2>2, PageSends DEF IInv
    <2>4. /\ page' \in Pages /\ page'.step = page.step /\ page'.tx = "sent"
          /\ page'.policy = page.policy
        BY <2>1 DEF IInv, Typed, Pages, TxStates
    <2>5. PageInv'
        BY <2>1, <2>4 DEF IInv, PageInv, EntryOf, NotSent
    <2> QED
        BY <2>1, <2>3, <2>4, <2>5, PageAlone
<1>3. CASE PageStops
    <2>1. pending' \in Seq(Txs) /\ AwaitedInv'
        BY <1>3, PageStopsWaiting DEF PageStops, IInv
    <2>2. page' \in Pages /\ PageInv'
        BY <1>3, AwayTyped DEF PageStops, PageInv
    <2> QED
        BY <1>3, <2>1, <2>2, PageAlone DEF PageStops
<1>4. CASE PageApproved
    <2>1. page.step = "approve" /\ page.tx \in Receipts /\ UNCHANGED <<flow, vault, pending, chain>>
        BY <1>4 DEF PageApproved, PageReceipt
    <2>2. pending' \in Seq(Txs) /\ AwaitedInv'
        BY <2>1, PageNotWaiting DEF IInv, Typed, Receipts
    <2>3. /\ page' \in Pages /\ page'.step = "deposit" /\ page'.tx = NotSent
          /\ page'.policy = page.policy
        BY <1>4 DEF PageApproved, IInv, Typed, Pages, TxStates
    <2>4. PageInv'
        BY <2>1, <2>3 DEF IInv, PageInv, NotSent
    <2> QED
        BY <2>1, <2>2, <2>3, <2>4, PageAlone
<1>5. CASE PageHandedOff
    <2>1. /\ page.step = "handoff" /\ page.tx = "success" /\ page' = Away
          /\ UNCHANGED <<flow, pending, chain>>
        BY <1>5 DEF PageHandedOff, PageReceipt
    <2>2. PICK old \in EntryOf(page.policy) : Save([old EXCEPT !.handoff = TRUE])
        BY <1>5 DEF PageHandedOff
    <2> DEFINE e == [old EXCEPT !.handoff = TRUE]
    <2>3. /\ old \in vault /\ old \in Entries /\ old.policy = page.policy
          /\ EntryOf(page.policy) = {old}
        BY DEF EntryOf, IInv, Typed, VaultInv, EntryOpensCommitment
    <2>4. old.sealed /\ page.policy \in stored
        BY <2>1, <2>3 DEF IInv, PageInv
    <2>5. /\ e \in Entries /\ e.policy = old.policy /\ e.salt = old.salt
          /\ e.sealed = old.sealed /\ e.handoff
        BY <2>3 DEF Entries
    <2> HIDE DEF e
    <2>6. /\ VaultInv' /\ vault' \subseteq Entries
          /\ \A p : {x \in vault' : x.policy = p} =
                        IF p = e.policy THEN {e} ELSE {x \in vault : x.policy = p}
        <3>1. /\ VaultInv /\ vault \subseteq Entries /\ UNCHANGED chain /\ Save(e)
              /\ commitment[e.policy] = e.salt /\ e.policy \in configured
              /\ e.handoff => e.sealed /\ e.policy \in stored
            BY <2>1, <2>2, <2>3, <2>4, <2>5
            DEF e, IInv, Typed, VaultInv, EntryOpensCommitment
        <3> QED
            BY <2>5, <3>1, SaveInv
    <2>7. AwaitedInv'
        BY <2>1, PageNotWaiting DEF IInv
    <2>8. FlowInv'
        <3>1. flow' = flow /\ UNCHANGED <<commitment, configured, stored, bal>>
            BY <2>1 DEF chain
        <3>2. {x \in vault' : x.policy = flow.policy} = {} <=> EntryOf(flow.policy) = {}
            <4>1. old \in {x \in vault : x.policy = e.policy}
                BY <2>3, <2>5
            <4> QED
                BY <2>6, <4>1 DEF EntryOf
        <3>3. EntryOf(flow.policy)' = {x \in vault' : x.policy = flow.policy}
            BY <3>1 DEF EntryOf
        <3> QED
            BY <3>1, <3>2, <3>3 DEF IInv, FlowInv, Known, Recorded
    <2>9. PageInv' /\ page' \in Pages
        BY <2>1, AwayTyped DEF PageInv
    <2>10. Typed'
        BY <2>1, <2>6, <2>9 DEF IInv, Typed, chain
    <2> QED
        BY <2>6, <2>7, <2>8, <2>9, <2>10 DEF IInv
<1> QED
    BY <1>1, <1>2, <1>3, <1>4, <1>5 DEF PageStep
-----------------------------------------------------------------------------
(* Steps of the chain                                                      *)

\* Whoever waits for the transaction that is mined has its outcome, and is where
\* it was otherwise.
LEMMA OutcomeArrives ==
    ASSUME IInv, pending # <<>>, NEW outcome \in Receipts,
           NEW p \in Policies \cup {NoPolicy}, Mined(outcome, p),
           Head(pending).kind # "deploy" => p = Head(pending).policy
    PROVE  /\ pending' \in Seq(Txs) /\ AwaitedInv' /\ UNCHANGED vault
           /\ flow' \in Flows /\ page' \in Pages
           /\ Head(pending).from = "flow" =>
                  /\ page' = page /\ Head(pending) = FlowTx
                  /\ flow'.step = flow.step /\ flow'.tx = outcome /\ flow'.salt = flow.salt
                  /\ flow'.sealed = flow.sealed /\ flow'.deposit = flow.deposit
                  /\ flow'.policy = p
           /\ Head(pending).from # "flow" => flow' = flow
           /\ Head(pending).from = "page" =>
                  /\ Head(pending) = PageTx
                  /\ page'.step = page.step /\ page'.tx = outcome
                  /\ page'.policy = page.policy
           /\ Head(pending).from # "page" => page' = page
<1>1. /\ pending' \in Seq(Txs) /\ AwaitedInv' /\ UNCHANGED vault
      /\ Head(pending) \in Txs
      /\ Head(pending).from = "flow" =>
             /\ flow.tx = "sent" /\ Head(pending) = FlowTx
             /\ flow' = [flow EXCEPT !.tx = outcome, !.policy = p] /\ page' = page
      /\ Head(pending).from = "page" =>
             /\ page.tx = "sent" /\ Head(pending) = PageTx
             /\ page' = [page EXCEPT !.tx = outcome] /\ flow' = flow
      /\ Head(pending).from = "nobody" => UNCHANGED <<flow, page>>
    BY MinedOne DEF IInv
<1>2. Head(pending).from \in {"flow", "page", "nobody"}
    BY <1>1 DEF Txs
<1>3. flow \in Flows /\ page \in Pages /\ outcome \in TxStates
    BY DEF IInv, Typed, Receipts, TxStates
<1>4. CASE Head(pending).from = "flow"
    <2>1. flow' = [flow EXCEPT !.tx = outcome, !.policy = p]
        BY <1>1, <1>4
    <2>2. /\ flow' \in Flows /\ flow'.step = flow.step /\ flow'.tx = outcome
          /\ flow'.salt = flow.salt /\ flow'.sealed = flow.sealed
          /\ flow'.deposit = flow.deposit /\ flow'.policy = p
        BY <1>3, <2>1 DEF Flows
    <2> QED
        BY <1>1, <1>3, <1>4, <2>2
<1>5. CASE Head(pending).from = "page"
    <2>1. page' = [page EXCEPT !.tx = outcome]
        BY <1>1, <1>5
    <2>2. /\ page' \in Pages /\ page'.step = page.step /\ page'.tx = outcome
          /\ page'.policy = page.policy
        BY <1>3, <2>1 DEF Pages
    <2> QED
        BY <1>1, <1>3, <1>5, <2>2
<1>6. CASE Head(pending).from = "nobody"
    BY <1>1, <1>3, <1>6
<1> QED
    BY <1>2, <1>4, <1>5, <1>6

\* The invariant of the vault needs no more than that the chain forgets nothing.
LEMMA ChainGrows ==
    ASSUME VaultInv, vault \subseteq Entries, UNCHANGED vault,
           \A q \in Policies : commitment[q] # NoSalt => commitment'[q] = commitment[q],
           configured \subseteq configured', stored \subseteq stored'
    PROVE  VaultInv'
<1>1. \A e \in vault : e.policy \in Policies /\ e.salt # NoSalt
    BY FlowAssumption DEF Entries
<1> QED
    BY <1>1 DEF VaultInv, EntryOpensCommitment, HandoffWasMined, EntryOf

\* What the flow knows stays true while the chain forgets nothing, and the
\* outcome of its own transaction is what it then goes by.
LEMMA MinedInv ==
    ASSUME IInv, pending # <<>>, NEW outcome \in Receipts,
           NEW p \in Policies \cup {NoPolicy}, Mined(outcome, p),
           Head(pending).kind # "deploy" => p = Head(pending).policy,
           commitment' \in [Policies -> Salts \cup {NoSalt}],
           configured' \subseteq Policies, stored' \subseteq Policies,
           allowance' \in [Policies -> Nat], wallet' \in Nat, bal' \in [Policies -> Nat],
           \A q \in Policies : commitment[q] # NoSalt => commitment'[q] = commitment[q],
           configured \subseteq configured', stored \subseteq stored',
           \A q \in Policies : bal'[q] >= bal[q],
           outcome = "success" =>
               CASE Head(pending).kind = "deploy" ->
                        p \in Policies /\ commitment[p] = NoSalt
                            /\ commitment'[p] = Head(pending).salt
                 [] Head(pending).kind = "configure" -> p \in configured'
                 [] Head(pending).kind = "handoff" -> p \in stored'
                 [] Head(pending).kind = "approve" -> TRUE
                 [] Head(pending).kind = "deposit" -> bal'[p] >= Head(pending).amount
    PROVE  IInv'
<1> DEFINE t == Head(pending)
<1>1. /\ pending' \in Seq(Txs) /\ AwaitedInv' /\ UNCHANGED vault
      /\ flow' \in Flows /\ page' \in Pages
      /\ t.from = "flow" =>
             /\ page' = page /\ t = FlowTx
             /\ flow'.step = flow.step /\ flow'.tx = outcome /\ flow'.salt = flow.salt
             /\ flow'.sealed = flow.sealed /\ flow'.deposit = flow.deposit /\ flow'.policy = p
      /\ t.from # "flow" => flow' = flow
      /\ t.from = "page" =>
             /\ t = PageTx
             /\ page'.step = page.step /\ page'.tx = outcome /\ page'.policy = page.policy
      /\ t.from # "page" => page' = page
    BY OutcomeArrives
<1>2. t \in Txs
    BY TailOfPending DEF IInv
<1>3. t.kind \in Kinds
    BY <1>2 DEF Txs
<1>4. VaultInv'
    BY <1>1, ChainGrows DEF IInv, Typed
<1>5. Typed'
    BY <1>1 DEF IInv, Typed
<1>6. PageInv'
    <2>1. CASE t.from # "page"
        BY <1>1, <2>1 DEF IInv, PageInv, EntryOf
    <2>2. CASE t.from = "page"
        <3>1. t.kind = page.step /\ t.policy = page.policy
            BY <1>1, <2>2 DEF PageTx
        <3>2. page.step # "away" /\ page.step # "deploy"
            BY <1>3, <3>1 DEF Kinds, IInv, Typed, Pages
        <3>3. page.step = "handoff" /\ outcome = "success" => page.policy \in stored'
            BY <3>1
        <3> QED
            BY <1>1, <2>2, <3>2, <3>3 DEF IInv, PageInv, EntryOf
    <2> QED
        BY <2>1, <2>2
<1>7. FlowInv'
    <2>1. Known => Known' \/ flow'.policy # flow.policy
        <3>1. flow'.salt = flow.salt
            BY <1>1
        <3>2. Known => commitment[flow.policy] # NoSalt
            BY FlowAssumption DEF Known
        <3> QED
            BY <3>1, <3>2 DEF Known
    <2>2. Recorded => Recorded' \/ flow'.policy # flow.policy
        BY <1>1 DEF Recorded, EntryOf
    <2>3. CASE t.from # "flow"
        <3>1. flow' = flow
            BY <1>1, <2>3
        <3>2. Known => bal'[flow.policy] >= bal[flow.policy]
            BY DEF Known
        <3>3. Known => bal[flow.policy] \in Nat /\ bal'[flow.policy] \in Nat
            BY DEF Known, IInv, Typed
        <3>4. flow.deposit \in Nat
            BY DEF IInv, Typed, Flows
        <3>5. EntryOf(flow.policy)' = EntryOf(flow.policy)
            BY <1>1, <3>1 DEF EntryOf
        <3> QED
            BY <2>1, <2>2, <3>1, <3>2, <3>3, <3>4, <3>5 DEF IInv, FlowInv
    <2>4. CASE t.from = "flow"
        <3>1. /\ t.kind = flow.step /\ t.policy = flow.policy
              /\ flow.step = "deploy" => t.salt = flow.salt
              /\ flow.step = "deposit" => t.amount = flow.deposit
            BY <1>1, <2>4 DEF FlowTx
        <3>2. /\ flow'.step = flow.step /\ flow'.tx = outcome /\ flow'.salt = flow.salt
              /\ flow'.sealed = flow.sealed /\ flow'.deposit = flow.deposit
              /\ flow'.policy = p
            BY <1>1, <2>4
        <3>3. flow.step \in Kinds /\ flow.salt \in Salts
            BY <1>3, <3>1 DEF IInv, FlowInv, Kinds
        <3>4. CASE flow.step = "deploy"
            <4>1. ASSUME outcome = "success"
                  PROVE  Known' /\ {e \in vault : e.policy = p} = {}
                <5>1. p \in Policies /\ commitment[p] = NoSalt /\ commitment'[p] = flow.salt
                    BY <3>1, <3>4, <4>1
                <5>2. Known'
                    BY <3>2, <3>3, <5>1 DEF Known
                <5>3. \A e \in vault : e.policy # p
                    BY <5>1, FlowAssumption
                    DEF IInv, Typed, Entries, VaultInv, EntryOpensCommitment
                <5> QED
                    BY <5>2, <5>3
            <4>2. EntryOf(flow.policy)' = {e \in vault : e.policy = p}
                BY <1>1, <3>2 DEF EntryOf
            <4> QED
                BY <3>2, <3>3, <3>4, <4>1, <4>2 DEF FlowInv
        <3>5. CASE flow.step # "deploy"
            <4>1. flow'.policy = flow.policy
                BY <3>1, <3>2, <3>5
            <4>2. EntryOf(flow.policy)' = EntryOf(flow.policy)
                BY <1>1, <4>1 DEF EntryOf
            <4>3. outcome = "success" =>
                      /\ flow.step = "configure" => flow.policy \in configured'
                      /\ flow.step = "handoff" => flow.policy \in stored'
                      /\ flow.step = "deposit" => bal'[flow.policy] >= flow.deposit
                BY <3>1, <3>2, <3>5, <4>1
            <4> QED
                BY <2>1, <2>2, <3>2, <3>3, <3>5, <4>1, <4>2, <4>3 DEF IInv, FlowInv
        <3> QED
            BY <3>4, <3>5
    <2> QED
        BY <2>3, <2>4
<1> QED
    BY <1>1, <1>4, <1>5, <1>6, <1>7 DEF IInv
\* Each kind of transaction, and one that reverts.
LEMMA MineInv ==
    ASSUME IInv, Mine
    PROVE  IInv'
<1> DEFINE tx == Head(pending)
<1>1. pending # <<>>
    BY DEF Mine
<1>2. /\ tx \in Txs /\ tx.policy \in Policies \cup {NoPolicy} /\ tx.amount \in Nat
      /\ tx.kind = "deploy" => tx.salt \in Salts
      /\ tx.kind # "deploy" => tx.policy \in Policies
    BY <1>1, TailOfPending DEF IInv, Txs, WellFormed
<1>3. /\ commitment \in [Policies -> Salts \cup {NoSalt}]
      /\ configured \subseteq Policies /\ stored \subseteq Policies
      /\ allowance \in [Policies -> Nat] /\ wallet \in Nat /\ bal \in [Policies -> Nat]
    BY DEF IInv, Typed
<1>4. "success" \in Receipts /\ "reverted" \in Receipts
    BY DEF Receipts
<1> HIDE DEF tx
<1>5. ASSUME NEW p \in Policies, MineDeploy(tx, p)
      PROVE  IInv'
    <2>1. /\ tx.kind = "deploy" /\ commitment[p] = NoSalt /\ Mined("success", p)
          /\ commitment' = [commitment EXCEPT ![p] = tx.salt]
          /\ UNCHANGED <<configured, stored, allowance, wallet, bal>>
        BY <1>5 DEF MineDeploy, Exists
    <2>2. /\ commitment' \in [Policies -> Salts \cup {NoSalt}] /\ commitment'[p] = tx.salt
          /\ \A q \in Policies : commitment[q] # NoSalt => commitment'[q] = commitment[q]
        BY <1>2, <1>3, <2>1
    <2>3. \A q \in Policies : bal'[q] >= bal[q]
        BY <1>3, <2>1
    <2> QED
        BY <1>1, <1>3, <1>4, <2>1, <2>2, <2>3, MinedInv DEF tx
<1>6. CASE MineConfigure(tx)
    <2>1. /\ tx.kind = "configure" /\ Mined("success", tx.policy)
          /\ configured' = configured \cup {tx.policy}
          /\ UNCHANGED <<commitment, stored, allowance, wallet, bal>>
        BY <1>6 DEF MineConfigure
    <2>2. \A q \in Policies : bal'[q] >= bal[q]
        BY <1>3, <2>1
    <2> QED
        BY <1>1, <1>2, <1>3, <1>4, <2>1, <2>2, MinedInv DEF tx
<1>7. CASE MineHandoff(tx)
    <2>1. /\ tx.kind = "handoff" /\ Mined("success", tx.policy)
          /\ stored' = stored \cup {tx.policy}
          /\ UNCHANGED <<commitment, configured, allowance, wallet, bal>>
        BY <1>7 DEF MineHandoff
    <2>2. \A q \in Policies : bal'[q] >= bal[q]
        BY <1>3, <2>1
    <2> QED
        BY <1>1, <1>2, <1>3, <1>4, <2>1, <2>2, MinedInv DEF tx
<1>8. CASE MineApprove(tx)
    <2>1. /\ tx.kind = "approve" /\ Mined("success", tx.policy)
          /\ allowance' = [allowance EXCEPT ![tx.policy] = tx.amount]
          /\ UNCHANGED <<commitment, configured, stored, wallet, bal>>
        BY <1>8 DEF MineApprove
    <2>2. allowance' \in [Policies -> Nat] /\ \A q \in Policies : bal'[q] >= bal[q]
        BY <1>2, <1>3, <2>1
    <2> QED
        BY <1>1, <1>2, <1>3, <1>4, <2>1, <2>2, MinedInv DEF tx
<1>9. CASE MineDeposit(tx)
    <2>1. /\ tx.kind = "deposit" /\ tx.amount <= allowance[tx.policy] /\ tx.amount <= wallet
          /\ Mined("success", tx.policy)
          /\ allowance' = [allowance EXCEPT ![tx.policy] = @ - tx.amount]
          /\ wallet' = wallet - tx.amount
          /\ bal' = [bal EXCEPT ![tx.policy] = @ + tx.amount]
          /\ UNCHANGED <<commitment, configured, stored>>
        BY <1>9 DEF MineDeposit
    <2>2. tx.policy \in Policies
        BY <1>2, <2>1
    <2>3. allowance' \in [Policies -> Nat] /\ wallet' \in Nat
        BY <1>2, <1>3, <2>1, <2>2
    <2>4. /\ bal' \in [Policies -> Nat] /\ bal'[tx.policy] >= tx.amount
          /\ \A q \in Policies : bal'[q] >= bal[q]
        BY <1>2, <1>3, <2>1, <2>2
    <2> QED
        BY <1>1, <1>2, <1>3, <1>4, <2>1, <2>3, <2>4, MinedInv DEF tx
<1>10. CASE Revert(tx)
    <2>1. /\ Mined("reverted", tx.policy)
          /\ UNCHANGED <<commitment, configured, stored, allowance, wallet, bal>>
        BY <1>10 DEF Revert, chain
    <2>2. \A q \in Policies : bal'[q] >= bal[q]
        BY <1>3, <2>1
    <2> QED
        BY <1>1, <1>2, <1>3, <1>4, <2>1, <2>2, MinedInv DEF tx
<1> QED
    BY <1>5, <1>6, <1>7, <1>8, <1>9, <1>10 DEF Mine, tx

-----------------------------------------------------------------------------
(* The invariant                                                           *)

\* The invariant holds at the start.
LEMMA InitInv == Init => IInv
<1> SUFFICES ASSUME Init
             PROVE  IInv
    OBVIOUS
<1>1. flow = Closed /\ page = Away /\ vault = {} /\ pending = <<>>
    BY DEF Init
<1>2. /\ Closed \in Flows /\ Closed.step = "closed" /\ Closed.tx = NotSent
    BY DEF Closed, Flows, FlowSteps, TxStates
<1>3. Typed
    BY <1>1, <1>2, AwayTyped, FlowAssumption DEF Init, Typed
<1>4. AwaitedInv
    BY <1>1 DEF AwaitedInv
<1>5. FlowInv /\ PageInv
    BY <1>1, <1>2, AwayTyped DEF FlowInv, PageInv
<1>6. VaultInv
    BY <1>1 DEF VaultInv, EntryOpensCommitment, HandoffWasMined
<1> QED
    BY <1>3, <1>4, <1>5, <1>6 DEF IInv

\* Every step of the flow, of the page and of the chain keeps it.
LEMMA NextInv == IInv /\ [Next]_flowVars => IInv'
<1> SUFFICES ASSUME IInv, [Next]_flowVars
             PROVE  IInv'
    OBVIOUS
<1>1. CASE FlowStep
    BY <1>1, RestingInv, StartInv, ConfirmInv, FailingInv, DeployedInv, SavingInv, MoneyInv
    DEF FlowStep
<1>2. CASE PageStep
    BY <1>2, PageStepInv
<1>3. CASE Mine
    BY <1>3, MineInv
<1>4. CASE UNCHANGED flowVars
    <2>1. UNCHANGED <<flow, vault, pending, chain>> /\ page' = page
        BY <1>4 DEF flowVars, chain
    <2>2. page' \in Pages /\ pending' \in Seq(Txs) /\ PageInv'
        BY <2>1 DEF IInv, Typed, PageInv, EntryOf, chain
    <2>3. AwaitedInv'
        BY <2>1 DEF IInv, AwaitedInv, FlowTx, PageTx
    <2> QED
        BY <2>1, <2>2, <2>3, PageAlone
<1> QED
    BY <1>1, <1>2, <1>3, <1>4 DEF Next

\* The invariant holds in every state of browser and chain.
THEOREM Invariance == Spec => []IInv
BY InitInv, NextInv, PTL DEF Spec

\* Flow, page, vault and transactions have their form, and no balance goes
\* negative (deployPolicy, send, ERC-20).
THEOREM TypeCorrect == Spec => []TypeOK
<1>1. ASSUME IInv
      PROVE  TypeOK
    <2>1. \A tx \in Elements(pending) : tx.kind \in Kinds
        BY <1>1 DEF IInv, Typed, Elements, Txs
    <2>2. {tx.kind : tx \in Elements(pending)} \subseteq Elements(Steps)
        BY <2>1, StepNames
    <2>3. flow.step \in {"closed", "review", "seal", "done", "failed"} \cup Elements(Steps)
        BY <1>1, StepNames DEF IInv, Typed, Flows, FlowSteps, Kinds
    <2>4. /\ flow.tx \in {NotSent, "sent"} \cup Receipts
          /\ page.step \in {"away", "handoff", "approve", "deposit"}
          /\ page.tx \in {NotSent, "sent"} \cup Receipts
        BY <1>1 DEF IInv, Typed, Flows, Pages, TxStates, Receipts
    <2> QED
        BY <1>1, <2>2, <2>3, <2>4 DEF IInv, Typed, TypeOK
<1> QED
    BY <1>1, Invariance, PTL

\* Every entry has the salt of the policy it names, whose trigger is set, and is
\* the only one for it (saveEntry runs on what the receipt of this very run says).
THEOREM EntriesOpen == Spec => []EntryOpensCommitment
<1>1. IInv => EntryOpensCommitment
    BY DEF IInv, VaultInv
<1> QED
    BY <1>1, Invariance, PTL

\* The flow asks for money only after the entry is in the vault (saveEntry comes
\* before the hand-off, approve and deposit in deployPolicy).
THEOREM EntryBeforeMoney == Spec => []FundsOnlyTheRecoverable
<1>1. IInv => FundsOnlyTheRecoverable
    BY DEF IInv, FlowInv, Recorded, FundsOnlyTheRecoverable
<1> QED
    BY <1>1, Invariance, PTL

\* What the vault calls handed off is on chain (handOffToEnclave looks at the
\* status of its receipt, in the flow and on the page).
THEOREM HandoffsWereMined == Spec => []HandoffWasMined
<1>1. IInv => HandoffWasMined
    BY DEF IInv, VaultInv
<1> QED
    BY <1>1, Invariance, PTL

-----------------------------------------------------------------------------
(* Done means funded                                                       *)

\* After the hand-off a run is over only if no deposit was asked for.
LEMMA NoDepositAskedFor ==
    ASSUME IInv, flow.policy \in Policies, flow' = AfterHandoff, flow'.step = "done"
    PROVE  bal[flow.policy] >= flow.deposit
<1>1. Goto("approve").step = "approve"
    BY NextStep DEF IInv, FlowSteps
<1>2. flow.deposit = 0
    BY <1>1 DEF AfterHandoff
<1>3. bal[flow.policy] \in Nat
    BY DEF IInv, Typed
<1> QED
    BY <1>2, <1>3

\* A step that fails ends the run, unless it is the hand-off.
LEMMA FailedIsNotDone ==
    ASSUME IInv, Fail, flow'.step = "done"
    PROVE  bal[flow.policy] >= flow.deposit
<1>1. CASE flow.step = "handoff"
    <2>1. flow.policy \in Policies
        BY <1>1 DEF IInv, FlowInv, Known
    <2>2. flow' = AfterHandoff
        BY <1>1 DEF Fail
    <2> QED
        BY <2>1, <2>2, NoDepositAskedFor
<1>2. CASE flow.step # "handoff"
    <2>1. flow' = [Closed EXCEPT !.step = "failed", !.salt = flow.salt]
        BY <1>2 DEF Fail
    <2>2. flow'.step = "failed"
        BY <2>1 DEF Closed
    <2> QED
        BY <2>2
<1> QED
    BY <1>1, <1>2

\* The steps that can end a run: each with its reason.
LEMMA EndOfRun ==
    ASSUME IInv, flow'.step = "done", flow.step # "done",
           \/ Reject \/ WaitThrows \/ \E step \in Elements(Steps) : Reverted(step)
           \/ Configured \/ HandedOff \/ Approved \/ Deposited \/ Deployed
    PROVE  bal[flow.policy] >= flow.deposit
<1>1. CASE Reject \/ WaitThrows \/ \E step \in Elements(Steps) : Reverted(step)
    BY <1>1, FailedIsNotDone DEF Reject, WaitThrows, Reverted
<1>2. CASE Configured \/ HandedOff
    <2>1. flow.policy \in Policies
        BY <1>2 DEF Configured, HandedOff, Receipt, IInv, FlowInv, Known
    <2>2. flow' = AfterHandoff \/ flow' = Goto("handoff")
        BY <1>2 DEF Configured, HandedOff
    <2>3. Goto("handoff").step = "handoff"
        BY NextStep DEF IInv, FlowSteps
    <2> QED
        BY <2>1, <2>2, <2>3, NoDepositAskedFor
<1>3. CASE Approved \/ Deployed
    <2>1. flow' = Goto("deposit") \/ flow' = Goto("configure")
        BY <1>3 DEF Approved, Deployed
    <2>2. Goto("deposit").step = "deposit" /\ Goto("configure").step = "configure"
        BY NextStep DEF IInv, FlowSteps
    <2> QED
        BY <2>1, <2>2
<1>4. CASE Deposited
    BY <1>4 DEF Deposited, Receipt, IInv, FlowInv
<1> QED
    BY <1>1, <1>2, <1>3, <1>4

\* A transaction that is mined does not move the flow on.
LEMMA MineMovesNoFlow ==
    ASSUME IInv, Mine
    PROVE  flow'.step = flow.step
<1>1. PICK outcome, p : Mined(outcome, p)
    BY DEF Mine, MineDeploy, MineConfigure, MineHandoff, MineApprove, MineDeposit, Revert
<1>2. flow' = flow \/ flow' = [flow EXCEPT !.tx = outcome, !.policy = p]
    BY <1>1 DEF Mined
<1>3. flow \in Flows
    BY DEF IInv, Typed
<1> QED
    BY <1>2, <1>3 DEF Flows

\* The flow is done only with its deposit in the policy (deployPolicy throws on
\* the last receipt if it is not a success).
THEOREM DoneIsFunded == Spec => DoneMeansFunded
<1>1. IInv /\ [Next]_flowVars
          => [flow'.step = "done" /\ flow.step # "done" =>
                  bal[flow.policy] >= flow.deposit]_flowVars
    <2> SUFFICES ASSUME IInv, [Next]_flowVars, flow'.step = "done", flow.step # "done"
                 PROVE  bal[flow.policy] >= flow.deposit
        OBVIOUS
    <2>1. CASE \/ Reject \/ WaitThrows \/ \E step \in Elements(Steps) : Reverted(step)
               \/ Configured \/ HandedOff \/ Approved \/ Deposited \/ Deployed
        BY <2>1, EndOfRun
    <2>2. CASE (\E salt \in Salts : OpenStudio(salt)) \/ NotDeployed \/ CloseDialog \/ CloseTab
        <3>1. ASSUME NEW salt \in Salts, OpenStudio(salt)
              PROVE  flow'.step = "review"
            BY <3>1 DEF OpenStudio, Closed
        <3>2. NotDeployed => flow'.step = "failed"
            BY DEF NotDeployed, Closed
        <3>3. CloseDialog => flow'.step = "review"
            BY DEF CloseDialog, Closed
        <3>4. CloseTab => flow'.step = "closed"
            BY DEF CloseTab, Closed
        <3> QED
            BY <2>2, <3>1, <3>2, <3>3, <3>4
    <2>3. CASE (\E deposit \in Deposits : Run(deposit)) \/ \E sealed \in BOOLEAN : Seal(sealed)
        <3>1. ASSUME NEW deposit \in Deposits, Run(deposit)
              PROVE  flow'.step = "seal"
            BY <3>1 DEF Run, Closed
        <3>2. ASSUME NEW sealed \in BOOLEAN, Seal(sealed)
              PROVE  flow'.step = "deploy"
            BY <3>2 DEF Seal, IInv, Typed, Flows
        <3> QED
            BY <2>3, <3>1, <3>2
    <2>4. CASE Confirm
        <3>1. flow \in Flows /\ flow' = [flow EXCEPT !.tx = "sent"]
            BY <2>4 DEF Confirm, IInv, Typed
        <3>2. flow'.step = flow.step
            BY <3>1 DEF Flows
        <3> QED
            BY <3>2
    <2>5. CASE PageStep
        BY <2>5 DEF PageStep, PageSend, PageFund, PageConfirm, PageStops, PageHandedOff,
                    PageApproved
    <2>6. CASE Mine
        BY <2>6, MineMovesNoFlow
    <2>7. CASE UNCHANGED flowVars
        BY <2>7 DEF flowVars
    <2> QED
        BY <2>1, <2>2, <2>3, <2>4, <2>5, <2>6, <2>7 DEF Next, FlowStep
<1> QED
    BY <1>1, Invariance, PTL DEF Spec, DoneMeansFunded
=============================================================================
