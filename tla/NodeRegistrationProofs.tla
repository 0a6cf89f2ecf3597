---------------------- MODULE NodeRegistrationProofs ----------------------
(***************************************************************************)
(* Theorems about the registration of a machine, for any number of keys,   *)
(* instructions and transactions under way, and any commands.              *)
(***************************************************************************)
EXTENDS NodeRegistration, TLAPS

Letters == {"r", "R", "a", "p"}

\* The values that the variables take, with no bound on an id.
Instructions == [kind : {"attest", "check"}, tee : Tees, of : Nat]

Txs == [kind : {"register", "attest", "check", "promote"}, tee : Tees, of : Nat,
        awaited : BOOLEAN]

Files == [done : SUBSET {"r", "R", "a"}, attest : Nat, check : Nat]

Runs == [at : Letters \cup {"off", "end"}, cmd : SUBSET Letters, tee : Tees \cup {NoTee},
         loaded : Files, state : Files, attest : Nat, check : Nat,
         tx : {NotSent, "sent", "success", "reverted"}, got : Nat, since : Nat]

Typed ==
    /\ node \in Tees \ former
    /\ former \subseteq Tees
    /\ machine \in [Tees -> {"none", "registered", "production"}]
    /\ sent \in Seq(Instructions)
    /\ spent \subseteq 1..Len(sent)
    /\ results \subseteq {i \in 1..Len(sent) : sent[i].kind = "check"}
    /\ pending \in Seq(Txs)
    /\ file \in Files
    /\ torn \in BOOLEAN
    /\ run \in Runs

\* A machine that was to attest is registered, and a check has spent its challenge.
SentInv ==
    \A i \in 1..Len(sent) :
        /\ sent[i].kind = "attest" => machine[sent[i].tee] # "none"
        /\ sent[i].kind = "check" => sent[i].of \in spent

\* What a state says was done is on chain.
Known(s) ==
    /\ s.attest # 0 => IsKind(s.attest, "attest")
    /\ s.check # 0 => IsKind(s.check, "check")
    /\ s.done \cap {"r", "R"} # {} => s.attest # 0
    /\ "a" \in s.done => s.check # 0

StatesInv == Known(file) /\ Known(run.state) /\ Known(run.loaded)

\* What a run names is on chain, and it waits only in a step that is not done.
RunInv ==
    /\ run.at # "off" => run.tee \in Tees
    /\ run.at \in Letters => run.at \in run.cmd
    /\ run.tx # NotSent => run.at \in Letters /\ run.at \notin run.state.done
    /\ run.attest # 0 => IsKind(run.attest, "attest")
    /\ run.check # 0 => IsKind(run.check, "check")
    /\ run.since <= Len(sent)
    /\ run.tx # NotSent /\ run.at = "p" => run.check \in results
    /\ run.tx # "success" => run.got = 0
    /\ run.got <= Len(sent)

\* What the receipt of the step says.
ReceiptInv ==
    run.tx = "success" =>
        /\ run.at \in {"r", "R"} =>
               /\ IsKind(run.got, "attest")
               /\ sent[run.got].tee = run.tee
               /\ run.got > run.since
               /\ run.got \notin spent
        /\ run.at = "a" => IsKind(run.got, "check") /\ sent[run.got].tee = run.tee
        /\ run.at = "p" => machine[sent[run.check].tee] = "production" /\ run.got = 0

\* A transaction that the run waits for is the one of its step.
OfStep(tx, r) ==
    /\ r.tx = "sent"
    /\ tx.tee = r.tee
    /\ r.at = "r" => tx.kind \in {"register", "attest"}
    /\ r.at = "R" => tx.kind = "attest"
    /\ r.at = "a" => tx.kind = "check" /\ tx.of = r.attest
    /\ r.at = "p" => tx.kind = "promote" /\ tx.of = r.check

\* There is at most one, and the others name what was there before the run.
PendingInv ==
    \A k \in 1..Len(pending) :
        /\ pending[k].awaited => OfStep(pending[k], run)
        /\ \A j \in 1..Len(pending) : pending[k].awaited /\ pending[j].awaited => j = k
        /\ pending[k].of <= Len(sent)
        /\ pending[k].kind = "promote" => pending[k].of \in results
        /\ ~pending[k].awaited /\ run.at # "off" => pending[k].of <= run.since

\* A run that has r or R among its steps has a challenge when they are behind it;
\* a run that has a has a check.
PathInv ==
    /\ run.at = "R" /\ "r" \in run.cmd => run.attest # 0
    /\ run.at \in {"a", "p", "end"} /\ run.cmd \cap {"r", "R"} # {} => run.attest # 0
    /\ run.at \in {"p", "end"} /\ "a" \in run.cmd => run.check # 0

\* What a run from nothing, or from its own state, knows is of its own machine.
OwnInv ==
    run.at # "off" /\ OwnState =>
        /\ \A i \in {run.state.attest, run.state.check, run.attest} \ {0} :
               sent[i].tee = run.tee
        /\ "a" \in run.cmd /\ run.check # 0 => sent[run.check].tee = run.tee

\* The challenge of a run from nothing is its own until it is spent on its check.
FreshInv ==
    run.at # "off" /\ run.loaded = NoState =>
        /\ run.attest # 0 => run.attest > run.since
        /\ run.at = "r" => run.state.done = {}
        /\ run.at = "R" => run.state.done \subseteq {"r"}
        /\ run.at = "a" => run.state.done \subseteq {"r", "R"}
        /\ \/ run.at \in {"r", "R"}
           \/ run.at = "a" /\ run.tx \in {NotSent, "sent"}
           => run.attest \notin spent

EndInv ==
    run.at = "end" /\ {"a", "p"} \subseteq run.cmd /\ OwnState
    => machine[run.tee] = "production"

\* The inductive invariant.
IInv == /\ Typed /\ SentInv /\ StatesInv /\ RunInv /\ ReceiptInv /\ PendingInv /\ PathInv
        /\ OwnInv /\ FreshInv /\ EndInv

-----------------------------------------------------------------------------
(* The steps of a command                                                  *)

\* The next step is one of the command, and nothing of it lies between.
LEMMA NextStepIs ==
    ASSUME NEW cmd \in SUBSET Letters, NEW step \in {"start", "r", "R", "a"}
    PROVE  /\ NextStep(step, cmd) \in (Later(step) \cap cmd) \cup {"end"}
           /\ NextStep(step, cmd) = "end" => Later(step) \cap cmd = {}
           /\ NextStep(step, cmd) # "end" =>
                  \A l \in Later(step) \cap cmd :
                      l # NextStep(step, cmd) => l \in Later(NextStep(step, cmd))
<1> DEFINE rest == Later(step) \cap cmd
           isNext(l) == l \in rest /\ rest \ {l} \subseteq Later(l)
<1>1. CASE rest = {}
    BY <1>1 DEF NextStep
<1>2. CASE rest # {}
    <2>1. rest \subseteq {"r", "R", "a", "p"}
        BY DEF Letters
    <2>2. \E l \in rest : rest \ {l} \subseteq Later(l)
        <3>1. CASE "r" \in rest
            BY <3>1, <2>1 DEF Later
        <3>2. CASE "r" \notin rest /\ "R" \in rest
            BY <3>2, <2>1 DEF Later
        <3>3. CASE "r" \notin rest /\ "R" \notin rest /\ "a" \in rest
            BY <3>3, <2>1 DEF Later
        <3>4. CASE "r" \notin rest /\ "R" \notin rest /\ "a" \notin rest
            <4>1. rest = {"p"}
                BY <3>4, <2>1, <1>2
            <4> QED
                BY <4>1
        <3> QED
            BY <3>1, <3>2, <3>3, <3>4
    <2>3. NextStep(step, cmd) = CHOOSE l \in rest : rest \ {l} \subseteq Later(l)
        BY <1>2 DEF NextStep
    <2>4. /\ NextStep(step, cmd) \in rest
          /\ rest \ {NextStep(step, cmd)} \subseteq Later(NextStep(step, cmd))
        BY <2>2, <2>3
    <2>5. "end" \notin rest
        BY <2>1
    <2> QED
        BY <2>4, <2>5
<1> QED
    BY <1>1, <1>2

\* Where a run begins.
LEMMA FirstStep ==
    ASSUME NEW cmd \in SUBSET Letters
    PROVE  LET at == NextStep("start", cmd)
           IN  /\ at \in Letters \cup {"end"}
               /\ at \in Letters => at \in cmd
               /\ at = "R" => "r" \notin cmd
               /\ at \in {"a", "p", "end"} => cmd \cap {"r", "R"} = {}
               /\ at \in {"p", "end"} => "a" \notin cmd
<1>1. Later("start") = Letters
    BY DEF Later, Letters
<1>2. /\ "r" \notin Later("R") /\ "r" \notin Later("a") /\ "R" \notin Later("a")
      /\ "r" \notin Later("p") /\ "R" \notin Later("p") /\ "a" \notin Later("p")
    BY DEF Later
<1>3. cmd \subseteq Letters /\ "r" \in Letters /\ "R" \in Letters /\ "a" \in Letters
      /\ "end" \notin Letters
    BY DEF Letters
<1>4. /\ NextStep("start", cmd) \in cmd \cup {"end"}
      /\ NextStep("start", cmd) = "end" => cmd = {}
      /\ NextStep("start", cmd) # "end" =>
             \A l \in cmd : l # NextStep("start", cmd) => l \in Later(NextStep("start", cmd))
    BY <1>1, <1>3, NextStepIs
<1> QED
    BY <1>2, <1>3, <1>4

\* Where it goes on.
LEMMA StepAfter ==
    ASSUME NEW cmd \in SUBSET Letters, NEW step \in {"r", "R", "a"}
    PROVE  LET at == NextStep(step, cmd)
           IN  /\ at \in (Letters \ {step, "r"}) \cup {"end"}
               /\ at \in Letters => at \in cmd
               /\ step = "a" => at \in {"p", "end"}
               /\ step = "R" => at # "R"
               /\ at \in {"p", "end"} => step = "a" \/ "a" \notin cmd
               /\ at = "end" => "p" \notin cmd
<1>1. /\ Later("r") = {"R", "a", "p"} /\ Later("R") = {"a", "p"} /\ Later("a") = {"p"}
      /\ Later("p") = {}
    BY DEF Later
<1>2. /\ NextStep(step, cmd) \in (Later(step) \cap cmd) \cup {"end"}
      /\ NextStep(step, cmd) = "end" => Later(step) \cap cmd = {}
      /\ NextStep(step, cmd) # "end" =>
             \A l \in Later(step) \cap cmd :
                 l # NextStep(step, cmd) => l \in Later(NextStep(step, cmd))
    BY NextStepIs
<1> QED
    BY <1>1, <1>2 DEF Letters

-----------------------------------------------------------------------------
(* The process                                                             *)

\* The process that is not there.
LEMMA NoProcess ==
    /\ NoState \in Files /\ Off \in Runs
    /\ NoState.done = {} /\ NoState.attest = 0 /\ NoState.check = 0
    /\ Off.at = "off" /\ Off.tx = NotSent /\ Off.loaded = NoState /\ Off.state = NoState
    /\ Off.attest = 0 /\ Off.check = 0 /\ Off.got = 0 /\ Off.since = 0
BY DEF NoState, Off, Files, Runs, NotSent

\* The file may be lost, and a process may end, at any time.
LEMMA EndsInv ==
    ASSUME IInv, run' = Off, file' \in {file, NoState}, torn' \in BOOLEAN,
           UNCHANGED <<node, former, machine, sent, spent, results>>,
           pending' \in Seq(Txs), Len(pending') = Len(pending),
           \A k \in 1..Len(pending) :
               /\ ~pending'[k].awaited /\ pending'[k].of = pending[k].of
               /\ pending'[k].kind = pending[k].kind
    PROVE  IInv'
<1>1. Typed'
    BY NoProcess DEF IInv, Typed
<1>2. SentInv'
    BY DEF IInv, SentInv
<1>3. StatesInv'
    BY NoProcess DEF IInv, StatesInv, Known, IsKind
<1>4. RunInv'
    <2>1. Len(sent') = Len(sent) /\ Len(sent) \in Nat
        BY DEF IInv, Typed
    <2> QED
        <3>1. run'.at = "off" /\ run'.tx = NotSent /\ run'.attest = 0 /\ run'.check = 0
              /\ run'.got = 0 /\ run'.since = 0
            BY NoProcess
        <3>2. "off" \notin Letters
            BY DEF Letters
        <3>3. run'.since <= Len(sent') /\ run'.got <= Len(sent')
            BY <2>1, <3>1
        <3> QED
            BY <3>1, <3>2, <3>3 DEF RunInv
<1>6. ReceiptInv' /\ PathInv' /\ OwnInv' /\ FreshInv' /\ EndInv'
    BY NoProcess DEF ReceiptInv, PathInv, OwnInv, FreshInv, EndInv, NotSent
<1>5. PendingInv'
    BY NoProcess DEF IInv, PendingInv
<1> QED
    BY <1>1, <1>2, <1>3, <1>4, <1>5, <1>6 DEF IInv

\* A process that does not wait has nothing in the queue.
LEMMA NotWaiting ==
    ASSUME IInv, run.tx # "sent"
    PROVE  \A k \in 1..Len(pending) : ~pending[k].awaited
BY DEF IInv, PendingInv, OfStep

\* An error or a crash, wherever the process is.
LEMMA StopInv ==
    ASSUME IInv, Stop
    PROVE  IInv'
<1>1. pending \in Seq(Txs) /\ \A t \in Txs : /\ [t EXCEPT !.awaited = FALSE] \in Txs
                                             /\ ~[t EXCEPT !.awaited = FALSE].awaited
                                             /\ [t EXCEPT !.awaited = FALSE].of = t.of
                                             /\ [t EXCEPT !.awaited = FALSE].kind = t.kind
    BY DEF IInv, Typed, Txs
<1>2. pending' = [k \in 1..Len(pending) |-> [pending[k] EXCEPT !.awaited = FALSE]]
    BY DEF Stop
<1>3. /\ pending' \in Seq(Txs) /\ Len(pending') = Len(pending)
      /\ \A k \in 1..Len(pending) :
             /\ ~pending'[k].awaited /\ pending'[k].of = pending[k].of
             /\ pending'[k].kind = pending[k].kind
    <2>1. Len(pending) \in Nat /\ \A k \in 1..Len(pending) : pending[k] \in Txs
        BY <1>1
    <2>2. pending' \in [1..Len(pending) -> Txs]
        BY <1>1, <1>2, <2>1
    <2>3. pending' \in Seq(Txs) /\ Len(pending') = Len(pending)
        BY <2>1, <2>2
    <2>4. \A k \in 1..Len(pending) : pending'[k] = [pending[k] EXCEPT !.awaited = FALSE]
        BY <1>2
    <2> QED
        BY <1>1, <2>1, <2>3, <2>4
<1>4. torn' \in BOOLEAN
    BY DEF Stop, IInv, Typed
<1> QED
    BY <1>3, <1>4, EndsInv DEF Stop, chain

\* The end of the command.
LEMMA FinishInv ==
    ASSUME IInv, Finish
    PROVE  IInv'
<1>1. run.tx = NotSent
    BY DEF Finish, IInv, RunInv, Letters
<1>2. \A k \in 1..Len(pending) : ~pending[k].awaited
    BY <1>1, NotWaiting DEF NotSent
<1>3. torn' \in BOOLEAN /\ file' \in {file, NoState}
    BY DEF Finish, IInv, Typed
<1>4. pending' = pending /\ pending \in Seq(Txs)
    BY DEF Finish, IInv, Typed
<1> QED
    BY <1>2, <1>3, <1>4, EndsInv DEF Finish, chain

\* A run begins.
LEMMA StartInv ==
    ASSUME IInv, NEW cmd \in Commands, NEW keep \in BOOLEAN, NEW check \in 0..Len(sent),
           Start(cmd, keep, check)
    PROVE  IInv'
<1> DEFINE at == NextStep("start", cmd)
<1>1. cmd \in SUBSET Letters
    BY RegistrationAssumption DEF Letters
<1>2. /\ at \in Letters \cup {"end"}
      /\ at \in Letters => at \in cmd
      /\ at = "R" => "r" \notin cmd
      /\ at \in {"a", "p", "end"} => cmd \cap {"r", "R"} = {}
      /\ at \in {"p", "end"} => "a" \notin cmd
    BY <1>1, FirstStep
<1>3. /\ UNCHANGED <<node, former, machine, sent, spent, results, pending>>
      /\ file' \in {file, NoState} /\ file' \in Files /\ torn' = FALSE
      /\ check # 0 => IsKind(check, "check") /\ "a" \notin cmd
      /\ run.at = "off"
    BY NoProcess DEF Start, chain, IInv, Typed
<1>4. sent \in Seq(Instructions) /\ Len(sent) \in Nat /\ node \in Tees
    BY DEF IInv, Typed
<1>5. /\ run' \in Runs /\ run'.at = at /\ run'.cmd = cmd /\ run'.tee = node
      /\ run'.loaded = file' /\ run'.state = file' /\ run'.check = check
      /\ run'.since = Len(sent) /\ run'.attest = 0 /\ run'.tx = NotSent /\ run'.got = 0
    <2>1. run' = [at |-> at, cmd |-> cmd, tee |-> node, loaded |-> file', state |-> file',
                  attest |-> 0, check |-> check, tx |-> NotSent, got |-> 0,
                  since |-> Len(sent)]
        BY DEF Start, Off
    <2> HIDE DEF at
    <2> QED
        BY <2>1, <1>1, <1>2, <1>3, <1>4 DEF Runs
<1> HIDE DEF at
<1>6. Known(file')
    BY <1>3, NoProcess DEF IInv, StatesInv, Known
<1>7. Typed' /\ SentInv' /\ StatesInv'
    BY <1>3, <1>5, <1>6 DEF IInv, Typed, SentInv, StatesInv, Known, IsKind
<1>8. run.tx = NotSent
    BY <1>3 DEF IInv, RunInv, Letters
<1>9. PendingInv'
    BY <1>3, <1>5, <1>8, NotWaiting DEF IInv, PendingInv, NotSent
<1>10. RunInv' /\ ReceiptInv' /\ PathInv'
    <2>1. RunInv'
        <3>1. "off" \notin Letters /\ "end" \notin Letters
            BY DEF Letters
        <3>2. sent' = sent /\ run'.since <= Len(sent') /\ run'.got <= Len(sent')
            BY <1>3, <1>4, <1>5
        <3>3. (run.check # 0 => IsKind(run.check, "check"))'
            BY <1>3, <1>5 DEF IsKind
        <3> QED
            BY <1>2, <1>4, <1>5, <3>1, <3>2, <3>3 DEF RunInv, NotSent
    <2>2. ReceiptInv'
        BY <1>5 DEF ReceiptInv, NotSent
    <2>3. PathInv'
        BY <1>2, <1>5 DEF PathInv
    <2> QED
        BY <2>1, <2>2, <2>3
<1>11. OwnInv'
    <2>1. OwnState' => \A i \in {file'.attest, file'.check} \ {0} : sent[i].tee = node
        BY <1>3, <1>5 DEF OwnState
    <2> QED
        BY <2>1, <1>3, <1>5 DEF OwnInv
<1>12. FreshInv'
    <2>1. 0 \notin spent
        BY <1>4 DEF IInv, Typed
    <2> QED
        BY <2>1, <1>3, <1>5, NoProcess DEF FreshInv
<1>13. EndInv'
    BY <1>2, <1>5 DEF EndInv
<1> QED
    BY <1>7, <1>9, <1>10, <1>11, <1>12, <1>13 DEF IInv

\* A step of the process that moves it on: what is left to show is about the run.
LEMMA MovesOn ==
    ASSUME IInv, run.tx \in {NotSent, "success"}, run'.tx = NotSent, run' \in Runs,
           UNCHANGED <<node, former, machine, sent, spent, results, pending>>,
           file' \in Files, torn' \in BOOLEAN, Known(file'), Known(run'.state),
           run.at # "off", run'.since = run.since, run'.loaded = run.loaded,
           run'.tee = run.tee
    PROVE  /\ Typed' /\ SentInv' /\ StatesInv' /\ PendingInv' /\ ReceiptInv'
           /\ OwnState' = OwnState
<1>1. Typed'
    BY DEF IInv, Typed
<1>2. SentInv'
    BY DEF IInv, SentInv
<1>3. Known(run'.loaded)
    BY DEF IInv, StatesInv
<1>4. StatesInv'
    BY <1>3 DEF StatesInv, Known, IsKind
<1>5. PendingInv'
    BY NotWaiting DEF IInv, PendingInv, NotSent
<1>6. ReceiptInv'
    BY DEF ReceiptInv, NotSent
<1>7. OwnState' = OwnState
    BY DEF OwnState
<1> QED
    BY <1>1, <1>2, <1>4, <1>5, <1>6, <1>7

\* A step that the state calls done is passed over with what the state knows of it.
LEMMA SkipInv ==
    ASSUME IInv, Skip
    PROVE  IInv'
<1> DEFINE at == NextStep(run.at, run.cmd)
           attest == IF run.at = "a" THEN run.attest ELSE run.state.attest
           check == IF run.at = "a" THEN run.state.check ELSE run.check
<1>1. run \in Runs /\ run.state \in Files /\ run.cmd \in SUBSET Letters
    BY DEF IInv, Typed, Runs
<1>2. run.at \in {"r", "R", "a"} /\ run.at \in run.state.done
    BY <1>1 DEF Skip, Files
<1>3. /\ at \in (Letters \ {run.at, "r"}) \cup {"end"}
      /\ at \in Letters => at \in run.cmd
      /\ run.at = "a" => at \in {"p", "end"}
      /\ run.at = "R" => at # "R"
      /\ at \in {"p", "end"} => run.at = "a" \/ "a" \notin run.cmd
      /\ at = "end" => "p" \notin run.cmd
    BY <1>1, <1>2, StepAfter
<1>4. /\ UNCHANGED <<node, former, machine, sent, spent, results, pending, file, torn>>
      /\ run' = [run EXCEPT !.at = at, !.attest = attest, !.check = check]
    BY DEF Skip, chain
<1>5. run.tx = NotSent
    BY <1>2 DEF IInv, RunInv
<1>6. attest \in Nat /\ check \in Nat
    BY <1>1 DEF Runs, Files
<1> HIDE DEF at
<1>7. /\ run' \in Runs /\ run'.at = at /\ run'.cmd = run.cmd /\ run'.tee = run.tee
      /\ run'.loaded = run.loaded /\ run'.state = run.state /\ run'.attest = attest
      /\ run'.check = check /\ run'.tx = run.tx /\ run'.got = run.got
      /\ run'.since = run.since
    BY <1>1, <1>3, <1>4, <1>6 DEF Runs
<1>8. /\ Typed' /\ SentInv' /\ StatesInv' /\ PendingInv' /\ ReceiptInv'
      /\ OwnState' = OwnState
    BY <1>2, <1>4, <1>5, <1>7, MovesOn DEF IInv, Typed, StatesInv
<1>9. /\ run.at \in {"r", "R"} => attest # 0
      /\ run.at = "a" => check # 0 /\ attest = run.attest
      /\ attest # 0 => IsKind(attest, "attest")
      /\ check # 0 => IsKind(check, "check")
    BY <1>2 DEF IInv, StatesInv, Known, RunInv
<1>10. RunInv'
    BY <1>2, <1>3, <1>4, <1>5, <1>7, <1>9 DEF IInv, RunInv, IsKind, NotSent, Letters
<1>11. PathInv'
    BY <1>2, <1>3, <1>7, <1>9 DEF IInv, PathInv, Letters
<1>12. OwnInv'
    BY <1>2, <1>4, <1>7, <1>8 DEF IInv, OwnInv, OwnState
<1>13. run.loaded # NoState
    BY <1>2, <1>1 DEF IInv, FreshInv
<1>14. FreshInv'
    BY <1>7, <1>13 DEF FreshInv
<1>15. EndInv'
    BY <1>3, <1>7 DEF EndInv
<1> QED
    BY <1>8, <1>10, <1>11, <1>12, <1>14, <1>15 DEF IInv

\* A transaction is sent.
LEMMA SendInv ==
    ASSUME IInv, NEW kind \in {"register", "attest", "check", "promote"}, NEW of \in Nat,
           run.at \in Letters, run.at \notin run.state.done, run.tx = NotSent, Send(kind, of),
           run.at = "r" => kind \in {"register", "attest"},
           run.at = "R" => kind = "attest",
           run.at = "a" => kind = "check" /\ of = run.attest,
           run.at = "p" => kind = "promote" /\ of = run.check /\ of \in results,
           run.at \in {"r", "R"} => of = 0
    PROVE  IInv'
<1> DEFINE tx == [kind |-> kind, tee |-> run.tee, of |-> of, awaited |-> TRUE]
<1>1. run \in Runs /\ pending \in Seq(Txs) /\ run.tee \in Tees /\ sent \in Seq(Instructions)
    BY DEF IInv, Typed, RunInv, Letters
<1>2. tx \in Txs
    BY <1>1 DEF Txs
<1>3. /\ UNCHANGED <<node, former, machine, sent, spent, results, file, torn>>
      /\ pending' = Append(pending, tx) /\ run' = [run EXCEPT !.tx = "sent"]
    BY DEF Send, chain
<1>4. /\ run' \in Runs /\ run'.at = run.at /\ run'.cmd = run.cmd /\ run'.tee = run.tee
      /\ run'.loaded = run.loaded /\ run'.state = run.state /\ run'.attest = run.attest
      /\ run'.check = run.check /\ run'.tx = "sent" /\ run'.got = run.got
      /\ run'.since = run.since
    BY <1>1, <1>3 DEF Runs
<1>5. /\ pending' \in Seq(Txs) /\ Len(pending) \in Nat /\ Len(pending') = Len(pending) + 1
      /\ \A k \in 1..Len(pending) : pending'[k] = pending[k]
      /\ pending'[Len(pending) + 1] = tx
      /\ \A k \in 1..Len(pending') : k \in 1..Len(pending) \/ k = Len(pending) + 1
    <2> HIDE DEF tx
    <2> QED
        BY <1>1, <1>2, <1>3
<1>6. Typed' /\ SentInv' /\ StatesInv'
    BY <1>3, <1>4, <1>5 DEF IInv, Typed, SentInv, StatesInv, Known, IsKind
<1>12. run.at = "p" => run.check \in results
    OBVIOUS
<1>7. RunInv'
    <2>1. run.got = 0
        BY DEF IInv, RunInv, NotSent
    <2>2. sent' = sent /\ results' = results
        BY <1>3
    <2> QED
        BY <1>4, <1>12, <2>1, <2>2 DEF IInv, RunInv, IsKind
<1>8. PathInv' /\ ReceiptInv' /\ EndInv'
    BY <1>3, <1>4 DEF IInv, PathInv, ReceiptInv, EndInv, Letters
<1>10. OwnInv'
    BY <1>3, <1>4 DEF IInv, OwnInv, OwnState
<1>11. FreshInv'
    <2>1. spent' = spent /\ run.tx = NotSent
        BY <1>3
    <2> QED
        BY <1>4, <2>1 DEF IInv, FreshInv
<1>9. PendingInv'
    <2>1. \A k \in 1..Len(pending) : ~pending[k].awaited
        BY NotWaiting DEF NotSent
    <2>2. tx.awaited /\ tx.of = of /\ tx.kind = kind /\ tx.tee = run.tee
        OBVIOUS
    <2>3. OfStep(tx, run')
        BY <1>4, <2>2 DEF OfStep, Letters
    <2>4. of <= Len(sent) /\ (kind = "promote" => of \in results)
        BY <1>1 DEF IInv, RunInv, IsKind, Letters
    <2> HIDE DEF tx
    <2>5. \A k \in 1..Len(pending') :
              /\ pending'[k].awaited => k = Len(pending) + 1
              /\ pending'[k].of <= Len(sent)
              /\ pending'[k].kind = "promote" => pending'[k].of \in results
              /\ ~pending'[k].awaited => pending'[k].of <= run.since
        BY <1>5, <2>1, <2>2, <2>4 DEF IInv, PendingInv, Letters
    <2> QED
        <3>1. \A k \in 1..Len(pending') : pending'[k].awaited => OfStep(pending'[k], run')
            BY <1>5, <2>3, <2>5
        <3>2. \A k, j \in 1..Len(pending') :
                  pending'[k].awaited /\ pending'[j].awaited => j = k
            BY <2>5
        <3> QED
            BY <1>3, <1>4, <2>5, <3>1, <3>2 DEF PendingInv
<1> QED
    BY <1>6, <1>7, <1>8, <1>9, <1>10, <1>11 DEF IInv

\* The steps of the command that send a transaction.
LEMMA SendingInv ==
    ASSUME IInv, PreRegister \/ RequestAttestation \/ RequestCheck \/ Promote
    PROVE  IInv'
<1>1. 0 \in Nat /\ run.attest \in Nat /\ run.check \in Nat
    BY DEF IInv, Typed, Runs
<1>2. CASE PreRegister
    BY <1>1, <1>2, SendInv DEF PreRegister, AtStep, Letters
<1>3. CASE RequestAttestation
    BY <1>1, <1>3, SendInv DEF RequestAttestation, AtStep, Letters
<1>4. CASE RequestCheck
    BY <1>1, <1>4, SendInv DEF RequestCheck, AtStep, Letters
<1>5. CASE Promote
    BY <1>1, <1>5, SendInv DEF Promote, AtStep, Letters
<1> QED
    BY <1>2, <1>3, <1>4, <1>5

\* The receipt is there, and the step is done.
LEMMA CompletedInv ==
    ASSUME IInv, Completed
    PROVE  IInv'
<1> DEFINE at == NextStep(run.at, run.cmd)
           attest == IF run.at = "a" THEN run.attest ELSE run.got
           check == IF run.at = "a" THEN run.got ELSE run.check
<1>1. run \in Runs /\ run.state \in Files /\ run.cmd \in SUBSET Letters
      /\ sent \in Seq(Instructions)
    BY DEF IInv, Typed, Runs
<1>2. run.at \in {"r", "R", "a"} /\ run.tx = "success"
    BY DEF Completed
<1>3. /\ at \in (Letters \ {run.at, "r"}) \cup {"end"}
      /\ at \in Letters => at \in run.cmd
      /\ run.at = "a" => at \in {"p", "end"}
      /\ run.at = "R" => at # "R"
      /\ at \in {"p", "end"} => run.at = "a" \/ "a" \notin run.cmd
      /\ at = "end" => "p" \notin run.cmd
    BY <1>1, <1>2, StepAfter
<1>4. /\ UNCHANGED <<node, former, machine, sent, spent, results, pending>>
      /\ run' = [run EXCEPT !.at = at, !.state = NewState, !.attest = attest,
                            !.check = check, !.tx = NotSent, !.got = 0]
      /\ Save
    BY DEF Completed, chain
<1>5. /\ NewState \in Files /\ NewState.done = run.state.done \cup {run.at}
      /\ NewState.attest = (IF run.at = "a" THEN run.state.attest ELSE run.got)
      /\ NewState.check = (IF run.at = "a" THEN run.got ELSE run.state.check)
    BY <1>1, <1>2 DEF NewState, Files, Runs
<1>6. attest \in Nat /\ check \in Nat
    BY <1>1 DEF Runs
<1> HIDE DEF at
<1>7. /\ run' \in Runs /\ run'.at = at /\ run'.cmd = run.cmd /\ run'.tee = run.tee
      /\ run'.loaded = run.loaded /\ run'.state = NewState /\ run'.attest = attest
      /\ run'.check = check /\ run'.tx = NotSent /\ run'.got = 0
      /\ run'.since = run.since
    <2> HIDE DEF attest, check
    <2> QED
        BY <1>1, <1>3, <1>4, <1>5, <1>6 DEF Runs
<1>8. /\ run.at \in {"r", "R"} =>
             /\ IsKind(run.got, "attest") /\ sent[run.got].tee = run.tee
             /\ run.got > run.since /\ run.got \notin spent
      /\ run.at = "a" => IsKind(run.got, "check") /\ sent[run.got].tee = run.tee
      /\ run.got # 0
    BY <1>1, <1>2 DEF IInv, ReceiptInv, IsKind
<1>9. Known(NewState)
    BY <1>1, <1>2, <1>5, <1>8 DEF IInv, StatesInv, Known, Files
<1>10. Known(file') /\ file' \in Files /\ torn' \in BOOLEAN
    BY <1>4, <1>5, <1>9, NoProcess DEF Save, IInv, StatesInv, Typed, Known
<1>11. /\ Typed' /\ SentInv' /\ StatesInv' /\ PendingInv' /\ ReceiptInv'
       /\ OwnState' = OwnState
    BY <1>2, <1>4, <1>7, <1>9, <1>10, MovesOn
<1>12. RunInv'
    BY <1>1, <1>2, <1>3, <1>4, <1>7, <1>8 DEF IInv, RunInv, IsKind, NotSent, Letters
<1>13. PathInv'
    BY <1>2, <1>3, <1>7, <1>8 DEF IInv, PathInv, Letters
<1>14. OwnInv'
    BY <1>2, <1>4, <1>5, <1>7, <1>8, <1>11 DEF IInv, OwnInv, OwnState
<1>15. FreshInv'
    <2>1. CASE run.loaded # NoState
        BY <2>1, <1>7 DEF FreshInv
    <2>2. CASE run.loaded = NoState /\ run.at = "a"
        BY <2>2, <1>2, <1>3, <1>7 DEF IInv, FreshInv
    <2>3. CASE run.loaded = NoState /\ run.at \in {"r", "R"}
        <3>1. attest = run.got
            BY <2>3
        <3>2. NewState.done \subseteq {"r", "R"} /\ (run.at = "r" => NewState.done = {"r"})
            BY <1>5, <2>3 DEF IInv, FreshInv
        <3>3. at # "r" /\ (at = "R" => run.at = "r")
            BY <1>3, <2>3
        <3> QED
            BY <1>4, <1>7, <1>8, <2>3, <3>1, <3>2, <3>3 DEF FreshInv
    <2> QED
        BY <1>2, <2>1, <2>2, <2>3
<1>16. EndInv'
    BY <1>3, <1>7 DEF EndInv
<1> QED
    BY <1>11, <1>12, <1>13, <1>14, <1>15, <1>16 DEF IInv

\* The receipt of the promotion is there.
LEMMA PromotedInv ==
    ASSUME IInv, Promoted
    PROVE  IInv'
<1>1. run \in Runs /\ run.at = "p" /\ run.tx = "success"
      /\ run' = [run EXCEPT !.at = "end", !.tx = NotSent]
      /\ UNCHANGED <<node, former, machine, sent, spent, results, pending, file, torn>>
    BY DEF Promoted, chain, IInv, Typed
<1>2. /\ run' \in Runs /\ run'.at = "end" /\ run'.cmd = run.cmd /\ run'.tee = run.tee
      /\ run'.loaded = run.loaded /\ run'.state = run.state /\ run'.attest = run.attest
      /\ run'.check = run.check /\ run'.tx = NotSent /\ run'.got = run.got
      /\ run'.since = run.since
    BY <1>1 DEF Runs
<1>3. /\ Typed' /\ SentInv' /\ StatesInv' /\ PendingInv' /\ ReceiptInv'
      /\ OwnState' = OwnState
    BY <1>1, <1>2, MovesOn DEF IInv, Typed, StatesInv
<1>4. run.got = 0
    BY <1>1 DEF IInv, ReceiptInv
<1>5. RunInv'
    BY <1>1, <1>2, <1>4 DEF IInv, RunInv, IsKind, NotSent, Letters
<1>6. PathInv' /\ OwnInv' /\ FreshInv'
    BY <1>1, <1>2, <1>3 DEF IInv, PathInv, OwnInv, OwnState, FreshInv
<1>7. EndInv'
    <2>1. ASSUME {"a", "p"} \subseteq run.cmd, OwnState
          PROVE  machine[run.tee] = "production"
        <3>1. run.check # 0
            BY <1>1, <2>1 DEF IInv, PathInv
        <3>2. sent[run.check].tee = run.tee
            BY <1>1, <2>1, <3>1 DEF IInv, OwnInv
        <3> QED
            BY <1>1, <3>2 DEF IInv, ReceiptInv
    <2> QED
        BY <1>1, <1>2, <1>3, <2>1 DEF EndInv
<1> QED
    BY <1>3, <1>5, <1>6, <1>7 DEF IInv

-----------------------------------------------------------------------------
(* The chain                                                               *)

\* The chain only gains instructions, and a machine never falls back.
Grows ==
    /\ sent' \in Seq(Instructions)
    /\ Len(sent) <= Len(sent')
    /\ \A i \in 1..Len(sent) : sent'[i] = sent[i]
    /\ machine' \in [Tees -> {"none", "registered", "production"}]
    /\ \A t \in Tees : /\ machine[t] # "none" => machine'[t] # "none"
                       /\ machine[t] = "production" => machine'[t] = "production"

\* What is on chain stays there.
LEMMA KindKept ==
    ASSUME IInv, Grows, NEW i, NEW kind, IsKind(i, kind)
    PROVE  i \in 1..Len(sent') /\ sent'[i] = sent[i] /\ sent'[i].kind = kind
BY DEF Grows, IsKind, IInv, Typed

\* The queue after its head was mined.
LEMMA QueueInv ==
    ASSUME IInv, pending # <<>>, Grows, results' = results,
           NEW outcome \in {"success", "reverted"}, NEW id \in Nat, Mined(outcome, id)
    PROVE  /\ Head(pending) \in Txs /\ Head(pending).of <= Len(sent)
           /\ Head(pending).kind = "promote" => Head(pending).of \in results
           /\ ~Head(pending).awaited /\ run.at # "off" => Head(pending).of <= run.since
           /\ Head(pending).awaited =>
                  /\ OfStep(Head(pending), run) /\ run.tx = "sent" /\ run.at \in Letters
                  /\ run'.tx = outcome /\ run'.got = id
           /\ ~Head(pending).awaited => run' = run
           /\ run' \in Runs /\ run'.at = run.at /\ run'.cmd = run.cmd /\ run'.tee = run.tee
           /\ run'.loaded = run.loaded /\ run'.state = run.state
           /\ run'.attest = run.attest /\ run'.check = run.check /\ run'.since = run.since
           /\ pending' \in Seq(Txs)
           /\ PendingInv'
<1>1. pending \in Seq(Txs) /\ pending # <<>> /\ run \in Runs /\ sent \in Seq(Instructions)
    BY DEF IInv, Typed
<1>2. /\ Head(pending) = pending[1] /\ 1 \in 1..Len(pending) /\ pending[1] \in Txs
      /\ pending' = Tail(pending) /\ pending' \in Seq(Txs)
      /\ \A k \in 1..Len(pending') : k + 1 \in 1..Len(pending) /\ pending'[k] = pending[k + 1]
    <2>1. pending' = Tail(pending)
        BY DEF Mined
    <2> QED
        BY <1>1, <2>1
<1>3. /\ Head(pending).of <= Len(sent)
      /\ Head(pending).kind = "promote" => Head(pending).of \in results
      /\ ~Head(pending).awaited /\ run.at # "off" => Head(pending).of <= run.since
      /\ Head(pending).awaited => OfStep(Head(pending), run)
    BY <1>2 DEF IInv, PendingInv
<1>4. Head(pending).awaited => run.tx = "sent" /\ run.at \in Letters
    BY <1>3 DEF OfStep, IInv, RunInv, NotSent
<1>5. /\ run' \in Runs /\ run'.at = run.at /\ run'.cmd = run.cmd /\ run'.tee = run.tee
      /\ run'.loaded = run.loaded /\ run'.state = run.state
      /\ run'.attest = run.attest /\ run'.check = run.check /\ run'.since = run.since
      /\ Head(pending).awaited => run'.tx = outcome /\ run'.got = id
      /\ ~Head(pending).awaited => run' = run
    BY <1>1 DEF Mined, Runs
<1>6. PendingInv'
    <2>1. ASSUME NEW k \in 1..Len(pending')
          PROVE  /\ pending'[k].awaited => ~Head(pending).awaited /\ OfStep(pending'[k], run')
                 /\ pending'[k].of <= Len(sent')
                 /\ pending'[k].kind = "promote" => pending'[k].of \in results
                 /\ ~pending'[k].awaited /\ run.at # "off" => pending'[k].of <= run.since
        <3>1. k + 1 # 1 /\ k + 1 \in 1..Len(pending) /\ pending'[k] = pending[k + 1]
            BY <1>2
        <3>2. pending[k + 1].awaited => ~Head(pending).awaited
            BY <1>2, <3>1 DEF IInv, PendingInv
        <3>3. pending[k + 1].of <= Len(sent')
            <4>1. pending[k + 1] \in Txs /\ Len(sent) \in Nat /\ Len(sent') \in Nat
                BY <1>1, <3>1 DEF Grows
            <4>2. pending[k + 1].of \in Nat
                BY <4>1 DEF Txs
            <4>3. pending[k + 1].of <= Len(sent)
                BY <3>1 DEF IInv, PendingInv
            <4> QED
                BY <4>1, <4>2, <4>3 DEF Grows
        <3> QED
            BY <1>5, <3>1, <3>2, <3>3 DEF IInv, PendingInv
    <2>2. \A k, j \in 1..Len(pending') :
              pending'[k].awaited /\ pending'[j].awaited => j = k
        <3>1. \A k, j \in 1..Len(pending) :
                  pending[k].awaited /\ pending[j].awaited => j = k
            BY DEF IInv, PendingInv
        <3> QED
            BY <1>1, <1>2, <3>1
    <2> QED
        BY <1>5, <2>1, <2>2 DEF PendingInv
<1> QED
    BY <1>2, <1>3, <1>4, <1>5, <1>6

\* The next transaction is mined: what is left to show is about what it changes.
LEMMA MinedInv ==
    ASSUME IInv, pending # <<>>, Grows,
           NEW outcome \in {"success", "reverted"}, NEW id \in Nat, Mined(outcome, id),
           id <= Len(sent'), outcome = "reverted" => id = 0,
           spent' \subseteq 1..Len(sent'), SentInv',
           \A i \in spent' \ spent : \/ run.at = "off"
                                     \/ i <= run.since
                                     \/ run.at = "a" /\ run'.tx = "success",
           Head(pending).awaited => ReceiptInv'
    PROVE  IInv'
<1>1. /\ UNCHANGED <<node, former, results, file, torn>>
      /\ run \in Runs /\ run.state \in Files /\ run.loaded \in Files /\ sent \in Seq(Instructions)
    BY DEF Mined, IInv, Typed, Runs
<1>2. /\ Head(pending).awaited => run.tx = "sent" /\ run'.tx = outcome /\ run'.got = id
                                  /\ run.at \in Letters
      /\ ~Head(pending).awaited => run' = run
      /\ run' \in Runs /\ run'.at = run.at /\ run'.cmd = run.cmd /\ run'.tee = run.tee
      /\ run'.loaded = run.loaded /\ run'.state = run.state
      /\ run'.attest = run.attest /\ run'.check = run.check /\ run'.since = run.since
      /\ pending' \in Seq(Txs)
    BY <1>1, QueueInv
<1>3. PendingInv'
    BY <1>1, QueueInv
<1>4. \A i : \A kind \in {"attest", "check"} :
          IsKind(i, kind) => i \in 1..Len(sent') /\ sent'[i] = sent[i] /\ sent'[i].kind = kind
    BY KindKept
<1>5. Len(sent) \in Nat /\ Len(sent') \in Nat /\ Len(sent) <= Len(sent')
    BY <1>1 DEF Grows
<1>6. Typed'
    <2>1. results \subseteq {i \in 1..Len(sent') : sent'[i].kind = "check"}
        BY <1>1, <1>4 DEF IInv, Typed, IsKind
    <2> QED
        BY <1>1, <1>2, <2>1 DEF IInv, Typed, Grows
<1>7. StatesInv'
    <2>1. \A i : /\ IsKind(i, "attest") => i \in 1..Len(sent') /\ sent'[i].kind = "attest"
                 /\ IsKind(i, "check") => i \in 1..Len(sent') /\ sent'[i].kind = "check"
        BY <1>4
    <2>2. Known(file)'
        BY <1>1, <2>1 DEF IInv, StatesInv, Known, IsKind
    <2>3. Known(run.state)'
        BY <1>2, <2>1 DEF IInv, StatesInv, Known, IsKind
    <2>4. Known(run.loaded)'
        BY <1>2, <2>1 DEF IInv, StatesInv, Known, IsKind
    <2> QED
        BY <2>2, <2>3, <2>4 DEF StatesInv
<1>8. RunInv'
    <2>1. run'.since <= Len(sent') /\ run'.got <= Len(sent')
        <3>1. run.since \in Nat /\ run.got \in Nat /\ run.since <= Len(sent) /\ run.got <= Len(sent)
            BY <1>1 DEF IInv, RunInv, Runs
        <3> QED
            BY <1>2, <1>5, <3>1
    <2>2. run'.tx # "success" => run'.got = 0
        BY <1>2 DEF IInv, RunInv
    <2>3. /\ run'.tx # NotSent => run.tx # NotSent
        BY <1>2 DEF NotSent
    <2>4. /\ (run.attest # 0 => IsKind(run.attest, "attest"))'
          /\ (run.check # 0 => IsKind(run.check, "check"))'
        BY <1>2, <1>4 DEF IInv, RunInv, IsKind
    <2> QED
        BY <1>1, <1>2, <2>1, <2>2, <2>3, <2>4 DEF IInv, RunInv
<1>9. ReceiptInv'
    <2>1. CASE Head(pending).awaited
        BY <2>1
    <2>2. CASE ~Head(pending).awaited /\ run.tx # "success"
        BY <1>2, <2>2 DEF ReceiptInv
    <2>3. CASE ~Head(pending).awaited /\ run.tx = "success"
        <3>1. run.at \in Letters /\ run.check \in Nat /\ run.tee \in Tees
              /\ (run.at = "p" => run.check \in results)
            BY <1>1, <2>3 DEF IInv, RunInv, Runs, NotSent, Letters
        <3>2. run.at \in {"r", "R"} => run.got \notin spent'
            <4>1. ASSUME run.at \in {"r", "R"}, run.got \in spent'
                  PROVE  FALSE
                <5>1. run.got \notin spent /\ run.got > run.since
                    BY <2>3, <4>1 DEF IInv, ReceiptInv
                <5>2. run.got <= run.since
                    BY <4>1, <5>1
                <5> QED
                    BY <1>1, <5>1, <5>2 DEF Runs
            <4> QED
                BY <4>1
        <3>3. run.at = "p" => machine'[sent'[run.check].tee] = "production"
            <4>1. ASSUME run.at = "p"
                  PROVE  machine'[sent'[run.check].tee] = "production"
                <5>1. run.check \in 1..Len(sent) /\ machine[sent[run.check].tee] = "production"
                    BY <2>3, <3>1, <4>1 DEF IInv, ReceiptInv, Typed
                <5>2. sent[run.check] \in Instructions
                    BY <1>1, <5>1
                <5>3. sent[run.check].tee \in Tees
                    BY <5>2 DEF Instructions
                <5> QED
                    BY <5>1, <5>3 DEF Grows
            <4> QED
                BY <4>1
        <3> QED
            BY <1>2, <1>4, <2>3, <3>2, <3>3 DEF IInv, ReceiptInv, IsKind
    <2> QED
        BY <2>1, <2>2, <2>3
<1>10. PathInv'
    BY <1>2 DEF IInv, PathInv
<1>11. \A i \in {run.loaded.attest, run.loaded.check, run.state.attest, run.state.check,
                 run.attest, run.check} \ {0} : sent'[i] = sent[i]
    BY <1>4 DEF IInv, StatesInv, Known, RunInv
<1>12. OwnState' = OwnState
    BY <1>2, <1>11 DEF OwnState
<1>13. OwnInv'
    BY <1>2, <1>11, <1>12 DEF IInv, OwnInv
<1>14. FreshInv'
    <2>1. ASSUME run.at # "off", run.loaded = NoState,
                 \/ run.at \in {"r", "R"}
                 \/ run.at = "a" /\ run'.tx \in {NotSent, "sent"},
                 run.attest \in spent'
          PROVE  FALSE
        <3>1. run.attest \notin spent
            BY <1>2, <2>1 DEF IInv, FreshInv
        <3>2. run.attest <= run.since
            BY <2>1, <3>1 DEF NotSent
        <3>3. run.attest # 0
            BY <1>5, <2>1
        <3>4. run.attest > run.since
            BY <2>1, <3>3 DEF IInv, FreshInv
        <3> QED
            BY <1>1, <3>2, <3>4 DEF Runs
    <2> QED
        BY <1>2, <2>1 DEF IInv, FreshInv
<1>15. EndInv'
    <2>1. run.at # "off" => run.tee \in Tees
        BY DEF IInv, RunInv
    <2> QED
        BY <1>2, <1>12, <2>1 DEF IInv, EndInv, Grows
<1> QED
    BY <1>3, <1>6, <1>7, <1>8, <1>9, <1>10, <1>13, <1>14, <1>15 DEF IInv

\* Every instruction is about a machine.
LEMMA OfAMachine ==
    ASSUME IInv, NEW i \in 1..Len(sent)
    PROVE  sent[i].tee \in Tees
<1>1. sent[i] \in Instructions
    BY DEF IInv, Typed
<1> QED
    BY <1>1 DEF Instructions

\* A new instruction.
LEMMA InstructGrows ==
    ASSUME IInv, NEW kind \in {"attest", "check"}, NEW tee \in Tees, NEW of \in Nat,
           Instruct(kind, tee, of)
    PROVE  /\ sent' \in Seq(Instructions) /\ Len(sent') = Len(sent) + 1 /\ Len(sent) \in Nat
           /\ \A i \in 1..Len(sent) : sent'[i] = sent[i]
           /\ sent'[Len(sent')] = [kind |-> kind, tee |-> tee, of |-> of]
           /\ \A i \in 1..Len(sent') : i \in 1..Len(sent) \/ i = Len(sent')
           /\ Mined("success", Len(sent'))
<1> DEFINE new == [kind |-> kind, tee |-> tee, of |-> of]
<1>1. new \in Instructions /\ sent \in Seq(Instructions)
    BY DEF Instructions, IInv, Typed
<1>2. sent' = Append(sent, new) /\ Mined("success", Len(sent) + 1)
    BY DEF Instruct
<1> HIDE DEF new
<1>3. /\ sent' \in Seq(Instructions) /\ Len(sent') = Len(sent) + 1 /\ Len(sent) \in Nat
      /\ \A i \in 1..Len(sent) : sent'[i] = sent[i]
      /\ sent'[Len(sent')] = new
      /\ \A i \in 1..Len(sent') : i \in 1..Len(sent) \/ i = Len(sent')
    BY <1>1, <1>2
<1> QED
    BY <1>2, <1>3 DEF new

\* The machine is registered, if it was not, and is to attest.
LEMMA MineAttestationInv ==
    ASSUME IInv, pending # <<>>, MineAttestation(Head(pending))
    PROVE  IInv'
<1> DEFINE tx == Head(pending)
<1>1. tx \in Txs
    BY DEF IInv, Typed
<1>2. tx.tee \in Tees /\ 0 \in Nat
    BY <1>1 DEF Txs
<1> HIDE DEF tx
<1>3. /\ tx.kind \in {"register", "attest"} /\ Instruct("attest", tx.tee, 0)
      /\ machine' = [machine EXCEPT ![tx.tee] = IF @ = "none" THEN "registered" ELSE @]
      /\ spent' = spent
    BY DEF MineAttestation, tx
<1>4. /\ sent' \in Seq(Instructions) /\ Len(sent') = Len(sent) + 1 /\ Len(sent) \in Nat
      /\ \A i \in 1..Len(sent) : sent'[i] = sent[i]
      /\ sent'[Len(sent')] = [kind |-> "attest", tee |-> tx.tee, of |-> 0]
      /\ \A i \in 1..Len(sent') : i \in 1..Len(sent) \/ i = Len(sent')
      /\ Mined("success", Len(sent'))
    BY <1>2, <1>3, InstructGrows
<1>5. machine \in [Tees -> {"none", "registered", "production"}]
    BY DEF IInv, Typed
<1>6. /\ machine' \in [Tees -> {"none", "registered", "production"}]
      /\ machine'[tx.tee] # "none"
      /\ \A t \in Tees : /\ machine[t] # "none" => machine'[t] # "none"
                         /\ machine[t] = "production" => machine'[t] = "production"
    BY <1>2, <1>3, <1>5
<1>7. Grows
    BY <1>4, <1>6 DEF Grows
<1>8. \A i \in 1..Len(sent) : sent[i].tee \in Tees
    BY OfAMachine
<1>9. SentInv'
    BY <1>3, <1>4, <1>6, <1>8 DEF IInv, SentInv
<1>10. results' = results /\ Len(sent') \in Nat
    BY <1>4 DEF Mined
<1>11. tx.awaited => ReceiptInv'
    <2>1. tx.awaited => OfStep(tx, run) /\ run.at \in Letters /\ run'.got = Len(sent')
                        /\ run'.at = run.at /\ run'.tee = run.tee /\ run'.since = run.since
        BY <1>4, <1>7, <1>10, QueueInv DEF tx
    <2>2. run.since < Len(sent')
        BY <1>4 DEF IInv, RunInv, Typed, Runs
    <2>3. Len(sent') \notin spent
        BY <1>4 DEF IInv, Typed
    <2>4. tx.awaited => run.at \in {"r", "R"} /\ tx.tee = run.tee
        BY <1>3, <2>1 DEF OfStep, Letters
    <2> QED
        BY <1>3, <1>4, <2>1, <2>2, <2>3, <2>4 DEF ReceiptInv, IsKind
<1>12. spent' \subseteq 1..Len(sent') /\ spent' \ spent = {}
    BY <1>3, <1>4 DEF IInv, Typed
<1> QED
    BY <1>4, <1>7, <1>9, <1>10, <1>11, <1>12, MinedInv DEF tx

\* A check spends a challenge: that of the run that waits for it, or one that
\* was there before the run.
LEMMA MineCheckInv ==
    ASSUME IInv, pending # <<>>, MineCheck(Head(pending))
    PROVE  IInv'
<1> DEFINE tx == Head(pending)
<1>1. tx \in Txs
    BY DEF IInv, Typed
<1>2. tx.tee \in Tees /\ tx.of \in Nat
    BY <1>1 DEF Txs
<1> HIDE DEF tx
<1>3. /\ tx.kind = "check" /\ Instruct("check", tx.tee, tx.of) /\ tx.of \in 1..Len(sent)
      /\ machine' = machine /\ spent' = spent \cup {tx.of}
    BY DEF MineCheck, Usable, IsKind, tx
<1>4. /\ sent' \in Seq(Instructions) /\ Len(sent') = Len(sent) + 1 /\ Len(sent) \in Nat
      /\ \A i \in 1..Len(sent) : sent'[i] = sent[i]
      /\ sent'[Len(sent')] = [kind |-> "check", tee |-> tx.tee, of |-> tx.of]
      /\ \A i \in 1..Len(sent') : i \in 1..Len(sent) \/ i = Len(sent')
      /\ Mined("success", Len(sent'))
    BY <1>2, <1>3, InstructGrows
<1>5. Grows
    BY <1>3, <1>4 DEF Grows, IInv, Typed
<1>6. SentInv'
    BY <1>3, <1>4 DEF IInv, SentInv
<1>7. results' = results /\ Len(sent') \in Nat
    BY <1>4 DEF Mined
<1>8. /\ ~tx.awaited /\ run.at # "off" => tx.of <= run.since
      /\ tx.awaited => OfStep(tx, run) /\ run.at \in Letters /\ run'.got = Len(sent')
                       /\ run'.tx = "success" /\ run'.at = run.at /\ run'.tee = run.tee
    BY <1>4, <1>5, <1>7, QueueInv DEF tx
<1>9. tx.awaited => run.at = "a" /\ tx.tee = run.tee
    BY <1>3, <1>8 DEF OfStep, Letters
<1>10. tx.awaited => ReceiptInv'
    BY <1>4, <1>8, <1>9 DEF ReceiptInv, IsKind
<1>11. spent' \subseteq 1..Len(sent')
    <2>1. spent \subseteq 1..Len(sent)
        BY DEF IInv, Typed
    <2>2. spent' \subseteq 1..Len(sent)
        BY <1>3, <2>1
    <2>3. 1..Len(sent) \subseteq 1..Len(sent')
        BY <1>4
    <2> QED
        BY <2>2, <2>3
<1>12. tx.awaited \in BOOLEAN
    BY <1>1 DEF Txs, tx
<1>13. \A i \in spent' \ spent : \/ run.at = "off"
                                 \/ i <= run.since
                                 \/ run.at = "a" /\ run'.tx = "success"
    BY <1>3, <1>8, <1>9, <1>12
<1> QED
    BY <1>4, <1>5, <1>6, <1>7, <1>10, <1>11, <1>13, MinedInv DEF tx

\* The machine that the proof is about goes into production.
LEMMA MinePromotionInv ==
    ASSUME IInv, pending # <<>>, MinePromotion(Head(pending))
    PROVE  IInv'
<1> DEFINE tx == Head(pending)
<1> HIDE DEF tx
<1>1. /\ tx.kind = "promote" /\ Mined("success", 0) /\ UNCHANGED <<sent, spent>>
      /\ machine' = [machine EXCEPT ![sent[tx.of].tee] = "production"]
    BY DEF MinePromotion, tx
<1>2. tx.of \in results
    BY <1>1 DEF IInv, Typed, PendingInv, tx
<1>3. sent[tx.of].tee \in Tees
    BY <1>2, OfAMachine DEF IInv, Typed
<1>4. /\ machine' \in [Tees -> {"none", "registered", "production"}]
      /\ machine'[sent[tx.of].tee] = "production"
      /\ \A t \in Tees : /\ machine[t] # "none" => machine'[t] # "none"
                         /\ machine[t] = "production" => machine'[t] = "production"
    BY <1>1, <1>3 DEF IInv, Typed
<1>5. Grows
    BY <1>1, <1>4 DEF Grows, IInv, Typed
<1>6. SentInv'
    BY <1>1, <1>5 DEF IInv, SentInv, Typed, Instructions, Grows
<1>7. results' = results /\ 0 \in Nat /\ 0 <= Len(sent')
    BY <1>1 DEF Mined, IInv, Typed
<1>8. tx.awaited => OfStep(tx, run) /\ run.at \in Letters /\ run'.got = 0
                    /\ run'.at = run.at /\ run'.check = run.check
    BY <1>1, <1>5, <1>7, QueueInv DEF tx
<1>9. tx.awaited => run.at = "p" /\ tx.of = run.check
    BY <1>1, <1>8 DEF OfStep, Letters
<1>10. tx.awaited => ReceiptInv'
    BY <1>1, <1>4, <1>8, <1>9 DEF ReceiptInv
<1>11. spent' \subseteq 1..Len(sent') /\ spent' \ spent = {}
    BY <1>1 DEF IInv, Typed
<1> QED
    BY <1>1, <1>5, <1>6, <1>7, <1>10, <1>11, MinedInv DEF tx

\* A transaction that reverts changes nothing.
LEMMA RevertInv ==
    ASSUME IInv, pending # <<>>, Revert
    PROVE  IInv'
<1>1. Mined("reverted", 0) /\ UNCHANGED <<machine, sent, spent>>
    BY DEF Revert, chain
<1>2. Grows
    BY <1>1 DEF Grows, IInv, Typed
<1>3. SentInv'
    BY <1>1 DEF IInv, SentInv
<1>4. results' = results /\ 0 \in Nat /\ 0 <= Len(sent')
    BY <1>1 DEF Mined, IInv, Typed
<1>5. Head(pending).awaited => ReceiptInv'
    BY <1>1, <1>2, <1>4, QueueInv DEF ReceiptInv
<1>6. spent' \subseteq 1..Len(sent') /\ spent' \ spent = {}
    BY <1>1 DEF IInv, Typed
<1> QED
    BY <1>1, <1>2, <1>3, <1>4, <1>5, <1>6, MinedInv

\* Whichever transaction is next.
LEMMA MineInv ==
    ASSUME IInv, Mine
    PROVE  IInv'
<1>1. /\ pending # <<>>
      /\ \/ MineAttestation(Head(pending)) \/ MineCheck(Head(pending))
         \/ MinePromotion(Head(pending)) \/ Revert
    BY DEF Mine
<1> QED
    BY <1>1, MineAttestationInv, MineCheckInv, MinePromotionInv, RevertInv

\* A challenge that expires was there before the run.
LEMMA ExpireInv ==
    ASSUME IInv, NEW i \in 1..Len(sent), Expire(i)
    PROVE  IInv'
<1>1. /\ IsKind(i, "attest") /\ (run.at = "off" \/ i <= run.since)
      /\ spent' = spent \cup {i}
      /\ UNCHANGED <<node, former, machine, sent, results, pending, file, torn, run>>
    BY DEF Expire
<1>2. run \in Runs /\ run.since \in Nat /\ run.got \in Nat /\ run.attest \in Nat /\ i \in Nat
    BY DEF IInv, Typed, Runs
<1>3. Typed' /\ SentInv' /\ StatesInv' /\ RunInv' /\ PendingInv' /\ PathInv' /\ OwnInv' /\ EndInv'
    BY <1>1
    DEF IInv, Typed, SentInv, StatesInv, Known, RunInv, PendingInv, PathInv, OwnInv, EndInv,
        OwnState, IsKind
<1>4. ReceiptInv'
    <2>1. run.tx = "success" => run.at # "off"
        BY DEF IInv, RunInv, Letters, NotSent
    <2>2. ASSUME run.tx = "success", run.at \in {"r", "R"}
          PROVE  run.got # i
        BY <1>1, <1>2, <2>2 DEF IInv, ReceiptInv
    <2> QED
        BY <1>1, <2>2 DEF IInv, ReceiptInv, IsKind
<1>5. FreshInv'
    <2>1. ASSUME run.at # "off", run.loaded = NoState
          PROVE  run.attest # i
        BY <1>1, <1>2, <2>1 DEF IInv, FreshInv
    <2> QED
        BY <1>1, <2>1 DEF IInv, FreshInv
<1> QED
    BY <1>3, <1>4, <1>5 DEF IInv

\* The proxy gets a proof, or the machine another key.
LEMMA AnswerRelaunchInv ==
    ASSUME IInv, (\E i \in 1..Len(sent) : Answer(i)) \/ (\E tee \in Tees : Relaunch(tee))
    PROVE  IInv'
<1>1. /\ UNCHANGED <<machine, sent, spent, pending, file, torn, run>>
      /\ results \subseteq results'
    BY DEF Answer, Relaunch, chain
<1>2. Typed'
    BY DEF IInv, Typed, Answer, Relaunch, chain, IsKind
<1>3. SentInv' /\ StatesInv' /\ ReceiptInv' /\ PathInv' /\ OwnInv' /\ FreshInv' /\ EndInv'
    BY <1>1
    DEF IInv, SentInv, StatesInv, Known, ReceiptInv, PathInv, OwnInv, FreshInv, EndInv,
        OwnState, IsKind
<1>4. RunInv' /\ PendingInv'
    BY <1>1 DEF IInv, RunInv, PendingInv, IsKind
<1> QED
    BY <1>2, <1>3, <1>4 DEF IInv

\* Before anything happens.
LEMMA InitInv == Init => IInv
<1> SUFFICES ASSUME Init
             PROVE  IInv
    OBVIOUS
<1>1. /\ node \in Tees /\ former = {} /\ machine = [t \in Tees |-> "none"] /\ sent = <<>>
      /\ spent = {} /\ results = {} /\ pending = <<>> /\ file = NoState /\ torn = FALSE
      /\ run = Off
    BY DEF Init
<1>2. Len(sent) = 0 /\ Len(pending) = 0 /\ sent \in Seq(Instructions) /\ pending \in Seq(Txs)
    BY <1>1
<1>3. Typed
    BY <1>1, <1>2, NoProcess DEF Typed
<1>4. SentInv /\ PendingInv
    BY <1>2 DEF SentInv, PendingInv
<1>5. StatesInv
    BY <1>1, NoProcess DEF StatesInv, Known
<1>6. RunInv
    <2>1. "off" \notin Letters
        BY DEF Letters
    <2>2. run.since <= Len(sent) /\ run.got <= Len(sent)
        BY <1>1, <1>2, NoProcess
    <2> QED
        BY <1>1, <2>1, <2>2, NoProcess DEF RunInv, NotSent
<1>7. ReceiptInv /\ PathInv /\ OwnInv /\ FreshInv /\ EndInv
    BY <1>1, NoProcess DEF ReceiptInv, PathInv, OwnInv, FreshInv, EndInv, NotSent
<1> QED
    BY <1>3, <1>4, <1>5, <1>6, <1>7 DEF IInv

\* Whatever the chain, the machine and the process do.
LEMMA NextInv == IInv /\ [Next]_regVars => IInv'
<1> SUFFICES ASSUME IInv, [Next]_regVars
             PROVE  IInv'
    OBVIOUS
<1>1. CASE UNCHANGED regVars
    BY <1>1
    DEF regVars, IInv, Typed, SentInv, StatesInv, Known, RunInv, ReceiptInv, PendingInv, PathInv,
        OwnInv, FreshInv, EndInv, OwnState, IsKind
<1>2. CASE Environment
    BY <1>2, MineInv, ExpireInv, AnswerRelaunchInv DEF Environment
<1>3. CASE RegisterTee
    BY <1>3, StartInv, SkipInv, SendingInv, CompletedInv, PromotedInv, FinishInv, StopInv
    DEF RegisterTee
<1> QED
    BY <1>1, <1>2, <1>3 DEF Next

\* Hence it holds throughout.
LEMMA Invariance == Spec => []IInv
BY InitInv, NextInv, PTL DEF Spec

-----------------------------------------------------------------------------
(* What the invariant says                                                 *)

\* Instructions that are named in the file or by a run are on chain, and a
\* process waits only in a step that sends a transaction.
THEOREM TypeCorrect == Spec => []TypeOK
<1>1. ASSUME IInv
      PROVE  TypeOK
    <2>1. \A s \in Files : Known(s) => s \in States
        <3>1. sent \in Seq(Instructions)
            BY <1>1 DEF IInv, Typed
        <3> QED
            BY <3>1 DEF Files, Known, States, IsKind
    <2>2. /\ run \in Runs /\ file \in Files /\ run.state \in Files /\ run.loaded \in Files
          /\ sent \in Seq(Instructions)
        BY <1>1 DEF IInv, Typed, Runs
    <2>3. file \in States /\ run.state \in States /\ run.loaded \in States
        BY <1>1, <2>1, <2>2 DEF IInv, StatesInv
    <2>4. {run.attest, run.check, run.got} \subseteq 0..Len(sent)
        BY <1>1, <2>2 DEF IInv, RunInv, IsKind, Runs
    <2>5. /\ run.at \in {"off", "r", "R", "a", "p", "end"}
          /\ run.tx \in {NotSent, "sent", "success", "reverted"}
          /\ run.tx # NotSent => run.at \in {"r", "R", "a", "p"}
        BY <1>1, <2>2 DEF IInv, RunInv, Runs, Letters
    <2>6. spent \cup results \subseteq 1..Len(sent)
        BY <1>1 DEF IInv, Typed
    <2> QED
        BY <1>1, <2>3, <2>4, <2>5, <2>6 DEF IInv, Typed, TypeOK
<1> QED
    BY <1>1, Invariance, PTL

\* Wherever runs were cut off, whatever could not be saved and whichever
\* transactions came late, the steps that the state file calls done are on chain.
THEOREM FilesAreTrue == Spec => []FileIsTrue
<1>1. ASSUME IInv
      PROVE  FileIsTrue
    <2>1. 0 \notin 1..Len(sent)
        BY <1>1 DEF IInv, Typed
    <2>2. Known(file)
        BY <1>1 DEF IInv, StatesInv
    <2>3. file.done \cap {"r", "R"} # {} => IsKind(file.attest, "attest")
        BY <2>2 DEF Known
    <2>4. "a" \in file.done => IsKind(file.check, "check")
        BY <2>2 DEF Known
    <2> QED
        BY <1>1, <2>3, <2>4 DEF IInv, SentInv, FileIsTrue, IsKind
<1> QED
    BY <1>1, Invariance, PTL

\* A run that starts afresh, with r or with R, comes to the check with a challenge
\* of its own machine that nobody has used.
THEOREM FreshRunsAskAfresh == Spec => []FreshRunsHaveAChallenge
<1>1. ASSUME IInv
      PROVE  FreshRunsHaveAChallenge
    <2> SUFFICES ASSUME run.at = "a", run.tx \in {NotSent, "sent"}, run.loaded = NoState,
                        run.cmd \cap {"r", "R"} # {}
                 PROVE  Usable(run.attest, run.tee)
        BY DEF FreshRunsHaveAChallenge
    <2>1. run.attest # 0 /\ IsKind(run.attest, "attest")
        BY <1>1 DEF IInv, PathInv, RunInv
    <2>2. run.attest \notin spent
        BY <1>1 DEF IInv, FreshInv
    <2>3. OwnState
        BY NoProcess DEF OwnState
    <2>4. sent[run.attest].tee = run.tee
        BY <1>1, <2>1, <2>3 DEF IInv, OwnInv
    <2> QED
        BY <2>1, <2>2, <2>4 DEF Usable
<1> QED
    BY <1>1, Invariance, PTL

\* A run that comes to its end has put its machine into production, if it was to
\* check and to promote it, afresh or from a state of that machine.
THEOREM MachinesGetRegistered == Spec => []RegistersItsMachine
<1>1. IInv => RegistersItsMachine
    BY DEF IInv, EndInv, RegistersItsMachine
<1> QED
    BY <1>1, Invariance, PTL
=============================================================================
