------------------------- MODULE NodeRegistration -------------------------
(***************************************************************************)
(* The tool that registers a trusted machine on chain (apps/extension/     *)
(* tools: cmd/register-tee and RegisterNode): r pre-registers the machine  *)
(* and R asks it to attest (each yields a challenge), a spends a challenge *)
(* on an availability check, p promotes the machine with its result.       *)
(*                                                                         *)
(* What is done is kept in a state file from which a run may resume.  A    *)
(* run may end at any point (an error, a wait of two minutes that is over, *)
(* a crash) while its transaction is still on its way; writing the file    *)
(* may fail or leave half a file; the machine may be relaunched, which     *)
(* gives it another key.                                                   *)
(***************************************************************************)
EXTENDS Integers, Sequences, FiniteSets

CONSTANTS Tees,              \* the keys that the machine has, one per launch
          NoTee,
          Commands,          \* the sets of steps that operators ask for
          MaxInstructions,   \* bound: how many instructions the chain takes
          MaxPending         \* bound: how many transactions wait to be mined

ASSUME RegistrationAssumption ==
    /\ NoTee \notin Tees
    /\ Commands \subseteq SUBSET {"r", "R", "a", "p"}
    /\ MaxInstructions \in Nat
    /\ MaxPending \in Nat

VARIABLES
    node,      \* the key of the machine that runs now
    former,    \* the keys it had before
    machine,   \* the status on chain of every key
    sent,      \* the instructions on chain; an id is an index, 0 is none
    spent,     \* the attestations whose challenge is used or has expired
    results,   \* the checks whose proof the FTDC proxy has
    pending,   \* the operator's transactions on their way, by nonce
    file,      \* the state file
    torn,      \* it cannot be parsed
    run        \* the process

regVars == <<node, former, machine, sent, spent, results, pending, file, torn, run>>
chain == <<machine, sent, spent>>

\* loadState makes no difference between no file and an empty state.
NoState == [done |-> {}, attest |-> 0, check |-> 0]

NotSent == "not sent"

Off == [at |-> "off", cmd |-> {}, tee |-> NoTee, loaded |-> NoState, state |-> NoState,
        attest |-> 0, check |-> 0, tx |-> NotSent, got |-> 0, since |-> 0]

\* The steps that come after each.
Later(step) ==
    CASE step = "start" -> {"r", "R", "a", "p"}
      [] step = "r"     -> {"R", "a", "p"}
      [] step = "R"     -> {"a", "p"}
      [] step = "a"     -> {"p"}
      [] OTHER          -> {}

NextStep(step, cmd) ==
    LET rest == Later(step) \cap cmd
    IN  IF rest = {} THEN "end" ELSE CHOOSE l \in rest : rest \ {l} \subseteq Later(l)

IsKind(i, kind) == i \in 1..Len(sent) /\ sent[i].kind = kind

-----------------------------------------------------------------------------
(* The chain, the FTDC proxy and the machine (external)                    *)

\* A challenge serves for one check, of the machine it was given to.
Usable(i, tee) == IsKind(i, "attest") /\ sent[i].tee = tee /\ i \notin spent

\* The next transaction is mined.  If the run still waits for it, it will read
\* the outcome, and the id of the instruction, from the receipt.
Mined(outcome, id) ==
    /\ pending' = Tail(pending)
    /\ run' = IF Head(pending).awaited THEN [run EXCEPT !.tx = outcome, !.got = id] ELSE run
    /\ UNCHANGED <<node, former, results, file, torn>>

Instruct(kind, tee, of) ==
    /\ Len(sent) < MaxInstructions
    /\ sent' = Append(sent, [kind |-> kind, tee |-> tee, of |-> of])
    /\ Mined("success", Len(sent) + 1)

\* register also asks for the first attestation.
MineAttestation(tx) ==
    /\ \/ tx.kind = "register" /\ machine[tx.tee] = "none"
       \/ tx.kind = "attest" /\ machine[tx.tee] # "none"
    /\ Instruct("attest", tx.tee, 0)
    /\ machine' = [machine EXCEPT ![tx.tee] = IF @ = "none" THEN "registered" ELSE @]
    /\ UNCHANGED spent

MineCheck(tx) ==
    /\ tx.kind = "check"
    /\ Usable(tx.of, tx.tee)
    /\ Instruct("check", tx.tee, tx.of)
    /\ spent' = spent \cup {tx.of}
    /\ UNCHANGED machine

\* The machine that is promoted is the one that the proof is about.
MinePromotion(tx) ==
    /\ tx.kind = "promote"
    /\ Mined("success", 0)
    /\ machine' = [machine EXCEPT ![sent[tx.of].tee] = "production"]
    /\ UNCHANGED <<sent, spent>>

Revert == Mined("reverted", 0) /\ UNCHANGED chain

Mine ==
    /\ pending # <<>>
    /\ LET tx == Head(pending)
       IN  MineAttestation(tx) \/ MineCheck(tx) \/ MinePromotion(tx) \/ Revert

\* A challenge lasts longer than the run that got it.
Expire(i) ==
    /\ IsKind(i, "attest")
    /\ run.at = "off" \/ i <= run.since
    /\ spent' = spent \cup {i}
    /\ UNCHANGED <<node, former, machine, sent, results, pending, file, torn, run>>

\* The machine answers, the data providers sign, the proxy has the proof.
Answer(i) ==
    /\ IsKind(i, "check")
    /\ sent[i].tee = node
    /\ results' = results \cup {i}
    /\ UNCHANGED <<node, former, chain, pending, file, torn, run>>

Relaunch(tee) ==
    /\ tee \notin former \cup {node}
    /\ node' = tee
    /\ former' = former \cup {node}
    /\ UNCHANGED <<chain, results, pending, file, torn, run>>

-----------------------------------------------------------------------------
(* register-tee                                                            *)

\* "keep": --resume was given, or the old file could not be removed.  Without
\* step a the operator names the check.
Start(cmd, keep, check) ==
    /\ run.at = "off"
    /\ keep => ~torn
    /\ check # 0 => IsKind(check, "check") /\ "a" \notin cmd /\ "p" \in cmd
    /\ file' = IF keep THEN file ELSE NoState
    /\ torn' = FALSE
    /\ run' = [Off EXCEPT !.at = NextStep("start", cmd), !.cmd = cmd, !.tee = node,
                          !.loaded = file', !.state = file', !.check = check,
                          !.since = Len(sent)]
    /\ UNCHANGED <<node, former, chain, results, pending>>

\* Every error ends the process, as a crash does.
Stop ==
    /\ run.at # "off"
    /\ run' = Off
    /\ pending' = [k \in 1..Len(pending) |-> [pending[k] EXCEPT !.awaited = FALSE]]
    /\ UNCHANGED <<node, former, chain, results, file, torn>>

\* The state says that the step is done.
Skip ==
    /\ run.at \in run.state.done
    /\ run' = [run EXCEPT !.at = NextStep(run.at, run.cmd),
                          !.attest = IF run.at = "a" THEN @ ELSE run.state.attest,
                          !.check = IF run.at = "a" THEN run.state.check ELSE @]
    /\ UNCHANGED <<node, former, chain, results, pending, file, torn>>

AtStep(step) == run.at = step /\ step \notin run.state.done /\ run.tx = NotSent

Send(kind, of) ==
    /\ Len(pending) < MaxPending
    /\ pending' = Append(pending, [kind |-> kind, tee |-> run.tee, of |-> of,
                                   awaited |-> TRUE])
    /\ run' = [run EXCEPT !.tx = "sent"]
    /\ UNCHANGED <<node, former, chain, results, file, torn>>

PreRegisterOrSkip ==             \* mutant: r skips itself once the machine is registered
    /\ AtStep("r")
    /\ IF machine[run.tee] = "none"
       THEN Send("register", 0)
       ELSE /\ run' = [run EXCEPT !.at = NextStep("r", run.cmd)]
            /\ UNCHANGED <<node, former, chain, results, pending, file, torn>>

\* A machine that is registered is asked to attest again; if the registry cannot
\* be read it counts as not registered.
PreRegister ==
    /\ AtStep("r")
    /\ \/ Send("register", 0)
       \/ machine[run.tee] # "none" /\ Send("attest", 0)

RequestAttestation == AtStep("R") /\ Send("attest", 0)

\* The proxy's signing policy was not found to be out of step.
RequestCheck == AtStep("a") /\ Send("check", run.attest)

\* What the state becomes with this step.
NewState ==
    IF run.at = "a"
    THEN [run.state EXCEPT !.done = @ \cup {"a"}, !.check = run.got]
    ELSE [run.state EXCEPT !.done = @ \cup {run.at}, !.attest = run.got]

\* That the state is not saved is no error.
Save ==
    \/ file' = NewState /\ torn' = FALSE
    \/ UNCHANGED <<file, torn>>
    \/ file' = NoState /\ torn' = TRUE

CompletedUnchecked ==            \* mutant: the receipt's status is not looked at
    /\ run.at \in {"r", "R", "a"}
    /\ run.tx \in {"success", "reverted"}
    /\ Save
    /\ run' = [run EXCEPT !.at = NextStep(run.at, run.cmd), !.state = NewState,
                          !.attest = NewState.attest, !.check = NewState.check,
                          !.tx = NotSent, !.got = 0]
    /\ UNCHANGED <<node, former, chain, results, pending>>

CompletedOldReceipt ==           \* mutant: the next step looks at the same receipt
    /\ run.at \in {"r", "R", "a"}
    /\ run.tx = "success"
    /\ Save
    /\ run' = [run EXCEPT !.at = NextStep(run.at, run.cmd), !.state = NewState,
                          !.attest = NewState.attest, !.check = NewState.check]
    /\ UNCHANGED <<node, former, chain, results, pending>>

Completed ==
    /\ run.at \in {"r", "R", "a"}
    /\ run.tx = "success"
    /\ Save
    /\ run' = [run EXCEPT !.at = NextStep(run.at, run.cmd), !.state = NewState,
                          !.attest = IF run.at = "a" THEN @ ELSE run.got,
                          !.check = IF run.at = "a" THEN run.got ELSE @,
                          !.tx = NotSent, !.got = 0]
    /\ UNCHANGED <<node, former, chain, results, pending>>

\* The proof is there before the polling is over.
Promote == AtStep("p") /\ run.check \in results /\ Send("promote", run.check)

PromotedUnchecked ==             \* mutant: sent is as good as mined
    /\ run.at = "p"
    /\ run.tx # NotSent
    /\ run' = [run EXCEPT !.at = "end", !.tx = NotSent]
    /\ UNCHANGED <<node, former, chain, results, pending, file, torn>>

Promoted ==
    /\ run.at = "p"
    /\ run.tx = "success"
    /\ run' = [run EXCEPT !.at = "end", !.tx = NotSent]
    /\ UNCHANGED <<node, former, chain, results, pending, file, torn>>

\* The state file is removed; if that fails nobody is told.
Finish ==
    /\ run.at = "end"
    /\ run' = Off
    /\ \/ file' = NoState /\ torn' = FALSE
       \/ UNCHANGED <<file, torn>>
    /\ UNCHANGED <<node, former, chain, results, pending>>

-----------------------------------------------------------------------------
Init ==
    /\ node \in Tees
    /\ former = {}
    /\ machine = [t \in Tees |-> "none"]
    /\ sent = <<>>
    /\ spent = {}
    /\ results = {}
    /\ pending = <<>>
    /\ file = NoState
    /\ torn = FALSE
    /\ run = Off

Environment ==
    \/ Mine
    \/ \E i \in 1..Len(sent) : Expire(i) \/ Answer(i)
    \/ \E tee \in Tees : Relaunch(tee)

RegisterTee ==
    \/ \E cmd \in Commands, keep \in BOOLEAN, check \in 0..Len(sent) : Start(cmd, keep, check)
    \/ Skip \/ PreRegister \/ RequestAttestation \/ RequestCheck \/ Completed
    \/ Promote \/ Promoted \/ Finish \/ Stop

Next == Environment \/ RegisterTee

Spec == Init /\ [][Next]_regVars

-----------------------------------------------------------------------------
(* What must hold                                                          *)

States == [done : SUBSET {"r", "R", "a"}, attest : 0..Len(sent), check : 0..Len(sent)]

\* Type invariant: instructions that are named are on chain, and the process waits
\* only in a step that sends a transaction.
TypeOK ==
    /\ node \in Tees \ former
    /\ former \subseteq Tees
    /\ machine \in [Tees -> {"none", "registered", "production"}]
    /\ spent \cup results \subseteq 1..Len(sent)
    /\ file \in States
    /\ torn \in BOOLEAN
    /\ run.at \in {"off", "r", "R", "a", "p", "end"}
    /\ run.tx \in {NotSent, "sent", "success", "reverted"}
    /\ run.tx # NotSent => run.at \in {"r", "R", "a", "p"}
    /\ run.loaded \in States /\ run.state \in States
    /\ {run.attest, run.check, run.got} \subseteq 0..Len(sent)

\* A step that the state file calls done is on chain, wherever runs were cut off,
\* whatever could not be saved and whichever transactions came late: the
\* attestation is one of a registered machine, and the check has spent its challenge.
FileIsTrue ==
    /\ file.done \cap {"r", "R"} # {} =>
           /\ IsKind(file.attest, "attest")
           /\ machine[sent[file.attest].tee] # "none"
    /\ "a" \in file.done => IsKind(file.check, "check") /\ sent[file.check].of \in spent

\* A run that starts afresh, with r or with R, comes to the check with a
\* challenge of its own machine that nobody has used, however often the machine
\* was registered before ("so re-runs don't revert with ChallengeExpired",
\* post-build.sh:148-149).
FreshRunsHaveAChallenge ==
    run.at = "a" /\ run.tx \in {NotSent, "sent"} /\ run.loaded = NoState
        /\ run.cmd \cap {"r", "R"} # {}
    => Usable(run.attest, run.tee)

\* The state that the run was resumed from, if there was any, is of its machine.
OwnState == \A i \in {run.loaded.attest, run.loaded.check} \ {0} : sent[i].tee = run.tee

\* A run that comes to its end has put its machine into production, if it was
\* to check and to promote it: afresh, or resumed from any state of that machine.
RegistersItsMachine ==
    run.at = "end" /\ {"a", "p"} \subseteq run.cmd /\ OwnState
    => machine[run.tee] = "production"
=============================================================================
