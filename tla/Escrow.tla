------------------------------- MODULE Escrow -------------------------------
(***************************************************************************)
(* What a confidential policy promises its owner and its recipients, with  *)
(* commitments, signatures, clocks and tokens taken away.  A vault is open *)
(* while its owner may take money back; closing it empties it; locking it  *)
(* ends the owner's say; a locked vault is released once, all of its money *)
(* is owed from then on, and what is owed only goes down by being paid.    *)
(* Money may arrive at any time; what arrives too late is merely held.     *)
(***************************************************************************)
EXTENDS Integers

CONSTANT Vaults

VARIABLES phase, held, owed

escrowVars == <<phase, held, owed>>

Phases == {"none", "open", "locked", "released", "closed"}

EscrowInit ==
    /\ phase = [v \in Vaults |-> "none"]
    /\ held = [v \in Vaults |-> 0]
    /\ owed = [v \in Vaults |-> 0]

\* The phase of v changes, and that of no other vault.
MoveTo(v, before, after) ==
    /\ phase[v] = before
    /\ phase' = [phase EXCEPT ![v] = after]

\* The money of v changes, and that of no other vault.
Only(f, v) == f' = [f EXCEPT ![v] = f'[v]]

Open(v) == MoveTo(v, "none", "open") /\ UNCHANGED <<held, owed>>

Receive(v) ==
    /\ Only(held, v)
    /\ held'[v] > held[v]
    /\ UNCHANGED <<phase, owed>>

TakeBack(v) ==
    /\ phase[v] = "open"
    /\ Only(held, v)
    /\ held'[v] \in 0..held[v]
    /\ UNCHANGED <<phase, owed>>

Close(v) ==
    /\ MoveTo(v, "open", "closed")
    /\ held' = [held EXCEPT ![v] = 0]
    /\ UNCHANGED owed

Lock(v) == MoveTo(v, "open", "locked") /\ UNCHANGED <<held, owed>>

Release(v) ==
    /\ MoveTo(v, "locked", "released")
    /\ held[v] > 0
    /\ owed' = [owed EXCEPT ![v] = held[v]]
    /\ held' = [held EXCEPT ![v] = 0]

Disburse(v) ==
    /\ phase[v] = "released"
    /\ Only(owed, v)
    /\ owed'[v] \in 0..owed[v]
    /\ UNCHANGED <<phase, held>>

EscrowNext == \E v \in Vaults :
    \/ Open(v) \/ Receive(v) \/ TakeBack(v) \/ Close(v)
    \/ Lock(v) \/ Release(v) \/ Disburse(v)

EscrowSpec == EscrowInit /\ [][EscrowNext]_escrowVars
=============================================================================
