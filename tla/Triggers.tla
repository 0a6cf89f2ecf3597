------------------------------ MODULE Triggers ------------------------------
(***************************************************************************)
(* The two triggers that look at the clock: ManualHeartbeatTrigger, which  *)
(* fires when its owner has not checked in for an interval, and            *)
(* TimestampTrigger, which fires after a date.  Each keeps the settings of *)
(* every policy that was configured with it.                               *)
(***************************************************************************)
EXTENDS Integers

CONSTANTS Policies,
          NoOwner       \* address(0)

VARIABLES now,          \* block.timestamp
          configs,      \* ManualHeartbeatTrigger.configs
          executeAfter  \* TimestampTrigger.executeAfter, 0 if not configured

triggerVars == <<configs, executeAfter>>

NoConfig == [owner |-> NoOwner, interval |-> 0, deadline |-> 0, demoMode |-> FALSE]

TriggersInit ==
    /\ configs = [p \in Policies |-> NoConfig]
    /\ executeAfter = [p \in Policies |-> 0]

-----------------------------------------------------------------------------
(* ManualHeartbeatTrigger                                                  *)

Configured(p) == configs[p].owner # NoOwner

\* Anyone may call it, for any owner, while no owner is named.
ConfigureHeartbeat(p, owner, interval, demoMode) ==
    /\ ~Configured(p)
    /\ interval # 0
    /\ configs' = [configs EXCEPT ![p] = [owner |-> owner, interval |-> interval,
                                          deadline |-> now + interval, demoMode |-> demoMode]]
    /\ UNCHANGED <<now, executeAfter>>

\* Whatever the deadline was, and whatever has become of the policy.
Heartbeat(a, p) ==
    /\ Configured(p)
    /\ a = configs[p].owner
    /\ configs' = [configs EXCEPT ![p].deadline = now + configs[p].interval]
    /\ UNCHANGED <<now, executeAfter>>

SimulateInactivityAlways(a, p) ==       \* mutant: not only in demo mode
    /\ Configured(p)
    /\ a = configs[p].owner
    /\ configs' = [configs EXCEPT ![p].deadline = now - 1]
    /\ UNCHANGED <<now, executeAfter>>

SimulateInactivity(a, p) ==
    /\ Configured(p)
    /\ a = configs[p].owner
    /\ configs[p].demoMode
    /\ configs' = [configs EXCEPT ![p].deadline = now - 1]
    /\ UNCHANGED <<now, executeAfter>>

HeartbeatCheckAtDeadline(p) ==          \* mutant: the deadline itself counts
    Configured(p) /\ now >= configs[p].deadline

HeartbeatCheckOnce(p) ==                \* mutant: only right after the deadline
    Configured(p) /\ now = configs[p].deadline + 1

HeartbeatCheck(p) == Configured(p) /\ now > configs[p].deadline

-----------------------------------------------------------------------------
(* TimestampTrigger                                                        *)

ConfigureTimestamp(p, date) ==
    /\ executeAfter[p] = 0
    /\ date > now
    /\ executeAfter' = [executeAfter EXCEPT ![p] = date]
    /\ UNCHANGED <<now, configs>>

TimestampCheck(p) == executeAfter[p] # 0 /\ now > executeAfter[p]
=============================================================================
