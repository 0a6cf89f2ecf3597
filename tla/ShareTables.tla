---------------------------- MODULE ShareTables ----------------------------
(***************************************************************************)
(* The share tables that owners commit to.  A table is given by its        *)
(* recipients and by the running totals of their basis points, which       *)
(* carries the same information as the pairs (recipient, shareBps) of the  *)
(* source.                                                                 *)
(***************************************************************************)
EXTENDS Integers, Sequences

TOTAL_BPS == 10000

\* Running total of the first i entries, and the entry i itself.
RunningBps(s, i) == IF i = 0 THEN 0 ELSE s.upTo[i]
ShareBps(s, i) == RunningBps(s, i) - RunningBps(s, i - 1)

TotalBps(s) == RunningBps(s, Len(s.to))

\* The tables that pay members of S: running totals never decrease.
IsShareTable(s, S) ==
    /\ s.to \in Seq(S)
    /\ s.upTo \in Seq(Nat)
    /\ Len(s.to) = Len(s.upTo)
    /\ \A i, j \in 1..Len(s.to) : i <= j => s.upTo[i] <= s.upTo[j]

\* The share of the i-th recipient of "available", rounded down.
Floor(available, s, i) == (available * ShareBps(s, i)) \div TOTAL_BPS
=============================================================================
