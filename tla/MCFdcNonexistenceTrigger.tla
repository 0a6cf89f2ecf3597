---------------------- MODULE MCFdcNonexistenceTrigger ----------------------
(* One policy, its own target and somebody else's, amounts on either side  *)
(* of what may be required, and time for several intervals.                *)
EXTENDS FdcNonexistenceTrigger

MCAmounts == {1, 2}
MCIntervals == {1, 2}
MCStarts == {0, 1}
=============================================================================
