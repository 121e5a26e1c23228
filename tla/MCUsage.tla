------------------------------ MODULE MCUsage ------------------------------
(* Values for TLC. *)
EXTENDS UsageTracker

MCUsages ==
  { [model |-> "claude_opus_4_8", input |-> 1, output |-> 2, write |-> 3, read |-> 4] }

(* Thursday before the reset and after it; the clocks are changed that      *)
(* night.  What is written at the first moment is in the session's window   *)
(* and no more in the week's at the second.                                 *)
MCInstants == {76, 81}
MCDst == [at |-> 75, by |-> 1]
=============================================================================
