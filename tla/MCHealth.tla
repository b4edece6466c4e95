------------------------------- MODULE MCHealth -------------------------------
(***************************************************************************)
(* Constants for model checking Health: an agent whose clock is right, one *)
(* whose samples are too old when they arrive, and one whose last sample   *)
(* is still fresh when its last heartbeat is too old.                      *)
(***************************************************************************)
EXTENDS Health

MCOffsets == {-2, 0, 2}

\* Bound: one failure where the clock is ahead.  It cuts off nothing that fairness
\* promises: no failure has to happen.
FewerAhead == offset < 0 => upsets <= 1
================================================================================
