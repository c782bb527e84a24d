------------------------------ MODULE Services ------------------------------
(* The services of the relay share no state in these models: a behaviour     *)
(* runs the part that was chosen at the start.                               *)
VARIABLE part  \* the part that runs; the others stay as they start
=============================================================================
