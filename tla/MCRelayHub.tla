----------------------------- MODULE MCRelayHub -----------------------------
(* RelayHub on a small instance: the constants are model values of the cfg. *)
EXTENDS RelayHub
=============================================================================
