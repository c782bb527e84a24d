----------------------------- MODULE MCPaneLease -----------------------------
(* PaneLease on a small instance. *)
EXTENDS PaneLease

(* A narrow width-only phone and a wider one that also bounds the height. *)
MCSizes == {[columns |-> 1, rows |-> 0], [columns |-> 2, rows |-> 1]}
OneSize == {[columns |-> 1, rows |-> 0]}
MCDesktopSizes == {[columns |-> 3, rows |-> 2]}
=============================================================================
