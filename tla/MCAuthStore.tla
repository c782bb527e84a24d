----------------------------- MODULE MCAuthStore -----------------------------
(* AuthStore on a small instance. *)
EXTENDS AuthStore, TLC

(* 1 s, 2 s, 4 s, ... with a tick for a second. *)
MCBackoff == [k \in 1 .. MaxInviteAttempts - 1 |-> 2 ^ (k - 1)]

(* Credential and connection names are interchangeable. *)
Symmetry == Permutations(Creds) \cup Permutations(Conns)
=============================================================================
