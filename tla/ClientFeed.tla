------------------------------ MODULE ClientFeed ------------------------------
(***************************************************************************)
(* What a session promises about the messages it sends to one client: they *)
(* arrive in the order in which they were enqueued; one that is missing    *)
(* was replaced by the next message, of its own replaceable kind, before   *)
(* it left; and when anything else has to be given up the session ends.    *)
(***************************************************************************)
EXTENDS Naturals, Sequences

CONSTANTS
  Messages,    \* what may be sent
  Replaceable  \* kinds that a newer message of the same kind supersedes

VARIABLES
  pending,    \* enqueued and not yet with the client
  delivered,  \* what the client opened
  open        \* the session goes on

vars == <<pending, delivered, open>>

Init == pending = <<>> /\ delivered = <<>> /\ open = TRUE

Enqueue(m) ==
  /\ open
  /\ pending' = Append(pending, m)
  /\ UNCHANGED <<delivered, open>>

Replace(m) ==
  /\ open /\ pending # <<>>
  /\ m.kind \in Replaceable /\ pending[Len(pending)].kind = m.kind
  /\ pending' = [pending EXCEPT ![Len(pending)] = m]
  /\ UNCHANGED <<delivered, open>>

Deliver ==
  /\ pending # <<>>
  /\ delivered' = Append(delivered, Head(pending))
  /\ pending' = Tail(pending)
  /\ UNCHANGED open

(* The session ends; what had not left is lost from the back. *)
End ==
  /\ open' = FALSE
  /\ \E k \in 0 .. Len(pending) : pending' = SubSeq(pending, 1, k)
  /\ UNCHANGED delivered

Next ==
  \/ \E m \in Messages : Enqueue(m) \/ Replace(m)
  \/ Deliver
  \/ End

Spec == Init /\ [][Next]_vars
=============================================================================
