---------------------------- MODULE MCRelaySession ----------------------------
(* RelaySession on a small instance. *)
EXTENDS RelaySession

(* One replaceable kind, one that is not, and a message over the byte budget. *)
Agents == [kind |-> "agents", size |-> 1]
Oversized == [kind |-> "agents", size |-> MaxBytes + 1]

MCBroadcasts == {Agents, Oversized}
MCSnapshot == <<[kind |-> "push_config", size |-> 1]>>
AgentsOnly == {Agents}
=============================================================================
