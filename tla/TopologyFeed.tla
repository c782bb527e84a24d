---------------------------- MODULE TopologyFeed ----------------------------
(***************************************************************************)
(* How a phone's view of the workspace follows the relay's.  The topology   *)
(* actor commits what Herdr reports, stamps every published revision with   *)
(* the legs that differ from a relay-wide published view, and overwrites    *)
(* one watch slot.  A connection gets a snapshot of the slot, and a         *)
(* forwarder that starts with its first routed message and sends each       *)
(* revision it sees, or the full rows when it notices that it skipped one.  *)
(* The attention ledger is shared by all revisions and moves between them.  *)
(* Row contents are versions in 0..1, so that they can also change back.    *)
(***************************************************************************)
EXTENDS Naturals, Sequences

CONSTANTS
  MaxRevision,   \* bound on the actor's commits
  MaxBacklog     \* batches the producers' queue of a session holds

VARIABLES
  topo,    \* the actor's private Topology
  ledger,  \* the shared attention ledger, as the rows project it
  view,    \* PublishedView
  slot,    \* the watch slot: the last published Topology and its frames
  fwd,     \* the connection's forwarder
  outq,    \* batches queued for the session
  late,    \* answers to refresh_agents whose task has not run
  phone    \* what the phone renders, and which path each leg came by

feedVars == <<topo, ledger, view, slot, fwd, outq, late, phone>>

Version == 0..1
LegOrder == <<"inventory", "agents", "workspaces", "herdr", "caps">>
Legs == {LegOrder[i] : i \in 1..5}
NoRevision == 0
Nothing == "nothing"

-----------------------------------------------------------------------------
(* Projections *)

inventory_status(t) ==
  LET state == IF t.ready THEN "ready" ELSE IF t.failed THEN "error" ELSE "starting"
  IN  [state |-> state, stale |-> state # "ready" /\ t.accepted]

(* The advertised capabilities drop a family whose methods are all refuted,  *)
(* and the speech families while no local voice is known.                    *)
effective_capabilities(t) == [refuted |-> t.herdr = 1, speech |-> t.speech]

agents(t) == <<t.agents, ledger>>

(* committed_inventory plus herdr_status and caps_update. *)
full_inventory(t) ==
  [leg \in Legs |->
     CASE leg = "inventory"  -> inventory_status(t)
       [] leg = "agents"     -> agents(t)
       [] leg = "workspaces" -> t.workspaces
       [] leg = "herdr"      -> t.herdr
       [] leg = "caps"       -> effective_capabilities(t)]

committed_inventory(t) ==
  [leg \in {"inventory", "agents", "workspaces"} |-> full_inventory(t)[leg]]

(* Entries of f overridden by those of g. *)
Over(f, g) == [leg \in DOMAIN f \cup DOMAIN g |-> IF leg \in DOMAIN g THEN g[leg] ELSE f[leg]]

(* The legs of t that the published view does not show yet; a recovery to    *)
(* ready forces the rows.                                                    *)
Moved(t) ==
  LET now == full_inventory(t)
      recovery == now["inventory"].state = "ready" /\ view["inventory"].state # "ready"
  IN  {leg \in Legs : \/ view[leg] # now[leg]
                      \/ recovery /\ leg \in {"agents", "workspaces"}}

broadcast_diff(t) == [leg \in Moved(t) |-> full_inventory(t)[leg]]

-----------------------------------------------------------------------------
(* The topology actor *)

(* Every publish refreshes the whole view, stamps the diff and replaces the  *)
(* slot.                                                                     *)
publish(t) ==
  /\ topo' = t
  /\ slot' = [topology |-> t, frames |-> broadcast_diff(t)]
  /\ view' = full_inventory(t)
  /\ UNCHANGED <<ledger, fwd, outq, late, phone>>

Bumped == [topo EXCEPT !.revision = @ + 1]

Budget == topo.revision < MaxRevision

(* A session snapshot accepted from a sync, a poll, a refresh or a topology  *)
(* event.                                                                    *)
accept_enriched ==
  /\ Budget
  /\ \E a, w \in Version :
       publish([Bumped EXCEPT !.agents = a, !.workspaces = w, !.ready = TRUE,
                                !.failed = FALSE, !.accepted = TRUE, !.stale = FALSE])

(* A status event or a generation bump moves agent rows only. *)
commit_agent_status ==
  /\ Budget
  /\ publish([Bumped EXCEPT !.agents = 1 - @])

mark_inventory_failure ==
  /\ Budget
  /\ topo.ready \/ ~topo.failed
  /\ publish([Bumped EXCEPT !.ready = FALSE, !.failed = TRUE])

mark_stale ==
  /\ Budget
  /\ ~topo.stale
  /\ publish([Bumped EXCEPT !.stale = TRUE])

set_herdr_status ==
  /\ Budget
  /\ publish([Bumped EXCEPT !.herdr = 1 - @])

set_local_speech ==
  /\ Budget
  /\ ~topo.speech
  /\ publish([Bumped EXCEPT !.speech = TRUE])

(* An acknowledgement or a committed classification moves the shared ledger  *)
(* without a revision.                                                       *)
LedgerMoves ==
  /\ topo.accepted
  /\ ledger' = 1 - ledger
  /\ UNCHANGED <<topo, view, slot, fwd, outq, late, phone>>

Actor ==
  \/ accept_enriched \/ commit_agent_status \/ mark_inventory_failure
  \/ mark_stale \/ set_herdr_status \/ set_local_speech \/ LedgerMoves

-----------------------------------------------------------------------------
(* The connection *)

By(path, batch) == [leg \in DOMAIN batch |-> [value |-> batch[leg], by |-> path]]

(* compose_snapshot reads the slot; the pumps deliver it before any push. *)
Connect ==
  /\ fwd.stage = "off"
  /\ fwd' = [fwd EXCEPT !.stage = "connected", !.snapshot = slot.topology.revision]
  /\ phone' = By("snapshot", full_inventory(slot.topology))
  /\ UNCHANGED <<topo, ledger, view, slot, outq, late>>

(* The first routed message spawns the forwarder.  Its receiver is a clone   *)
(* of one that has seen no publish, so changed() is ready at once.           *)
ensure_started ==
  /\ fwd.stage = "connected"
  /\ fwd' = [fwd EXCEPT !.stage = "running"]
  /\ UNCHANGED <<topo, ledger, view, slot, outq, late, phone>>

(* Mutation: the skipped revisions go unnoticed. *)
wanted_diff_only == slot.frames

(* The frames the forwarder sends for the revision it borrows. *)
Wanted ==
  LET t == slot.topology IN
  IF fwd.sent # NoRevision /\ t.revision > fwd.sent + 1
    THEN Over(full_inventory(t), slot.frames)
    ELSE slot.frames

(* Every frame is offered to the session's queue.  When one finds it full    *)
(* the forwarder takes the client for gone and ends; the frames before it    *)
(* stay queued.                                                              *)
Sent(r) ==
  fwd' = [fwd EXCEPT !.seen = r, !.sent = r,
                     !.gap = @ \/ (fwd.sent = NoRevision /\ r > fwd.snapshot + 1)]

Prefix(batch, n) == [leg \in {LegOrder[i] : i \in 1..n} \cap DOMAIN batch |-> batch[leg]]

Forward ==
  /\ fwd.stage = "running"
  /\ fwd.seen # slot.topology.revision
  /\ \/ /\ DOMAIN Wanted # {} => Len(outq) < MaxBacklog
        /\ outq' = IF DOMAIN Wanted = {} THEN outq ELSE Append(outq, By("forward", Wanted))
        /\ Sent(slot.topology.revision)
     \/ /\ DOMAIN Wanted # {}
        /\ fwd' = [fwd EXCEPT !.stage = "ended"]
        /\ \/ Len(outq) = MaxBacklog /\ UNCHANGED outq
           \/ /\ Len(outq) < MaxBacklog
              /\ \E n \in 1..4 : /\ Prefix(Wanted, n) # Wanted
                                /\ outq' = Append(outq, By("forward", Prefix(Wanted, n)))
  /\ UNCHANGED <<topo, ledger, view, slot, late, phone>>

(* refresh_agents captures the slot when it is admitted and answers from its *)
(* own task.                                                                 *)
RefreshAdmitted ==
  /\ fwd.stage \in {"running", "ended"}
  /\ late = <<>>
  /\ late' = <<By("refresh", committed_inventory(slot.topology))>>
  /\ UNCHANGED <<topo, ledger, view, slot, fwd, outq, phone>>

(* push_later: frames that find the queue full are dropped. *)
push_later ==
  /\ late # <<>>
  /\ late' = <<>>
  /\ outq' = IF Len(outq) < MaxBacklog THEN Append(outq, Head(late)) ELSE outq
  /\ UNCHANGED <<topo, ledger, view, slot, fwd, phone>>

(* The session hands queued frames to the phone. *)
Deliver ==
  /\ outq # <<>>
  /\ phone' = Over(phone, Head(outq))
  /\ outq' = Tail(outq)
  /\ UNCHANGED <<topo, ledger, view, slot, fwd, late>>

(* The session ends: the router is dropped and aborts the forwarder. *)
Disconnect ==
  /\ fwd.stage \notin {"off", "gone"}
  /\ fwd' = [fwd EXCEPT !.stage = "gone"]
  /\ outq' = <<>>
  /\ late' = <<>>
  /\ phone' = [leg \in {} |-> Nothing]
  /\ UNCHANGED <<topo, ledger, view, slot>>

-----------------------------------------------------------------------------
(* The first publish (the resolved agent profiles) precedes every client. *)
Started ==
  [revision |-> 1, agents |-> 0, workspaces |-> 0, herdr |-> 0, speech |-> FALSE,
   ready |-> FALSE, failed |-> FALSE, accepted |-> FALSE, stale |-> FALSE]

Init ==
  /\ topo = Started
  /\ ledger = 0
  /\ view = full_inventory(Started)
  /\ slot = [topology |-> Started, frames |-> [leg \in Legs \ {"caps"} |-> full_inventory(Started)[leg]]]
  /\ fwd = [stage |-> "off", snapshot |-> NoRevision, sent |-> NoRevision,
            seen |-> NoRevision, gap |-> FALSE]
  /\ outq = <<>>
  /\ late = <<>>
  /\ phone = [leg \in {} |-> Nothing]

Next ==
  Actor \/ Connect \/ ensure_started \/ Forward \/ RefreshAdmitted \/ push_later
    \/ Deliver \/ Disconnect

Spec == Init /\ [][Next]_feedVars

-----------------------------------------------------------------------------
(* Properties *)

TypeOK ==
  /\ topo.revision \in 1..MaxRevision
  /\ DOMAIN view = Legs
  /\ slot.topology = topo
  /\ DOMAIN slot.frames \subseteq Legs
  /\ fwd.sent <= topo.revision /\ fwd.seen <= topo.revision
  /\ Len(outq) <= MaxBacklog /\ Len(late) <= 1
  /\ DOMAIN phone \in {{}, Legs}

(* The relay owes this connection nothing: its forwarder has seen the        *)
(* current revision, no frame is under way.                                  *)
Settled ==
  /\ fwd.stage = "running"
  /\ fwd.seen = slot.topology.revision
  /\ outq = <<>> /\ late = <<>>

(* A leg as rendered, without the part that the ledger moves on its own. *)
Rows(leg, value) == IF leg = "agents" THEN value[1] ELSE value

(* Once a connection is settled, a leg the forwarder delivered shows the     *)
(* published contents however many revisions the watch slot coalesced, and   *)
(* so does a leg still from the snapshot when the first forwarded revision   *)
(* followed the snapshot's.                                                  *)
ForwardedIsCurrent ==
  Settled =>
    \A leg \in Legs :
      phone[leg].by = "forward" \/ (phone[leg].by = "snapshot" /\ ~fwd.gap) =>
        Rows(leg, phone[leg].value) = Rows(leg, full_inventory(slot.topology)[leg])

(* What the forwarder's comments promise: the snapshot carries what the      *)
(* forwarder does not send and full rows heal every skipped revision, so a   *)
(* settled phone renders what the relay published.                           *)
ClientConverges ==
  Settled => \A leg \in Legs :
    Rows(leg, phone[leg].value) = Rows(leg, full_inventory(slot.topology)[leg])
=============================================================================
