-------------------------- MODULE ServicesTopology --------------------------
(* The services that follow Herdr and tell the phones of it: the topology,   *)
(* an agent's attention, the client of Herdr, and the journal.               *)
EXTENDS Naturals, Services

CONSTANTS
  MaxRevision, MaxBacklog,
  MaxEpoch, Readings, Statuses, Terminals, MaxTimeouts,
  HerdrPanes, EventQueue, SignalQueue, DialPermits, MaxHerdrEvents,
  MaxRows, ActionRows, JournalItems, EventBacklog, Rotations, MaxBreaks

(* Herdr starts with one pane. *)
ASSUME PanesAssumption == 1 \in HerdrPanes

VARIABLES
  topo, ledger, view, slot, fwd, outq, late, phone,
  act, pub, dirty, cell, inbox, tasks, pushes, claims, told, timeouts,
  herdr, stream, sup, signals, flight, got, keeper, caps, collect, call, spent, why,
  ring, shelf, tale, sweep, air, list, breaks

TF == INSTANCE TopologyFeed
AT == INSTANCE Attention
HD == INSTANCE Herdr
JO == INSTANCE Journal

-----------------------------------------------------------------------------
(* Once a connection is settled, a leg the forwarder delivered shows the     *)
(* published contents however many revisions the watch slot coalesced        *)
(* (ensure_started, broadcast_diff).                                         *)
ForwardedIsCurrent == part = "topology" => TF!ForwardedIsCurrent

(* A completion armed by an agent's turn is told, and claimed by one task at *)
(* most, even when commits and transition tasks overtake each other          *)
(* (register_finished_notification, handle_transition).                      *)
CompletionToldOnce == part = "attention" => AT!ClaimedOnce /\ AT!TurnCompletionTold

(* Once nothing is on its way from Herdr the actor shows what Herdr holds,    *)
(* and the ledger what the connected build supports, but for the causes      *)
(* Herdr names; a call that reports it was not applied was not               *)
(* (subscribe_topology, bootstrap_with, apply_refresh, classify_response).   *)
HerdrFollowed == part = "herdr" => HD!ViewFollows /\ HD!FeaturesTrue /\ HD!PhaseTells

(* The journal's file is its ring, and what was discarded or cleared stays   *)
(* so, whatever write fails and wherever the relay is stopped; the phone's   *)
(* list converges to it and the audit log loses no record out of turn, but   *)
(* for the causes Journal names (append_durable, discard, try_clear, load,   *)
(* rotate_if_needed).                                                        *)
JournalHolds == part = "journal" => JO!FileIsRing /\ JO!BuriedStays /\ JO!FeedConverges /\ JO!AuditKept
=============================================================================
