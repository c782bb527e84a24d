------------------------ MODULE ServicesTopology_proofs ------------------------
(***************************************************************************)
(* Proofs about the topology feed, attention and the client of Herdr.       *)
(*                                                                          *)
(* About the topology feed: whatever the watch slot coalesced, a leg that a *)
(* settled connection got from its forwarder shows what is published.  The  *)
(* slot holds one revision, so the invariant cannot speak of the revision a *)
(* forwarder last sent once the slot has moved on.  It speaks of how far    *)
(* the slot is ahead: not at all, and every leg shows its contents; one     *)
(* revision, and the legs that its frames do not carry do; further, and     *)
(* nothing is known, but the forwarder will send every row.                 *)
(*                                                                          *)
(* About attention: a completion is claimed once, and one that a turn armed *)
(* is told.  An arming is told from the later ones by its session and the   *)
(* contents revision it met; until a completion is told it is unpublished,  *)
(* or a transition on its way, or a task that captures, will tell it.       *)
(*                                                                          *)
(* About the client of Herdr: with nothing on its way the actor shows what  *)
(* Herdr holds, the ledger what the build can do, and a call what it did.   *)
(* Changes are numbered; the invariant says which of them each queue on the *)
(* way still carries, that the reads under way and the snapshots in the     *)
(* queues are of a moment that the events behind them follow on, and that   *)
(* the view lags only by what is queued, or by a cause that is noted.       *)
(***************************************************************************)
EXTENDS ServicesTopology, Integers, Sequences, TLAPS

-----------------------------------------------------------------------------
(* Legs and their rows *)

LEMMA LegsAre == TF!Legs = {"inventory", "agents", "workspaces", "herdr", "caps"}
<1>1. 1 .. 5 = {1, 2, 3, 4, 5}
  OBVIOUS
<1>2. /\ TF!LegOrder[1] = "inventory" /\ TF!LegOrder[2] = "agents" /\ TF!LegOrder[3] = "workspaces"
      /\ TF!LegOrder[4] = "herdr" /\ TF!LegOrder[5] = "caps"
  BY DEF TF!LegOrder
<1> QED BY <1>1, <1>2 DEF TF!Legs

(* The contents of a leg as rendered: it does not depend on the ledger. *)
RowOf(t, leg) ==
  CASE leg = "inventory"  -> TF!inventory_status(t)
    [] leg = "agents"     -> t.agents
    [] leg = "workspaces" -> t.workspaces
    [] leg = "herdr"      -> t.herdr
    [] leg = "caps"       -> TF!effective_capabilities(t)

LEMMA InventoryRows ==
  ASSUME NEW t, NEW leg \in TF!Legs
  PROVE  /\ DOMAIN TF!full_inventory(t) = TF!Legs
         /\ TF!Rows(leg, TF!full_inventory(t)[leg]) = RowOf(t, leg)
BY LegsAre DEF TF!full_inventory, TF!Rows, TF!agents, RowOf

(* The legs that differ from the published view are the ones a publish stamps. *)
LEMMA FramesOfDiff ==
  ASSUME NEW t
  PROVE  /\ DOMAIN TF!broadcast_diff(t) \subseteq TF!Legs
         /\ \A leg \in DOMAIN TF!broadcast_diff(t) :
              TF!broadcast_diff(t)[leg] = TF!full_inventory(t)[leg]
         /\ \A leg \in TF!Legs \ DOMAIN TF!broadcast_diff(t) :
              view[leg] = TF!full_inventory(t)[leg]
BY DEF TF!broadcast_diff, TF!Moved

-----------------------------------------------------------------------------
(* Types *)

Topologies ==
  [revision : Nat \ {0}, agents : TF!Version, workspaces : TF!Version, herdr : TF!Version,
   speech : BOOLEAN, ready : BOOLEAN, failed : BOOLEAN, accepted : BOOLEAN, stale : BOOLEAN]

Values ==
  [state : {"ready", "error", "starting"}, stale : BOOLEAN] \cup (TF!Version \X TF!Version)
    \cup TF!Version \cup [refuted : BOOLEAN, speech : BOOLEAN]

Paths == {"snapshot", "forward", "refresh"}
Cells == [value : Values, by : Paths]

(* Rows for some of the legs, without and with the path they take. *)
Frames == UNION {[D -> Values] : D \in SUBSET TF!Legs}
Batch == UNION {[D -> Cells] : D \in SUBSET TF!Legs}

Forwarders ==
  [stage : {"off", "connected", "running", "ended", "gone"}, snapshot : Nat, sent : Nat,
   seen : Nat, gap : BOOLEAN]

FeedTypes ==
  /\ topo \in Topologies /\ ledger \in TF!Version
  /\ slot \in [topology : Topologies, frames : Frames]
  /\ fwd \in Forwarders
  /\ outq \in Seq(Batch)
  /\ late \in Seq(Batch)
  /\ fwd.stage \notin {"off", "gone"} => phone \in [TF!Legs -> Cells]

LEMMA InventoryType ==
  ASSUME NEW t \in Topologies, ledger \in TF!Version
  PROVE  TF!full_inventory(t) \in [TF!Legs -> Values]
<1>1. TF!inventory_status(t) \in [state : {"ready", "error", "starting"}, stale : BOOLEAN]
  BY DEF Topologies, TF!inventory_status
<1>2. TF!effective_capabilities(t) \in [refuted : BOOLEAN, speech : BOOLEAN]
  BY DEF Topologies, TF!effective_capabilities
<1>3. TF!agents(t) \in TF!Version \X TF!Version
  BY DEF Topologies, TF!agents
<1>4. t.workspaces \in TF!Version /\ t.herdr \in TF!Version
  BY DEF Topologies
<1> QED BY <1>1, <1>2, <1>3, <1>4, LegsAre DEF TF!full_inventory, Values

LEMMA FramesType ==
  ASSUME NEW f
  PROVE  f \in Frames <=> DOMAIN f \subseteq TF!Legs /\ f \in [DOMAIN f -> Values]
BY DEF Frames

LEMMA BatchType ==
  ASSUME NEW f
  PROVE  f \in Batch <=> DOMAIN f \subseteq TF!Legs /\ f \in [DOMAIN f -> Cells]
BY DEF Batch

LEMMA ByBatch ==
  ASSUME NEW f \in Frames, NEW path \in Paths
  PROVE  /\ TF!By(path, f) \in Batch
         /\ DOMAIN TF!By(path, f) = DOMAIN f
         /\ \A leg \in DOMAIN f :
              TF!By(path, f)[leg].value = f[leg] /\ TF!By(path, f)[leg].by = path
<1>1. DOMAIN f \subseteq TF!Legs /\ f \in [DOMAIN f -> Values]
  BY FramesType
<1>2. TF!By(path, f) \in [DOMAIN f -> Cells]
  BY <1>1 DEF TF!By, Cells
<1>3. TF!By(path, f) \in Batch
  BY <1>1, <1>2, BatchType
<1> QED BY <1>3 DEF TF!By

-----------------------------------------------------------------------------
(* The invariant *)

Revision == topo.revision

(* The published view is the topology's, up to moves of the ledger. *)
ViewShows == \A leg \in TF!Legs : TF!Rows(leg, view[leg]) = RowOf(topo, leg)

(* The slot holds the actor's topology, and rows of it. *)
SlotShows ==
  /\ slot.topology = topo
  /\ \A leg \in DOMAIN slot.frames : TF!Rows(leg, slot.frames[leg]) = RowOf(topo, leg)

(* The revision that the connection's legs are of: the last one forwarded, or *)
(* the snapshot's.                                                           *)
Mark == IF fwd.sent = 0 THEN fwd.snapshot ELSE fwd.sent

Marks ==
  /\ fwd.seen = fwd.sent /\ fwd.sent <= Revision /\ fwd.snapshot <= Revision
  /\ fwd.stage \in {"off", "connected"} => fwd.sent = 0 /\ outq = <<>> /\ late = <<>>
  /\ fwd.sent = 0 => fwd.gap = FALSE

RefreshIsMarked ==
  \A i \in 1 .. Len(late) : \A leg \in DOMAIN late[i] : late[i][leg].by = "refresh"

(* Whether a leg counts for the property by the path it came. *)
Counts(e, gap) == e.by = "forward" \/ (e.by = "snapshot" /\ gap = FALSE)

Current(leg, e) == TF!Rows(leg, e.value) = RowOf(topo, leg)

(* What a leg that is shown or under way is worth, by how far the slot is     *)
(* ahead.  Before the first forward no leg is a forwarded one.               *)
Fits(leg, e) ==
  Counts(e, fwd.gap) =>
    /\ Revision = Mark => Current(leg, e)
    /\ Revision = Mark + 1 /\ leg \notin DOMAIN slot.frames => Current(leg, e)
    /\ fwd.sent = 0 => e.by # "forward"

(* Nothing behind position i of the queue replaces the leg. *)
Latest(leg, q, i) == \A j \in 1 .. Len(q) : j > i => leg \notin DOMAIN q[j]

Connected == fwd.stage \in {"connected", "running"}

(* The legs that the phone shows once the queue is delivered. *)
QueueFits ==
  Connected => \A leg \in TF!Legs : \A i \in 1 .. Len(outq) :
    leg \in DOMAIN outq[i] /\ Latest(leg, outq, i) => Fits(leg, outq[i][leg])

PhoneFits ==
  Connected => \A leg \in TF!Legs : Latest(leg, outq, 0) => Fits(leg, phone[leg])

FeedInv ==
  FeedTypes /\ ViewShows /\ SlotShows /\ Marks /\ RefreshIsMarked /\ QueueFits /\ PhoneFits

-----------------------------------------------------------------------------
(* Operators of the forwarder *)

(* What the forwarder sends are rows of the published topology: all of them   *)
(* when it skipped a revision, else the frames of the slot.                  *)
LEMMA WantedRows ==
  ASSUME FeedTypes, SlotShows
  PROVE  /\ TF!Wanted \in Frames
         /\ \A leg \in DOMAIN TF!Wanted : TF!Rows(leg, TF!Wanted[leg]) = RowOf(topo, leg)
         /\ fwd.sent # 0 /\ Revision > fwd.sent + 1 => DOMAIN TF!Wanted = TF!Legs
         /\ ~(fwd.sent # 0 /\ Revision > fwd.sent + 1) => DOMAIN TF!Wanted = DOMAIN slot.frames
<1> DEFINE all == TF!full_inventory(topo)
           fr == slot.frames
<1>1. slot.topology = topo /\ topo \in Topologies /\ fr \in Frames /\ ledger \in TF!Version
  BY DEF FeedTypes, SlotShows
<1>2. all \in [TF!Legs -> Values] /\ \A leg \in TF!Legs : TF!Rows(leg, all[leg]) = RowOf(topo, leg)
  BY <1>1, InventoryType, InventoryRows
<1>3. DOMAIN fr \subseteq TF!Legs /\ fr \in [DOMAIN fr -> Values]
  BY <1>1, FramesType
<1>4. \A leg \in DOMAIN fr : TF!Rows(leg, fr[leg]) = RowOf(topo, leg)
  BY DEF SlotShows
<1>5. CASE fwd.sent # 0 /\ Revision > fwd.sent + 1
  <2>1. TF!Wanted = TF!Over(all, fr)
    BY <1>1, <1>5 DEF TF!Wanted, TF!NoRevision, Revision
  <2> HIDE DEF all, fr
  <2>2. /\ DOMAIN TF!Over(all, fr) = TF!Legs
        /\ \A leg \in TF!Legs :
             TF!Over(all, fr)[leg] = IF leg \in DOMAIN fr THEN fr[leg] ELSE all[leg]
    BY <1>2, <1>3 DEF TF!Over
  <2>3. TF!Over(all, fr) \in [TF!Legs -> Values]
    BY <1>2, <1>3 DEF TF!Over
  <2>4. TF!Wanted \in Frames
    BY <2>1, <2>2, <2>3, FramesType
  <2>5. \A leg \in TF!Legs : TF!Rows(leg, TF!Wanted[leg]) = RowOf(topo, leg)
    BY <1>2, <1>4, <2>1, <2>2
  <2> QED BY <1>5, <2>1, <2>2, <2>4, <2>5
<1>6. CASE ~(fwd.sent # 0 /\ Revision > fwd.sent + 1)
  <2>1. TF!Wanted = fr
    BY <1>1, <1>6 DEF TF!Wanted, TF!NoRevision, Revision
  <2> QED BY <1>1, <1>4, <1>6, <2>1
<1> QED BY <1>5, <1>6

LEMMA PrefixBatch ==
  ASSUME NEW f \in Frames, NEW n
  PROVE  TF!Prefix(f, n) \in Frames
<1>1. DOMAIN f \subseteq TF!Legs /\ f \in [DOMAIN f -> Values]
  BY FramesType
<1>2. DOMAIN TF!Prefix(f, n) \subseteq DOMAIN f
  BY DEF TF!Prefix
<1>3. \A leg \in DOMAIN TF!Prefix(f, n) : TF!Prefix(f, n)[leg] = f[leg]
  BY DEF TF!Prefix
<1>4. TF!Prefix(f, n) \in [DOMAIN TF!Prefix(f, n) -> Values]
  <2>1. \A leg \in DOMAIN TF!Prefix(f, n) : TF!Prefix(f, n)[leg] \in Values
    BY <1>1, <1>2, <1>3
  <2>2. TF!Prefix(f, n) = [leg \in DOMAIN TF!Prefix(f, n) |-> TF!Prefix(f, n)[leg]]
    BY DEF TF!Prefix
  <2> QED BY <2>1, <2>2
<1> QED BY <1>1, <1>2, <1>4, FramesType

LEMMA OverBatch ==
  ASSUME NEW p \in [TF!Legs -> Cells], NEW b \in Batch
  PROVE  /\ TF!Over(p, b) \in [TF!Legs -> Cells]
         /\ \A leg \in TF!Legs : TF!Over(p, b)[leg] = IF leg \in DOMAIN b THEN b[leg] ELSE p[leg]
<1>1. DOMAIN b \subseteq TF!Legs /\ b \in [DOMAIN b -> Cells]
  BY BatchType
<1> QED BY <1>1 DEF TF!Over

(* Positions of a longer and of a shorter queue. *)
LEMMA AppendLatest ==
  ASSUME NEW q \in Seq(Batch), NEW b \in Batch, NEW leg
  PROVE  /\ Append(q, b) \in Seq(Batch) /\ Len(Append(q, b)) = Len(q) + 1
         /\ \A i \in 1 .. Len(q) : Append(q, b)[i] = q[i]
         /\ Append(q, b)[Len(q) + 1] = b
         /\ \A i \in 0 .. Len(q) :
              Latest(leg, Append(q, b), i) => Latest(leg, q, i) /\ leg \notin DOMAIN b
<1>1. /\ Append(q, b) \in Seq(Batch) /\ Len(Append(q, b)) = Len(q) + 1 /\ Len(q) \in Nat
      /\ \A i \in 1 .. Len(q) : Append(q, b)[i] = q[i]
      /\ Append(q, b)[Len(q) + 1] = b
  OBVIOUS
<1>2. ASSUME NEW i \in 0 .. Len(q), Latest(leg, Append(q, b), i)
      PROVE  Latest(leg, q, i) /\ leg \notin DOMAIN b
  <2>1. \A j \in 1 .. Len(q) + 1 : j > i => leg \notin DOMAIN Append(q, b)[j]
    BY <1>1, <1>2 DEF Latest
  <2>2. leg \notin DOMAIN Append(q, b)[Len(q) + 1]
    BY <1>1, <2>1
  <2>3. \A j \in 1 .. Len(q) : j > i => leg \notin DOMAIN q[j]
    BY <1>1, <2>1
  <2> QED BY <1>1, <2>2, <2>3 DEF Latest
<1> QED BY <1>1, <1>2

LEMMA TailLatest ==
  ASSUME NEW q \in Seq(Batch), q # <<>>, NEW leg
  PROVE  /\ Tail(q) \in Seq(Batch) /\ Head(q) \in Batch /\ Head(q) = q[1]
         /\ Len(q) \in Nat \ {0} /\ Len(Tail(q)) = Len(q) - 1
         /\ \A i \in 1 .. Len(Tail(q)) : Tail(q)[i] = q[i + 1]
         /\ \A i \in 0 .. Len(q) - 1 : Latest(leg, Tail(q), i) => Latest(leg, q, i + 1)
<1>1. /\ Tail(q) \in Seq(Batch) /\ Head(q) \in Batch /\ Head(q) = q[1]
      /\ Len(q) \in Nat \ {0} /\ Len(Tail(q)) = Len(q) - 1
      /\ \A i \in 1 .. Len(Tail(q)) : Tail(q)[i] = q[i + 1]
  OBVIOUS
<1>2. ASSUME NEW i \in 0 .. Len(q) - 1, Latest(leg, Tail(q), i)
      PROVE  Latest(leg, q, i + 1)
  <2> SUFFICES ASSUME NEW j \in 1 .. Len(q), j > i + 1 PROVE leg \notin DOMAIN q[j]
    BY DEF Latest
  <2>1. j - 1 \in 1 .. Len(Tail(q)) /\ j - 1 > i /\ Tail(q)[j - 1] = q[j]
    BY <1>1
  <2> QED BY <1>2, <2>1 DEF Latest
<1> QED BY <1>1, <1>2

-----------------------------------------------------------------------------
(* Steps *)

(* The parts of the invariant that a publish touches. *)
LEMMA PublishKeeps ==
  ASSUME FeedInv, NEW t \in Topologies, t.revision = Revision + 1, TF!publish(t)
  PROVE  FeedInv'
<1> DEFINE d == TF!broadcast_diff(t)
<1>1. /\ topo' = t /\ view' = TF!full_inventory(t) /\ slot' = [topology |-> t, frames |-> d]
      /\ UNCHANGED <<ledger, fwd, outq, late, phone>>
  BY DEF TF!publish
<1>2. Revision \in Nat \ {0} /\ Revision' = Revision + 1 /\ ledger \in TF!Version /\ fwd \in Forwarders
  BY <1>1 DEF FeedInv, FeedTypes, Topologies, Revision
<1>3. DOMAIN d \subseteq TF!Legs /\ \A leg \in DOMAIN d : d[leg] = TF!full_inventory(t)[leg]
  BY FramesOfDiff
<1>4. d \in Frames
  <2>1. TF!full_inventory(t) \in [TF!Legs -> Values]
    BY <1>2, InventoryType
  <2>2. d \in [DOMAIN d -> Values]
    BY <1>3, <2>1 DEF TF!broadcast_diff
  <2> QED BY <1>3, <2>2, FramesType
<1>5. \A leg \in TF!Legs \ DOMAIN d : RowOf(t, leg) = RowOf(topo, leg)
  <2> SUFFICES ASSUME NEW leg \in TF!Legs \ DOMAIN d PROVE RowOf(t, leg) = RowOf(topo, leg)
    OBVIOUS
  <2>1. view[leg] = TF!full_inventory(t)[leg]
    BY FramesOfDiff
  <2>2. TF!Rows(leg, view[leg]) = RowOf(topo, leg)
    BY DEF FeedInv, ViewShows
  <2> QED BY <2>1, <2>2, InventoryRows
<1>6. \A leg \in DOMAIN d : TF!Rows(leg, d[leg]) = RowOf(t, leg)
  BY <1>3, InventoryRows
<1> HIDE DEF d
<1>7. FeedTypes'
  BY <1>1, <1>4 DEF FeedInv, FeedTypes
<1>8. ViewShows'
  BY <1>1, InventoryRows DEF ViewShows
<1>9. SlotShows'
  BY <1>1, <1>6 DEF SlotShows
<1>10. Marks' /\ RefreshIsMarked'
  <2>1. fwd.sent \in Nat /\ fwd.snapshot \in Nat
    BY <1>2 DEF Forwarders
  <2>2. Marks'
    BY <1>1, <1>2, <2>1 DEF FeedInv, Marks
  <2> QED BY <1>1, <2>2 DEF FeedInv, RefreshIsMarked
<1>11. ASSUME NEW leg \in TF!Legs, NEW e, Fits(leg, e)
       PROVE  Fits(leg, e)'
  <2> SUFFICES ASSUME Counts(e, fwd.gap)
               PROVE  /\ ~(Revision' = Mark')
                      /\ Revision' = Mark' + 1 /\ leg \notin DOMAIN d
                           => TF!Rows(leg, e.value) = RowOf(t, leg)
                      /\ fwd.sent = 0 => e.by # "forward"
    BY <1>1 DEF Fits, Current, Counts
  <2>1. Mark \in Nat /\ Mark <= Revision /\ Mark' = Mark
    BY <1>1, <1>2 DEF Mark, Forwarders, FeedInv, Marks
  <2>2. ~(Revision' = Mark')
    BY <1>2, <2>1
  <2>3. ASSUME Revision' = Mark' + 1, leg \notin DOMAIN d
        PROVE  TF!Rows(leg, e.value) = RowOf(t, leg)
    <3>1. Revision = Mark
      BY <1>2, <2>1, <2>3
    <3>2. TF!Rows(leg, e.value) = RowOf(topo, leg)
      BY <1>11, <3>1 DEF Fits, Current
    <3> QED BY <1>5, <2>3, <3>2
  <2>4. fwd.sent = 0 => e.by # "forward"
    BY <1>11 DEF Fits
  <2> QED BY <2>2, <2>3, <2>4
<1>12. QueueFits' /\ PhoneFits'
  BY <1>1, <1>11 DEF FeedInv, QueueFits, PhoneFits, Connected, Latest
<1> QED BY <1>7, <1>8, <1>9, <1>10, <1>12 DEF FeedInv

LEMMA ActorKeeps == FeedInv /\ TF!Actor => FeedInv'
<1> SUFFICES ASSUME FeedInv, TF!Actor PROVE FeedInv'
  OBVIOUS
<1>1. topo \in Topologies /\ Revision \in Nat \ {0} /\ Revision = topo.revision
  BY DEF FeedInv, FeedTypes, Topologies, Revision
<1>2. CASE TF!LedgerMoves
  <2>1. UNCHANGED <<topo, view, slot, fwd, outq, late, phone>> /\ ledger' \in TF!Version
    BY <1>2 DEF TF!LedgerMoves, TF!Version, FeedInv, FeedTypes
  <2>2. FeedTypes'
    BY <2>1 DEF FeedInv, FeedTypes
  <2> QED BY <2>1, <2>2 DEF FeedInv, ViewShows, SlotShows, Marks, RefreshIsMarked, QueueFits, PhoneFits,
                            Connected, Latest, Fits, Current, Counts, Mark, Revision
<1>3. ASSUME ~TF!LedgerMoves
      PROVE  \E t \in Topologies : t.revision = Revision + 1 /\ TF!publish(t)
  <2> DEFINE b == TF!Bumped
  <2>1. b \in Topologies /\ b.revision = Revision + 1
    BY <1>1 DEF TF!Bumped, Topologies
  <2>2. \A x \in TF!Version : 1 - x \in TF!Version
    BY DEF TF!Version
  <2> HIDE DEF b
  <2>3. CASE TF!accept_enriched
    <3>1. PICK a \in TF!Version, w \in TF!Version :
            TF!publish([b EXCEPT !.agents = a, !.workspaces = w, !.ready = TRUE,
                                 !.failed = FALSE, !.accepted = TRUE, !.stale = FALSE])
      BY <2>3 DEF TF!accept_enriched, b
    <3> DEFINE t == [b EXCEPT !.agents = a, !.workspaces = w, !.ready = TRUE,
                              !.failed = FALSE, !.accepted = TRUE, !.stale = FALSE]
    <3>2. t \in Topologies /\ t.revision = Revision + 1
      BY <2>1 DEF Topologies
    <3> HIDE DEF t
    <3> QED BY <3>1, <3>2 DEF t
  <2>4. CASE TF!commit_agent_status
    <3> DEFINE t == [b EXCEPT !.agents = 1 - @]
    <3>1. t \in Topologies /\ t.revision = Revision + 1
      BY <2>1, <2>2 DEF Topologies
    <3>2. TF!publish(t)
      BY <2>4 DEF TF!commit_agent_status, b
    <3> QED BY <3>1, <3>2
  <2>5. CASE TF!mark_inventory_failure
    <3> DEFINE t == [b EXCEPT !.ready = FALSE, !.failed = TRUE]
    <3>1. t \in Topologies /\ t.revision = Revision + 1
      BY <2>1 DEF Topologies
    <3>2. TF!publish(t)
      BY <2>5 DEF TF!mark_inventory_failure, b
    <3> QED BY <3>1, <3>2
  <2>6. CASE TF!mark_stale
    <3> DEFINE t == [b EXCEPT !.stale = TRUE]
    <3>1. t \in Topologies /\ t.revision = Revision + 1
      BY <2>1 DEF Topologies
    <3>2. TF!publish(t)
      BY <2>6 DEF TF!mark_stale, b
    <3> QED BY <3>1, <3>2
  <2>7. CASE TF!set_herdr_status
    <3> DEFINE t == [b EXCEPT !.herdr = 1 - @]
    <3>1. t \in Topologies /\ t.revision = Revision + 1
      BY <2>1, <2>2 DEF Topologies
    <3>2. TF!publish(t)
      BY <2>7 DEF TF!set_herdr_status, b
    <3> QED BY <3>1, <3>2
  <2>8. CASE TF!set_local_speech
    <3> DEFINE t == [b EXCEPT !.speech = TRUE]
    <3>1. t \in Topologies /\ t.revision = Revision + 1
      BY <2>1 DEF Topologies
    <3>2. TF!publish(t)
      BY <2>8 DEF TF!set_local_speech, b
    <3> QED BY <3>1, <3>2
  <2> QED BY <1>3, <2>3, <2>4, <2>5, <2>6, <2>7, <2>8 DEF TF!Actor
<1> QED BY <1>2, <1>3, PublishKeeps

LEMMA ConnectKeeps == FeedInv /\ TF!Connect => FeedInv'
<1> SUFFICES ASSUME FeedInv, TF!Connect PROVE FeedInv'
  OBVIOUS
<1> DEFINE all == TF!full_inventory(topo)
<1>1. /\ fwd.stage = "off" /\ fwd' = [fwd EXCEPT !.stage = "connected", !.snapshot = Revision]
      /\ phone' = TF!By("snapshot", all) /\ UNCHANGED <<topo, ledger, view, slot, outq, late>>
  BY DEF TF!Connect, FeedInv, SlotShows, Revision
<1>2. topo \in Topologies /\ Revision \in Nat \ {0} /\ ledger \in TF!Version /\ fwd \in Forwarders
  BY DEF FeedInv, FeedTypes, Topologies, Revision
<1>3. all \in [TF!Legs -> Values] /\ \A leg \in TF!Legs : TF!Rows(leg, all[leg]) = RowOf(topo, leg)
  BY <1>2, InventoryType, InventoryRows
<1> HIDE DEF all
<1>4. phone' \in [TF!Legs -> Cells]
      /\ \A leg \in TF!Legs : phone'[leg].value = all[leg] /\ phone'[leg].by = "snapshot"
  BY <1>1, <1>3 DEF TF!By, Cells, Paths
<1>5. fwd' \in Forwarders /\ fwd'.snapshot = Revision /\ fwd'.sent = 0 /\ fwd'.gap = FALSE
      /\ fwd'.stage = "connected" /\ fwd'.seen = 0 /\ outq = <<>> /\ late = <<>>
  BY <1>1, <1>2 DEF Forwarders, FeedInv, Marks
<1>6. FeedTypes'
  BY <1>1, <1>4, <1>5 DEF FeedInv, FeedTypes
<1>7. ViewShows' /\ SlotShows' /\ RefreshIsMarked'
  BY <1>1 DEF FeedInv, ViewShows, SlotShows, RefreshIsMarked
<1>8. Marks'
  BY <1>1, <1>2, <1>5 DEF FeedInv, Marks, Revision
<1>9. \A leg \in TF!Legs : Fits(leg, phone[leg])'
  BY <1>1, <1>3, <1>4, <1>5 DEF Fits, Current
<1>10. QueueFits' /\ PhoneFits'
  BY <1>1, <1>5, <1>9 DEF QueueFits, PhoneFits
<1> QED BY <1>6, <1>7, <1>8, <1>10 DEF FeedInv

(* A step that leaves the forwarder's marks, the slot and the paths alone. *)
LEMMA FitsStays ==
  ASSUME UNCHANGED <<topo, slot>>, fwd'.sent = fwd.sent, fwd'.snapshot = fwd.snapshot,
         fwd'.gap = fwd.gap, NEW leg, NEW e, Fits(leg, e)
  PROVE  Fits(leg, e)'
BY DEF Fits, Current, Counts, Mark, Revision

LEMMA StartedKeeps == FeedInv /\ TF!ensure_started => FeedInv'
<1> SUFFICES ASSUME FeedInv, TF!ensure_started PROVE FeedInv'
  OBVIOUS
<1>1. /\ fwd.stage = "connected" /\ fwd' = [fwd EXCEPT !.stage = "running"]
      /\ UNCHANGED <<topo, ledger, view, slot, outq, late, phone>>
  BY DEF TF!ensure_started
<1>2. fwd \in Forwarders
  BY DEF FeedInv, FeedTypes
<1>3. fwd' \in Forwarders /\ fwd'.sent = fwd.sent /\ fwd'.snapshot = fwd.snapshot
      /\ fwd'.gap = fwd.gap /\ fwd'.seen = fwd.seen /\ fwd'.stage = "running"
  BY <1>1, <1>2 DEF Forwarders
<1>4. FeedTypes'
  BY <1>1, <1>3 DEF FeedInv, FeedTypes
<1>5. ViewShows' /\ SlotShows' /\ RefreshIsMarked' /\ Marks'
  BY <1>1, <1>3 DEF FeedInv, ViewShows, SlotShows, RefreshIsMarked, Marks, Revision
<1>6. QueueFits' /\ PhoneFits'
  BY <1>1, <1>3, FitsStays DEF FeedInv, QueueFits, PhoneFits, Connected, Latest
<1> QED BY <1>4, <1>5, <1>6 DEF FeedInv

(* The forwarder sends the revision of the slot: every leg it does not send   *)
(* is up to date already, or does not count.                                 *)
LEMMA SentCatchesUp ==
  ASSUME FeedInv, fwd.stage = "running", fwd.seen # Revision, TF!Sent(Revision),
         UNCHANGED <<topo, slot>>
  PROVE  /\ fwd' \in Forwarders /\ fwd'.sent = Revision /\ fwd'.seen = Revision
         /\ fwd'.snapshot = fwd.snapshot /\ fwd'.stage = "running"
         /\ \A leg \in TF!Legs \ DOMAIN TF!Wanted : \A e : Fits(leg, e) => Fits(leg, e)'
         /\ \A leg \in TF!Legs : \A e : Current(leg, e) => Fits(leg, e)'
<1>1. fwd' = [fwd EXCEPT !.seen = Revision, !.sent = Revision,
                !.gap = @ \/ (fwd.sent = 0 /\ Revision > fwd.snapshot + 1)]
  BY DEF TF!Sent, TF!NoRevision
<1>2. fwd \in Forwarders /\ Revision \in Nat \ {0}
  BY DEF FeedInv, FeedTypes, Topologies, Revision
<1>3. /\ fwd' \in Forwarders /\ fwd'.sent = Revision /\ fwd'.seen = Revision
      /\ fwd'.snapshot = fwd.snapshot /\ fwd'.stage = "running"
      /\ fwd'.gap = (fwd.gap \/ (fwd.sent = 0 /\ Revision > fwd.snapshot + 1))
  BY <1>1, <1>2 DEF Forwarders
<1>4. Revision' = Revision /\ Mark' = Revision
  BY <1>2, <1>3 DEF Mark, Revision
<1>5. \A leg \in TF!Legs : \A e : Current(leg, e) => Fits(leg, e)'
  BY <1>2, <1>3, <1>4 DEF Fits, Current
<1>6. ASSUME NEW leg \in TF!Legs \ DOMAIN TF!Wanted, NEW e, Fits(leg, e), Counts(e, fwd'.gap)
      PROVE  Current(leg, e)
  <2>1. /\ fwd.sent \in Nat /\ fwd.snapshot \in Nat /\ fwd.gap \in BOOLEAN
        /\ fwd.sent < Revision /\ fwd.snapshot <= Revision
    BY <1>2 DEF Forwarders, FeedInv, Marks
  <2>2. Counts(e, fwd.gap)
    BY <1>3, <1>6, <2>1 DEF Counts
  <2>3. /\ Revision = Mark => Current(leg, e)
        /\ Revision = Mark + 1 /\ leg \notin DOMAIN slot.frames => Current(leg, e)
        /\ fwd.sent = 0 => e.by # "forward"
    BY <1>6, <2>2 DEF Fits
  <2>4. /\ fwd.sent # 0 /\ Revision > fwd.sent + 1 => DOMAIN TF!Wanted = TF!Legs
        /\ ~(fwd.sent # 0 /\ Revision > fwd.sent + 1) => DOMAIN TF!Wanted = DOMAIN slot.frames
    BY WantedRows DEF FeedInv
  <2>5. CASE fwd.sent # 0
    <3>1. Mark = fwd.sent /\ Revision = Mark + 1
      BY <1>2, <1>6, <2>1, <2>4, <2>5 DEF Mark
    <3> QED BY <1>2, <1>6, <2>1, <2>3, <2>4, <2>5, <3>1
  <2>6. CASE fwd.sent = 0
    <3>1. Mark = fwd.snapshot /\ leg \notin DOMAIN slot.frames
      BY <1>6, <2>4, <2>6 DEF Mark
    <3>2. ~(Revision > fwd.snapshot + 1)
      BY <1>3, <1>6, <2>3, <2>6 DEF Counts
    <3>3. Revision = Mark \/ Revision = Mark + 1
      BY <1>2, <2>1, <3>1, <3>2
    <3> QED BY <2>3, <3>1, <3>3
  <2> QED BY <2>5, <2>6
<1>7. ASSUME NEW leg \in TF!Legs \ DOMAIN TF!Wanted, NEW e, Fits(leg, e)
      PROVE  Fits(leg, e)'
  <2>1. CASE Counts(e, fwd'.gap)
    BY <1>5, <1>6, <1>7, <2>1
  <2>2. CASE ~Counts(e, fwd'.gap)
    BY <2>2 DEF Fits, Counts
  <2> QED BY <2>1, <2>2
<1> QED BY <1>3, <1>5, <1>7

LEMMA ForwardKeeps == FeedInv /\ TF!Forward => FeedInv'
<1> SUFFICES ASSUME FeedInv, TF!Forward PROVE FeedInv'
  OBVIOUS
<1> DEFINE w == TF!Wanted
           b == TF!By("forward", w)
<1>1. /\ fwd.stage = "running" /\ fwd.seen # Revision
      /\ UNCHANGED <<topo, ledger, view, slot, late, phone>>
  BY DEF TF!Forward, FeedInv, SlotShows, Revision
<1>2. fwd \in Forwarders /\ outq \in Seq(Batch) /\ Revision \in Nat \ {0} /\ phone \in [TF!Legs -> Cells]
  BY <1>1 DEF FeedInv, FeedTypes, Topologies, Revision
<1>3. w \in Frames /\ \A leg \in DOMAIN w : TF!Rows(leg, w[leg]) = RowOf(topo, leg)
  BY WantedRows DEF FeedInv
<1>4. b \in Batch /\ DOMAIN b = DOMAIN w
      /\ \A leg \in DOMAIN w : b[leg].value = w[leg] /\ b[leg].by = "forward"
  BY <1>3, ByBatch DEF Paths
<1>5. CASE fwd' = [fwd EXCEPT !.stage = "ended"]
  <2>1. outq' \in Seq(Batch)
    <3>1. CASE outq' = outq
      BY <1>2, <3>1
    <3>2. ASSUME NEW n, outq' = Append(outq, TF!By("forward", TF!Prefix(w, n)))
          PROVE  outq' \in Seq(Batch)
      <4>1. TF!By("forward", TF!Prefix(w, n)) \in Batch
        BY <1>3, PrefixBatch, ByBatch DEF Paths
      <4> QED BY <1>2, <3>2, <4>1
    <3>3. CASE outq' = Append(outq, b)
      BY <1>2, <1>4, <3>3
    <3> QED BY <3>1, <3>2, <3>3 DEF TF!Forward
  <2>2. fwd' \in Forwarders /\ fwd'.stage = "ended" /\ fwd'.sent = fwd.sent /\ fwd'.seen = fwd.seen
        /\ fwd'.snapshot = fwd.snapshot /\ fwd'.gap = fwd.gap
    BY <1>2, <1>5 DEF Forwarders
  <2>3. FeedTypes'
    BY <1>1, <2>1, <2>2 DEF FeedInv, FeedTypes
  <2>4. ViewShows' /\ SlotShows' /\ RefreshIsMarked' /\ Marks'
    BY <1>1, <2>2 DEF FeedInv, ViewShows, SlotShows, RefreshIsMarked, Marks, Revision
  <2>5. QueueFits' /\ PhoneFits'
    BY <2>2 DEF QueueFits, PhoneFits, Connected
  <2> QED BY <2>3, <2>4, <2>5 DEF FeedInv
<1>6. CASE /\ TF!Sent(Revision)
           /\ outq' = IF DOMAIN w = {} THEN outq ELSE Append(outq, b)
  <2>1. /\ fwd' \in Forwarders /\ fwd'.sent = Revision /\ fwd'.seen = Revision
        /\ fwd'.snapshot = fwd.snapshot /\ fwd'.stage = "running"
        /\ \A leg \in TF!Legs \ DOMAIN w : \A e : Fits(leg, e) => Fits(leg, e)'
        /\ \A leg \in TF!Legs : \A e : Current(leg, e) => Fits(leg, e)'
    BY <1>1, <1>6, SentCatchesUp
  <2>2. Connected
    BY <1>1 DEF Connected
  <2>3. outq' \in Seq(Batch)
    BY <1>2, <1>4, <1>6
  <2>4. FeedTypes'
    BY <1>1, <2>1, <2>3 DEF FeedInv, FeedTypes
  <2>5. ViewShows' /\ SlotShows' /\ RefreshIsMarked'
    BY <1>1 DEF FeedInv, ViewShows, SlotShows, RefreshIsMarked
  <2>6. Marks'
    BY <1>1, <1>2, <2>1 DEF FeedInv, Marks, Revision
  <2>7. CASE DOMAIN w = {}
    <3>1. outq' = outq
      BY <1>6, <2>7
    <3>2. \A leg \in TF!Legs : \A e : Fits(leg, e) => Fits(leg, e)'
      BY <2>1, <2>7
    <3>3. QueueFits' /\ PhoneFits'
      BY <1>1, <2>2, <3>1, <3>2 DEF FeedInv, QueueFits, PhoneFits, Latest
    <3> QED BY <2>4, <2>5, <2>6, <3>3 DEF FeedInv
  <2>8. CASE DOMAIN w # {}
    <3>1. outq' = Append(outq, b)
      BY <1>6, <2>8
    <3> HIDE DEF b, w
    <3>2. ASSUME NEW leg \in TF!Legs, Latest(leg, outq', 0)
          PROVE  Fits(leg, phone[leg])'
      <4>a. 0 \in 0 .. Len(outq)
        BY <1>2
      <4>1. Latest(leg, outq, 0) /\ leg \notin DOMAIN b
        BY <1>2, <1>4, <3>1, <3>2, <4>a, AppendLatest
      <4>2. Fits(leg, phone[leg])
        BY <2>2, <4>1 DEF FeedInv, PhoneFits
      <4>3. \A e : Fits(leg, e) => Fits(leg, e)'
        BY <1>4, <2>1, <4>1
      <4> QED BY <1>1, <4>2, <4>3
    <3>3. ASSUME NEW leg \in TF!Legs, NEW i \in 1 .. Len(outq'), leg \in DOMAIN outq'[i],
                 Latest(leg, outq', i)
          PROVE  Fits(leg, outq[i][leg])'
      <4>1. Len(outq') = Len(outq) + 1 /\ Len(outq) \in Nat /\ outq'[Len(outq) + 1] = b
            /\ \A k \in 1 .. Len(outq) : outq'[k] = outq[k]
        BY <1>2, <1>4, <3>1, AppendLatest
      <4>2. CASE i = Len(outq) + 1
        <5>1. outq'[i] = b /\ leg \in DOMAIN w
          BY <1>4, <3>3, <4>1, <4>2
        <5>2. Current(leg, b[leg])
          BY <1>3, <1>4, <5>1 DEF Current
        <5>3. \A e : Current(leg, e) => Fits(leg, e)'
          BY <2>1
        <5> QED BY <2>1, <5>1, <5>2, <5>3
      <4>3. CASE i # Len(outq) + 1
        <5>1. i \in 1 .. Len(outq) /\ i \in 0 .. Len(outq) /\ outq'[i] = outq[i]
          BY <3>3, <4>1, <4>3
        <5>2. Latest(leg, outq, i) /\ leg \notin DOMAIN b
          BY <1>2, <1>4, <3>1, <3>3, <5>1, AppendLatest
        <5>3. Fits(leg, outq[i][leg])
          BY <2>2, <3>3, <5>1, <5>2 DEF FeedInv, QueueFits
        <5>4. \A e : Fits(leg, e) => Fits(leg, e)'
          BY <1>4, <2>1, <5>2
        <5> QED BY <5>1, <5>3, <5>4
      <4> QED BY <4>2, <4>3
    <3>4. PhoneFits'
      BY <3>2 DEF PhoneFits, Latest
    <3>5. QueueFits'
      BY <3>3 DEF QueueFits, Latest
    <3> QED BY <2>4, <2>5, <2>6, <3>4, <3>5 DEF FeedInv
  <2> QED BY <2>7, <2>8
<1>7. TF!Sent(slot.topology.revision) => TF!Sent(Revision)
  BY DEF FeedInv, SlotShows, Revision
<1> QED BY <1>5, <1>6, <1>7 DEF TF!Forward

LEMMA RefreshKeeps == FeedInv /\ TF!RefreshAdmitted => FeedInv'
<1> SUFFICES ASSUME FeedInv, TF!RefreshAdmitted PROVE FeedInv'
  OBVIOUS
<1> DEFINE c == TF!committed_inventory(topo)
           b == TF!By("refresh", c)
<1>1. /\ fwd.stage \in {"running", "ended"} /\ late' = <<b>>
      /\ UNCHANGED <<topo, ledger, view, slot, fwd, outq, phone>>
  BY DEF TF!RefreshAdmitted, FeedInv, SlotShows
<1>2. topo \in Topologies /\ ledger \in TF!Version
  BY DEF FeedInv, FeedTypes
<1>3. c \in Frames
  <2>1. TF!full_inventory(topo) \in [TF!Legs -> Values]
    BY <1>2, InventoryType
  <2>2. c \in [{"inventory", "agents", "workspaces"} -> Values]
    BY <2>1, LegsAre DEF TF!committed_inventory
  <2> QED BY <2>2, LegsAre, FramesType
<1>4. b \in Batch /\ \A leg \in DOMAIN b : b[leg].by = "refresh"
  BY <1>3, ByBatch DEF Paths
<1> HIDE DEF b
<1>5. late' \in Seq(Batch) /\ Len(late') = 1 /\ late'[1] = b
  BY <1>1, <1>4
<1>6. FeedTypes'
  BY <1>1, <1>5 DEF FeedInv, FeedTypes
<1>7. RefreshIsMarked'
  BY <1>4, <1>5 DEF RefreshIsMarked
<1>8. ViewShows' /\ SlotShows' /\ Marks'
  BY <1>1 DEF FeedInv, ViewShows, SlotShows, Marks, Revision
<1>9. QueueFits' /\ PhoneFits'
  BY <1>1, FitsStays DEF FeedInv, QueueFits, PhoneFits, Connected, Latest
<1> QED BY <1>6, <1>7, <1>8, <1>9 DEF FeedInv

(* An answer to a refresh does not count, and hides what it replaces. *)
LEMMA LaterKeeps == FeedInv /\ TF!push_later => FeedInv'
<1> SUFFICES ASSUME FeedInv, TF!push_later PROVE FeedInv'
  OBVIOUS
<1> DEFINE b == Head(late)
<1>1. /\ late # <<>> /\ late' = <<>> /\ UNCHANGED <<topo, ledger, view, slot, fwd, phone>>
      /\ outq' = outq \/ outq' = Append(outq, b)
  BY DEF TF!push_later
<1>2. late \in Seq(Batch) /\ outq \in Seq(Batch) /\ Len(outq) \in Nat
  BY DEF FeedInv, FeedTypes
<1>3. b \in Batch /\ b = late[1] /\ 1 \in 1 .. Len(late)
  BY <1>1, <1>2
<1>4. \A leg \in DOMAIN b : b[leg].by = "refresh"
  BY <1>3 DEF FeedInv, RefreshIsMarked
<1>5. fwd.stage \notin {"off", "connected"}
  BY <1>1 DEF FeedInv, Marks
<1> HIDE DEF b
<1>6. FeedTypes'
  <2>1. outq' \in Seq(Batch) /\ late' \in Seq(Batch)
    BY <1>1, <1>2, <1>3
  <2> QED BY <1>1, <2>1 DEF FeedInv, FeedTypes
<1>7. ViewShows' /\ SlotShows' /\ Marks' /\ RefreshIsMarked'
  BY <1>1, <1>5 DEF FeedInv, ViewShows, SlotShows, Marks, RefreshIsMarked, Revision
<1>8. \A leg, e : Fits(leg, e) => Fits(leg, e)'
  BY <1>1, FitsStays
<1>9. CASE outq' = outq
  BY <1>1, <1>6, <1>7, <1>8, <1>9 DEF FeedInv, QueueFits, PhoneFits, Connected, Latest
<1>10. CASE outq' = Append(outq, b)
  <2>1. Connected' <=> Connected
    BY <1>1 DEF Connected
  <2>2. ASSUME NEW leg \in TF!Legs, Connected, Latest(leg, outq', 0)
        PROVE  Fits(leg, phone[leg])'
    <3>1. 0 \in 0 .. Len(outq)
      BY <1>2
    <3>2. Latest(leg, outq, 0)
      BY <1>2, <1>3, <1>10, <2>2, <3>1, AppendLatest
    <3>3. Fits(leg, phone[leg])
      BY <2>2, <3>2 DEF FeedInv, PhoneFits
    <3> QED BY <1>1, <1>8, <3>3
  <2>3. ASSUME NEW leg \in TF!Legs, Connected, NEW i \in 1 .. Len(outq'), leg \in DOMAIN outq'[i],
               Latest(leg, outq', i)
        PROVE  Fits(leg, outq[i][leg])'
    <3>1. Len(outq') = Len(outq) + 1 /\ outq'[Len(outq) + 1] = b
          /\ \A k \in 1 .. Len(outq) : outq'[k] = outq[k]
      BY <1>2, <1>3, <1>10, AppendLatest
    <3>2. CASE i = Len(outq) + 1
      <4>1. outq'[i] = b /\ outq'[i][leg].by = "refresh"
        BY <1>4, <2>3, <3>1, <3>2
      <4> QED BY <4>1 DEF Fits, Counts
    <3>3. CASE i # Len(outq) + 1
      <4>1. i \in 1 .. Len(outq) /\ i \in 0 .. Len(outq) /\ outq'[i] = outq[i]
        BY <1>2, <2>3, <3>1, <3>3
      <4>2. Latest(leg, outq, i)
        BY <1>2, <1>3, <1>10, <2>3, <4>1, AppendLatest
      <4>3. Fits(leg, outq[i][leg])
        BY <2>3, <4>1, <4>2 DEF FeedInv, QueueFits
      <4> QED BY <1>8, <4>1, <4>3
    <3> QED BY <3>2, <3>3
  <2>4. PhoneFits'
    BY <2>1, <2>2 DEF PhoneFits, Latest
  <2>5. QueueFits'
    BY <2>1, <2>3 DEF QueueFits, Latest
  <2> QED BY <1>6, <1>7, <2>4, <2>5 DEF FeedInv
<1> QED BY <1>1, <1>9, <1>10

LEMMA DeliverKeeps == FeedInv /\ TF!Deliver => FeedInv'
<1> SUFFICES ASSUME FeedInv, TF!Deliver PROVE FeedInv'
  OBVIOUS
<1> DEFINE b == Head(outq)
<1>1. /\ outq # <<>> /\ outq' = Tail(outq) /\ phone' = TF!Over(phone, b)
      /\ UNCHANGED <<topo, ledger, view, slot, fwd, late>>
  BY DEF TF!Deliver
<1>2. outq \in Seq(Batch) /\ Len(outq) \in Nat
  BY DEF FeedInv, FeedTypes
<1>3. /\ outq' \in Seq(Batch) /\ b \in Batch /\ b = outq[1] /\ Len(outq) \in Nat \ {0}
      /\ Len(outq') = Len(outq) - 1
      /\ \A i \in 1 .. Len(outq') : outq'[i] = outq[i + 1]
  BY <1>1, <1>2, TailLatest
<1>4. fwd.stage \notin {"off", "connected"}
  BY <1>1 DEF FeedInv, Marks
<1> HIDE DEF b
<1>5. FeedTypes'
  <2>1. fwd.stage # "gone" => phone' \in [TF!Legs -> Cells]
    BY <1>1, <1>3, <1>4, OverBatch DEF FeedInv, FeedTypes
  <2> QED BY <1>1, <1>3, <1>4, <2>1 DEF FeedInv, FeedTypes
<1>6. ViewShows' /\ SlotShows' /\ Marks' /\ RefreshIsMarked'
  BY <1>1, <1>4 DEF FeedInv, ViewShows, SlotShows, Marks, RefreshIsMarked, Revision
<1>7. \A leg, e : Fits(leg, e) => Fits(leg, e)'
  BY <1>1, FitsStays
<1>8. Connected' <=> Connected
  BY <1>1 DEF Connected
<1>9. ASSUME NEW leg \in TF!Legs, Connected, Latest(leg, outq', 0)
      PROVE  Fits(leg, phone[leg])'
  <2>1. phone \in [TF!Legs -> Cells]
    BY <1>9 DEF FeedInv, FeedTypes, Connected
  <2>2. phone'[leg] = IF leg \in DOMAIN b THEN b[leg] ELSE phone[leg]
    BY <1>1, <1>3, <2>1, OverBatch
  <2>3. 0 \in 0 .. Len(outq) - 1 /\ 0 + 1 = 1
    BY <1>3
  <2>4. Latest(leg, outq, 1)
    BY <1>1, <1>2, <1>9, <2>3, TailLatest
  <2>5. CASE leg \in DOMAIN b
    <3>1. Fits(leg, b[leg])
      BY <1>3, <1>9, <2>4, <2>5 DEF FeedInv, QueueFits
    <3> QED BY <1>7, <2>2, <2>5, <3>1
  <2>6. CASE leg \notin DOMAIN b
    <3>1. Latest(leg, outq, 0)
      BY <1>3, <2>4, <2>6 DEF Latest
    <3>2. Fits(leg, phone[leg])
      BY <1>9, <3>1 DEF FeedInv, PhoneFits
    <3> QED BY <1>7, <2>2, <2>6, <3>2
  <2> QED BY <2>5, <2>6
<1>10. ASSUME NEW leg \in TF!Legs, Connected, NEW i \in 1 .. Len(outq'), leg \in DOMAIN outq'[i],
              Latest(leg, outq', i)
       PROVE  Fits(leg, outq[i][leg])'
  <2>1. i \in 0 .. Len(outq) - 1 /\ i + 1 \in 1 .. Len(outq) /\ outq'[i] = outq[i + 1]
    BY <1>3, <1>10
  <2>2. Latest(leg, outq, i + 1)
    BY <1>1, <1>2, <1>10, <2>1, TailLatest
  <2>3. Fits(leg, outq[i + 1][leg])
    BY <1>10, <2>1, <2>2 DEF FeedInv, QueueFits
  <2> QED BY <1>7, <2>1, <2>3
<1>11. PhoneFits'
  BY <1>8, <1>9 DEF PhoneFits, Latest
<1>12. QueueFits'
  BY <1>8, <1>10 DEF QueueFits, Latest
<1> QED BY <1>5, <1>6, <1>11, <1>12 DEF FeedInv

LEMMA DisconnectKeeps == FeedInv /\ TF!Disconnect => FeedInv'
<1> SUFFICES ASSUME FeedInv, TF!Disconnect PROVE FeedInv'
  OBVIOUS
<1>1. /\ fwd' = [fwd EXCEPT !.stage = "gone"] /\ outq' = <<>> /\ late' = <<>>
      /\ UNCHANGED <<topo, ledger, view, slot>>
  BY DEF TF!Disconnect
<1>2. fwd \in Forwarders
  BY DEF FeedInv, FeedTypes
<1>3. fwd' \in Forwarders /\ fwd'.stage = "gone" /\ fwd'.sent = fwd.sent /\ fwd'.seen = fwd.seen
      /\ fwd'.snapshot = fwd.snapshot /\ fwd'.gap = fwd.gap
  BY <1>1, <1>2 DEF Forwarders
<1>4. FeedTypes'
  BY <1>1, <1>3 DEF FeedInv, FeedTypes
<1>5. ViewShows' /\ SlotShows' /\ Marks' /\ RefreshIsMarked'
  BY <1>1, <1>3 DEF FeedInv, ViewShows, SlotShows, Marks, RefreshIsMarked, Revision
<1>6. QueueFits' /\ PhoneFits'
  BY <1>3 DEF QueueFits, PhoneFits, Connected
<1> QED BY <1>4, <1>5, <1>6 DEF FeedInv

LEMMA StartsFed == TF!Init => FeedInv
<1> SUFFICES ASSUME TF!Init PROVE FeedInv
  OBVIOUS
<1> DEFINE t == TF!Started
           f == slot.frames
<1>1. /\ topo = t /\ ledger = 0 /\ view = TF!full_inventory(t) /\ slot.topology = t
      /\ f = [leg \in TF!Legs \ {"caps"} |-> TF!full_inventory(t)[leg]]
      /\ slot = [topology |-> t, frames |-> f]
      /\ outq = <<>> /\ late = <<>>
  BY DEF TF!Init
<1>2. fwd = [stage |-> "off", snapshot |-> 0, sent |-> 0, seen |-> 0, gap |-> FALSE]
  BY DEF TF!Init, TF!NoRevision
<1>3. t \in Topologies /\ ledger \in TF!Version /\ t.revision = 1
  BY <1>1 DEF TF!Started, Topologies, TF!Version
<1> HIDE DEF t, f
<1>4. f \in Frames
  <2>1. TF!full_inventory(t) \in [TF!Legs -> Values]
    BY <1>3, InventoryType
  <2>2. DOMAIN f = TF!Legs \ {"caps"} /\ f \in [TF!Legs \ {"caps"} -> Values]
    BY <1>1, <2>1
  <2> QED BY <2>2, FramesType
<1>5. FeedTypes
  BY <1>1, <1>2, <1>3, <1>4 DEF FeedTypes, Forwarders
<1>6. ViewShows
  BY <1>1, InventoryRows DEF ViewShows
<1>7. SlotShows
  BY <1>1, InventoryRows DEF SlotShows, f
<1>8. Marks /\ RefreshIsMarked
  BY <1>1, <1>2, <1>3 DEF Marks, RefreshIsMarked, Revision
<1>9. QueueFits /\ PhoneFits
  BY <1>2 DEF QueueFits, PhoneFits, Connected
<1> QED BY <1>5, <1>6, <1>7, <1>8, <1>9 DEF FeedInv

(* Once a connection is settled, every leg that its forwarder delivered, and  *)
(* every leg of its snapshot when no revision passed between the two, shows  *)
(* the published contents, however many revisions the watch slot coalesced.  *)
THEOREM ForwardedAlwaysCurrent == TF!Spec => []ForwardedIsCurrent
<1>1. TF!Init => FeedInv
  BY StartsFed
<1>2. FeedInv /\ [TF!Next]_TF!feedVars => FeedInv'
  <2> SUFFICES ASSUME FeedInv, [TF!Next]_TF!feedVars PROVE FeedInv'
    OBVIOUS
  <2>1. CASE UNCHANGED TF!feedVars
    <3>1. UNCHANGED <<topo, ledger, view, slot, fwd, outq, late, phone>>
      BY <2>1 DEF TF!feedVars
    <3> QED BY <3>1 DEF FeedInv, FeedTypes, ViewShows, SlotShows, Marks, RefreshIsMarked, QueueFits,
                        PhoneFits, Connected, Latest, Fits, Current, Counts, Mark, Revision
  <2>2. CASE TF!Next
    <3> QED BY <2>2, ActorKeeps, ConnectKeeps, StartedKeeps, ForwardKeeps, RefreshKeeps, LaterKeeps,
               DeliverKeeps, DisconnectKeeps DEF TF!Next
  <2> QED BY <2>1, <2>2
<1>3. FeedInv => ForwardedIsCurrent
  <2> SUFFICES ASSUME FeedInv, TF!Settled, NEW leg \in TF!Legs,
                      phone[leg].by = "forward" \/ (phone[leg].by = "snapshot" /\ ~fwd.gap)
               PROVE  TF!Rows(leg, phone[leg].value)
                        = TF!Rows(leg, TF!full_inventory(slot.topology)[leg])
    BY DEF ForwardedIsCurrent, TF!ForwardedIsCurrent
  <2>1. fwd.stage = "running" /\ fwd.seen = Revision /\ outq = <<>> /\ fwd \in Forwarders
    BY DEF TF!Settled, FeedInv, FeedTypes, SlotShows, Revision
  <2>2. Latest(leg, outq, 0) /\ Connected
    BY <2>1 DEF Latest, Connected
  <2>3. Fits(leg, phone[leg])
    BY <2>2 DEF FeedInv, PhoneFits
  <2>4. Revision \in Nat \ {0} /\ Mark = Revision
    BY <2>1 DEF FeedInv, FeedTypes, Topologies, Marks, Mark, Revision
  <2>5. Counts(phone[leg], fwd.gap)
    BY <2>1 DEF Counts, Forwarders
  <2>6. Current(leg, phone[leg])
    BY <2>3, <2>4, <2>5 DEF Fits
  <2> QED BY <2>6, InventoryRows DEF Current, FeedInv, SlotShows
<1> QED BY <1>1, <1>2, <1>3, PTL DEF TF!Spec

-----------------------------------------------------------------------------
(* Attention: types *)

Phases == Statuses \cup {"none"}
Faces == Readings \cup {"none", "unknown"}
Cycles == [screen : Faces, event : Nat]
Armings == [by : {"none", "chat", "turn"}, at : Nat, gen : Nat]
AtCells ==
  [blocked : Cycles, state_rev : Nat, content_rev : Nat, attention_rev : Nat,
   completion_rev : Nat, armed : Armings, prev_status : Phases, finished_notif : BOOLEAN]
AtRows ==
  [live : BOOLEAN, status : Phases, term : Terminals \cup {0}, gen : Nat, rev : Nat,
   accepted : BOOLEAN]
AtTurns == [status : Phases, rev : Nat \ {0}]
AtStages == {"start", "read", "chat", "journal", "push", "capture", "finish"}
AtTasks ==
  [status : Phases, rev : Nat \ {0}, at : AtStages, event : Nat, gen : Nat, content_rev : Nat,
   attention_rev : Nat, screen : Faces, term : Terminals \cup {0}]

ActorTypes == act \in AtRows /\ pub \in AtRows /\ cell \in AtCells
QueueTypes == dirty \in Seq(Seq(AtTurns)) /\ inbox \in Seq(AtTurns) /\ tasks \subseteq AtTasks
ToldTypes == claims \in Seq(Nat \X Nat \X Armings) /\ timeouts \in Nat

-----------------------------------------------------------------------------
(* Attention: the invariant *)

(* The cell is the actor's; what is published is, but for an open commit. *)
RowsAgree ==
  /\ act.live => cell.prev_status = act.status /\ cell.state_rev # 0
  /\ ~act.live => cell = AT!DefaultCell
  /\ dirty = <<>> => pub = act

(* A cell holds a cycle while its agent is blocked, and in attention a        *)
(* completion only for a screen that reads as chat.                          *)
Sound(c) ==
  /\ c.prev_status # "blocked" => c.blocked = AT!NoBlocked
  /\ c.prev_status = "blocked" => c.blocked.event # 0
  /\ AT!is_attention_status(c.prev_status) /\ AT!Kind(c.blocked.screen) # "chat" =>
       c.completion_rev = 0 /\ ~c.finished_notif
  /\ AT!is_attention_status(c.prev_status) /\ c.armed.by = "turn" => c.completion_rev = 0

ReadsHaveCycle == \A t \in tasks : t.at = "read" => t.event # 0

(* An arming is told from later ones by the contents it met, within a session. *)
Earlier(a) == a.gen < act.gen \/ (a.gen = act.gen /\ a.at <= cell.content_rev)
ClaimsDiffer ==
  /\ \A i \in 1 .. Len(claims) : Earlier(claims[i][3])
  /\ cell.completion_rev # 0 => Earlier(cell.armed)
  /\ cell.completion_rev # 0 /\ ~cell.finished_notif =>
       \A i \in 1 .. Len(claims) : claims[i][3] # cell.armed
  /\ \A i, j \in 1 .. Len(claims) : claims[i][3] = claims[j][3] => i = j

(* A completion armed by a turn is still to be published, or it is published  *)
(* and told, or a transition is on its way that will tell it.                *)
Announces(tr) == tr.rev = cell.completion_rev /\ ~AT!is_attention_status(tr.status)
Unpublished ==
  /\ Len(dirty) = 1 /\ Len(dirty[1]) = 1 /\ Announces(dirty[1][1])
  /\ ~cell.finished_notif /\ AT!is_attention_status(pub.status)
Waiting ==
  \/ \E i \in 1 .. Len(inbox) : Announces(inbox[i])
  \/ \E t \in tasks : t.at = "start" /\ Announces(t)
Capturing ==
  \E t \in tasks : /\ t.at = "capture" /\ t.rev = cell.completion_rev
                   /\ t.status = "blocked" \/ t.term = pub.term
Heard == cell.completion_rev \in told \/ timeouts > 0
Pending == Heard \/ (~cell.finished_notif /\ Waiting) \/ Capturing
Published == pub.live /\ ~AT!is_attention_status(pub.status) /\ pub.term = act.term
TurnIsTold ==
  AT!Armed("turn") =>
    /\ act.live /\ ~AT!is_attention_status(act.status) /\ cell.blocked = AT!NoBlocked
    /\ Unpublished \/ (Published /\ Pending)

AttentionInv ==
  /\ ActorTypes /\ QueueTypes /\ ToldTypes
  /\ Len(dirty) <= 1
  /\ RowsAgree /\ Sound(cell) /\ ReadsHaveCycle
  /\ ClaimsDiffer /\ TurnIsTold

-----------------------------------------------------------------------------
(* Attention: the cell *)

LEMMA CellFields ==
  ASSUME NEW c
  PROVE  c \in AtCells <=>
           /\ c = [blocked |-> c.blocked, state_rev |-> c.state_rev, content_rev |-> c.content_rev,
                   attention_rev |-> c.attention_rev, completion_rev |-> c.completion_rev,
                   armed |-> c.armed, prev_status |-> c.prev_status,
                   finished_notif |-> c.finished_notif]
           /\ c.blocked \in Cycles /\ c.state_rev \in Nat /\ c.content_rev \in Nat
           /\ c.attention_rev \in Nat /\ c.completion_rev \in Nat /\ c.armed \in Armings
           /\ c.prev_status \in Phases /\ c.finished_notif \in BOOLEAN
BY DEF AtCells

(* What a commit leaves of a completion: none, the one there was, or a fresh *)
(* one with contents of its own.                                             *)
Kept(p, r) ==
  r.completion_rev = p.completion_rev /\ r.armed = p.armed /\ r.finished_notif = p.finished_notif
Fresh(p, r) == /\ r.armed = AT!ArmedBy(r.armed.by, r.content_rev) /\ r.armed.by \in {"chat", "turn"}
               /\ ~r.finished_notif /\ p.content_rev < r.content_rev
Turned(p, status, rev, r) ==
  r.armed.by = "turn" =>
    r.completion_rev = rev /\ AT!Completes(p.prev_status, status, AT!Kind(p.blocked.screen))

LEMMA CommittedCell ==
  ASSUME NEW p \in AtCells, NEW c \in AtCells, NEW status \in Phases, NEW touched \in BOOLEAN,
         NEW rev \in Nat \ {0}, act \in AtRows, Sound(p),
         c = [p EXCEPT !.blocked = c.blocked],
         status # "blocked" => c.blocked = AT!NoBlocked,
         status = "blocked" => c.blocked.event # 0,
         AT!is_attention_status(p.prev_status) /\ status # p.prev_status => touched
  PROVE  LET r == AT!Committed(p, c, status, touched, rev) IN
         /\ r \in AtCells /\ r.prev_status = status /\ r.blocked = c.blocked /\ r.state_rev = rev
         /\ p.content_rev <= r.content_rev
         /\ Sound(r)
         /\ r.completion_rev = 0 \/ Kept(p, r) \/ (Fresh(p, r) /\ Turned(p, status, rev, r))
<1> DEFINE moved == c.blocked # p.blocked
           previous == AT!Kind(p.blocked.screen)
           s == [c EXCEPT !.content_rev = IF touched \/ moved THEN @ + 1 ELSE @,
                          !.attention_rev = IF moved THEN @ + 1 ELSE @,
                          !.state_rev = rev, !.prev_status = status]
           a == AT!register_transition(s, p.prev_status, status, previous, rev)
           r == AT!Committed(p, c, status, touched, rev)
<1>1. /\ c.content_rev = p.content_rev /\ c.completion_rev = p.completion_rev
      /\ c.armed = p.armed /\ c.finished_notif = p.finished_notif
  BY DEF AtCells
<1>2. /\ s \in AtCells /\ s.blocked = c.blocked /\ s.prev_status = status /\ s.state_rev = rev
      /\ s.content_rev = IF touched \/ moved THEN p.content_rev + 1 ELSE p.content_rev
      /\ Kept(p, s)
  <2>1. /\ (IF touched \/ moved THEN c.content_rev + 1 ELSE c.content_rev) \in Nat
        /\ (IF moved THEN c.attention_rev + 1 ELSE c.attention_rev) \in Nat
    BY DEF AtCells
  <2> HIDE DEF moved
  <2>2. s \in AtCells
    BY <2>1 DEF AtCells
  <2>3. /\ s.blocked = c.blocked /\ s.prev_status = status /\ s.state_rev = rev
        /\ s.content_rev = IF touched \/ moved THEN c.content_rev + 1 ELSE c.content_rev
        /\ Kept(c, s)
    BY DEF AtCells, Kept
  <2> QED BY <1>1, <2>2, <2>3 DEF Kept
<1> HIDE DEF s
<1>3. r = IF AT!preserves_chat_completion(p.prev_status, status, previous) THEN a
          ELSE AT!sync_attention_completion(a, previous, rev)
  BY DEF AT!Committed, s, a
<1> HIDE DEF r
<1>q. /\ AT!ArmedBy("turn", s.content_rev) \in Armings
      /\ AT!ArmedBy("chat", s.content_rev) \in Armings /\ AT!NotArmed \in Armings
  BY <1>2 DEF AT!ArmedBy, AT!NotArmed, Armings, AtCells, AtRows
<1>4. /\ a \in AtCells /\ a.blocked = s.blocked /\ a.prev_status = status
      /\ a.content_rev = s.content_rev /\ a.state_rev = rev
      /\ \/ /\ AT!is_attention_status(status) /\ p.prev_status # status
            /\ a.completion_rev = 0 /\ ~a.finished_notif
         \/ /\ ~AT!is_attention_status(status) /\ AT!Completes(p.prev_status, status, previous)
            /\ a.completion_rev = rev /\ a.armed = AT!ArmedBy("turn", s.content_rev)
            /\ a.finished_notif = s.finished_notif
         \/ /\ Kept(s, a) /\ ~(AT!is_attention_status(status) /\ p.prev_status # status)
            /\ ~AT!Completes(p.prev_status, status, previous)
  BY <1>2, <1>q DEF AtCells, Kept, AT!register_transition, AT!is_attention_status, AT!Completes, AT!None, AT!is_done_status
<1> HIDE DEF a
<1>5. LET y == AT!sync_attention_completion(a, previous, rev) IN
      /\ y \in AtCells /\ y.blocked = a.blocked /\ y.prev_status = status
      /\ y.content_rev = a.content_rev /\ y.state_rev = rev
      /\ \/ y = a /\ (AT!Kind(a.blocked.screen) = "chat") = (previous = "chat")
         \/ y.completion_rev = 0 /\ ~y.finished_notif /\ AT!Kind(a.blocked.screen) # "chat"
         \/ /\ ~y.finished_notif /\ y.armed = AT!ArmedBy("chat", a.content_rev) /\ previous # "chat"
            /\ AT!Kind(a.blocked.screen) = "chat" /\ y.completion_rev = rev
  BY <1>4, <1>2, <1>q DEF AtCells, AT!sync_attention_completion, AT!None
<1>6. /\ r \in AtCells /\ r.prev_status = status /\ r.blocked = c.blocked /\ r.state_rev = rev
      /\ p.content_rev <= r.content_rev
  BY <1>2, <1>3, <1>4, <1>5 DEF AtCells
<1>7. CASE AT!preserves_chat_completion(p.prev_status, status, previous)
  <2>1. r = a /\ status = "idle" /\ ~AT!Completes(p.prev_status, status, previous)
    BY <1>3, <1>7 DEF AT!preserves_chat_completion, AT!Completes, AT!is_done_status
  <2>2. Kept(p, r) /\ Sound(r)
    BY <1>2, <1>4, <1>6, <2>1 DEF Kept, Sound, AT!is_attention_status
  <2> QED BY <1>6, <2>2 DEF r
<1>8. CASE ~AT!preserves_chat_completion(p.prev_status, status, previous)
  <2>1. r = AT!sync_attention_completion(a, previous, rev)
    BY <1>3, <1>8
  <2>2. AT!Kind(a.blocked.screen) # "chat" \/ status = "blocked"
    BY <1>2, <1>4 DEF AT!NoBlocked, AT!Kind
  <2>3. previous = "chat" => p.prev_status = "blocked"
    BY DEF Sound, AT!NoBlocked, AT!Kind
  <2>4. (AT!Kind(a.blocked.screen) = "chat") # (previous = "chat") => moved
    BY <1>2, <1>4
  <2>5. CASE r.completion_rev = 0 /\ ~r.finished_notif
    BY <1>6, <2>5, <1>4, <1>2 DEF Sound, r
  <2>6. CASE /\ ~r.finished_notif /\ r.armed = AT!ArmedBy("chat", a.content_rev) /\ previous # "chat"
             /\ AT!Kind(a.blocked.screen) = "chat"
    <3>1. r.content_rev = a.content_rev /\ p.content_rev < r.content_rev
      BY <2>1, <2>4, <2>6, <1>5, <1>4, <1>2 DEF AtCells
    <3>2. r.armed.by = "chat"
      BY <2>6 DEF AT!ArmedBy
    <3>3. Fresh(p, r)
      BY <3>1, <3>2, <2>6 DEF Fresh
    <3>4. Sound(r)
      BY <1>6, <2>6, <1>4, <1>2, <3>2 DEF Sound
    <3>5. Turned(p, status, rev, r)
      BY <3>2 DEF Turned
    <3> QED BY <1>6, <3>3, <3>4, <3>5 DEF r
  <2>7. CASE r = a /\ (AT!Kind(a.blocked.screen) = "chat") = (previous = "chat")
    <3>1. CASE /\ AT!is_attention_status(status) /\ p.prev_status # status
               /\ a.completion_rev = 0 /\ ~a.finished_notif
      BY <1>6, <2>7, <3>1, <2>5
    <3>2. CASE /\ ~AT!is_attention_status(status) /\ AT!Completes(p.prev_status, status, previous)
               /\ a.completion_rev = rev /\ a.armed = AT!ArmedBy("turn", s.content_rev)
               /\ a.finished_notif = s.finished_notif
      <4>1. AT!is_attention_status(p.prev_status) /\ status # p.prev_status /\ status # "blocked"
        BY <3>2 DEF AT!Completes, AT!is_attention_status
      <4>2. previous # "chat"
        BY <4>1, <2>2, <2>7
      <4>3. ~p.finished_notif
        BY <4>1, <4>2 DEF Sound
      <4>4. p.content_rev < r.content_rev /\ r.content_rev = s.content_rev
        BY <4>1, <1>2, <1>4, <2>7 DEF AtCells
      <4>5. r.armed.by = "turn"
        BY <2>7, <3>2 DEF AT!ArmedBy
      <4>6. ~r.finished_notif
        BY <4>3, <3>2, <2>7, <1>2 DEF Kept
      <4>7. Fresh(p, r)
        BY <4>4, <4>5, <4>6, <3>2, <2>7 DEF Fresh
      <4>8. Sound(r)
        BY <1>6, <4>1, <3>2 DEF Sound, AT!is_attention_status
      <4>9. Turned(p, status, rev, r)
        BY <2>7, <3>2 DEF Turned
      <4> QED BY <1>6, <4>7, <4>8, <4>9 DEF r
    <3>3. CASE /\ Kept(s, a) /\ ~(AT!is_attention_status(status) /\ p.prev_status # status)
               /\ ~AT!Completes(p.prev_status, status, previous)
      <4>1. Kept(p, r)
        BY <1>2, <2>7, <3>3 DEF Kept
      <4>2. Sound(r)
        BY <1>2, <1>4, <1>6, <2>7, <3>3, <4>1 DEF Sound, Kept
      <4> QED BY <1>6, <4>1, <4>2 DEF r
    <3> QED BY <1>4, <3>1, <3>2, <3>3
  <2> QED BY <2>1, <1>5, <2>5, <2>6, <2>7
<1> QED BY <1>7, <1>8

-----------------------------------------------------------------------------
(* Attention: the actor *)

LEMMA TransitionsType ==
  ASSUME NEW p \in AtCells, NEW c \in AtCells, NEW status \in Phases, NEW rev \in Nat \ {0}
  PROVE  /\ AT!Transitions(p, c, status, rev) \in Seq(AtTurns)
         /\ AT!Completes(p.prev_status, status, AT!Kind(p.blocked.screen)) =>
              AT!Transitions(p, c, status, rev) = <<[status |-> status, rev |-> rev]>>
<1>1. [status |-> status, rev |-> rev] \in AtTurns
  BY DEF AtTurns
<1> QED BY <1>1 DEF AT!Transitions, AT!Fires

LEMMA CommitKeeps ==
  ASSUME AttentionInv, AT!Idle, NEW p \in AtCells, NEW c \in AtCells, NEW status \in Phases,
         NEW touched \in BOOLEAN, Sound(p), p.content_rev = cell.content_rev,
         p = cell \/ (p.completion_rev = 0 /\ p.prev_status = "none"),
         p.completion_rev # 0 => act'.term = act.term,
         c = [p EXCEPT !.blocked = c.blocked],
         status # "blocked" => c.blocked = AT!NoBlocked,
         status = "blocked" => c.blocked.event # 0,
         AT!is_attention_status(p.prev_status) /\ status # p.prev_status => touched,
         act' \in AtRows, act'.live, act'.status = status, act'.gen >= act.gen,
         cell' = AT!Committed(p, c, status, touched, AT!Epoch),
         AT!Commit(AT!Transitions(p, c, status, AT!Epoch))
  PROVE  AttentionInv'
<1> DEFINE r == AT!Committed(p, c, status, touched, AT!Epoch)
           trs == AT!Transitions(p, c, status, AT!Epoch)
<1>1. /\ AT!Epoch \in Nat \ {0} /\ act \in AtRows /\ cell \in AtCells /\ dirty = <<>>
      /\ act.gen \in Nat /\ act'.gen \in Nat
  BY DEF AT!Epoch, AttentionInv, ActorTypes, AtRows, AT!Idle
<1>2. /\ r \in AtCells /\ r.prev_status = status /\ r.blocked = c.blocked
      /\ p.content_rev <= r.content_rev /\ r.state_rev = AT!Epoch
      /\ Sound(r)
      /\ r.completion_rev = 0 \/ Kept(p, r) \/ (Fresh(p, r) /\ Turned(p, status, AT!Epoch, r))
  BY <1>1, CommittedCell
<1>3. /\ trs \in Seq(AtTurns)
      /\ AT!Completes(p.prev_status, status, AT!Kind(p.blocked.screen)) =>
              trs = <<[status |-> status, rev |-> AT!Epoch]>>
  BY <1>1, TransitionsType
<1> HIDE DEF r, trs
<1>4. /\ cell' = r /\ dirty' = <<trs>>
      /\ UNCHANGED <<pub, inbox, tasks, pushes, claims, told, timeouts>>
  BY DEF AT!Commit, r, trs
<1>5. ActorTypes' /\ QueueTypes' /\ ToldTypes' /\ Len(dirty)' <= 1
  BY <1>2, <1>3, <1>4 DEF AttentionInv, ActorTypes, QueueTypes, ToldTypes
<1>6. RowsAgree' /\ Sound(cell)' /\ ReadsHaveCycle'
  BY <1>1, <1>2, <1>4 DEF AttentionInv, RowsAgree, ReadsHaveCycle, Sound
<1>7. ClaimsDiffer'
  <2>1. cell.content_rev \in Nat /\ r.content_rev \in Nat /\ cell.content_rev <= r.content_rev
    BY <1>1, <1>2 DEF AtCells
  <2>2. \A i \in 1 .. Len(claims) : claims[i][3] \in Armings
    BY DEF AttentionInv, ToldTypes
  <2>3. \A a \in Armings : Earlier(a) => Earlier(a)'
    BY <2>1, <1>1, <1>4 DEF Earlier, Armings
  <2>4. \A i \in 1 .. Len(claims) : Earlier(claims[i][3])'
    BY <2>2, <2>3, <1>4 DEF AttentionInv, ClaimsDiffer
  <2>5. CASE r.completion_rev = 0
    BY <2>4, <2>5, <1>4 DEF AttentionInv, ClaimsDiffer
  <2>6. CASE r.completion_rev # 0 /\ Kept(p, r)
    <3>1. p = cell
      BY <2>6 DEF Kept
    <3>2. Earlier(cell.armed) /\ cell.armed \in Armings
      BY <2>6, <3>1, <1>1 DEF AttentionInv, ClaimsDiffer, Kept, AtCells
    <3>3. /\ cell'.armed = cell.armed /\ cell'.completion_rev = cell.completion_rev
          /\ cell'.finished_notif = cell.finished_notif
      BY <3>1, <2>6, <1>4 DEF Kept
    <3>4. Earlier(cell.armed)'
      BY <2>3, <3>2, <3>3 DEF Earlier
    <3> QED BY <2>4, <3>3, <3>4, <1>4 DEF AttentionInv, ClaimsDiffer
  <2>7. CASE Fresh(p, r)
    <3>1. r.armed.at = r.content_rev /\ r.armed.gen = act.gen
      BY <2>7 DEF Fresh, AT!ArmedBy
    <3>2. Earlier(cell.armed)'
      BY <3>1, <1>4, <1>1, <2>1 DEF Earlier
    <3>3. \A i \in 1 .. Len(claims) : claims[i][3] # r.armed
      BY <2>2, <3>1, <2>7, <2>1, <1>1 DEF AttentionInv, ClaimsDiffer, Earlier, Armings, Fresh
    <3> QED BY <2>4, <3>2, <3>3, <1>4 DEF AttentionInv, ClaimsDiffer
  <2> QED BY <1>2, <2>5, <2>6, <2>7
<1>8. TurnIsTold'
  <2> SUFFICES ASSUME r.completion_rev # 0, r.armed.by = "turn"
               PROVE  /\ act'.live /\ ~AT!is_attention_status(act'.status)
                      /\ cell'.blocked = AT!NoBlocked
                      /\ Unpublished' \/ (Published' /\ Pending')
    BY <1>4 DEF TurnIsTold, AT!Armed, AT!None
  <2>1. ~AT!is_attention_status(status) /\ r.blocked = AT!NoBlocked
    BY <1>2 DEF Sound, AT!is_attention_status
  <2>2. CASE Kept(p, r)
    <3>1. p = cell /\ AT!Armed("turn")
      BY <2>2 DEF Kept, AT!Armed, AT!None
    <3>2. act.live /\ Published /\ Pending
      BY <3>1, <1>1 DEF AttentionInv, TurnIsTold, Unpublished
    <3>3. cell'.completion_rev = cell.completion_rev /\ cell'.finished_notif = cell.finished_notif
      BY <3>1, <2>2, <1>4 DEF Kept
    <3>4. Pending'
      BY <3>2, <3>3, <1>4 DEF Pending, Heard, Waiting, Capturing, Announces
    <3>5. Published'
      BY <3>1, <3>2, <1>4 DEF Published, AT!Armed, AT!None
    <3> QED BY <2>1, <1>4, <3>4, <3>5
  <2>3. CASE Fresh(p, r) /\ Turned(p, status, AT!Epoch, r)
    <3>1. /\ r.completion_rev = AT!Epoch /\ trs = <<[status |-> status, rev |-> AT!Epoch]>>
          /\ AT!is_attention_status(p.prev_status) /\ ~r.finished_notif
      BY <2>3, <1>3 DEF Turned, AT!Completes, Fresh
    <3>2. p = cell /\ act.live
      BY <3>1 DEF AT!is_attention_status, AttentionInv, RowsAgree, AT!DefaultCell
    <3>3. AT!is_attention_status(pub.status)
      BY <3>1, <3>2, <1>1 DEF AttentionInv, RowsAgree
    <3>4. Unpublished'
      BY <3>1, <3>3, <1>4, <2>1 DEF Unpublished, Announces
    <3> QED BY <2>1, <3>4, <1>4
  <2> QED BY <1>2, <2>2, <2>3
<1> QED BY <1>5, <1>6, <1>7, <1>8 DEF AttentionInv

LEMMA SyncedCycle ==
  ASSUME NEW p \in AtCells, NEW status \in Phases, NEW id \in Nat \ {0}
  PROVE  LET c == AT!sync_cycle(p, status, id) IN
         /\ c \in AtCells /\ c = [p EXCEPT !.blocked = c.blocked]
         /\ status # "blocked" => c.blocked = AT!NoBlocked
         /\ status = "blocked" => c.blocked.event # 0
<1>1. CASE status # "blocked"
  <2>1. AT!NoBlocked \in Cycles
    BY DEF AT!NoBlocked, Cycles, Faces, AT!None
  <2> QED BY <1>1, <2>1 DEF AT!sync_cycle, AtCells
<1>2. CASE status = "blocked"
  <2> DEFINE b == [p.blocked EXCEPT !.screen = IF @ = "none" THEN "unknown" ELSE @,
                                    !.event = IF @ = 0 THEN id ELSE @]
  <2>1. b \in Cycles /\ b.event # 0
    BY DEF AtCells, Cycles, Faces
  <2>2. AT!sync_cycle(p, status, id) = [p EXCEPT !.blocked = b]
    BY <1>2 DEF AT!sync_cycle, AtCells, AT!None, Cycles
  <2> HIDE DEF b
  <2> QED BY <1>2, <2>1, <2>2 DEF AtCells
<1> QED BY <1>1, <1>2

LEMMA Classified ==
  ASSUME NEW p \in AtCells, NEW screen \in Readings
  PROVE  LET c == AT!apply_classification(p, screen) IN
         /\ c \in AtCells /\ c = [p EXCEPT !.blocked = c.blocked]
         /\ c.blocked.event = p.blocked.event /\ c.blocked.screen = screen
<1> DEFINE b == [p.blocked EXCEPT !.screen = screen]
<1>1. b \in Cycles /\ b.event = p.blocked.event /\ b.screen = screen
  BY DEF AtCells, Cycles, Faces
<1>2. AT!apply_classification(p, screen) = [p EXCEPT !.blocked = b]
  BY DEF AT!apply_classification, AtCells, Cycles
<1> HIDE DEF b
<1> QED BY <1>1, <1>2 DEF AtCells

LEMMA AcceptKeeps ==
  ASSUME AttentionInv, NEW poll \in BOOLEAN, NEW touched \in BOOLEAN, NEW s \in Statuses,
         NEW t \in Terminals, NEW screen \in Readings,
         AT!accept_enriched(poll, [status |-> s, term |-> t], screen, touched)
  PROVE  AttentionInv'
<1> DEFINE incoming == [status |-> s, term |-> t]
           replaced == act.live /\ incoming.term # act.term
           fresh == ~act.live \/ replaced
           reappears == ~act.live /\ act.accepted /\ act.gen > 0
           status == IF poll \/ fresh THEN incoming.status ELSE act.status
           p == IF replaced THEN AT!reset_on_replacement(cell) ELSE cell
           cycled == AT!sync_cycle(p, status, AT!Epoch)
           c == IF status = "blocked" /\ (poll \/ fresh)
                  THEN AT!apply_classification(cycled, screen) ELSE cycled
           moves == fresh \/ touched \/ status # act.status
<1>1. /\ AT!Epoch \in Nat \ {0} /\ act \in AtRows /\ cell \in AtCells /\ Sound(cell)
      /\ act.gen \in Nat /\ act.status \in Phases
  BY DEF AT!Epoch, AttentionInv, ActorTypes, AtRows
<1>2. status \in Phases
  BY <1>1 DEF Phases
<1>3. /\ p \in AtCells /\ Sound(p) /\ p.content_rev = cell.content_rev
      /\ replaced => p.completion_rev = 0 /\ p.prev_status = "none"
  <2>1. /\ AT!reset_on_replacement(cell) \in AtCells
        /\ AT!reset_on_replacement(cell).content_rev = cell.content_rev
        /\ AT!reset_on_replacement(cell).completion_rev = 0
        /\ AT!reset_on_replacement(cell).prev_status = "none"
        /\ AT!reset_on_replacement(cell).blocked = AT!NoBlocked
    BY <1>1 DEF AT!reset_on_replacement, AtCells, AT!NoBlocked, Cycles, Faces, Phases, AT!None
  <2> QED BY <1>1, <2>1 DEF Sound, AT!is_attention_status
<1> HIDE DEF p
<1>4. /\ cycled \in AtCells /\ cycled = [p EXCEPT !.blocked = cycled.blocked]
      /\ status # "blocked" => cycled.blocked = AT!NoBlocked
      /\ status = "blocked" => cycled.blocked.event # 0
  BY <1>1, <1>2, <1>3, SyncedCycle
<1> HIDE DEF status, cycled
<1>5. /\ c \in AtCells /\ c = [p EXCEPT !.blocked = c.blocked]
      /\ status # "blocked" => c.blocked = AT!NoBlocked
      /\ status = "blocked" => c.blocked.event # 0
  <2>1. CASE status = "blocked" /\ (poll \/ fresh)
    <3>1. /\ c \in AtCells /\ c = [cycled EXCEPT !.blocked = c.blocked]
          /\ c.blocked.event = cycled.blocked.event
      BY <1>4, <2>1, Classified
    <3> HIDE DEF c
    <3>2. c = [p EXCEPT !.blocked = c.blocked]
      BY <1>3, <1>4, <3>1 DEF AtCells
    <3> QED BY <3>1, <3>2, <1>4, <2>1
  <2> QED BY <2>1, <1>4
<1>6. /\ AT!Idle
      /\ act' = [live |-> TRUE, status |-> status, term |-> t,
                 gen |-> IF replaced \/ reappears THEN act.gen + 1 ELSE act.gen,
                 rev |-> AT!Epoch, accepted |-> TRUE]
      /\ cell' = AT!Committed(p, c, status, moves, AT!Epoch)
      /\ AT!Commit(AT!Transitions(p, c, status, AT!Epoch))
  BY DEF AT!accept_enriched, status, p, cycled
<1>7. /\ act' \in AtRows /\ act'.live /\ act'.status = status /\ act'.gen >= act.gen
      /\ ~replaced /\ act.live => act'.term = act.term
  BY <1>1, <1>2, <1>6 DEF AtRows
<1>8. AT!is_attention_status(p.prev_status) /\ status # p.prev_status => moves
  BY <1>3 DEF p, AttentionInv, RowsAgree, AT!is_attention_status
<1>9. p = cell \/ replaced
  BY DEF p
<1>10. p.completion_rev # 0 => act'.term = act.term
  BY <1>3, <1>7, <1>9 DEF AttentionInv, RowsAgree, AT!DefaultCell, AT!None
<1>11. moves \in BOOLEAN
  BY Zenon
<1> HIDE DEF c, moves
<1> QED BY <1>1, <1>2, <1>3, <1>5, <1>6, <1>7, <1>8, <1>9, <1>10, <1>11, CommitKeeps

LEMMA StatusKeeps ==
  ASSUME AttentionInv, NEW s \in Statuses, AT!commit_agent_status(s)
  PROVE  AttentionInv'
<1> DEFINE c == AT!sync_cycle(cell, s, AT!Epoch)
           moves == s # cell.prev_status
<1>1. /\ AT!Epoch \in Nat \ {0} /\ act \in AtRows /\ cell \in AtCells /\ Sound(cell)
      /\ act.gen \in Nat /\ s \in Phases
  BY DEF AT!Epoch, AttentionInv, ActorTypes, AtRows, Phases
<1>2. /\ c \in AtCells /\ c = [cell EXCEPT !.blocked = c.blocked]
      /\ s # "blocked" => c.blocked = AT!NoBlocked
      /\ s = "blocked" => c.blocked.event # 0
  BY <1>1, SyncedCycle
<1>3. /\ AT!Idle /\ act.live
      /\ act' = [act EXCEPT !.status = s, !.rev = AT!Epoch]
      /\ cell' = AT!Committed(cell, c, s, moves, AT!Epoch)
      /\ AT!Commit(AT!Transitions(cell, c, s, AT!Epoch))
  BY DEF AT!commit_agent_status
<1>4. /\ act' \in AtRows /\ act'.live /\ act'.status = s /\ act'.gen >= act.gen
      /\ act'.term = act.term
  <2>1. act' \in AtRows
    BY <1>1, <1>3 DEF AtRows
  <2>2. /\ act'.live = act.live /\ act'.status = s /\ act'.gen = act.gen /\ act'.term = act.term
    BY <1>1, <1>3 DEF AtRows
  <2> QED BY <1>1, <1>3, <2>1, <2>2
<1>5. moves \in BOOLEAN
  BY Zenon
<1>6. AT!is_attention_status(cell.prev_status) /\ s # cell.prev_status => moves
  OBVIOUS
<1> HIDE DEF c, moves
<1> QED BY <1>1, <1>2, <1>3, <1>4, <1>5, <1>6, CommitKeeps

LEMMA RemovedKeeps ==
  ASSUME AttentionInv, AT!Removed
  PROVE  AttentionInv'
<1>1. /\ act \in AtRows /\ act.gen \in Nat /\ dirty = <<>> /\ AT!Epoch \in Nat \ {0}
  BY DEF AT!Epoch, AttentionInv, ActorTypes, AtRows, AT!Removed, AT!Idle
<1>2. /\ act' = [act EXCEPT !.live = FALSE, !.gen = @ + 1, !.rev = AT!Epoch]
      /\ cell' = AT!DefaultCell /\ dirty' = <<<<>>>>
      /\ UNCHANGED <<pub, inbox, tasks, pushes, claims, told, timeouts>>
  BY DEF AT!Removed, AT!Commit
<1>3. act' \in AtRows /\ ~act'.live /\ act'.gen = act.gen + 1
  <2>1. act.gen + 1 \in Nat
    BY <1>1
  <2>2. act' \in AtRows
    BY <1>1, <1>2, <2>1 DEF AtRows
  <2>3. ~act'.live /\ act'.gen = act.gen + 1
    BY <1>1, <1>2 DEF AtRows
  <2> QED BY <2>2, <2>3
<1>4. /\ cell' \in AtCells /\ cell'.completion_rev = 0 /\ cell'.prev_status = "none"
      /\ cell'.blocked = AT!NoBlocked
  BY <1>2 DEF AT!DefaultCell, AtCells, AT!NoBlocked, AT!NotArmed, Armings, Cycles, Faces, Phases,
              AT!None
<1>5. ActorTypes' /\ QueueTypes' /\ ToldTypes' /\ Len(dirty)' <= 1
  BY <1>2, <1>3, <1>4 DEF AttentionInv, ActorTypes, QueueTypes, ToldTypes
<1>6. RowsAgree' /\ Sound(cell)' /\ ReadsHaveCycle'
  BY <1>2, <1>3, <1>4 DEF AttentionInv, RowsAgree, ReadsHaveCycle, Sound, AT!is_attention_status
<1>7. ClaimsDiffer'
  <2>1. \A i \in 1 .. Len(claims) : claims[i][3] \in Armings /\ Earlier(claims[i][3])
    BY DEF AttentionInv, ToldTypes, ClaimsDiffer
  <2>2. \A a \in Armings : Earlier(a) => Earlier(a)'
    BY <1>1, <1>3 DEF Earlier, Armings
  <2> QED BY <2>1, <2>2, <1>2, <1>4 DEF AttentionInv, ClaimsDiffer
<1>8. TurnIsTold'
  BY <1>4 DEF TurnIsTold, AT!Armed, AT!None
<1> QED BY <1>5, <1>6, <1>7, <1>8 DEF AttentionInv

LEMMA BumpKeeps ==
  ASSUME AttentionInv, AT!bump_generation
  PROVE  AttentionInv'
<1>1. /\ act \in AtRows /\ act.gen \in Nat /\ dirty = <<>> /\ AT!Epoch \in Nat \ {0}
  BY DEF AT!Epoch, AttentionInv, ActorTypes, AtRows, AT!bump_generation, AT!Idle
<1>2. /\ act' = [act EXCEPT !.gen = @ + 1, !.rev = AT!Epoch]
      /\ dirty' = <<<<>>>>
      /\ UNCHANGED <<cell, pub, inbox, tasks, pushes, claims, told, timeouts>>
  BY DEF AT!bump_generation, AT!Commit
<1>3. /\ act' \in AtRows /\ act'.live = act.live /\ act'.gen = act.gen + 1
      /\ act'.status = act.status /\ act'.term = act.term
  <2>1. act.gen + 1 \in Nat
    BY <1>1
  <2>2. act' \in AtRows
    BY <1>1, <1>2, <2>1 DEF AtRows
  <2>3. /\ act'.live = act.live /\ act'.gen = act.gen + 1
        /\ act'.status = act.status /\ act'.term = act.term
    BY <1>1, <1>2 DEF AtRows
  <2> QED BY <2>2, <2>3
<1>5. ActorTypes' /\ QueueTypes' /\ ToldTypes' /\ Len(dirty)' <= 1
  BY <1>2, <1>3 DEF AttentionInv, ActorTypes, QueueTypes, ToldTypes
<1>6. RowsAgree' /\ Sound(cell)' /\ ReadsHaveCycle'
  BY <1>2, <1>3 DEF AttentionInv, RowsAgree, ReadsHaveCycle, Sound, AT!is_attention_status
<1>7. ClaimsDiffer'
  <2>1. \A i \in 1 .. Len(claims) : claims[i][3] \in Armings
    BY DEF AttentionInv, ToldTypes
  <2>2. \A a \in Armings : Earlier(a) => Earlier(a)'
    BY <1>1, <1>2, <1>3 DEF Earlier, Armings
  <2>3. cell.armed \in Armings
    BY DEF AttentionInv, ActorTypes, AtCells
  <2>4. cell.completion_rev # 0 => Earlier(cell.armed)'
    BY <2>2, <2>3, <1>2 DEF AttentionInv, ClaimsDiffer, Earlier
  <2> QED BY <2>1, <2>2, <2>4, <1>2 DEF AttentionInv, ClaimsDiffer
<1>8. TurnIsTold'
  BY <1>1, <1>2, <1>3 DEF AttentionInv, TurnIsTold, AT!Armed, Unpublished, Published, Pending, Heard,
                          Waiting, Capturing, Announces
<1> QED BY <1>5, <1>6, <1>7, <1>8 DEF AttentionInv

LEMMA AtPublishKeeps ==
  ASSUME AttentionInv, AT!Publish
  PROVE  AttentionInv'
<1>1. /\ pub' = act /\ inbox' = inbox \o Head(dirty) /\ dirty' = <<>>
      /\ UNCHANGED <<act, cell, tasks, pushes, claims, told, timeouts>>
      /\ dirty # <<>>
  BY DEF AT!Publish
<1>2. /\ Head(dirty) = dirty[1] /\ dirty[1] \in Seq(AtTurns) /\ inbox \in Seq(AtTurns)
      /\ Len(inbox') = Len(inbox) + Len(dirty[1])
      /\ \A i \in 1 .. Len(inbox) : inbox'[i] = inbox[i]
      /\ Len(dirty[1]) = 1 => inbox'[Len(inbox) + 1] = dirty[1][1]
  BY <1>1 DEF AttentionInv, QueueTypes
<1>5. ActorTypes' /\ QueueTypes' /\ ToldTypes' /\ Len(dirty)' <= 1
  BY <1>1, <1>2 DEF AttentionInv, ActorTypes, QueueTypes, ToldTypes
<1>6. RowsAgree' /\ Sound(cell)' /\ ReadsHaveCycle' /\ ClaimsDiffer'
  BY <1>1 DEF AttentionInv, RowsAgree, ReadsHaveCycle, Sound, ClaimsDiffer, Earlier
<1>7. TurnIsTold'
  <2> SUFFICES ASSUME AT!Armed("turn")
               PROVE  /\ act.live /\ ~AT!is_attention_status(act.status)
                      /\ cell.blocked = AT!NoBlocked
                      /\ Published' /\ Pending'
    BY <1>1 DEF TurnIsTold, AT!Armed
  <2>1. /\ act.live /\ ~AT!is_attention_status(act.status) /\ cell.blocked = AT!NoBlocked
        /\ Unpublished \/ (Published /\ Pending)
    BY DEF AttentionInv, TurnIsTold
  <2>2. Published'
    BY <1>1, <2>1 DEF Published
  <2>3. Len(inbox) \in Nat
    BY <1>2
  <2>4. CASE Unpublished
    <3>1. Waiting'
      BY <2>3, <2>4, <1>1, <1>2 DEF Unpublished, Waiting, Announces
    <3> QED BY <2>1, <2>2, <3>1, <2>4, <1>1 DEF Unpublished, Pending
  <2>5. CASE Published /\ Pending
    <3>1. Waiting => Waiting'
      BY <2>3, <1>1, <1>2 DEF Waiting, Announces
    <3>2. Capturing => Capturing'
      BY <2>5, <1>1 DEF Capturing, Published
    <3> QED BY <2>1, <2>2, <2>5, <3>1, <3>2, <1>1 DEF Pending, Heard
  <2> QED BY <2>1, <2>4, <2>5
<1> QED BY <1>5, <1>6, <1>7 DEF AttentionInv

-----------------------------------------------------------------------------
(* Attention: the transition tasks *)

LEMMA SpawnKeeps ==
  ASSUME AttentionInv, AT!Spawn
  PROVE  AttentionInv'
<1> DEFINE tr == Head(inbox)
           u == [status |-> tr.status, rev |-> tr.rev, at |-> "start", event |-> 0, gen |-> 0,
                 content_rev |-> 0, attention_rev |-> 0, screen |-> "none", term |-> 0]
<1>1. /\ tasks' = tasks \cup {u} /\ inbox' = Tail(inbox) /\ inbox # <<>>
      /\ UNCHANGED <<act, pub, dirty, cell, pushes, claims, told, timeouts>>
  BY DEF AT!Spawn, AT!None
<1>2. /\ tr \in AtTurns /\ tr = inbox[1] /\ inbox' \in Seq(AtTurns)
      /\ Len(inbox') = Len(inbox) - 1 /\ Len(inbox) \in Nat
      /\ \A i \in 1 .. Len(inbox') : inbox'[i] = inbox[i + 1]
  BY <1>1 DEF AttentionInv, QueueTypes
<1>3. u \in AtTasks /\ u.at = "start" /\ u.rev = tr.rev /\ u.status = tr.status
  BY <1>2 DEF AtTasks, AtTurns, AtStages, Faces
<1> HIDE DEF u
<1>4. ActorTypes' /\ QueueTypes' /\ ToldTypes' /\ Len(dirty)' <= 1
  BY <1>1, <1>2, <1>3 DEF AttentionInv, ActorTypes, QueueTypes, ToldTypes
<1>5. RowsAgree' /\ Sound(cell)' /\ ReadsHaveCycle' /\ ClaimsDiffer'
  BY <1>1, <1>3 DEF AttentionInv, RowsAgree, ReadsHaveCycle, Sound, ClaimsDiffer, Earlier
<1>6. Waiting => Waiting'
  <2>1. \A i \in 1 .. Len(inbox) : i = 1 \/ (i - 1 \in 1 .. Len(inbox') /\ inbox'[i - 1] = inbox[i])
    BY <1>2
  <2>2. CASE Announces(inbox[1])
    BY <2>2, <1>1, <1>2, <1>3 DEF Waiting, Announces
  <2>3. CASE \E i \in 1 .. Len(inbox) : i # 1 /\ Announces(inbox[i])
    BY <2>1, <2>3, <1>1 DEF Waiting, Announces
  <2>4. CASE \E t \in tasks : t.at = "start" /\ Announces(t)
    BY <2>4, <1>1 DEF Waiting, Announces
  <2> QED BY <2>2, <2>3, <2>4 DEF Waiting
<1>7. Capturing => Capturing'
  BY <1>1 DEF Capturing
<1>8. TurnIsTold'
  BY <1>1, <1>6, <1>7 DEF AttentionInv, TurnIsTold, AT!Armed, Unpublished, Published, Pending, Heard,
                          Announces
<1> QED BY <1>4, <1>5, <1>8 DEF AttentionInv

(* Whether a task is one that will tell the completion. *)
Captures(t) == /\ t.at = "capture" /\ t.rev = cell.completion_rev
               /\ t.status = "blocked" \/ t.term = pub.term
Tells(t) == (t.at = "start" /\ Announces(t) /\ ~cell.finished_notif) \/ Captures(t)

(* A step of a task that leaves the cell alone and, if the task was to tell   *)
(* the completion, leaves it told or to be told.                             *)
LEMMA StepKeeps ==
  ASSUME AttentionInv, NEW t \in tasks, NEW next \in SUBSET AtTasks,
         \A u \in next : u.at = "read" => u.event # 0,
         tasks' = (tasks \ {t}) \cup next,
         UNCHANGED <<act, pub, dirty, cell, inbox, claims>>,
         timeouts' \in Nat, timeouts' >= timeouts,
         told \subseteq told',
         AT!Armed("turn") /\ Published /\ cell.blocked = AT!NoBlocked /\ Tells(t) =>
           timeouts' > 0 \/ cell.completion_rev \in told' \/ \E u \in next : Captures(u)
  PROVE  AttentionInv'
<1>1. ActorTypes' /\ QueueTypes' /\ ToldTypes' /\ Len(dirty)' <= 1
  BY DEF AttentionInv, ActorTypes, QueueTypes, ToldTypes
<1>2. RowsAgree' /\ Sound(cell)' /\ ReadsHaveCycle' /\ ClaimsDiffer'
  BY DEF AttentionInv, RowsAgree, ReadsHaveCycle, Sound, ClaimsDiffer, Earlier
<1>3. TurnIsTold'
  <2> SUFFICES ASSUME AT!Armed("turn"), Published, Pending, cell.blocked = AT!NoBlocked
               PROVE  Pending'
    BY DEF AttentionInv, TurnIsTold, AT!Armed, Unpublished, Published, Announces
  <2>1. Heard => Heard'
    BY DEF Heard, AttentionInv, ToldTypes
  <2>2. CASE Tells(t)
    BY <2>1, <2>2 DEF Pending, Heard, Capturing, Captures
  <2>3. CASE ~Tells(t)
    <3>1. ~cell.finished_notif /\ Waiting => Waiting'
      BY <2>3 DEF Waiting, Announces, Tells
    <3>2. Capturing => Capturing'
      BY <2>3 DEF Capturing, Tells, Captures
    <3> QED BY <2>1, <3>1, <3>2 DEF Pending
  <2> QED BY <2>2, <2>3
<1> QED BY <1>1, <1>2, <1>3 DEF AttentionInv

LEMMA TimeoutKeeps ==
  ASSUME AttentionInv, NEW t \in tasks, AT!TaskTimesOut(t)
  PROVE  AttentionInv'
<1>1. /\ tasks' = (tasks \ {t}) \cup {} /\ timeouts' = timeouts + 1
      /\ UNCHANGED <<act, pub, dirty, cell, inbox, claims, told>>
  BY DEF AT!TaskTimesOut
<1>2. timeouts' \in Nat /\ timeouts' >= timeouts /\ timeouts' > 0 /\ {} \in SUBSET AtTasks
  BY <1>1 DEF AttentionInv, ToldTypes
<1> QED BY <1>1, <1>2, StepKeeps

(* The steps that change the cell. *)
CellSteps(t) == AT!Claim(t) \/ \E s \in Readings : AT!CommitAttention(t, s)

LEMMA QuitKeeps ==
  ASSUME AttentionInv, NEW t \in tasks, AT!Quits(t), UNCHANGED <<act, pub, dirty, inbox, timeouts>>,
         AT!Armed("turn") /\ Published /\ cell.blocked = AT!NoBlocked => ~Tells(t)
  PROVE  AttentionInv'
<1>1. /\ tasks' = (tasks \ {t}) \cup {} /\ {} \in SUBSET AtTasks
      /\ UNCHANGED <<cell, claims, told>>
  BY DEF AT!Quits, AT!Step
<1>2. timeouts' \in Nat /\ timeouts' >= timeouts
  BY DEF AttentionInv, ToldTypes
<1> QED BY <1>1, <1>2, StepKeeps

LEMMA HandleKeeps ==
  ASSUME AttentionInv, NEW t \in tasks, AT!Handle(t),
         ~CellSteps(t)
  PROVE  AttentionInv'
<1>1. /\ t \in AtTasks /\ timeouts' \in Nat /\ timeouts' >= timeouts
      /\ UNCHANGED <<act, pub, dirty, inbox, timeouts>>
      /\ cell \in AtCells /\ pub \in AtRows
  BY DEF AT!Handle, AttentionInv, ToldTypes, QueueTypes, ActorTypes
<1>2. CASE AT!HandleWorking(t)
  <2>1. tasks' = (tasks \ {t}) \cup {} /\ UNCHANGED <<cell, claims, told>> /\ {} \in SUBSET AtTasks
    BY <1>2 DEF AT!HandleWorking, AT!Step
  <2>2. ~Tells(t)
    BY <1>2 DEF AT!HandleWorking, Tells, Captures, Announces, AT!is_attention_status
  <2> QED BY <1>1, <2>1, <2>2, StepKeeps
<1>3. CASE AT!HandleBlocked(t)
  <2>1. ~Tells(t)
    BY <1>3 DEF AT!HandleBlocked, Tells, Captures, Announces, AT!is_attention_status
  <2>2. CASE AT!Quits(t)
    BY <1>1, <2>1, <2>2, QuitKeeps
  <2>3. CASE ~AT!Quits(t)
    <3> DEFINE u == [t EXCEPT !.at = "read", !.event = cell.blocked.event,
                              !.gen = pub.gen, !.content_rev = cell.content_rev]
    <3>1. /\ tasks' = (tasks \ {t}) \cup {u} /\ UNCHANGED <<cell, claims, told>>
          /\ cell.blocked.event # 0
      BY <1>3, <2>3 DEF AT!HandleBlocked, AT!Step, AT!None
    <3>2. u \in AtTasks
      BY <1>1 DEF AtTasks, AtStages, AtCells, Cycles, AtRows
    <3>3. u.at = "read" => u.event # 0
      BY <1>1, <3>1 DEF AtTasks
    <3> HIDE DEF u
    <3>4. {u} \in SUBSET AtTasks
      BY <3>2
    <3> QED BY <1>1, <2>1, <3>1, <3>3, <3>4, StepKeeps
  <2> QED BY <2>2, <2>3
<1>4. CASE AT!JournalAttention(t)
  <2>1. ~Tells(t)
    BY <1>4 DEF AT!JournalAttention, Tells, Captures
  <2> DEFINE u == [t EXCEPT !.at = "push"]
             next == IF AT!attention_transition_current(t) THEN {u} ELSE {}
  <2>2. u \in AtTasks /\ u.at = "push"
    BY <1>1 DEF AtTasks, AtStages
  <2>3. tasks' = (tasks \ {t}) \cup next /\ UNCHANGED <<cell, claims, told>>
    BY <1>4 DEF AT!JournalAttention, AT!Step
  <2> HIDE DEF u
  <2>4. next \in SUBSET AtTasks /\ \A x \in next : x.at = "read" => x.event # 0
    BY <2>2
  <2> HIDE DEF next
  <2> QED BY <1>1, <2>1, <2>3, <2>4, StepKeeps
<1>5. CASE AT!PushAttention(t)
  <2>1. ~Tells(t)
    BY <1>5 DEF AT!PushAttention, Tells, Captures
  <2>2. tasks' = (tasks \ {t}) \cup {} /\ UNCHANGED <<cell, claims, told>> /\ {} \in SUBSET AtTasks
    BY <1>5 DEF AT!PushAttention, AT!Step
  <2> QED BY <1>1, <2>1, <2>2, StepKeeps
<1>6. CASE AT!JournalFinished(t)
  <2>1. CASE AT!completion_current(t.rev) /\ ~(t.status # "blocked" /\ pub.term # t.term)
    <3> DEFINE u == [t EXCEPT !.at = "finish"]
    <3>1. /\ told' = told \cup {t.rev} /\ tasks' = (tasks \ {t}) \cup {u}
          /\ UNCHANGED <<cell, claims>> /\ t.rev = cell.completion_rev
      BY <1>6, <2>1 DEF AT!JournalFinished, AT!Step, AT!completion_current
    <3>2. u \in AtTasks /\ u.at = "finish"
      BY <1>1 DEF AtTasks, AtStages
    <3> HIDE DEF u
    <3>3. {u} \in SUBSET AtTasks /\ \A x \in {u} : x.at = "read" => x.event # 0
      BY <3>2
    <3>4. told \subseteq told' /\ cell.completion_rev \in told'
      BY <3>1
    <3> QED BY <1>1, <3>1, <3>3, <3>4, StepKeeps
  <2>2. CASE ~AT!completion_current(t.rev) \/ (t.status # "blocked" /\ pub.term # t.term)
    <3>1. AT!Quits(t)
      BY <1>6, <2>2 DEF AT!JournalFinished
    <3>2. AT!Armed("turn") /\ Published /\ cell.blocked = AT!NoBlocked => ~Tells(t)
      BY <1>6, <2>2 DEF AT!JournalFinished, AT!completion_current, AT!PastAttention, Published, Tells,
                        Captures
    <3> QED BY <1>1, <3>1, <3>2, QuitKeeps
  <2> QED BY <2>1, <2>2
<1>7. CASE AT!PushFinished(t)
  <2>1. ~Tells(t)
    BY <1>7 DEF AT!PushFinished, Tells, Captures
  <2>2. tasks' = (tasks \ {t}) \cup {} /\ UNCHANGED <<cell, claims, told>> /\ {} \in SUBSET AtTasks
    BY <1>7 DEF AT!PushFinished, AT!Step, AT!Quits
  <2> QED BY <1>1, <2>1, <2>2, StepKeeps
<1> QED BY <1>2, <1>3, <1>4, <1>5, <1>6, <1>7 DEF AT!Handle, CellSteps

LEMMA ClaimKeeps ==
  ASSUME AttentionInv, NEW t \in tasks, AT!Claim(t), UNCHANGED <<act, pub, dirty, inbox, timeouts>>
  PROVE  AttentionInv'
<1>1. t \in AtTasks /\ cell \in AtCells /\ pub \in AtRows /\ t.rev # 0
  BY DEF AttentionInv, QueueTypes, ActorTypes, AtTasks
<1>2. CASE ~AT!Claimable(t.rev)
  <2>1. AT!Quits(t)
    BY <1>2 DEF AT!Claim
  <2>2. AT!Armed("turn") /\ Published /\ cell.blocked = AT!NoBlocked => ~Tells(t)
    BY <1>2 DEF AT!Claim, AT!Claimable, AT!completion_current, AT!PastAttention, Published, Tells,
                Captures, Announces
  <2> QED BY <2>1, <2>2, QuitKeeps
<1>3. CASE AT!Claimable(t.rev)
  <2> DEFINE u == [t EXCEPT !.at = "capture", !.term = pub.term]
             k == <<t.rev, cell.blocked.event, cell.armed>>
  <2>1. /\ cell' = [cell EXCEPT !.finished_notif = TRUE] /\ claims' = Append(claims, k)
        /\ tasks' = (tasks \ {t}) \cup {u} /\ UNCHANGED told
    BY <1>3 DEF AT!Claim, AT!Step
  <2>2. /\ cell.completion_rev = t.rev /\ ~cell.finished_notif /\ pub.live /\ AT!PastAttention
    BY <1>3 DEF AT!Claimable, AT!completion_current
  <2>3. cell' \in AtCells /\ cell'.finished_notif
    BY <1>1, <2>1 DEF AtCells
  <2>4. /\ cell'.blocked = cell.blocked /\ cell'.prev_status = cell.prev_status
        /\ cell'.armed = cell.armed /\ cell'.completion_rev = cell.completion_rev
        /\ cell'.content_rev = cell.content_rev /\ cell'.state_rev = cell.state_rev
    BY <1>1, <2>1 DEF AtCells
  <2>5. u \in AtTasks
    BY <1>1 DEF AtTasks, AtRows, AtStages
  <2>6. u.at = "capture" /\ u.rev = t.rev /\ u.term = pub.term
    BY <1>1 DEF AtTasks
  <2>7. k \in Nat \X Nat \X Armings /\ k[3] = cell.armed
    BY <1>1 DEF AtTasks, AtCells, Cycles
  <2> HIDE DEF u, k
  <2>8. ActorTypes' /\ QueueTypes' /\ ToldTypes' /\ Len(dirty)' <= 1
    BY <2>1, <2>3, <2>5, <2>7 DEF AttentionInv, ActorTypes, QueueTypes, ToldTypes
  <2>9. RowsAgree'
    <3>1. act.live
      BY <1>1, <2>2 DEF AttentionInv, RowsAgree, AT!DefaultCell, AT!None
    <3> QED BY <3>1, <2>4 DEF AttentionInv, RowsAgree
  <2>10. Sound(cell)'
    BY <2>2, <2>4, <1>1 DEF AttentionInv, Sound
  <2>11. ReadsHaveCycle'
    BY <2>1, <2>6 DEF AttentionInv, ReadsHaveCycle
  <2>12. ClaimsDiffer'
    <3>1. /\ Len(claims') = Len(claims) + 1 /\ Len(claims) \in Nat
          /\ \A i \in 1 .. Len(claims) : claims'[i] = claims[i]
          /\ claims'[Len(claims) + 1] = k
      BY <2>1, <2>7 DEF AttentionInv, ToldTypes
    <3>2. \A i \in 1 .. Len(claims') : i \in 1 .. Len(claims) \/ i = Len(claims) + 1
      BY <3>1
    <3>3. /\ \A i \in 1 .. Len(claims) : Earlier(claims[i][3]) /\ claims[i][3] # k[3]
          /\ Earlier(k[3])
          /\ \A i, j \in 1 .. Len(claims) : claims[i][3] = claims[j][3] => i = j
      BY <1>1, <2>2, <2>7 DEF AttentionInv, ClaimsDiffer
    <3>4. \A i \in 1 .. Len(claims') : Earlier(claims'[i][3])
      BY <3>1, <3>2, <3>3
    <3>5. \A i, j \in 1 .. Len(claims') : claims'[i][3] = claims'[j][3] => i = j
      BY <3>1, <3>2, <3>3
    <3> QED BY <3>3, <3>4, <3>5, <2>3, <2>4, <2>7 DEF ClaimsDiffer, Earlier
  <2>13. TurnIsTold'
    <3> SUFFICES ASSUME AT!Armed("turn")
                 PROVE  /\ act.live /\ ~AT!is_attention_status(act.status)
                        /\ cell.blocked = AT!NoBlocked
                        /\ Published /\ Capturing'
      BY <2>4 DEF TurnIsTold, AT!Armed, Published, Pending
    <3>1. /\ act.live /\ ~AT!is_attention_status(act.status) /\ cell.blocked = AT!NoBlocked
          /\ Unpublished \/ Published
      BY DEF AttentionInv, TurnIsTold
    <3>2. ~Unpublished
      BY <2>2, <3>1 DEF Unpublished, AT!PastAttention, AT!NoBlocked, AT!Kind
    <3>3. Capturing'
      BY <2>1, <2>2, <2>4, <2>6 DEF Capturing
    <3> QED BY <3>1, <3>2, <3>3
  <2> QED BY <2>8, <2>9, <2>10, <2>11, <2>12, <2>13 DEF AttentionInv
<1> QED BY <1>2, <1>3

LEMMA ReadKeeps ==
  ASSUME AttentionInv, NEW t \in tasks, NEW screen \in Readings, AT!CommitAttention(t, screen),
         UNCHANGED <<act, pub, dirty, inbox, timeouts>>
  PROVE  AttentionInv'
<1>1. t \in AtTasks /\ cell \in AtCells /\ Sound(cell) /\ act \in AtRows
  BY DEF AttentionInv, QueueTypes, ActorTypes
<1>2. CASE ~AT!Commits(t)
  <2>1. AT!Quits(t) /\ ~Tells(t)
    BY <1>2 DEF AT!CommitAttention, Tells, Captures
  <2> QED BY <2>1, QuitKeeps
<1>3. CASE AT!Commits(t)
  <2> DEFINE previous == AT!Kind(cell.blocked.screen)
             c == AT!apply_classification(cell, screen)
             moved == c.blocked # cell.blocked
             bumped == [c EXCEPT !.state_rev = @ + 1, !.content_rev = @ + 1, !.attention_rev = @ + 1]
             done == IF moved THEN AT!sync_attention_completion(bumped, previous, bumped.state_rev)
                       ELSE cell
             u == [t EXCEPT !.at = IF AT!Kind(screen) = "chat" THEN "chat" ELSE "journal",
                            !.screen = screen, !.rev = done.state_rev,
                            !.attention_rev = done.attention_rev]
  <2>1. /\ cell' = done /\ tasks' = (tasks \ {t}) \cup {u} /\ UNCHANGED <<claims, told>>
    BY <1>3 DEF AT!CommitAttention, AT!Step
  <2>2. cell.blocked.event # 0 /\ cell.prev_status = "blocked" /\ act.live /\ cell.state_rev # 0
    <3>1. cell.blocked.event # 0
      BY <1>3 DEF AT!CommitAttention, AT!Commits, AT!blocked_transition_current, AttentionInv,
                  ReadsHaveCycle
    <3>2. cell.prev_status = "blocked"
      BY <3>1, <1>1 DEF Sound, AT!NoBlocked, AT!None
    <3>3. act.live
      BY <3>2 DEF AttentionInv, RowsAgree, AT!DefaultCell
    <3> QED BY <3>1, <3>2, <3>3 DEF AttentionInv, RowsAgree
  <2>3. /\ c \in AtCells /\ c = [cell EXCEPT !.blocked = c.blocked]
        /\ c.blocked.event = cell.blocked.event
    BY <1>1, Classified
  <2> HIDE DEF c
  <2>4. /\ Kept(cell, c) /\ c.content_rev = cell.content_rev /\ c.state_rev = cell.state_rev
        /\ c.prev_status = cell.prev_status
    BY <1>1, <2>3 DEF AtCells, Kept
  <2>5. /\ bumped \in AtCells
    <3>1. /\ c.state_rev + 1 \in Nat /\ c.content_rev + 1 \in Nat /\ c.attention_rev + 1 \in Nat
      BY <2>3 DEF AtCells
    <3> QED BY <2>3, <3>1 DEF AtCells
  <2>6. /\ bumped.blocked = c.blocked /\ Kept(c, bumped) /\ bumped.prev_status = c.prev_status
        /\ bumped.content_rev = c.content_rev + 1 /\ bumped.state_rev = c.state_rev + 1
    BY <2>3 DEF AtCells, Kept
  <2> HIDE DEF bumped
  <2>7. bumped.state_rev \in Nat \ {0} /\ bumped.content_rev \in Nat /\ cell.content_rev \in Nat
    BY <1>1, <2>4, <2>5, <2>6 DEF AtCells
  <2>8. LET y == AT!sync_attention_completion(bumped, previous, bumped.state_rev) IN
        /\ y \in AtCells /\ y.blocked = bumped.blocked /\ y.prev_status = bumped.prev_status
        /\ y.content_rev = bumped.content_rev /\ y.state_rev = bumped.state_rev
        /\ \/ y = bumped /\ (AT!Kind(bumped.blocked.screen) = "chat") = (previous = "chat")
           \/ y.completion_rev = 0 /\ ~y.finished_notif /\ AT!Kind(bumped.blocked.screen) # "chat"
           \/ /\ ~y.finished_notif /\ y.armed = AT!ArmedBy("chat", bumped.content_rev)
              /\ AT!Kind(bumped.blocked.screen) = "chat" /\ y.completion_rev = bumped.state_rev
    <3>1. AT!ArmedBy("chat", bumped.content_rev) \in Armings /\ AT!NotArmed \in Armings
      BY <1>1, <2>7 DEF AT!ArmedBy, AT!NotArmed, Armings, AtRows
    <3> QED BY <3>1, <2>5, <2>7 DEF AtCells, AT!sync_attention_completion, AT!None
  <2>9. /\ done \in AtCells /\ done.prev_status = "blocked" /\ done.blocked.event # 0
        /\ done.state_rev # 0 /\ cell.content_rev <= done.content_rev
    BY <1>1, <2>2, <2>3, <2>4, <2>6, <2>7, <2>8
  <2>10. /\ Sound(done)
         /\ \/ done.completion_rev = 0 \/ Kept(cell, done)
            \/ Fresh(cell, done) /\ done.armed.by = "chat"
    <3>1. CASE ~moved
      BY <3>1, <1>1 DEF Kept
    <3>2. CASE moved /\ done = bumped /\ (AT!Kind(bumped.blocked.screen) = "chat") = (previous = "chat")
      BY <3>2, <1>1, <2>2, <2>4, <2>6, <2>9 DEF Kept, Sound
    <3>3. CASE done.completion_rev = 0 /\ ~done.finished_notif
      BY <3>3, <2>9 DEF Sound
    <3>4. CASE /\ moved /\ ~done.finished_notif /\ done.armed = AT!ArmedBy("chat", bumped.content_rev)
               /\ AT!Kind(bumped.blocked.screen) = "chat" /\ done.blocked = bumped.blocked
               /\ done.content_rev = bumped.content_rev
      <4>1. done.armed.by = "chat"
        BY <3>4 DEF AT!ArmedBy
      <4>2. Fresh(cell, done)
        BY <3>4, <4>1, <2>4, <2>6, <2>7 DEF Fresh
      <4> QED BY <3>4, <4>1, <4>2, <2>9 DEF Sound
    <3> HIDE DEF moved
    <3> QED BY <3>1, <3>2, <3>3, <3>4, <2>8
  <2> HIDE DEF done
  <2>11. u \in AtTasks
    BY <1>1, <2>9 DEF AtTasks, AtCells, AtStages, Faces
  <2>12. u.at \in {"chat", "journal"}
    BY <1>1 DEF AtTasks
  <2> HIDE DEF u
  <2>13. ActorTypes' /\ QueueTypes' /\ ToldTypes' /\ Len(dirty)' <= 1
    BY <2>1, <2>9, <2>11 DEF AttentionInv, ActorTypes, QueueTypes, ToldTypes
  <2>14. RowsAgree' /\ Sound(cell)' /\ ReadsHaveCycle'
    BY <2>1, <2>2, <2>9, <2>10, <2>12 DEF AttentionInv, RowsAgree, Sound, ReadsHaveCycle
  <2>15. ClaimsDiffer'
    <3>1. \A i \in 1 .. Len(claims) : claims[i][3] \in Armings
      BY DEF AttentionInv, ToldTypes
    <3>2. /\ act.gen \in Nat /\ done.content_rev \in Nat /\ cell.content_rev \in Nat
          /\ cell.armed \in Armings
      BY <1>1, <2>9 DEF AtRows, AtCells
    <3>3. \A a \in Armings : Earlier(a) => Earlier(a)'
      BY <3>2, <2>1, <2>9 DEF Earlier, Armings
    <3>4. \A i \in 1 .. Len(claims) : Earlier(claims[i][3])'
      BY <3>1, <3>3, <2>1 DEF AttentionInv, ClaimsDiffer, Earlier
    <3>5. CASE done.completion_rev = 0
      BY <3>4, <3>5, <2>1 DEF AttentionInv, ClaimsDiffer
    <3>6. CASE Kept(cell, done)
      BY <3>2, <3>3, <3>4, <3>6, <2>1, <2>9 DEF AttentionInv, ClaimsDiffer, Kept, Earlier, Armings
    <3>7. CASE Fresh(cell, done)
      <4>1. done.armed.at = done.content_rev /\ done.armed.gen = act.gen
        BY <3>7 DEF Fresh, AT!ArmedBy
      <4>2. Earlier(cell.armed)'
        BY <4>1, <2>1, <3>2 DEF Earlier
      <4>3. \A i \in 1 .. Len(claims) : claims[i][3] # done.armed
        BY SMTT(30), <3>1, <3>2, <4>1, <3>7 DEF AttentionInv, ClaimsDiffer, Earlier, Armings, Fresh
      <4> QED BY <3>4, <4>2, <4>3, <2>1 DEF AttentionInv, ClaimsDiffer
    <3> QED BY <2>10, <3>5, <3>6, <3>7
  <2>16. TurnIsTold'
    BY <2>1, <2>9, <2>10 DEF TurnIsTold, AT!Armed, AT!None, Sound, AT!is_attention_status
  <2> QED BY <2>13, <2>14, <2>15, <2>16 DEF AttentionInv
<1> QED BY <1>2, <1>3

(* A completion is claimed by one task at most, and one armed by an agent's   *)
(* turn is told, however commits and transition tasks overtake each other    *)
(* (register_finished_notification, handle_transition, commit_attention).    *)
THEOREM CompletionAlwaysToldOnce == AT!Spec => []CompletionToldOnce
<1>1. AT!Init => AttentionInv
  <2> SUFFICES ASSUME AT!Init PROVE AttentionInv
    OBVIOUS
  <2>1. /\ act = [live |-> FALSE, status |-> "none", term |-> 0, gen |-> 0, rev |-> 0,
                  accepted |-> FALSE]
        /\ pub = act /\ dirty = <<>> /\ cell = AT!DefaultCell /\ inbox = <<>> /\ tasks = {}
        /\ claims = <<>> /\ timeouts = 0
    BY DEF AT!Init, AT!None
  <2>2. act \in AtRows /\ ~act.live
    BY <2>1 DEF AtRows, Phases
  <2>3. /\ cell \in AtCells /\ cell.completion_rev = 0 /\ cell.prev_status = "none"
        /\ cell.blocked = AT!NoBlocked
    BY <2>1 DEF AT!DefaultCell, AtCells, AT!NoBlocked, AT!NotArmed, Armings, Cycles, Faces, Phases,
                AT!None
  <2>4. ActorTypes /\ QueueTypes /\ ToldTypes /\ Len(dirty) <= 1
    BY <2>1, <2>2, <2>3 DEF ActorTypes, QueueTypes, ToldTypes
  <2>5. RowsAgree /\ Sound(cell) /\ ReadsHaveCycle /\ ClaimsDiffer /\ TurnIsTold
    BY <2>1, <2>2, <2>3 DEF RowsAgree, Sound, ReadsHaveCycle, ClaimsDiffer, TurnIsTold, AT!Armed,
                            AT!None, AT!is_attention_status
  <2> QED BY <2>4, <2>5 DEF AttentionInv
<1>2. AttentionInv /\ [AT!Next]_AT!attVars => AttentionInv'
  <2> SUFFICES ASSUME AttentionInv, [AT!Next]_AT!attVars PROVE AttentionInv'
    OBVIOUS
  <2>1. CASE UNCHANGED AT!attVars
    BY <2>1 DEF AT!attVars, AttentionInv, ActorTypes, QueueTypes, ToldTypes, RowsAgree, Sound,
                ReadsHaveCycle, ClaimsDiffer, Earlier, TurnIsTold, AT!Armed, Unpublished, Published,
                Pending, Heard, Waiting, Capturing, Announces
  <2>2. CASE AT!Actor
    BY <2>2, AcceptKeeps, RemovedKeeps, StatusKeeps, BumpKeeps, AtPublishKeeps DEF AT!Actor
  <2>3. CASE AT!Spawn
    BY <2>3, SpawnKeeps
  <2>4. ASSUME NEW t \in tasks, AT!Handle(t) PROVE AttentionInv'
    <3>1. UNCHANGED <<act, pub, dirty, inbox, timeouts>>
      BY <2>4 DEF AT!Handle
    <3> QED BY <2>4, <3>1, HandleKeeps, ClaimKeeps, ReadKeeps DEF CellSteps
  <2>5. ASSUME NEW t \in tasks, AT!TaskTimesOut(t) PROVE AttentionInv'
    BY <2>5, TimeoutKeeps
  <2> QED BY <2>1, <2>2, <2>3, <2>4, <2>5 DEF AT!Next
<1>3. AttentionInv => CompletionToldOnce
  <2> SUFFICES ASSUME AttentionInv PROVE AT!ClaimedOnce /\ AT!TurnCompletionTold
    BY DEF CompletionToldOnce
  <2>1. AT!ClaimedOnce
    BY DEF AttentionInv, ClaimsDiffer, AT!ClaimedOnce
  <2>2. AT!TurnCompletionTold
    <3> SUFFICES ASSUME AT!Quiet, timeouts = 0, AT!Armed("turn") PROVE cell.completion_rev \in told
      BY DEF AT!TurnCompletionTold
    <3>1. dirty = <<>> /\ inbox = <<>> /\ tasks = {}
      BY DEF AT!Quiet
    <3>2. ~Unpublished /\ ~Waiting /\ ~Capturing
      BY <3>1 DEF Unpublished, Waiting, Capturing
    <3> QED BY <3>2 DEF AttentionInv, TurnIsTold, Pending, Heard
  <2> QED BY <2>1, <2>2
<1> QED BY <1>1, <1>2, <1>3, PTL DEF AT!Spec

-----------------------------------------------------------------------------
(* The client of Herdr: types *)

Changes == {"created", "closed", "updated"}
EventKinds == Changes \cup {"status"}
HerdrEvents == [k : EventKinds, p : HerdrPanes, n : Nat]
StreamLines == HerdrEvents \cup [k : {"end"}]
HerdrData == UNION {[panes : {P}, topo : Nat, status : [P -> Nat]] : P \in SUBSET HerdrPanes}
SyncSignals == [k : {"synced"}, data : HerdrData, old : BOOLEAN]
EventSignals == [k : EventKinds, p : HerdrPanes, n : Nat, gap : BOOLEAN]
HerdrSignals == SyncSignals \cup EventSignals \cup [k : {"reconnecting"}]
Fetched == {HD!Waiting, HD!NoAnswer} \cup [k : {"ok"}, data : HerdrData, at : Nat]
BuildsOrNobody == HD!Builds \cup {HD!Nobody}
Verdicts == {"unknown", "yes", "no"}
FeatureNotes == [state : Verdicts, of : BuildsOrNobody, by : BuildsOrNobody]

FollowTypes ==
  /\ herdr \in [build : HD!Builds, bin : HD!Builds, n : Nat, panes : SUBSET HerdrPanes,
                topo : Nat, status : [HerdrPanes -> Nat]]
  /\ stream \in [open : BOOLEAN, subs : SUBSET HerdrPanes, tracks : BOOLEAN, from : Nat,
                 wire : Seq(StreamLines), queue : Seq(StreamLines),
                 reader : {"off", "reading", "failed"}]
  /\ sup \in [pc : {"boot", "backoff", "attempt", "ids", "sub", "snap", "announce", "watch"},
              attempt : BOOLEAN, panes : SUBSET HerdrPanes, out : Seq(HerdrSignals),
              refresh : BOOLEAN, remaining : Int]
  /\ signals \in Seq(HerdrSignals)
  /\ flight \in [st : {"none", "dial", "served", "cut"}, data : HerdrData, at : Nat,
                 waiters : SUBSET {"sup", "actor"}]
  /\ got \in [{"sup", "actor"} -> Fetched]
  /\ keeper \in [pc : {"idle", "refresh", "poll"}, failed : BOOLEAN, view : HerdrData]

LedgerTypes ==
  /\ caps \in [epoch : Nat, identity : BuildsOrNobody, report : [HD!Features -> Verdicts],
               notes : [HD!Features -> FeatureNotes]]
  /\ collect \in [pc : {"idle", "schema", "probe", "apply"}, wanted : BOOLEAN, epoch : Nat,
                  identity : BuildsOrNobody, bin : BuildsOrNobody,
                  next : [HD!Features -> Verdicts]]
  /\ call \in [pc : {"idle", "permit", "answered", "cut", "done"}, kind : {"read", "do"},
               epoch : Nat, applied : BOOLEAN, by : BuildsOrNobody,
               reply : {"none", "ok", "unknown_method", "refused", "unreadable_request"},
               phase : {"none", "ok", "refused", "dispatched", "not_started"}]

-----------------------------------------------------------------------------
(* The client of Herdr: the invariant *)

IsEvent(x) == x.k \in EventKinds
Items(s) == {s[i] : i \in 1..Len(s)}

(* The numbers of the events in a queue rise, and those of one queue are      *)
(* below those of another.                                                   *)
Rising(s) ==
  \A i, j \in 1..Len(s) : i < j /\ IsEvent(s[i]) /\ IsEvent(s[j]) => s[i].n < s[j].n
Below(s, t) == \A x \in Items(s), y \in Items(t) : IsEvent(x) /\ IsEvent(y) => x.n < y.n

(* Events travel in the order of their numbers. *)
InOrder ==
  /\ Rising(signals) /\ Rising(sup.out) /\ Rising(stream.queue) /\ Rising(stream.wire)
  /\ Below(signals, sup.out) /\ Below(signals, stream.queue) /\ Below(signals, stream.wire)
  /\ Below(sup.out, stream.queue) /\ Below(sup.out, stream.wire)
  /\ Below(stream.queue, stream.wire)

(* An event of the past: no later than the last change, and than the last     *)
(* status of its pane if it is one.                                          *)
IsPast(x) == IsEvent(x) =>
  x.n <= herdr.n /\ (x.k = "status" => x.n <= herdr.status[x.p])
Past(s) == \A x \in Items(s) : IsPast(x)
Later(s) == \A x \in Items(s) : IsEvent(x) => x.n > stream.from
Sooner(s) == \A x \in Items(s) : IsEvent(x) => x.n <= stream.from

Numbers ==
  /\ herdr.topo <= herdr.n /\ stream.from <= herdr.n
  /\ \A p \in HerdrPanes : herdr.status[p] <= herdr.n
  /\ Past(signals) /\ Past(sup.out) /\ Past(stream.queue) /\ Past(stream.wire)
  /\ stream.open => Later(sup.out) /\ Later(stream.queue) /\ Later(stream.wire)

(* The supervisor and its connection. *)
OpenFits ==
  /\ stream.open => /\ sup.pc \in {"snap", "announce", "watch"} /\ stream.reader = "reading"
                    /\ \A x \in Items(stream.queue) : IsEvent(x)
                    /\ \A x \in Items(stream.wire) : IsEvent(x)
  /\ \A i \in 1..Len(stream.queue) :
       stream.queue[i].k = "end" => i = Len(stream.queue) /\ stream.reader = "off"
  /\ sup.pc # "announce" => sup.out = <<>>
  /\ \A i \in 1..Len(sup.out) : IsEvent(sup.out[i]) \/ (i = 1 /\ sup.out[i].k = "synced")

(* Who waits for the shared read. *)
FlightFits ==
  /\ flight.waiters = {} <=> flight.st = "none"
  /\ "sup" \in flight.waiters => sup.pc \in {"ids", "snap"} /\ got["sup"] = HD!Waiting
  /\ "actor" \in flight.waiters => keeper.pc # "idle" /\ got["actor"] = HD!Waiting
  /\ got["sup"] # HD!Waiting => sup.pc \in {"ids", "snap"}
  /\ got["actor"] # HD!Waiting => keeper.pc # "idle"

(* What was read at a change is what Herdr held then. *)
DataTrue(d, at) ==
  /\ at <= herdr.n
  /\ at >= herdr.topo => d.topo = herdr.topo /\ d.panes = herdr.panes
  /\ \A p \in d.panes : at >= herdr.status[p] => d.status[p] = herdr.status[p]

ReadsTrue ==
  /\ flight.st = "served" => DataTrue(flight.data, flight.at)
  /\ \A c \in {"sup", "actor"} : got[c].k = "ok" => DataTrue(got[c].data, got[c].at)

(* The last change, and the last status of a pane, are among these. *)
IsChange(x) == x.k \in Changes /\ x.n = herdr.topo
IsStatus(x, p) == x.k = "status" /\ x.p = p /\ x.n = herdr.status[p]
ChangeIn(s) == \E x \in Items(s) : IsChange(x)
StatusIn(s, p) == \E x \in Items(s) : IsStatus(x, p)
MemberIn(s) == \E x \in Items(s) : x.k \in {"created", "closed"}
AnyStatusIn(s, p) == \E x \in Items(s) : x.k = "status" /\ x.p = p /\ x.n > stream.from

ChangeWaits ==
  \/ ChangeIn(signals) \/ ChangeIn(sup.out) \/ ChangeIn(stream.queue) \/ ChangeIn(stream.wire)
StatusWaits(p) ==
  \/ StatusIn(signals, p) \/ StatusIn(sup.out, p)
  \/ StatusIn(stream.queue, p) \/ StatusIn(stream.wire, p)
AnyStatusWaits(p) ==
  \/ AnyStatusIn(signals, p) \/ AnyStatusIn(sup.out, p)
  \/ AnyStatusIn(stream.queue, p) \/ AnyStatusIn(stream.wire, p)

(* While the snapshot is awaited, the stream holds all there was since the    *)
(* subscription.                                                             *)
SnapMember(a) ==
  a.at >= stream.from =>
    a.data.panes = herdr.panes \/ MemberIn(stream.queue) \/ MemberIn(stream.wire)
SnapFits ==
  stream.open /\ sup.pc = "snap" =>
    /\ Sooner(signals)
    /\ herdr.topo > stream.from => ChangeIn(stream.queue) \/ ChangeIn(stream.wire)
    /\ \A p \in stream.subs : herdr.status[p] > stream.from =>
         StatusIn(stream.queue, p) \/ StatusIn(stream.wire, p)
    /\ flight.st = "served" => SnapMember(flight)
    /\ got["sup"].k = "ok" => SnapMember(got["sup"])

(* The connection is announced; the snapshot of it, if it is under way, is    *)
(* the last one, and what is older than the subscription goes before it.      *)
Announced == stream.open /\ sup.pc \in {"announce", "watch"}
SyncOut == sup.out # <<>> /\ sup.out[1].k = "synced"
SyncIn(s) == \E x \in Items(s) : x.k = "synced"
NoSync == ~SyncOut /\ ~SyncIn(signals)
LastSync(i) ==
  /\ signals[i].k = "synced" /\ ~SyncOut
  /\ \A j \in 1..Len(signals) : j > i => signals[j].k # "synced"

SyncFits ==
  Announced =>
    /\ SyncOut => Sooner(signals)
    /\ \A i, j \in 1..Len(signals) :
         j < i /\ signals[i].k = "synced" /\ IsEvent(signals[j]) => signals[j].n <= stream.from
    /\ \A i \in 1..Len(signals) :
         IsEvent(signals[i]) /\ signals[i].n <= stream.from =>
           SyncOut \/ \E j \in 1..Len(signals) : j > i /\ signals[j].k = "synced"

(* A status that waits is followed by the last one. *)
StatusFollows == stream.open => \A p \in stream.subs : AnyStatusWaits(p) => StatusWaits(p)

(* What data lack waits to be told, and came after the subscription. *)
FreshTopo(d) ==
  \/ d.topo = herdr.topo /\ d.panes = herdr.panes
  \/ herdr.topo > stream.from /\ ChangeWaits
FreshStatus(d) ==
  \A p \in stream.subs \cap d.panes :
    d.status[p] = herdr.status[p] \/ (herdr.status[p] > stream.from /\ StatusWaits(p))
FreshData(d) == FreshTopo(d) /\ FreshStatus(d)

Members ==
  stream.tracks =>
    herdr.panes = stream.subs \/ sup.refresh \/ MemberIn(stream.queue) \/ MemberIn(stream.wire)

SyncFresh ==
  Announced =>
    /\ SyncOut /\ ~sup.out[1].old => FreshData(sup.out[1].data) /\ Members
    /\ \A i \in 1..Len(signals) :
         LastSync(i) /\ ~signals[i].old => FreshData(signals[i].data) /\ Members

ViewFresh ==
  Announced /\ NoSync =>
    /\ "unwatched" \notin why => Members
    /\ keeper.pc = "idle" /\ ~keeper.failed /\ why \cap {"unread", "shared"} = {} =>
         FreshData(keeper.view)
    /\ "actor" \in flight.waiters /\ flight.st = "served" => FreshData(flight.data)
    /\ got["actor"].k = "ok" => FreshData(got["actor"].data)

FollowInv ==
  /\ FollowTypes /\ InOrder /\ Numbers /\ OpenFits /\ FlightFits /\ ReadsTrue
  /\ SnapFits /\ SyncFits /\ StatusFollows /\ SyncFresh /\ ViewFresh

(* The ledger. *)
NotesTrue ==
  /\ \A f \in HD!Features :
       /\ caps.notes[f].state = "yes" => f \in caps.notes[f].by
       /\ caps.notes[f].state = "no" => f \notin caps.notes[f].by
  /\ caps.identity # HD!Nobody => \A f \in HD!Features : caps.notes[f].of # HD!Nobody

CallFits ==
  /\ call.pc \in {"idle", "permit"} => ~call.applied
  /\ call.pc = "answered" =>
       /\ call.reply \in {"ok", "unknown_method"} => call.by = herdr.build
       /\ call.kind = "read" /\ call.reply = "ok" => "read" \in call.by
       /\ call.kind = "read" /\ call.reply = "unknown_method" => "read" \notin call.by
       /\ call.applied <=> call.reply = "ok"
       /\ call.reply # "none"
  /\ HD!PhaseTells

SaysTrue(r, f) == (r[f] = "yes" => f \in herdr.build) /\ (r[f] = "no" => f \notin herdr.build)

(* A refresh that began on this connection, and what the last one left. *)
RefreshFits ==
  /\ collect.pc \in {"schema", "probe"} => collect.identity # HD!Nobody
  /\ collect.pc = "probe" => collect.next["status"] = "unknown"
  /\ Announced /\ NoSync /\ ~collect.wanted =>
       /\ collect.pc # "idle" =>
            /\ collect.epoch = caps.epoch
            /\ collect.identity \in {HD!Nobody, herdr.build}
       /\ collect.pc = "apply" /\ collect.identity # HD!Nobody /\ "replaced" \notin why =>
            \A f \in HD!Features :
              SaysTrue(collect.next, f) \/ HD!note_for(f, herdr.build) \/ HD!Misbound(f)
       /\ collect.pc = "idle" /\ caps.identity # HD!Nobody /\ "replaced" \notin why =>
            /\ caps.identity = herdr.build
            /\ \A f \in HD!Features : SaysTrue(caps.report, f) \/ HD!Misbound(f)

LedgerInv == LedgerTypes /\ NotesTrue /\ CallFits /\ RefreshFits

-----------------------------------------------------------------------------
(* The client of Herdr: lemmas on queues and on data *)

(* What Append and Tail do to the items of a queue. *)
LEMMA AppendItems ==
  ASSUME NEW S, NEW s \in Seq(S), NEW x \in S
  PROVE  Items(Append(s, x)) = Items(s) \cup {x}
<1>1. Append(s, x) \in Seq(S) /\ Len(Append(s, x)) = Len(s) + 1 /\ Len(s) \in Nat
  OBVIOUS
<1>2. \A i \in 1..Len(s) : Append(s, x)[i] = s[i]
  OBVIOUS
<1>3. Append(s, x)[Len(s) + 1] = x
  OBVIOUS
<1> QED BY <1>1, <1>2, <1>3 DEF Items

LEMMA TailItems ==
  ASSUME NEW S, NEW s \in Seq(S), s # <<>>
  PROVE  /\ Head(s) \in S /\ Tail(s) \in Seq(S)
         /\ Items(s) = {Head(s)} \cup Items(Tail(s))
<1>1. /\ Len(s) \in Nat /\ Len(s) > 0 /\ Len(Tail(s)) = Len(s) - 1 /\ Tail(s) \in Seq(S)
      /\ Head(s) = s[1] /\ s[1] \in S
  OBVIOUS
<1>2. \A i \in 1..Len(Tail(s)) : Tail(s)[i] = s[i + 1]
  OBVIOUS
<1>3. \A i \in 2..Len(s) : s[i] = Tail(s)[i - 1]
  OBVIOUS
<1>4. Items(s) \subseteq {Head(s)} \cup Items(Tail(s))
  <2> SUFFICES ASSUME NEW i \in 1..Len(s) PROVE s[i] \in {Head(s)} \cup Items(Tail(s))
    BY DEF Items
  <2>1. CASE i = 1 BY <2>1, <1>1
  <2>2. CASE i # 1
    <3>1. i \in 2..Len(s) /\ i - 1 \in 1..Len(Tail(s)) BY <2>2, <1>1
    <3> QED BY <3>1, <1>3 DEF Items
  <2> QED BY <2>1, <2>2
<1>5. {Head(s)} \cup Items(Tail(s)) \subseteq Items(s)
  <2>1. Head(s) \in Items(s)
    <3>1. 1 \in 1..Len(s) BY <1>1
    <3> QED BY <1>1, <3>1 DEF Items
  <2>2. ASSUME NEW i \in 1..Len(Tail(s)) PROVE Tail(s)[i] \in Items(s)
    <3>1. i + 1 \in 1..Len(s) BY <1>1
    <3> QED BY <1>2, <3>1 DEF Items
  <2> QED BY <2>1, <2>2 DEF Items
<1> QED BY <1>1, <1>4, <1>5

LEMMA ItemsIn ==
  ASSUME NEW S, NEW s \in Seq(S)
  PROVE  Items(s) \subseteq S
BY DEF Items

LEMMA EmptyItems == Items(<<>>) = {}
BY DEF Items

LEMMA RisingTail ==
  ASSUME NEW S, NEW s \in Seq(S), s # <<>>, Rising(s)
  PROVE  /\ Rising(Tail(s))
         /\ \A x \in Items(Tail(s)) : IsEvent(Head(s)) /\ IsEvent(x) => Head(s).n < x.n
<1>1. /\ Len(s) \in Nat /\ Len(s) > 0 /\ Len(Tail(s)) = Len(s) - 1 /\ Tail(s) \in Seq(S)
      /\ Head(s) = s[1]
  OBVIOUS
<1>2. \A i \in 1..Len(Tail(s)) : Tail(s)[i] = s[i + 1] /\ i + 1 \in 1..Len(s)
  OBVIOUS
<1>3. Rising(Tail(s))
  <2> SUFFICES ASSUME NEW i \in 1..Len(Tail(s)), NEW j \in 1..Len(Tail(s)), i < j,
                      IsEvent(Tail(s)[i]), IsEvent(Tail(s)[j])
               PROVE  Tail(s)[i].n < Tail(s)[j].n
    BY DEF Rising
  <2>1. i + 1 < j + 1 BY <1>1
  <2> QED BY <1>2, <2>1 DEF Rising
<1>4. ASSUME NEW i \in 1..Len(Tail(s)), IsEvent(Head(s)), IsEvent(Tail(s)[i])
      PROVE  Head(s).n < Tail(s)[i].n
  <2>1. 1 < i + 1 /\ 1 \in 1..Len(s) BY <1>1
  <2> QED BY <1>1, <1>2, <1>4, <2>1 DEF Rising
<1> QED BY <1>3, <1>4 DEF Items

LEMMA RisingAppend ==
  ASSUME NEW S, NEW s \in Seq(S), NEW x \in S, Rising(s),
         \A y \in Items(s) : IsEvent(y) /\ IsEvent(x) => y.n < x.n
  PROVE  Rising(Append(s, x))
<1>1. Append(s, x) \in Seq(S) /\ Len(Append(s, x)) = Len(s) + 1 /\ Len(s) \in Nat
  OBVIOUS
<1>2. \A i \in 1..Len(s) : Append(s, x)[i] = s[i]
  OBVIOUS
<1>3. Append(s, x)[Len(s) + 1] = x
  OBVIOUS
<1> SUFFICES ASSUME NEW i \in 1..(Len(s) + 1), NEW j \in 1..(Len(s) + 1), i < j,
                    IsEvent(Append(s, x)[i]), IsEvent(Append(s, x)[j])
             PROVE  Append(s, x)[i].n < Append(s, x)[j].n
  BY <1>1 DEF Rising
<1>4. i \in 1..Len(s) BY <1>1
<1>5. CASE j = Len(s) + 1
  <2>1. s[i] \in Items(s) BY <1>4 DEF Items
  <2> QED BY <1>2, <1>3, <1>4, <1>5, <2>1
<1>6. CASE j # Len(s) + 1
  <2>1. j \in 1..Len(s) BY <1>1, <1>6
  <2> QED BY <1>2, <1>4, <2>1 DEF Rising
<1> QED BY <1>5, <1>6

LEMMA RisingEmpty == Rising(<<>>)
BY DEF Rising

(* What Herdr's data are. *)
LEMMA DataFacts ==
  ASSUME NEW d \in HerdrData
  PROVE  /\ d.panes \in SUBSET HerdrPanes /\ d.topo \in Nat /\ d.status \in [d.panes -> Nat]
         /\ d = [panes |-> d.panes, topo |-> d.topo, status |-> d.status]
<1>1. PICK P \in SUBSET HerdrPanes : d \in [panes : {P}, topo : Nat, status : [P -> Nat]]
  BY DEF HerdrData
<1>2. d.panes = P BY <1>1
<1> QED BY <1>1, <1>2

LEMMA IsData ==
  ASSUME NEW P \in SUBSET HerdrPanes, NEW t \in Nat, NEW f \in [P -> Nat]
  PROVE  [panes |-> P, topo |-> t, status |-> f] \in HerdrData
<1>1. [panes |-> P, topo |-> t, status |-> f] \in [panes : {P}, topo : Nat, status : [P -> Nat]]
  OBVIOUS
<1> QED BY <1>1 DEF HerdrData

LEMMA NothingIsData == HD!Nothing \in HerdrData
<1>1. <<>> \in [{} -> Nat] OBVIOUS
<1> QED BY <1>1, IsData DEF HD!Nothing

LEMMA ContentsAreData ==
  ASSUME FollowTypes
  PROVE  /\ HD!Contents \in HerdrData
         /\ HD!Contents.panes = herdr.panes /\ HD!Contents.topo = herdr.topo
         /\ HD!Contents.status = [p \in herdr.panes |-> herdr.status[p]]
<1>1. herdr.panes \in SUBSET HerdrPanes /\ herdr.topo \in Nat /\ herdr.status \in [HerdrPanes -> Nat]
  BY DEF FollowTypes
<1>2. [p \in herdr.panes |-> herdr.status[p]] \in [herdr.panes -> Nat] BY <1>1
<1> QED BY <1>1, <1>2, IsData DEF HD!Contents

LEMMA CommittedIsData ==
  ASSUME NEW v \in HerdrData, NEW p \in v.panes, NEW n \in Nat
  PROVE  /\ [v EXCEPT !.status[p] = n] \in HerdrData
         /\ [v EXCEPT !.status[p] = n].panes = v.panes
         /\ [v EXCEPT !.status[p] = n].topo = v.topo
         /\ [v EXCEPT !.status[p] = n].status = [v.status EXCEPT ![p] = n]
<1>1. /\ v.panes \in SUBSET HerdrPanes /\ v.topo \in Nat /\ v.status \in [v.panes -> Nat]
      /\ v = [panes |-> v.panes, topo |-> v.topo, status |-> v.status]
  BY DataFacts
<1>2. [v.status EXCEPT ![p] = n] \in [v.panes -> Nat] BY <1>1
<1>3. [v EXCEPT !.status[p] = n] =
        [panes |-> v.panes, topo |-> v.topo, status |-> [v.status EXCEPT ![p] = n]]
  BY <1>1
<1> QED BY <1>1, <1>2, <1>3, IsData

-----------------------------------------------------------------------------
(* The client of Herdr: the steps of the server and of the shared read *)

(* A step that leaves the way from Herdr to the actor alone. *)
LEMMA FollowFrame ==
  ASSUME FollowInv, FollowTypes', UNCHANGED <<stream, signals, flight, got, keeper>>,
         herdr'.n = herdr.n, herdr'.topo = herdr.topo, herdr'.panes = herdr.panes,
         herdr'.status = herdr.status, sup'.out = sup.out, sup'.refresh = sup.refresh,
         \/ sup'.pc = sup.pc
         \/ sup.pc \in {"boot", "backoff"} /\ sup'.pc = "attempt"
         \/ sup.pc = "announce" /\ sup.out = <<>> /\ sup'.pc = "watch",
         \A c \in {"unread", "shared", "unwatched"} : c \in why' <=> c \in why
  PROVE  FollowInv'
<1> USE DEF FollowInv
<1>1. InOrder' /\ Numbers'
  BY DEF InOrder, Numbers, Past, IsPast, Later, Below, Rising
<1>2. OpenFits' /\ FlightFits' /\ ReadsTrue'
  BY DEF OpenFits, FlightFits, ReadsTrue, DataTrue
<1>3. stream.open => /\ sup'.pc = "snap" <=> sup.pc = "snap"
                     /\ sup'.pc \in {"announce", "watch"} <=> sup.pc \in {"announce", "watch"}
  BY DEF OpenFits
<1>4. SnapFits'
  BY <1>3 DEF SnapFits, Sooner, ChangeIn, StatusIn, SnapMember, MemberIn, IsChange, IsStatus
<1>5. Announced' = Announced /\ NoSync' = NoSync /\ SyncOut' = SyncOut
  BY <1>3, Zenon DEF Announced, NoSync, SyncOut, SyncIn
<1>6. SyncFits' /\ StatusFollows'
  BY <1>5 DEF SyncFits, Sooner, StatusFollows, AnyStatusWaits, AnyStatusIn, StatusWaits, StatusIn, IsStatus
<1>7. \A d : FreshData(d) => FreshData(d)'
  BY DEF FreshData, FreshTopo, FreshStatus, ChangeWaits, ChangeIn, StatusWaits, StatusIn, IsChange, IsStatus
<1>8. Members => Members'
  BY DEF Members, MemberIn
<1>9. SyncFresh'
  <2>1. \A i \in 1..Len(signals) : LastSync(i)' = LastSync(i) BY <1>5, Zenon DEF LastSync
  <2> QED BY <1>5, <1>7, <1>8, <2>1 DEF SyncFresh
<1>10. ViewFresh'
  <2>1. why' \cap {"unread", "shared"} = {} => why \cap {"unread", "shared"} = {} OBVIOUS
  <2> QED BY <1>5, <1>7, <1>8, <2>1 DEF ViewFresh
<1> QED BY <1>1, <1>2, <1>4, <1>6, <1>9, <1>10

(* A connection that is closed has nothing to hold. *)
LEMMA ClosedFollow ==
  ASSUME ~stream'.open
  PROVE  SnapFits' /\ SyncFits' /\ StatusFollows' /\ SyncFresh' /\ ViewFresh'
BY DEF SnapFits, SyncFits, StatusFollows, SyncFresh, ViewFresh, Announced

(* The snapshots on their way to the actor. *)
LEMMA SyncsAreData ==
  ASSUME FollowTypes
  PROVE  /\ \A i \in 1..Len(signals) : LastSync(i) => signals[i].data \in HerdrData
         /\ SyncOut => sup.out[1].data \in HerdrData
<1>1. \A s \in HerdrSignals : s.k = "synced" => s.data \in HerdrData
  BY DEF HerdrSignals, SyncSignals, EventSignals, EventKinds, Changes
<1>2. \A i \in 1..Len(signals) : signals[i] \in HerdrSignals BY DEF FollowTypes
<1>3. SyncOut => sup.out[1] \in HerdrSignals BY DEF FollowTypes, SyncOut
<1> QED BY <1>1, <1>2, <1>3 DEF LastSync, SyncOut

LEMMA ChangedKeeps ==
  ASSUME FollowInv, NEW k \in EventKinds, NEW p \in HerdrPanes, NEW panes \in SUBSET HerdrPanes,
         HD!Changed(k, p, panes), k \in {"updated", "status"} => panes = herdr.panes
  PROVE  FollowInv'
<1> USE DEF FollowInv
<1>1. /\ herdr.n \in Nat /\ herdr.topo \in Nat /\ herdr.status \in [HerdrPanes -> Nat]
      /\ stream.wire \in Seq(StreamLines) /\ stream.from \in Nat
  BY DEF FollowTypes
<1>2. /\ herdr'.n = herdr.n + 1 /\ herdr'.panes = panes
      /\ herdr'.topo = IF k = "status" THEN herdr.topo ELSE herdr.n + 1
      /\ herdr'.status = [herdr.status EXCEPT ![p] = IF k = "status" THEN herdr.n + 1 ELSE @]
      /\ herdr'.build = herdr.build /\ herdr'.bin = herdr.bin
      /\ herdr' \in [build : HD!Builds, bin : HD!Builds, n : Nat, panes : SUBSET HerdrPanes,
                     topo : Nat, status : [HerdrPanes -> Nat]]
  <2>1. herdr = [build |-> herdr.build, bin |-> herdr.bin, n |-> herdr.n, panes |-> herdr.panes,
                 topo |-> herdr.topo, status |-> herdr.status]
        /\ herdr.build \in HD!Builds /\ herdr.bin \in HD!Builds
    BY DEF FollowTypes
  <2>2. herdr' = [build |-> herdr.build, bin |-> herdr.bin, n |-> herdr.n + 1, panes |-> panes,
                  topo |-> IF k = "status" THEN herdr.topo ELSE herdr.n + 1,
                  status |-> [herdr.status EXCEPT ![p] = IF k = "status" THEN herdr.n + 1 ELSE @]]
    BY <2>1 DEF HD!Changed
  <2>3. [herdr.status EXCEPT ![p] = IF k = "status" THEN herdr.n + 1 ELSE @] \in [HerdrPanes -> Nat]
    BY <1>1
  <2>4. (IF k = "status" THEN herdr.topo ELSE herdr.n + 1) \in Nat /\ herdr.n + 1 \in Nat BY <1>1
  <2> QED BY <2>1, <2>2, <2>3, <2>4
<1>31. HD!Event(k, p) \in HerdrEvents
  BY <1>1 DEF HD!Event, HerdrEvents
<1>32. PICK e \in HerdrEvents : e = HD!Event(k, p) BY <1>31
<1>3. /\ e \in HerdrEvents /\ e \in StreamLines /\ e.k = k /\ e.p = p /\ e.n = herdr.n + 1 /\ IsEvent(e)
  BY <1>1, <1>32 DEF HD!Event, HerdrEvents, StreamLines, IsEvent
<1>4. UNCHANGED <<sup, signals, flight, got, keeper, why>>
  BY DEF HD!Changed
<1>5. stream' = stream \/ stream' = [stream EXCEPT !.wire = Append(@, e)]
  BY <1>3, <1>32 DEF HD!Changed, HD!Emitted
<1>6. stream.open /\ (k = "status" => p \in stream.subs) => stream' = [stream EXCEPT !.wire = Append(@, e)]
  BY <1>3, <1>32 DEF HD!Changed, HD!Emitted
<1>7. /\ stream'.open = stream.open /\ stream'.subs = stream.subs /\ stream'.tracks = stream.tracks
      /\ stream'.from = stream.from /\ stream'.queue = stream.queue /\ stream'.reader = stream.reader
  BY <1>5 DEF FollowTypes
<1>8. stream'.wire \in Seq(StreamLines) /\ stream' \in [open : BOOLEAN, subs : SUBSET HerdrPanes, tracks : BOOLEAN, from : Nat,
                 wire : Seq(StreamLines), queue : Seq(StreamLines),
                 reader : {"off", "reading", "failed"}]
  <2>1. Append(stream.wire, e) \in Seq(StreamLines) BY <1>1, <1>3
  <2> QED BY <1>5, <2>1 DEF FollowTypes
<1>9. FollowTypes' BY SMTT(30), <1>2, <1>4, <1>8 DEF FollowTypes
<1>10. /\ Items(stream.wire) \subseteq Items(stream'.wire)
       /\ Items(stream'.wire) \subseteq Items(stream.wire) \cup {e}
       /\ stream.open /\ (k = "status" => p \in stream.subs) => e \in Items(stream'.wire)
  <2>1. Items(Append(stream.wire, e)) = Items(stream.wire) \cup {e}
    BY <1>1, <1>3, AppendItems
  <2>2. stream' = [stream EXCEPT !.wire = Append(@, e)] => stream'.wire = Append(stream.wire, e)
    BY DEF FollowTypes
  <2> QED BY <1>5, <1>6, <2>1, <2>2
<1>11. Rising(stream'.wire)
  <2>1. \A y \in Items(stream.wire) : IsEvent(y) => y.n <= herdr.n BY DEF Numbers, Past, IsPast
  <2>2. \A y \in Items(stream.wire) : IsEvent(y) => y.n \in Nat
    BY <1>1, ItemsIn DEF StreamLines, HerdrEvents, IsEvent, EventKinds, Changes
  <2>3. Rising(Append(stream.wire, e))
    BY <1>1, <1>3, <2>1, <2>2, RisingAppend DEF InOrder
  <2> QED BY <1>5, <2>3 DEF FollowTypes, InOrder
<1>12. \A x \in Items(signals) \cup Items(sup.out) \cup Items(stream.queue) \cup Items(stream.wire) :
         IsEvent(x) => x.n \in Nat /\ x.n <= herdr.n
  <2>1. signals \in Seq(HerdrSignals) /\ sup.out \in Seq(HerdrSignals) /\ stream.queue \in Seq(StreamLines)
    BY DEF FollowTypes
  <2>2. \A x \in HerdrSignals \cup StreamLines : IsEvent(x) => x.n \in Nat
    BY DEF HerdrSignals, SyncSignals, EventSignals, StreamLines, HerdrEvents, IsEvent, EventKinds, Changes
  <2> QED BY <1>1, <2>1, <2>2, ItemsIn DEF Numbers, Past, IsPast
<1>13. InOrder'
  <2>1. Below(signals, stream.wire)' /\ Below(sup.out, stream.wire)' /\ Below(stream.queue, stream.wire)'
    BY <1>1, <1>3, <1>4, <1>7, <1>10, <1>12 DEF Below, InOrder
  <2> QED BY <1>4, <1>7, <1>11, <2>1 DEF InOrder, Below, Rising
<1>14. /\ herdr'.n \in Nat /\ herdr.n < herdr'.n /\ herdr.topo <= herdr'.topo /\ herdr'.topo <= herdr'.n
       /\ \A q \in HerdrPanes : herdr.status[q] <= herdr'.status[q] /\ herdr'.status[q] <= herdr'.n
  BY <1>1, <1>2 DEF Numbers
<1>15. \A x \in HerdrSignals \cup StreamLines : IsEvent(x) => x.p \in HerdrPanes /\ x.n \in Nat
  BY DEF HerdrSignals, SyncSignals, EventSignals, StreamLines, HerdrEvents, IsEvent, EventKinds, Changes
<1>16. \A x \in HerdrSignals \cup StreamLines : IsPast(x) => IsPast(x)'
  BY <1>1, <1>2, <1>14, <1>15 DEF IsPast, IsEvent
<1>17. IsPast(e)' BY <1>1, <1>2, <1>3 DEF IsPast
<1>18. Numbers'
  <2>1. signals \in Seq(HerdrSignals) /\ sup.out \in Seq(HerdrSignals) /\ stream.queue \in Seq(StreamLines)
    BY DEF FollowTypes
  <2>2. /\ Items(signals) \subseteq HerdrSignals /\ Items(sup.out) \subseteq HerdrSignals
        /\ Items(stream.queue) \subseteq StreamLines /\ Items(stream.wire) \subseteq StreamLines
    BY <1>1, <2>1, ItemsIn
  <2>3. Past(signals)' /\ Past(sup.out)' /\ Past(stream.queue)'
    BY <1>4, <1>7, <1>16, <2>2 DEF Numbers, Past
  <2>4. Past(stream.wire)'
    BY <1>10, <1>16, <1>17, <2>2 DEF Numbers, Past
  <2>5. stream.open => Later(sup.out)' /\ Later(stream.queue)' /\ Later(stream.wire)'
    BY <1>1, <1>3, <1>4, <1>7, <1>10 DEF Numbers, Later
  <2> QED BY <1>1, <1>2, <1>7, <1>14, <2>3, <2>4, <2>5 DEF Numbers
<1>19. OpenFits' /\ FlightFits'
  BY <1>3, <1>4, <1>7, <1>10 DEF OpenFits, FlightFits
<1>20. ReadsTrue'
  <2>1. ASSUME NEW d \in HerdrData, NEW at \in Nat, DataTrue(d, at) PROVE DataTrue(d, at)'
    <3>1. d.panes \in SUBSET HerdrPanes BY DataFacts
    <3> QED BY <1>1, <1>2, <1>14, <2>1, <3>1 DEF DataTrue, EventKinds, Changes
  <2>2. flight.data \in HerdrData /\ flight.at \in Nat BY DEF FollowTypes
  <2>3. \A c \in {"sup", "actor"} : got[c].k = "ok" => got[c].data \in HerdrData /\ got[c].at \in Nat
    BY DEF FollowTypes, Fetched, HD!Waiting, HD!NoAnswer
  <2> QED BY <1>4, <2>1, <2>2, <2>3 DEF ReadsTrue
<1>21. CASE ~stream.open
  BY <1>7, <1>9, <1>13, <1>18, <1>19, <1>20, <1>21, ClosedFollow
<1>22. CASE stream.open
  <2>1. \A s : ChangeIn(s) /\ k = "status" => ChangeIn(s)'
    BY <1>2 DEF ChangeIn, IsChange
  <2>2. k # "status" => ChangeIn(stream.wire)' /\ herdr'.topo > stream.from
    <3>1. k # "status" => IsChange(e)' BY <1>2, <1>3 DEF IsChange, EventKinds
    <3> QED BY <1>1, <1>2, <1>10, <1>22, <3>1 DEF ChangeIn, Numbers
  <2>3. ASSUME NEW s, NEW q \in HerdrPanes, StatusIn(s, q), k # "status" \/ q # p PROVE StatusIn(s, q)'
    BY <1>1, <1>2, <2>3 DEF StatusIn, IsStatus
  <2>4. k = "status" /\ p \in stream.subs => StatusIn(stream.wire, p)' /\ herdr'.status[p] > stream.from
    <3>1. k = "status" => IsStatus(e, p)' BY <1>1, <1>2, <1>3 DEF IsStatus
    <3> QED BY <1>1, <1>2, <1>10, <1>22, <3>1 DEF StatusIn, Numbers
  <2>5. ChangeIn(stream.wire) /\ k = "status" => ChangeIn(stream.wire)'
    BY <1>2, <1>10 DEF ChangeIn, IsChange
  <2>6. ASSUME NEW q \in HerdrPanes, StatusIn(stream.wire, q), k # "status" \/ q # p PROVE StatusIn(stream.wire, q)'
    BY <1>1, <1>2, <1>10, <2>6 DEF StatusIn, IsStatus
  <2>7. \A q \in HerdrPanes : k # "status" \/ q # p => herdr'.status[q] = herdr.status[q]
    BY <1>1, <1>2
  <2>8. stream.subs \subseteq HerdrPanes BY DEF FollowTypes
  <2>9. MemberIn(stream.wire) => MemberIn(stream.wire)' BY <1>10 DEF MemberIn
  <2>10. panes = herdr.panes \/ MemberIn(stream.wire)'
    <3>1. panes # herdr.panes => e.k \in {"created", "closed"} BY <1>3 DEF EventKinds, Changes
    <3> QED BY <1>3, <1>10, <1>22, <3>1 DEF MemberIn
  <2>11. SnapFits'
    <3>1. ASSUME NEW a, SnapMember(a) PROVE SnapMember(a)'
      BY <1>2, <1>7, <2>9, <2>10, <3>1 DEF SnapMember, MemberIn
    <3>2. ASSUME sup.pc = "snap", NEW q \in stream.subs, herdr'.status[q] > stream.from
          PROVE  StatusIn(stream.queue, q)' \/ StatusIn(stream.wire, q)'
      <4>1. CASE k = "status" /\ q = p BY <2>4, <4>1
      <4>2. CASE k # "status" \/ q # p
        <5>1. StatusIn(stream.queue, q) \/ StatusIn(stream.wire, q)
          BY <1>22, <2>7, <2>8, <3>2, <4>2 DEF SnapFits
        <5>2. StatusIn(stream.queue, q) => StatusIn(stream.queue, q)'
          BY <1>1, <1>2, <1>7, <2>8, <4>2 DEF StatusIn, IsStatus
        <5> QED BY <2>6, <2>8, <4>2, <5>1, <5>2
      <4> QED BY <4>1, <4>2
    <3>3. sup.pc = "snap" /\ herdr'.topo > stream.from => ChangeIn(stream.queue)' \/ ChangeIn(stream.wire)'
      <4>1. CASE k = "status"
        BY <1>2, <1>7, <1>22, <2>1, <2>5, <4>1 DEF SnapFits, ChangeIn, IsChange
      <4>2. CASE k # "status" BY <2>2, <4>2
      <4> QED BY <4>1, <4>2
    <3>4. Sooner(signals)' = Sooner(signals) BY <1>4, <1>7, Zenon DEF Sooner
    <3> QED BY <1>4, <1>7, <3>1, <3>2, <3>3, <3>4 DEF SnapFits
  <2>12. SyncFits'
    BY <1>4, <1>7 DEF SyncFits, Announced, SyncOut, Sooner
  <2>13. \A q \in HerdrPanes : StatusWaits(q) /\ (k # "status" \/ q # p) => StatusWaits(q)'
    <3> SUFFICES ASSUME NEW q \in HerdrPanes, StatusWaits(q), k # "status" \/ q # p PROVE StatusWaits(q)'
      OBVIOUS
    <3>1. /\ StatusIn(signals, q) => StatusIn(signals, q)'
          /\ StatusIn(sup.out, q) => StatusIn(sup.out, q)'
          /\ StatusIn(stream.queue, q) => StatusIn(stream.queue, q)'
      BY <1>1, <1>2, <1>4, <1>7 DEF StatusIn, IsStatus
    <3> QED BY <2>6, <3>1 DEF StatusWaits
  <2>14. k = "status" /\ ChangeWaits => ChangeWaits'
    BY <1>2, <1>4, <1>7, <2>5 DEF ChangeWaits, ChangeIn, IsChange
  <2>15. StatusFollows'
    <3> SUFFICES ASSUME NEW q \in stream.subs, AnyStatusWaits(q)' PROVE StatusWaits(q)'
      BY <1>7 DEF StatusFollows
    <3>1. CASE k = "status" /\ q = p BY <2>4, <3>1 DEF StatusWaits
    <3>2. CASE k # "status" \/ q # p
      <4>1. AnyStatusWaits(q)
        BY <1>3, <1>4, <1>7, <1>10, <3>2 DEF AnyStatusWaits, AnyStatusIn
      <4> QED BY <1>22, <2>8, <2>13, <3>2, <4>1 DEF StatusFollows
    <3> QED BY <3>1, <3>2
  <2>16. ASSUME NEW d \in HerdrData, FreshData(d) PROVE FreshData(d)'
    <3>0. d.panes \subseteq HerdrPanes BY DataFacts
    <3>1. FreshTopo(d)'
      <4>1. CASE k = "status"
        BY <1>2, <1>7, <2>14, <2>16, <4>1 DEF FreshData, FreshTopo
      <4>2. CASE k # "status" BY <1>7, <2>2, <4>2 DEF FreshTopo, ChangeWaits
      <4> QED BY <4>1, <4>2
    <3>2. FreshStatus(d)'
      <4> SUFFICES ASSUME NEW q \in stream.subs \cap d.panes
                   PROVE  d.status[q] = herdr'.status[q] \/ (herdr'.status[q] > stream.from /\ StatusWaits(q)')
        BY <1>7 DEF FreshStatus
      <4>1. CASE k = "status" /\ q = p BY <2>4, <4>1 DEF StatusWaits
      <4>2. CASE k # "status" \/ q # p
        BY <2>7, <2>8, <2>13, <2>16, <4>2 DEF FreshData, FreshStatus
      <4> QED BY <4>1, <4>2
    <3> QED BY <3>1, <3>2 DEF FreshData
  <2>17. Members => Members'
    BY <1>2, <1>4, <1>7, <2>9, <2>10 DEF Members, MemberIn
  <2>18. Announced' = Announced /\ NoSync' = NoSync /\ SyncOut' = SyncOut
    BY <1>4, <1>7, Zenon DEF Announced, NoSync, SyncOut, SyncIn
  <2>19. SyncFresh'
    <3>1. \A i \in 1..Len(signals) : LastSync(i)' = LastSync(i) BY <1>4, <2>18, Zenon DEF LastSync
    <3> QED BY <1>4, <2>16, <2>17, <2>18, <3>1, SyncsAreData DEF SyncFresh
  <2>20. ViewFresh'
    <3>1. keeper.view \in HerdrData /\ flight.data \in HerdrData BY DEF FollowTypes
    <3>2. got["actor"].k = "ok" => got["actor"].data \in HerdrData
      BY DEF FollowTypes, Fetched, HD!Waiting, HD!NoAnswer
    <3> QED BY <1>4, <2>16, <2>17, <2>18, <3>1, <3>2 DEF ViewFresh
  <2> QED BY <1>9, <1>13, <1>18, <1>19, <1>20, <2>11, <2>12, <2>15, <2>19, <2>20
<1> QED BY <1>21, <1>22

LEMMA ChangeKeeps ==
  ASSUME FollowInv, HD!Change
  PROVE  FollowInv'
<1>1. herdr.panes \subseteq HerdrPanes BY DEF FollowInv, FollowTypes
<1>2. ASSUME NEW p \in HerdrPanes \ herdr.panes, HD!Changed("created", p, herdr.panes \cup {p})
      PROVE  FollowInv'
  <2>1. "created" \in EventKinds /\ herdr.panes \cup {p} \in SUBSET HerdrPanes
    BY <1>1 DEF EventKinds, Changes
  <2> QED BY <1>2, <2>1, ChangedKeeps
<1>3. ASSUME NEW p \in herdr.panes, HD!Changed("closed", p, herdr.panes \ {p})
      PROVE  FollowInv'
  <2>1. "closed" \in EventKinds /\ herdr.panes \ {p} \in SUBSET HerdrPanes /\ p \in HerdrPanes
    BY <1>1 DEF EventKinds, Changes
  <2> QED BY <1>3, <2>1, ChangedKeeps
<1>4. ASSUME NEW p \in herdr.panes, NEW k \in {"updated", "status"}, HD!Changed(k, p, herdr.panes)
      PROVE  FollowInv'
  <2>1. k \in EventKinds /\ herdr.panes \in SUBSET HerdrPanes /\ p \in HerdrPanes
    BY <1>1 DEF EventKinds, Changes
  <2> QED BY <1>4, <2>1, ChangedKeeps
<1> QED BY <1>2, <1>3, <1>4 DEF HD!Change

LEMMA RestartKeeps ==
  ASSUME FollowInv, HD!Restart
  PROVE  FollowInv'
<1> USE DEF FollowInv
<1>1. /\ herdr.n \in Nat /\ herdr.topo \in Nat /\ herdr.status \in [HerdrPanes -> Nat]
      /\ stream.wire \in Seq(StreamLines) /\ stream.from \in Nat
  BY DEF FollowTypes
<1>2. PICK b \in HD!Builds \ {herdr.build} :
        herdr' = [herdr EXCEPT !.build = b, !.bin = b, !.n = @ + 1, !.topo = herdr.n + 1]
  BY DEF HD!Restart
<1>3. /\ herdr'.n = herdr.n + 1 /\ herdr'.topo = herdr.n + 1 /\ herdr'.panes = herdr.panes
      /\ herdr'.status = herdr.status
      /\ herdr' \in [build : HD!Builds, bin : HD!Builds, n : Nat, panes : SUBSET HerdrPanes,
                     topo : Nat, status : [HerdrPanes -> Nat]]
  <2>1. herdr.n + 1 \in Nat BY <1>1
  <2> QED BY <1>2, <2>1 DEF FollowTypes
<1>4. UNCHANGED <<sup, signals, got, keeper, why>> BY DEF HD!Restart
<1>5. HD!End \in StreamLines /\ ~IsEvent(HD!End)
  BY DEF HD!End, StreamLines, IsEvent, EventKinds, Changes
<1>6. /\ ~stream'.open /\ stream'.subs = stream.subs /\ stream'.tracks = stream.tracks
      /\ stream'.from = stream.from /\ stream'.queue = stream.queue /\ stream'.reader = stream.reader
      /\ stream'.wire = stream.wire \/ stream'.wire = Append(stream.wire, HD!End)
      /\ stream' \in [open : BOOLEAN, subs : SUBSET HerdrPanes, tracks : BOOLEAN, from : Nat,
                      wire : Seq(StreamLines), queue : Seq(StreamLines),
                      reader : {"off", "reading", "failed"}]
  <2>1. Append(stream.wire, HD!End) \in Seq(StreamLines) BY <1>1, <1>5
  <2> QED BY <2>1 DEF FollowTypes, HD!Restart
<1>7. flight'.st = (IF flight.st = "served" THEN "cut" ELSE flight.st) /\ flight'.waiters = flight.waiters
      /\ flight' \in [st : {"none", "dial", "served", "cut"}, data : HerdrData, at : Nat,
                      waiters : SUBSET {"sup", "actor"}]
  BY DEF FollowTypes, HD!Restart
<1>8. FollowTypes' BY <1>3, <1>4, <1>6, <1>7 DEF FollowTypes
<1>9. Items(stream'.wire) \subseteq Items(stream.wire) \cup {HD!End}
  <2>1. Items(Append(stream.wire, HD!End)) = Items(stream.wire) \cup {HD!End}
    BY <1>1, <1>5, AppendItems
  <2> QED BY <1>6, <2>1
<1>10. Rising(stream'.wire)
  <2>1. Rising(Append(stream.wire, HD!End))
    BY <1>1, <1>5, RisingAppend DEF InOrder
  <2> QED BY <1>6, <2>1 DEF InOrder
<1>11. InOrder'
  <2>1. Below(signals, stream.wire)' /\ Below(sup.out, stream.wire)' /\ Below(stream.queue, stream.wire)'
    BY <1>4, <1>5, <1>6, <1>9 DEF Below, InOrder
  <2> QED BY <1>4, <1>6, <1>10, <2>1 DEF InOrder, Below, Rising
<1>12. Numbers'
  <2>1. \A x \in HerdrSignals \cup StreamLines : IsEvent(x) => x.p \in HerdrPanes /\ x.n \in Nat
    BY DEF HerdrSignals, SyncSignals, EventSignals, StreamLines, HerdrEvents, IsEvent, EventKinds, Changes
  <2>2. \A x \in HerdrSignals \cup StreamLines : IsPast(x) => IsPast(x)'
    BY <1>1, <1>3, <2>1 DEF IsPast, IsEvent
  <2>3. /\ Items(signals) \subseteq HerdrSignals /\ Items(sup.out) \subseteq HerdrSignals
        /\ Items(stream.queue) \subseteq StreamLines /\ Items(stream.wire) \subseteq StreamLines
    BY ItemsIn DEF FollowTypes
  <2>4. Past(signals)' /\ Past(sup.out)' /\ Past(stream.queue)'
    BY <1>4, <1>6, <2>2, <2>3 DEF Numbers, Past
  <2>5. Past(stream.wire)'
    BY <1>5, <1>9, <2>2, <2>3 DEF Numbers, Past, IsPast
  <2> QED BY <1>1, <1>3, <1>6, <2>4, <2>5 DEF Numbers
<1>13. OpenFits' BY <1>4, <1>6 DEF OpenFits
<1>14. FlightFits' BY <1>4, <1>7 DEF FlightFits
<1>15. ReadsTrue'
  <2>1. \A c \in {"sup", "actor"} : got[c].k = "ok" => got[c].at \in Nat /\ got[c].data \in HerdrData
    BY DEF FollowTypes, Fetched, HD!Waiting, HD!NoAnswer
  <2>2. ASSUME NEW d \in HerdrData, NEW at \in Nat, DataTrue(d, at) PROVE DataTrue(d, at)'
    BY <1>1, <1>3, <2>2, DataFacts DEF DataTrue
  <2> QED BY <1>4, <1>7, <2>1, <2>2 DEF ReadsTrue
<1> QED BY <1>6, <1>8, <1>11, <1>12, <1>13, <1>14, <1>15, ClosedFollow

(* A step of whoever reads, and not of the stream. *)
LEMMA ReadFrame ==
  ASSUME FollowInv, UNCHANGED <<herdr, stream, sup, signals>>
  PROVE  /\ InOrder' /\ Numbers' /\ OpenFits' /\ SyncFits' /\ StatusFollows' /\ SyncFresh'
         /\ \A d : FreshData(d) = FreshData(d)' /\ Members = Members'
         /\ Announced = Announced' /\ NoSync = NoSync'
         /\ \A d, at : DataTrue(d, at) = DataTrue(d, at)'
         /\ \A a : SnapMember(a) = SnapMember(a)'
         /\ Sooner(signals)' = Sooner(signals)
<1> USE DEF FollowInv
<1>1. InOrder' /\ Numbers' /\ OpenFits'
  BY DEF InOrder, Numbers, Past, IsPast, Later, Below, Rising, OpenFits
<1>2. Announced = Announced' /\ NoSync = NoSync' /\ SyncOut' = SyncOut /\ Sooner(signals)' = Sooner(signals)
  BY Zenon DEF Announced, NoSync, SyncOut, SyncIn, Sooner
<1>3. SyncFits' /\ StatusFollows'
  BY <1>2 DEF SyncFits, Sooner, StatusFollows, AnyStatusWaits, AnyStatusIn, StatusWaits, StatusIn, IsStatus
<1>4. \A d : FreshData(d) = FreshData(d)'
  BY Zenon DEF FreshData, FreshTopo, FreshStatus, ChangeWaits, ChangeIn, StatusWaits, StatusIn, IsChange, IsStatus
<1>5. Members' = Members BY Zenon DEF Members, MemberIn
<1>6. SyncFresh'
  <2>1. \A i \in 1..Len(signals) : LastSync(i)' = LastSync(i) BY <1>2, Zenon DEF LastSync
  <2> QED BY <1>2, <1>4, <1>5, <2>1 DEF SyncFresh
<1>7. \A d, at : DataTrue(d, at) = DataTrue(d, at)' BY Zenon DEF DataTrue
<1>8. \A a : SnapMember(a) = SnapMember(a)' BY Zenon DEF SnapMember, MemberIn
<1> QED BY <1>1, <1>2, <1>3, <1>4, <1>5, <1>6, <1>7, <1>8

LEMMA ReadSnap ==
  ASSUME FollowInv, UNCHANGED <<herdr, stream, sup, signals>>,
         stream.open /\ sup.pc = "snap" =>
           /\ flight'.st = "served" => SnapMember(flight')
           /\ got'["sup"].k = "ok" => SnapMember(got'["sup"])
  PROVE  SnapFits'
<1>1. \A a : SnapMember(a) = SnapMember(a)' BY ReadFrame
<1>2. Sooner(signals)' = Sooner(signals) BY ReadFrame
<1>3. ChangeIn(stream.queue)' = ChangeIn(stream.queue) /\ ChangeIn(stream.wire)' = ChangeIn(stream.wire)
  BY Zenon DEF ChangeIn, IsChange
<1>4. \A p : StatusIn(stream.queue, p)' = StatusIn(stream.queue, p) /\ StatusIn(stream.wire, p)' = StatusIn(stream.wire, p)
  BY Zenon DEF StatusIn, IsStatus
<1> QED BY <1>1, <1>2, <1>3, <1>4 DEF FollowInv, SnapFits

LEMMA CallSharedKeeps ==
  ASSUME FollowInv, HD!call_shared
  PROVE  FollowInv'
<1> USE DEF FollowInv
<1>1. UNCHANGED <<herdr, stream, sup, signals, keeper, why>> BY DEF HD!call_shared
<1>2. flight \in [st : {"none", "dial", "served", "cut"}, data : HerdrData, at : Nat,
                  waiters : SUBSET {"sup", "actor"}]
      /\ got \in [{"sup", "actor"} -> Fetched] /\ herdr.n \in Nat
  BY DEF FollowTypes
<1>3. CASE flight.st = "dial" /\ flight' = [flight EXCEPT !.st = "served", !.data = HD!Contents, !.at = herdr.n]
           /\ got' = got
  <2>1. /\ flight'.st = "served" /\ flight'.data = HD!Contents /\ flight'.at = herdr.n
        /\ flight'.waiters = flight.waiters
    BY <1>2, <1>3
  <2>2. HD!Contents \in HerdrData /\ HD!Contents.panes = herdr.panes /\ HD!Contents.topo = herdr.topo
        /\ HD!Contents.status = [p \in herdr.panes |-> herdr.status[p]]
    BY ContentsAreData
  <2>3. FollowTypes'
    <3>1. flight' \in [st : {"none", "dial", "served", "cut"}, data : HerdrData, at : Nat,
                       waiters : SUBSET {"sup", "actor"}]
      BY <1>2, <1>3, <2>2
    <3> QED BY <1>1, <1>3, <3>1 DEF FollowTypes
  <2>4. FlightFits' BY <1>1, <1>3, <2>1 DEF FlightFits
  <2>5. DataTrue(HD!Contents, herdr.n)
    BY <1>2, <2>2 DEF DataTrue
  <2>6. ReadsTrue'
    BY <1>1, <1>3, <2>1, <2>5, ReadFrame DEF ReadsTrue
  <2>7. SnapFits'
    <3>1. SnapMember(flight') BY <2>1, <2>2 DEF SnapMember
    <3> QED BY <1>1, <1>3, <3>1, ReadSnap DEF SnapFits
  <2>8. FreshData(HD!Contents)
    BY <2>2 DEF FreshData, FreshTopo, FreshStatus
  <2>9. ViewFresh'
    BY <1>1, <1>3, <2>1, <2>8, ReadFrame DEF ViewFresh
  <2> QED BY <1>1, <2>3, <2>4, <2>6, <2>7, <2>9, ReadFrame
<1>4. ASSUME NEW result \in Fetched, result # HD!Waiting, flight.st # "none", HD!Landed(result),
             result.k = "ok" => flight.st = "served" /\ result.data = flight.data /\ result.at = flight.at
      PROVE  FollowInv'
  <2>1. flight' = HD!NoFlight BY <1>4 DEF HD!Landed
  <2>2. \A c \in {"sup", "actor"} : got'[c] = IF c \in flight.waiters THEN result ELSE got[c]
    BY <1>2, <1>4 DEF HD!Landed
  <2>3. got' \in [{"sup", "actor"} -> Fetched]
    BY <1>2, <1>4 DEF HD!Landed
  <2>4. /\ flight'.st = "none" /\ flight'.waiters = {}
        /\ flight' \in [st : {"none", "dial", "served", "cut"}, data : HerdrData, at : Nat,
                        waiters : SUBSET {"sup", "actor"}]
    BY <2>1, NothingIsData DEF HD!NoFlight, HD!None
  <2>5. FollowTypes' BY <1>1, <2>3, <2>4 DEF FollowTypes
  <2>6. FlightFits' BY <1>1, <1>4, <2>2, <2>4 DEF FlightFits
  <2>7. ReadsTrue'
    <3>1. result.k = "ok" => DataTrue(result.data, result.at) BY <1>4 DEF ReadsTrue
    <3> QED BY <1>1, <2>2, <2>4, <3>1, ReadFrame DEF ReadsTrue
  <2>8. SnapFits'
    <3>1. stream.open /\ sup.pc = "snap" /\ got'["sup"].k = "ok" => SnapMember(got'["sup"])
      BY <1>4, <2>2 DEF SnapFits, SnapMember
    <3> QED BY <1>1, <2>4, <3>1, ReadSnap
  <2>9. ViewFresh'
    <3>1. Announced /\ NoSync /\ got'["actor"].k = "ok" => FreshData(got'["actor"].data)
      BY <1>4, <2>2 DEF ViewFresh
    <3> QED BY <1>1, <2>4, <3>1, ReadFrame DEF ViewFresh
  <2> QED BY <1>1, <2>5, <2>6, <2>7, <2>8, <2>9, ReadFrame
<1>5. HD!NoAnswer \in Fetched /\ HD!NoAnswer # HD!Waiting /\ HD!NoAnswer.k = "err"
  BY DEF HD!NoAnswer, HD!Waiting, Fetched
<1>6. /\ HD!Answer \in Fetched /\ HD!Answer # HD!Waiting /\ HD!Answer.k = "ok"
      /\ HD!Answer.data = flight.data /\ HD!Answer.at = flight.at
  BY <1>2 DEF HD!Answer, HD!Waiting, Fetched
<1> QED BY <1>3, <1>4, <1>5, <1>6 DEF HD!call_shared, HD!None

-----------------------------------------------------------------------------
(* The client of Herdr: the steps of the stream and of the supervisor *)

(* All that is on its way to the actor. *)
OnTheWay == Items(signals) \cup Items(sup.out) \cup Items(stream.queue) \cup Items(stream.wire)

(* Every event of the one is in the other. *)
Carried(A, B) == \A x \in A : IsEvent(x) => \E y \in B : y.k = x.k /\ y.p = x.p /\ y.n = x.n

LEMMA WaitsOnTheWay ==
  /\ ChangeWaits <=> \E x \in OnTheWay : IsChange(x)
  /\ \A p : StatusWaits(p) <=> \E x \in OnTheWay : IsStatus(x, p)
  /\ \A p : AnyStatusWaits(p) <=> \E x \in OnTheWay : x.k = "status" /\ x.p = p /\ x.n > stream.from
BY DEF ChangeWaits, ChangeIn, StatusWaits, StatusIn, AnyStatusWaits, AnyStatusIn, OnTheWay

LEMMA CarriedWaits ==
  ASSUME herdr' = herdr, stream'.from = stream.from, stream'.subs = stream.subs,
         Carried(OnTheWay, OnTheWay')
  PROVE  /\ ChangeWaits => ChangeWaits'
         /\ \A p : StatusWaits(p) => StatusWaits(p)'
         /\ \A d : FreshData(d) => FreshData(d)'
<1>1. ChangeWaits => ChangeWaits'
  <2> SUFFICES ASSUME NEW x \in OnTheWay, IsChange(x) PROVE \E y \in OnTheWay' : IsChange(y)'
    BY DEF ChangeWaits, ChangeIn, OnTheWay
  <2>1. IsEvent(x) BY DEF IsChange, IsEvent, EventKinds
  <2>2. PICK y \in OnTheWay' : y.k = x.k /\ y.p = x.p /\ y.n = x.n BY <2>1 DEF Carried
  <2> QED BY <2>2 DEF IsChange
<1>2. ASSUME NEW p, StatusWaits(p) PROVE StatusWaits(p)'
  <2>1. PICK x \in OnTheWay : IsStatus(x, p) BY <1>2, WaitsOnTheWay
  <2>2. IsEvent(x) BY <2>1 DEF IsStatus, IsEvent, EventKinds
  <2>3. PICK y \in OnTheWay' : y.k = x.k /\ y.p = x.p /\ y.n = x.n BY <2>2 DEF Carried
  <2>4. IsStatus(y, p)' BY <2>1, <2>3 DEF IsStatus
  <2> QED BY <2>3, <2>4 DEF StatusWaits, StatusIn, OnTheWay
<1> QED BY <1>1, <1>2 DEF FreshData, FreshTopo, FreshStatus

LEMMA CarriedFollows ==
  ASSUME StatusFollows, stream.open, herdr' = herdr, stream'.from = stream.from, stream'.subs = stream.subs,
         Carried(OnTheWay, OnTheWay'), Carried(OnTheWay', OnTheWay)
  PROVE  StatusFollows'
<1> SUFFICES ASSUME NEW p \in stream.subs, AnyStatusWaits(p)' PROVE StatusWaits(p)'
  BY DEF StatusFollows
<1>1. AnyStatusWaits(p)
  <2>1. PICK x \in OnTheWay' : x.k = "status" /\ x.p = p /\ x.n > stream.from
    BY DEF AnyStatusWaits, AnyStatusIn, OnTheWay
  <2>2. IsEvent(x) BY <2>1 DEF IsEvent, EventKinds
  <2>3. PICK y \in OnTheWay : y.k = x.k /\ y.p = x.p /\ y.n = x.n BY <2>2 DEF Carried
  <2> QED BY <2>1, <2>3, WaitsOnTheWay
<1> QED BY <1>1, CarriedWaits DEF StatusFollows

LEMMA EventFields ==
  \A x \in HerdrSignals \cup StreamLines : IsEvent(x) => x.p \in HerdrPanes /\ x.n \in Nat
BY DEF HerdrSignals, SyncSignals, EventSignals, StreamLines, HerdrEvents, IsEvent, EventKinds, Changes

LEMMA QueueItems ==
  ASSUME FollowTypes
  PROVE  /\ Items(signals) \subseteq HerdrSignals /\ Items(sup.out) \subseteq HerdrSignals
         /\ Items(stream.queue) \subseteq StreamLines /\ Items(stream.wire) \subseteq StreamLines
BY ItemsIn DEF FollowTypes

(* The reader queues a line of the wire. *)
LEMMA LineKeeps ==
  ASSUME FollowInv, stream.reader = "reading", stream.wire # <<>>, Head(stream.wire).k # "end",
         stream' = [stream EXCEPT !.queue = Append(@, Head(stream.wire)), !.wire = Tail(@)],
         UNCHANGED <<herdr, sup, signals, flight, got, keeper, why>>
  PROVE  FollowInv'
<1> USE DEF FollowInv
<1>1. stream.wire \in Seq(StreamLines) /\ stream.queue \in Seq(StreamLines) BY DEF FollowTypes
<1>2. PICK h \in StreamLines : h = Head(stream.wire) BY <1>1
<1>3. h.k # "end" /\ IsEvent(h) BY <1>2 DEF StreamLines, HerdrEvents, IsEvent
<1>4. /\ stream'.queue = Append(stream.queue, h) /\ stream'.wire = Tail(stream.wire)
      /\ stream'.open = stream.open /\ stream'.subs = stream.subs /\ stream'.tracks = stream.tracks
      /\ stream'.from = stream.from /\ stream'.reader = stream.reader
  BY <1>2 DEF FollowTypes
<1>5. FollowTypes'
  <2>1. Append(stream.queue, h) \in Seq(StreamLines) /\ Tail(stream.wire) \in Seq(StreamLines)
    BY <1>1
  <2>2. stream' \in [open : BOOLEAN, subs : SUBSET HerdrPanes, tracks : BOOLEAN, from : Nat,
                      wire : Seq(StreamLines), queue : Seq(StreamLines),
                      reader : {"off", "reading", "failed"}]
    BY <1>2, <2>1 DEF FollowTypes
  <2> QED BY <2>2 DEF FollowTypes
<1>6. Items(stream'.queue) = Items(stream.queue) \cup {h}
  <2>1. Items(Append(stream.queue, h)) = Items(stream.queue) \cup {h} BY <1>1, AppendItems
  <2> QED BY <1>4, <2>1
<1>7. Items(stream.wire) = {h} \cup Items(stream'.wire)
  <2>1. Items(stream.wire) = {Head(stream.wire)} \cup Items(Tail(stream.wire)) BY <1>1, TailItems
  <2> QED BY <1>2, <1>4, <2>1
<1>8. InOrder'
  <2>1. Rising(stream'.queue)
    <3>1. \A y \in Items(stream.queue) : IsEvent(y) /\ IsEvent(h) => y.n < h.n
      BY <1>7 DEF InOrder, Below
    <3>2. Rising(Append(stream.queue, h)) BY <1>1, <3>1, RisingAppend DEF InOrder
    <3> QED BY <1>4, <3>2
  <2>2. /\ Rising(stream'.wire)
        /\ \A x \in Items(stream'.wire) : IsEvent(h) /\ IsEvent(x) => h.n < x.n
    <3>1. /\ Rising(Tail(stream.wire))
          /\ \A x \in Items(Tail(stream.wire)) : IsEvent(Head(stream.wire)) /\ IsEvent(x) => Head(stream.wire).n < x.n
      BY <1>1, RisingTail DEF InOrder
    <3> QED BY <1>2, <1>4, <3>1
  <2>3. /\ Below(signals, stream.queue)' /\ Below(signals, stream.wire)'
        /\ Below(sup.out, stream.queue)' /\ Below(sup.out, stream.wire)'
    BY <1>6, <1>7 DEF InOrder, Below
  <2>4. Below(stream.queue, stream.wire)'
    BY <1>6, <1>7, <2>2 DEF InOrder, Below
  <2> QED BY <2>1, <2>2, <2>3, <2>4 DEF InOrder, Rising, Below
<1>9. Numbers'
  <2>1. Past(stream.queue)' /\ Past(stream.wire)' /\ Past(signals)' /\ Past(sup.out)'
    BY <1>6, <1>7 DEF Numbers, Past, IsPast
  <2>2. stream.open => Later(stream.queue)' /\ Later(stream.wire)' /\ Later(sup.out)'
    BY <1>4, <1>6, <1>7 DEF Numbers, Later
  <2> QED BY <1>4, <2>1, <2>2 DEF Numbers
<1>10. OpenFits'
  <2>1. ASSUME NEW i \in 1..Len(stream'.queue), stream'.queue[i].k = "end" PROVE FALSE
    <3>1. i \in 1..Len(stream.queue) \/ i = Len(stream.queue) + 1 BY <1>1, <1>4
    <3>2. i \in 1..Len(stream.queue) => stream'.queue[i] = stream.queue[i] BY <1>1, <1>4
    <3>3. stream'.queue[Len(stream.queue) + 1] = h BY <1>1, <1>4
    <3> QED BY <1>3, <2>1, <3>1, <3>2, <3>3 DEF OpenFits
  <2>2. stream.open => /\ \A x \in Items(stream'.queue) : IsEvent(x)
                       /\ \A x \in Items(stream'.wire) : IsEvent(x)
    BY <1>3, <1>6, <1>7 DEF OpenFits
  <2> QED BY <1>4, <2>1, <2>2 DEF OpenFits
<1>11. FlightFits' BY DEF FlightFits
<1>12. ReadsTrue' BY DEF ReadsTrue, DataTrue
<1>13. OnTheWay' = OnTheWay BY <1>6, <1>7 DEF OnTheWay
<1>14. Carried(OnTheWay, OnTheWay') /\ Carried(OnTheWay', OnTheWay) BY <1>13 DEF Carried
<1>15. CASE ~stream.open
  BY <1>4, <1>5, <1>8, <1>9, <1>10, <1>11, <1>12, <1>15, ClosedFollow
<1>16. CASE stream.open
  <2>1. StatusFollows' BY <1>4, <1>14, <1>16, CarriedFollows
  <2>2. \A d : FreshData(d) => FreshData(d)' BY <1>4, <1>14, CarriedWaits
  <2>3. MemberIn(stream.queue) \/ MemberIn(stream.wire) <=> MemberIn(stream.queue)' \/ MemberIn(stream.wire)'
    BY <1>6, <1>7 DEF MemberIn
  <2>4. Members => Members' BY <1>4, <2>3 DEF Members
  <2>5. Announced' = Announced /\ NoSync' = NoSync /\ SyncOut' = SyncOut
    BY <1>4, Zenon DEF Announced, NoSync, SyncOut, SyncIn
  <2>6. SyncFits' BY <1>4, <2>5 DEF SyncFits, Sooner
  <2>7. SnapFits'
    <3>1. ChangeIn(stream.queue) \/ ChangeIn(stream.wire) => ChangeIn(stream.queue)' \/ ChangeIn(stream.wire)'
      BY <1>6, <1>7 DEF ChangeIn, IsChange
    <3>2. \A p : StatusIn(stream.queue, p) \/ StatusIn(stream.wire, p) => StatusIn(stream.queue, p)' \/ StatusIn(stream.wire, p)'
      BY <1>6, <1>7 DEF StatusIn, IsStatus
    <3>3. \A a : SnapMember(a) => SnapMember(a)' BY <1>4, <2>3 DEF SnapMember
    <3>4. Sooner(signals)' = Sooner(signals) BY <1>4, Zenon DEF Sooner
    <3> QED BY <1>4, <3>1, <3>2, <3>3, <3>4 DEF SnapFits
  <2>8. SyncFresh'
    <3>1. \A i \in 1..Len(signals) : LastSync(i)' = LastSync(i) BY <2>5, Zenon DEF LastSync
    <3> QED BY <2>2, <2>4, <2>5, <3>1 DEF SyncFresh
  <2>9. ViewFresh' BY <2>2, <2>4, <2>5 DEF ViewFresh
  <2> QED BY <1>5, <1>8, <1>9, <1>10, <1>11, <1>12, <2>1, <2>6, <2>7, <2>8, <2>9
<1> QED BY <1>15, <1>16

(* The stream ends. *)
LEMMA StreamEndsKeeps ==
  ASSUME FollowInv, UNCHANGED <<herdr, sup, signals, flight, got, keeper, why>>, ~stream'.open,
         stream'.from = stream.from, stream'.wire = stream.wire, stream'.subs = stream.subs,
         \/ stream'.queue = stream.queue /\ stream.reader # "off"
         \/ stream.reader # "off" /\ stream'.queue = Append(stream.queue, HD!End) /\ stream'.reader = "off",
         FollowTypes'
  PROVE  FollowInv'
<1> USE DEF FollowInv
<1>1. HD!End \in StreamLines /\ ~IsEvent(HD!End) /\ HD!End.k = "end"
  BY DEF HD!End, StreamLines, IsEvent, EventKinds, Changes
<1>2. stream.queue \in Seq(StreamLines) BY DEF FollowTypes
<1>3. /\ Items(stream'.queue) \subseteq Items(stream.queue) \cup {HD!End}
      /\ Rising(stream'.queue)
  <2>1. Items(Append(stream.queue, HD!End)) = Items(stream.queue) \cup {HD!End}
    BY <1>1, <1>2, AppendItems
  <2>2. Rising(Append(stream.queue, HD!End)) BY <1>1, <1>2, RisingAppend DEF InOrder
  <2> QED BY <2>1, <2>2 DEF InOrder
<1>4. InOrder'
  <2>1. Below(signals, stream.queue)' /\ Below(sup.out, stream.queue)' /\ Below(stream.queue, stream.wire)'
    BY <1>1, <1>3 DEF InOrder, Below
  <2> QED BY <1>3, <2>1 DEF InOrder, Below, Rising
<1>5. Numbers' BY <1>1, <1>3 DEF Numbers, Past, IsPast
<1>6. OpenFits'
  <2>1. ASSUME NEW i \in 1..Len(stream'.queue), stream'.queue[i].k = "end"
        PROVE  i = Len(stream'.queue) /\ stream'.reader = "off"
    <3>1. CASE stream'.queue = stream.queue /\ stream.reader # "off" BY <2>1, <3>1 DEF OpenFits
    <3>2. CASE stream.reader # "off" /\ stream'.queue = Append(stream.queue, HD!End) /\ stream'.reader = "off"
      <4>1. Len(stream'.queue) = Len(stream.queue) + 1 BY <1>1, <1>2, <3>2
      <4>2. i \in 1..Len(stream.queue) => stream'.queue[i] = stream.queue[i] BY <1>1, <1>2, <3>2
      <4>3. i \notin 1..Len(stream.queue) => i = Len(stream'.queue) BY <1>2, <4>1
      <4> QED BY <2>1, <3>2, <4>2, <4>3 DEF OpenFits
    <3> QED BY <3>1, <3>2
  <2> QED BY <2>1 DEF OpenFits
<1>7. FlightFits' /\ ReadsTrue' BY DEF FlightFits, ReadsTrue, DataTrue
<1> QED BY <1>4, <1>5, <1>6, <1>7, ClosedFollow

LEMMA ReadLoopKeeps ==
  ASSUME FollowInv, HD!read_loop
  PROVE  FollowInv'
<1> USE DEF FollowInv
<1>1. UNCHANGED <<herdr, sup, signals, flight, got, keeper, why>> BY DEF HD!read_loop
<1>2. stream \in [open : BOOLEAN, subs : SUBSET HerdrPanes, tracks : BOOLEAN, from : Nat,
                  wire : Seq(StreamLines), queue : Seq(StreamLines),
                  reader : {"off", "reading", "failed"}]
  BY DEF FollowTypes
<1>3. CASE stream.reader = "reading" /\ stream' = [stream EXCEPT !.reader = "failed", !.open = FALSE]
  <2>1. FollowTypes' BY ZenonT(30), <1>1, <1>2, <1>3 DEF FollowTypes
  <2> QED BY <1>1, <1>2, <1>3, <2>1, StreamEndsKeeps
<1>4. CASE stream.reader = "reading" /\ stream.wire # <<>> /\ Head(stream.wire).k = "end"
           /\ stream' = [stream EXCEPT !.reader = "failed"]
  <2>1. Head(stream.wire) \in Items(stream.wire) BY <1>2, <1>4, TailItems
  <2>2. ~stream.open BY <1>4, <2>1 DEF OpenFits, IsEvent, EventKinds, Changes
  <2>3. FollowTypes' BY <1>1, <1>2, <1>4 DEF FollowTypes
  <2> QED BY <1>1, <1>2, <1>4, <2>2, <2>3, StreamEndsKeeps
<1>5. CASE stream.reader = "failed" /\ stream' = [stream EXCEPT !.queue = Append(@, HD!End), !.reader = "off"]
  <2>1. ~stream.open BY <1>5 DEF OpenFits
  <2>2. HD!End \in StreamLines BY DEF HD!End, StreamLines
  <2>3. Append(stream.queue, HD!End) \in Seq(StreamLines) BY <1>2, <2>2
  <2>4. stream' \in [open : BOOLEAN, subs : SUBSET HerdrPanes, tracks : BOOLEAN, from : Nat,
                     wire : Seq(StreamLines), queue : Seq(StreamLines),
                     reader : {"off", "reading", "failed"}]
    BY <1>2, <1>5, <2>3
  <2>5. FollowTypes' BY <1>1, <2>4 DEF FollowTypes
  <2> QED BY <1>1, <1>2, <1>5, <2>1, <2>5, StreamEndsKeeps
<1> QED BY <1>1, <1>3, <1>4, <1>5, LineKeeps DEF HD!read_loop

SupStates ==
  [pc : {"boot", "backoff", "attempt", "ids", "sub", "snap", "announce", "watch"},
   attempt : BOOLEAN, panes : SUBSET HerdrPanes, out : Seq(HerdrSignals),
   refresh : BOOLEAN, remaining : Int]
Streams ==
  [open : BOOLEAN, subs : SUBSET HerdrPanes, tracks : BOOLEAN, from : Nat,
   wire : Seq(StreamLines), queue : Seq(StreamLines), reader : {"off", "reading", "failed"}]
Flights ==
  [st : {"none", "dial", "served", "cut"}, data : HerdrData, at : Nat, waiters : SUBSET {"sup", "actor"}]

LEMMA NoStreamFacts ==
  /\ HD!NoStream \in Streams /\ ~HD!NoStream.open /\ HD!NoStream.wire = <<>> /\ HD!NoStream.queue = <<>>
  /\ HD!NoStream.from = 0
BY DEF HD!NoStream, Streams

LEMMA NoAttemptFacts ==
  ASSUME NEW to \in {"boot", "backoff", "attempt"}, NEW s, s = [HD!NoAttempt EXCEPT !.pc = to]
  PROVE  s \in SupStates /\ s.pc = to /\ s.out = <<>> /\ ~s.refresh
<1>1. HD!NoAttempt = [pc |-> "boot", attempt |-> FALSE, panes |-> {}, out |-> <<>>, refresh |-> FALSE, remaining |-> 0]
  BY DEF HD!NoAttempt
<1>2. s = [pc |-> to, attempt |-> FALSE, panes |-> {}, out |-> <<>>, refresh |-> FALSE, remaining |-> 0]
  BY <1>1
<1>3. <<>> \in Seq(HerdrSignals) OBVIOUS
<1>4. PICK o \in Seq(HerdrSignals) : o = <<>> BY <1>3
<1>5. s = [pc |-> to, attempt |-> FALSE, panes |-> {}, out |-> o, refresh |-> FALSE, remaining |-> 0]
  BY <1>2, <1>4
<1>6. s \in SupStates
  <2>1. s.pc \in {"boot", "backoff", "attempt", "ids", "sub", "snap", "announce", "watch"} BY <1>5
  <2>2. s.out \in Seq(HerdrSignals) /\ s.panes \in SUBSET HerdrPanes BY <1>5
  <2>3. s.attempt \in BOOLEAN /\ s.refresh \in BOOLEAN
    <3>1. s.attempt = FALSE /\ s.refresh = FALSE BY <1>5
    <3> QED BY <3>1, Zenon
  <2>5. s.remaining \in Int
    <3>1. s.remaining = 0 BY <1>5
    <3> QED BY <3>1
  <2>4. s = [pc |-> s.pc, attempt |-> s.attempt, panes |-> s.panes, out |-> s.out,
             refresh |-> s.refresh, remaining |-> s.remaining]
    BY <1>5
  <2> QED BY <2>1, <2>2, <2>3, <2>4, <2>5 DEF SupStates
<1> QED BY <1>4, <1>5, <1>6

(* The supervisor lets its connection go. *)
LEMMA ResetKeeps ==
  ASSUME FollowInv, UNCHANGED <<herdr, flight, keeper, why>>, stream' = HD!NoStream,
         NEW pc \in {"boot", "backoff", "attempt"}, sup' = [HD!NoAttempt EXCEPT !.pc = pc],
         signals' = signals \/ signals' = Append(signals, HD!Reconnecting),
         got' \in [{"sup", "actor"} -> Fetched], got'["sup"] = HD!Waiting, got'["actor"] = got["actor"],
         "sup" \notin flight.waiters
  PROVE  FollowInv'
<1> USE DEF FollowInv
<1>1. HD!Reconnecting \in HerdrSignals /\ ~IsEvent(HD!Reconnecting)
  BY DEF HD!Reconnecting, HerdrSignals, IsEvent, EventKinds, Changes
<1>2. signals \in Seq(HerdrSignals) BY DEF FollowTypes
<1>3. sup' \in SupStates /\ sup'.pc = pc /\ sup'.out = <<>> BY NoAttemptFacts
<1>4. FollowTypes'
  <2>1. Append(signals, HD!Reconnecting) \in Seq(HerdrSignals) BY <1>1, <1>2
  <2> QED BY ZenonT(30), <1>3, <2>1, NoStreamFacts DEF FollowTypes, SupStates, Streams
<1>5. Items(signals') \subseteq Items(signals) \cup {HD!Reconnecting} /\ Rising(signals')
  <2>1. Items(Append(signals, HD!Reconnecting)) = Items(signals) \cup {HD!Reconnecting}
    BY <1>1, <1>2, AppendItems
  <2>2. Rising(Append(signals, HD!Reconnecting)) BY <1>1, <1>2, RisingAppend DEF InOrder
  <2> QED BY <2>1, <2>2 DEF InOrder
<1>6. InOrder'
  BY <1>3, <1>5, NoStreamFacts, EmptyItems, RisingEmpty DEF InOrder, Below
<1>7. Numbers'
  <2>1. Past(signals)' BY <1>1, <1>5 DEF Numbers, Past, IsPast
  <2>2. Past(sup.out)' /\ Past(stream.queue)' /\ Past(stream.wire)'
    BY <1>3, NoStreamFacts, EmptyItems DEF Past
  <2>3. herdr.n \in Nat BY DEF FollowTypes
  <2> QED BY <2>1, <2>2, <2>3, NoStreamFacts DEF Numbers
<1>8. OpenFits' BY <1>3, NoStreamFacts DEF OpenFits
<1>9. FlightFits' BY <1>3 DEF FlightFits
<1>10. ReadsTrue'
  <2>1. \A c \in {"sup", "actor"} : got'[c].k = "ok" => got'[c] = got[c] BY DEF HD!Waiting
  <2> QED BY <2>1 DEF ReadsTrue, DataTrue
<1> QED BY <1>4, <1>6, <1>7, <1>8, <1>9, <1>10, NoStreamFacts, ClosedFollow

LEMMA BackoffKeeps ==
  ASSUME FollowInv, UNCHANGED <<herdr, flight, keeper, why>>, HD!Backoff,
         got' \in [{"sup", "actor"} -> Fetched], got'["sup"] = HD!Waiting, got'["actor"] = got["actor"],
         "sup" \notin flight.waiters
  PROVE  FollowInv'
BY ResetKeeps DEF HD!Backoff

(* Whoever asks starts a read or joins it. *)
LEMMA ExecuteFacts ==
  ASSUME flight \in Flights, NEW c \in {"sup", "actor"}, HD!execute(c)
  PROVE  /\ flight' \in Flights /\ c \in flight'.waiters
         /\ \/ flight.st = "none" /\ flight'.st = "dial" /\ flight'.waiters = {c}
            \/ /\ flight.st # "none" /\ flight'.st = flight.st /\ flight'.data = flight.data
               /\ flight'.at = flight.at /\ flight'.waiters = flight.waiters \cup {c}
<1>1. CASE flight.st = "none"
  <2>1. flight' = [st |-> "dial", data |-> HD!Nothing, at |-> 0, waiters |-> {c}]
    BY <1>1 DEF HD!execute, HD!None
  <2> QED BY <1>1, <2>1, NothingIsData DEF Flights
<1>2. CASE flight.st # "none"
  <2>1. flight' = [flight EXCEPT !.waiters = @ \cup {c}] BY <1>2 DEF HD!execute, HD!None
  <2>2. flight.waiters \cup {c} \in SUBSET {"sup", "actor"} BY DEF Flights
  <2> QED BY <1>2, <2>1, <2>2 DEF Flights
<1> QED BY <1>1, <1>2

(* A step of the supervisor before there is a connection. *)
LEMMA DialsKeep ==
  ASSUME FollowInv, UNCHANGED <<herdr, stream, signals, keeper, why>>, ~stream.open,
         sup' \in SupStates, sup'.out = <<>>, sup.out = <<>>, sup'.pc # "announce",
         flight' \in Flights, got' \in [{"sup", "actor"} -> Fetched],
         FlightFits', ReadsTrue'
  PROVE  FollowInv'
<1> USE DEF FollowInv
<1>1. FollowTypes' BY DEF FollowTypes, SupStates, Flights
<1>2. InOrder' /\ Numbers' BY DEF InOrder, Numbers, Past, IsPast, Below, Rising, Later
<1>3. OpenFits' BY DEF OpenFits
<1> QED BY <1>1, <1>2, <1>3, ClosedFollow

LEMMA AttemptKeeps ==
  ASSUME FollowInv, HD!Attempt
  PROVE  FollowInv'
<1> USE DEF FollowInv
<1>1. /\ sup \in SupStates /\ flight \in Flights /\ got \in [{"sup", "actor"} -> Fetched]
      /\ sup.pc = "attempt" /\ ~stream.open /\ sup.out = <<>>
      /\ UNCHANGED <<herdr, stream, signals, got, keeper, why>>
  BY DEF FollowTypes, SupStates, Flights, OpenFits, HD!Attempt
<1>2. CASE sup' = [sup EXCEPT !.pc = "ids", !.attempt = TRUE] /\ HD!execute("sup")
  <2>1. sup' \in SupStates /\ sup'.pc = "ids" /\ sup'.out = <<>> BY <1>1, <1>2 DEF SupStates
  <2>2. flight' \in Flights
         /\ \/ flight.st = "none" /\ flight'.st = "dial" /\ flight'.waiters = {"sup"}
            \/ /\ flight.st # "none" /\ flight'.st = flight.st /\ flight'.data = flight.data
               /\ flight'.at = flight.at /\ flight'.waiters = flight.waiters \cup {"sup"}
    BY <1>1, <1>2, ExecuteFacts
  <2>3. FlightFits' BY <1>1, <2>1, <2>2 DEF FlightFits
  <2>4. ReadsTrue' BY <1>1, <2>2 DEF ReadsTrue, DataTrue
  <2> QED BY <1>1, <2>1, <2>2, <2>3, <2>4, DialsKeep
<1>3. CASE sup' = [sup EXCEPT !.pc = "sub", !.attempt = FALSE, !.panes = {}] /\ flight' = flight
  <2>1. sup' \in SupStates /\ sup'.pc = "sub" /\ sup'.out = <<>> BY <1>1, <1>3 DEF SupStates
  <2>3. FlightFits' BY <1>1, <1>3, <2>1 DEF FlightFits
  <2>4. ReadsTrue' BY <1>1, <1>3 DEF ReadsTrue, DataTrue
  <2> QED BY <1>1, <1>3, <2>1, <2>3, <2>4, DialsKeep
<1> QED BY <1>2, <1>3 DEF HD!Attempt

LEMMA PaneIdsKeeps ==
  ASSUME FollowInv, HD!PaneIds
  PROVE  FollowInv'
<1> USE DEF FollowInv
<1>1. /\ sup \in SupStates /\ flight \in Flights /\ got \in [{"sup", "actor"} -> Fetched]
      /\ sup.pc = "ids" /\ ~stream.open /\ sup.out = <<>> /\ "sup" \notin flight.waiters
      /\ UNCHANGED <<herdr, flight, keeper, why>>
  BY DEF FollowTypes, SupStates, Flights, OpenFits, FlightFits, HD!PaneIds
<1>2. HD!Waiting \in Fetched BY DEF Fetched
<1>3. got' \in [{"sup", "actor"} -> Fetched] /\ got'["sup"] = HD!Waiting /\ got'["actor"] = got["actor"]
  BY <1>1, <1>2 DEF HD!PaneIds
<1>4. CASE got["sup"].k = "err"
  <2>1. HD!Backoff BY <1>4 DEF HD!PaneIds
  <2> QED BY <1>1, <1>3, <2>1, BackoffKeeps
<1>5. CASE got["sup"].k # "err"
  <2>1. sup' = [sup EXCEPT !.pc = "sub", !.panes = got["sup"].data.panes] /\ UNCHANGED <<stream, signals>>
    BY <1>5 DEF HD!PaneIds
  <2>2. got["sup"].data \in HerdrData
    BY <1>1, <1>5 DEF HD!PaneIds, Fetched, HD!NoAnswer, HD!Waiting
  <2>3. got["sup"].data.panes \in SUBSET HerdrPanes BY <2>2, DataFacts
  <2>4. sup' \in SupStates /\ sup'.pc = "sub" /\ sup'.out = <<>> BY <1>1, <2>1, <2>3 DEF SupStates
  <2>5. FlightFits' BY <1>1, <1>3, <2>4 DEF FlightFits
  <2>6. ReadsTrue'
    <3>1. \A c \in {"sup", "actor"} : got'[c].k = "ok" => got'[c] = got[c] BY <1>3 DEF HD!Waiting
    <3> QED BY <1>1, <3>1 DEF ReadsTrue, DataTrue
  <2> QED BY <1>1, <1>3, <2>1, <2>4, <2>5, <2>6, DialsKeep
<1> QED BY <1>4, <1>5

LEMMA SubscribeKeeps ==
  ASSUME FollowInv, HD!subscribe_topology
  PROVE  FollowInv'
<1> USE DEF FollowInv
<1>1. /\ sup \in SupStates /\ flight \in Flights /\ got \in [{"sup", "actor"} -> Fetched]
      /\ sup.pc = "sub" /\ ~stream.open /\ sup.out = <<>> /\ "sup" \notin flight.waiters
      /\ got["sup"] = HD!Waiting /\ herdr.n \in Nat
      /\ UNCHANGED <<herdr, got, keeper, why>>
  BY DEF FollowTypes, SupStates, Flights, OpenFits, FlightFits, HD!subscribe_topology
<1>2. CASE HD!Backoff /\ flight' = flight
  BY <1>1, <1>2, BackoffKeeps
<1>3. CASE sup' = [sup EXCEPT !.attempt = FALSE] /\ UNCHANGED <<stream, signals, flight>>
  <2>1. sup' \in SupStates /\ sup'.pc = "sub" /\ sup'.out = <<>> BY <1>1, <1>3 DEF SupStates
  <2>2. FlightFits' BY <1>1, <1>3, <2>1 DEF FlightFits
  <2>3. ReadsTrue' BY <1>1, <1>3 DEF ReadsTrue, DataTrue
  <2> QED BY <1>1, <1>3, <2>1, <2>2, <2>3, DialsKeep
<1>4. ASSUME sup' = [sup EXCEPT !.pc = "snap"], HD!execute("sup"), signals' = signals,
             stream' = [HD!NoStream EXCEPT !.open = TRUE, !.reader = "reading", !.from = herdr.n,
                          !.subs = IF sup.attempt THEN sup.panes ELSE {}, !.tracks = sup.attempt]
      PROVE  FollowInv'
  <2>1. sup' \in SupStates /\ sup'.pc = "snap" /\ sup'.out = <<>> BY <1>1, <1>4 DEF SupStates
  <2>2. flight' \in Flights
         /\ \/ flight.st = "none" /\ flight'.st = "dial" /\ flight'.waiters = {"sup"}
            \/ /\ flight.st # "none" /\ flight'.st = flight.st /\ flight'.data = flight.data
               /\ flight'.at = flight.at /\ flight'.waiters = flight.waiters \cup {"sup"}
    BY <1>1, <1>4, ExecuteFacts
  <2>3. /\ stream'.open /\ stream'.reader = "reading" /\ stream'.from = herdr.n
        /\ stream'.wire = <<>> /\ stream'.queue = <<>>
        /\ stream' \in Streams
    <3>1. (IF sup.attempt THEN sup.panes ELSE {}) \in SUBSET HerdrPanes /\ sup.attempt \in BOOLEAN
      BY <1>1 DEF SupStates
    <3>2. PICK b \in SUBSET HerdrPanes : b = IF sup.attempt THEN sup.panes ELSE {} BY <3>1
    <3>3. stream' = [open |-> TRUE, subs |-> b, tracks |-> sup.attempt, from |-> herdr.n,
                     wire |-> <<>>, queue |-> <<>>, reader |-> "reading"]
      BY <1>4, <3>2 DEF HD!NoStream
    <3>4. <<>> \in Seq(StreamLines) OBVIOUS
    <3> QED BY <1>1, <3>1, <3>3, <3>4 DEF Streams
  <2>4. FollowTypes' BY <1>1, <1>4, <2>1, <2>2, <2>3 DEF FollowTypes, SupStates, Streams, Flights
  <2>5. InOrder'
    BY <1>4, <2>1, <2>3, EmptyItems, RisingEmpty DEF InOrder, Below
  <2>6. Numbers'
    <3>1. Past(signals)' BY <1>1, <1>4 DEF Numbers, Past, IsPast
    <3>2. Past(sup.out)' /\ Past(stream.queue)' /\ Past(stream.wire)'
           /\ Later(sup.out)' /\ Later(stream.queue)' /\ Later(stream.wire)'
      BY <2>1, <2>3, EmptyItems DEF Past, Later
    <3> QED BY <1>1, <2>3, <3>1, <3>2 DEF Numbers
  <2>7. OpenFits' BY <2>1, <2>3, EmptyItems DEF OpenFits
  <2>8. FlightFits' BY <1>1, <2>1, <2>2 DEF FlightFits
  <2>9. ReadsTrue' BY <1>1, <2>2 DEF ReadsTrue, DataTrue
  <2>10. SnapFits'
    <3>1. Sooner(signals)' BY <1>4, <2>3 DEF Sooner, Numbers, Past, IsPast
    <3>2. flight'.st = "served" => SnapMember(flight)'
      <4> SUFFICES ASSUME flight'.st = "served", flight'.at >= herdr.n
                   PROVE  flight'.data.panes = herdr.panes
        BY <1>1, <2>3 DEF SnapMember
      <4>1. DataTrue(flight.data, flight.at) /\ flight'.data = flight.data /\ flight'.at = flight.at
        BY <2>2 DEF ReadsTrue
      <4>2. flight.at \in Nat /\ herdr.topo \in Nat BY <1>1 DEF FollowTypes, Flights
      <4> QED BY <1>1, <4>1, <4>2 DEF DataTrue, Numbers
    <3>3. got'["sup"].k # "ok" BY <1>1 DEF HD!Waiting
    <3>4. ~(herdr'.topo > stream'.from) BY <1>1, <2>3 DEF Numbers, FollowTypes
    <3>5. \A p \in HerdrPanes : ~(herdr'.status[p] > stream'.from)
      BY <1>1, <2>3 DEF Numbers, FollowTypes
    <3>6. stream'.subs \subseteq HerdrPanes BY <2>3 DEF Streams
    <3> QED BY <3>1, <3>2, <3>3, <3>4, <3>5, <3>6 DEF SnapFits
  <2>11. ~Announced' BY <2>1 DEF Announced
  <2>12. StatusFollows'
    <3> SUFFICES ASSUME NEW p, AnyStatusWaits(p)' PROVE FALSE BY DEF StatusFollows
    <3>1. PICK x \in Items(signals) : x.k = "status" /\ x.n > herdr.n
      BY <1>4, <2>1, <2>3, EmptyItems DEF AnyStatusWaits, AnyStatusIn
    <3>2. IsEvent(x) BY <3>1 DEF IsEvent, EventKinds
    <3>3. x.n <= herdr.n /\ x.n \in Nat BY <3>1, <3>2, QueueItems, EventFields DEF Numbers, Past, IsPast
    <3> QED BY <1>1, <3>1, <3>3
  <2> QED BY <2>4, <2>5, <2>6, <2>7, <2>8, <2>9, <2>10, <2>11, <2>12 DEF SyncFits, SyncFresh, ViewFresh
<1> QED BY <1>2, <1>3, <1>4 DEF HD!subscribe_topology


-----------------------------------------------------------------------------
(* The client of Herdr: the steps that do not touch what is shown, and the    *)
(* snapshot of a connection                                                  *)

LEMMA BootKeeps ==
  ASSUME FollowInv, HD!Boot
  PROVE  FollowInv'
<1>1. sup \in SupStates BY DEF FollowInv, FollowTypes, SupStates
<1>2. sup' = [sup EXCEPT !.pc = "attempt"] /\ sup.pc \in {"boot", "backoff"} BY DEF HD!Boot
<1>3. sup' \in SupStates /\ sup'.pc = "attempt" /\ sup'.out = sup.out /\ sup'.refresh = sup.refresh
  BY <1>1, <1>2 DEF SupStates
<1>4. UNCHANGED <<herdr, stream, signals, flight, got, keeper, why>> BY DEF HD!Boot
<1>5. FollowTypes' BY <1>3, <1>4 DEF FollowInv, FollowTypes, SupStates
<1> QED BY <1>2, <1>3, <1>4, <1>5, FollowFrame

LEMMA UpgradeKeeps ==
  ASSUME FollowInv, HD!Upgrade
  PROVE  FollowInv'
<1>1. PICK b \in HD!Builds : herdr' = [herdr EXCEPT !.bin = b] BY DEF HD!Upgrade
<1>2. UNCHANGED <<stream, sup, signals, flight, got, keeper, why>> BY DEF HD!Upgrade
<1>3. FollowTypes'
  <2>1. herdr' \in [build : HD!Builds, bin : HD!Builds, n : Nat, panes : SUBSET HerdrPanes,
                    topo : Nat, status : [HerdrPanes -> Nat]]
    BY <1>1 DEF FollowInv, FollowTypes
  <2> QED BY <1>2, <2>1 DEF FollowInv, FollowTypes
<1>4. herdr'.n = herdr.n /\ herdr'.topo = herdr.topo /\ herdr'.panes = herdr.panes
      /\ herdr'.status = herdr.status
  BY <1>1 DEF FollowInv, FollowTypes
<1> QED BY <1>2, <1>3, <1>4, FollowFrame

LEMMA OthersKeep ==
  ASSUME FollowInv, UNCHANGED <<herdr, stream, sup, signals, flight, got, keeper>>,
         why' = why \/ why' = why \cup {"replaced"}
  PROVE  FollowInv'
<1>1. FollowTypes' BY DEF FollowInv, FollowTypes
<1>2. \A c \in {"unread", "shared", "unwatched"} : c \in why' <=> c \in why OBVIOUS
<1> QED BY <1>1, <1>2, FollowFrame

(* A drain takes the events of the queue and leaves the error at its end. *)
LEMMA LinesFacts ==
  ASSUME NEW q \in Seq(StreamLines), \A i \in 1..Len(q) : q[i].k = "end" => i = Len(q)
  PROVE  /\ Len(HD!Lines(q)) \in Nat /\ Len(HD!Lines(q)) <= Len(q)
         /\ \A i \in 1..Len(HD!Lines(q)) : HD!Lines(q)[i] = q[i] /\ q[i] \in HerdrEvents
         /\ HD!Rest(q) \in Seq(StreamLines)
         /\ HD!Rest(q) # <<>> => Len(HD!Rest(q)) = 1 /\ HD!Rest(q)[1].k = "end" /\ HD!Terminal(q)
         /\ ~HD!Terminal(q) => HD!Lines(q) = q /\ HD!Rest(q) = <<>>
<1>1. HD!End \in StreamLines /\ HD!End.k = "end" BY DEF HD!End, StreamLines
<1>2. \A x \in StreamLines : x.k # "end" => x \in HerdrEvents BY DEF StreamLines
<1>3. Len(q) \in Nat /\ \A i \in 1..Len(q) : q[i] \in StreamLines OBVIOUS
<1>4. CASE HD!Terminal(q)
  <2>1. Len(q) >= 1 BY <1>4 DEF HD!Terminal
  <2>2. HD!Lines(q) = SubSeq(q, 1, Len(q) - 1) BY <1>4 DEF HD!Lines
  <2>3. /\ Len(SubSeq(q, 1, Len(q) - 1)) = Len(q) - 1
        /\ \A i \in 1..(Len(q) - 1) : SubSeq(q, 1, Len(q) - 1)[i] = q[i]
    <3>0. Len(q) - 1 \in 0..Len(q) BY <1>3, <2>1
    <3>1. PICK n \in 0..Len(q) : n = Len(q) - 1 BY <3>0
    <3>2. Len(SubSeq(q, 1, n)) = n OBVIOUS
    <3>3. \A i \in 1..n : SubSeq(q, 1, n)[i] = q[i] BY <1>3
    <3> QED BY <3>1, <3>2, <3>3
  <2>4. \A i \in 1..(Len(q) - 1) : q[i] \in HerdrEvents BY <1>2, <1>3
  <2>5. HD!Rest(q) = <<HD!End>> BY <1>4 DEF HD!Rest
  <2>6. <<HD!End>> \in Seq(StreamLines) /\ Len(<<HD!End>>) = 1 /\ <<HD!End>>[1] = HD!End BY <1>1
  <2> QED BY <1>1, <1>3, <1>4, <2>1, <2>2, <2>3, <2>4, <2>5, <2>6
<1>5. CASE ~HD!Terminal(q)
  <2>1. HD!Lines(q) = q /\ HD!Rest(q) = <<>> BY <1>5 DEF HD!Lines, HD!Rest
  <2>2. \A i \in 1..Len(q) : q[i].k # "end" BY <1>3, <1>5 DEF HD!Terminal
  <2>3. <<>> \in Seq(StreamLines) OBVIOUS
  <2> QED BY <1>2, <1>3, <1>5, <2>1, <2>2, <2>3
<1> QED BY <1>4, <1>5

(* A sequence with one more item before it. *)
Prefixed(x, f) == <<x>> \o f

LEMMA PrefixFacts ==
  ASSUME NEW S, NEW x \in S, NEW n \in Nat, NEW f \in [1..n -> S]
  PROVE  /\ Prefixed(x, f) \in Seq(S) /\ Len(Prefixed(x, f)) = n + 1 /\ Prefixed(x, f)[1] = x
         /\ \A i \in 2..(n + 1) : Prefixed(x, f)[i] = f[i - 1]
<1>1. f \in Seq(S) /\ Len(f) = n OBVIOUS
<1>2. <<x>> \in Seq(S) /\ Len(<<x>>) = 1 /\ <<x>>[1] = x OBVIOUS
<1>3. <<x>> \o f \in Seq(S) /\ Len(<<x>> \o f) = n + 1 BY <1>1, <1>2
<1>4. (<<x>> \o f)[1] = x BY <1>1, <1>2
<1>5. \A i \in 2..(n + 1) : (<<x>> \o f)[i] = f[i - 1] BY <1>1, <1>2
<1> QED BY <1>3, <1>4, <1>5 DEF Prefixed

(* What the supervisor is about to announce: the snapshot, then the gap. *)
OutOf(s, q) == Prefixed(s, [i \in 1..Len(HD!Lines(q)) |-> HD!Invalidated(HD!Lines(q)[i], TRUE)])

LEMMA OutFacts ==
  ASSUME NEW q \in Seq(StreamLines), \A i \in 1..Len(q) : q[i].k = "end" => i = Len(q),
         NEW s \in SyncSignals, NEW out, out = OutOf(s, q)
  PROVE  /\ out \in Seq(HerdrSignals) /\ Len(out) = Len(HD!Lines(q)) + 1 /\ out[1] = s
         /\ \A i \in 2..Len(out) :
              /\ IsEvent(out[i]) /\ i - 1 \in 1..Len(q) /\ q[i - 1] \in HerdrEvents
              /\ out[i].k = q[i - 1].k /\ out[i].p = q[i - 1].p /\ out[i].n = q[i - 1].n
         /\ \A j \in 1..Len(HD!Lines(q)) :
              out[j + 1].k = q[j].k /\ out[j + 1].p = q[j].p /\ out[j + 1].n = q[j].n
<1> DEFINE f == [i \in 1..Len(HD!Lines(q)) |-> HD!Invalidated(HD!Lines(q)[i], TRUE)]
<1>1. PICK n \in Nat : n = Len(HD!Lines(q)) /\ n <= Len(q) /\ Len(q) \in Nat BY LinesFacts
<1>2. \A i \in 1..n : HD!Lines(q)[i] = q[i] /\ q[i] \in HerdrEvents BY <1>1, LinesFacts
<1>3. s \in HerdrSignals BY DEF HerdrSignals
<1>4. \A e \in HerdrEvents : /\ HD!Invalidated(e, TRUE) \in EventSignals /\ IsEvent(HD!Invalidated(e, TRUE))
                             /\ HD!Invalidated(e, TRUE).k = e.k /\ HD!Invalidated(e, TRUE).p = e.p
                             /\ HD!Invalidated(e, TRUE).n = e.n
  <2> SUFFICES ASSUME NEW e \in HerdrEvents, NEW g \in BOOLEAN
               PROVE  /\ HD!Invalidated(e, g) \in EventSignals /\ IsEvent(HD!Invalidated(e, g))
                      /\ HD!Invalidated(e, g).k = e.k /\ HD!Invalidated(e, g).p = e.p
                      /\ HD!Invalidated(e, g).n = e.n
    OBVIOUS
  <2>1. e.k \in EventKinds /\ e.p \in HerdrPanes /\ e.n \in Nat BY DEF HerdrEvents
  <2> QED BY <2>1 DEF HD!Invalidated, EventSignals, IsEvent
<1>5. \A i \in 1..n : /\ f[i] \in HerdrSignals /\ IsEvent(f[i]) /\ f[i].k = q[i].k /\ f[i].p = q[i].p
                      /\ f[i].n = q[i].n
  BY <1>1, <1>2, <1>4 DEF HerdrSignals
<1>6. f \in [1..n -> HerdrSignals] BY <1>1, <1>5
<1>7. out = Prefixed(s, f) BY DEF OutOf
<1> HIDE DEF f
<1>8. /\ out \in Seq(HerdrSignals) /\ Len(out) = n + 1 /\ out[1] = s
      /\ \A i \in 2..(n + 1) : out[i] = f[i - 1]
  <2>1. /\ Prefixed(s, f) \in Seq(HerdrSignals) /\ Len(Prefixed(s, f)) = n + 1 /\ Prefixed(s, f)[1] = s
        /\ \A i \in 2..(n + 1) : Prefixed(s, f)[i] = f[i - 1]
    <3>1. PICK g, S : g = f /\ S = HerdrSignals /\ g \in [1..n -> S] /\ s \in S BY <1>3, <1>6
    <3>2. /\ Prefixed(s, g) \in Seq(S) /\ Len(Prefixed(s, g)) = n + 1 /\ Prefixed(s, g)[1] = s
          /\ \A i \in 2..(n + 1) : Prefixed(s, g)[i] = g[i - 1]
      BY <3>1, PrefixFacts
    <3> QED BY <3>1, <3>2
  <2> QED BY <2>1, <1>7
<1>9. ASSUME NEW i \in 2..Len(out)
      PROVE  /\ IsEvent(out[i]) /\ i - 1 \in 1..Len(q) /\ q[i - 1] \in HerdrEvents
             /\ out[i].k = q[i - 1].k /\ out[i].p = q[i - 1].p /\ out[i].n = q[i - 1].n
  <2>1. i - 1 \in 1..n /\ i \in 2..(n + 1) BY <1>8
  <2>2. PICK m \in 1..n : m = i - 1 BY <2>1
  <2>3. out[i] = f[m] BY <1>8, <2>1, <2>2
  <2>4. m \in 1..Len(q) BY <1>1
  <2>5. q[m] \in HerdrEvents BY <1>2
  <2>6. IsEvent(f[m]) /\ f[m].k = q[m].k /\ f[m].p = q[m].p /\ f[m].n = q[m].n BY <1>5
  <2> QED BY <2>2, <2>3, <2>4, <2>5, <2>6
<1>10. ASSUME NEW j \in 1..n
       PROVE  out[j + 1].k = q[j].k /\ out[j + 1].p = q[j].p /\ out[j + 1].n = q[j].n
  <2>1. j + 1 \in 2..(n + 1) /\ (j + 1) - 1 = j OBVIOUS
  <2>2. out[j + 1] = f[j] BY <1>8, <2>1
  <2> QED BY <1>5, <2>2
<1> QED BY <1>1, <1>8, <1>9, <1>10

LEMMA LessIsBoolean == \A a, b \in Nat : (a < b) \in BOOLEAN
OBVIOUS

(* The snapshot of a connection is there: what it lacks is in the stream. *)
LEMMA SnapshotFresh ==
  ASSUME FollowInv, stream.open, sup.pc = "snap", got["sup"].k = "ok",
         HD!covers(got["sup"].data.panes), got["sup"].at >= stream.from
  PROVE  /\ FreshData(got["sup"].data)
         /\ stream.tracks =>
              herdr.panes = stream.subs \/ MemberIn(stream.queue) \/ MemberIn(stream.wire)
<1> USE DEF FollowInv
<1>1. got["sup"].data \in HerdrData /\ got["sup"].at \in Nat
  <2>1. got["sup"] \in Fetched BY DEF FollowTypes
  <2> QED BY <2>1 DEF Fetched, HD!Waiting, HD!NoAnswer
<1>2. PICK d \in HerdrData : d = got["sup"].data BY <1>1
<1>3. PICK at \in Nat : at = got["sup"].at BY <1>1
<1>4. DataTrue(d, at) BY <1>2, <1>3 DEF ReadsTrue
<1>5. herdr.topo \in Nat /\ stream.from \in Nat /\ herdr.status \in [HerdrPanes -> Nat]
      /\ stream.subs \subseteq HerdrPanes
  BY DEF FollowTypes
<1>6. FreshTopo(d)
  <2>1. CASE herdr.topo <= stream.from
    <3>1. at >= herdr.topo BY <1>3, <1>5, <2>1
    <3> QED BY <1>4, <3>1 DEF DataTrue, FreshTopo
  <2>2. CASE herdr.topo > stream.from
    <3>1. ChangeIn(stream.queue) \/ ChangeIn(stream.wire) BY <2>2 DEF SnapFits
    <3> QED BY <2>2, <3>1 DEF FreshTopo, ChangeWaits
  <2> QED BY <1>5, <2>1, <2>2
<1>7. FreshStatus(d)
  <2> SUFFICES ASSUME NEW p \in stream.subs \cap d.panes
               PROVE  d.status[p] = herdr.status[p] \/ (herdr.status[p] > stream.from /\ StatusWaits(p))
    BY DEF FreshStatus
  <2>1. herdr.status[p] \in Nat BY <1>5
  <2>2. CASE herdr.status[p] <= stream.from
    <3>1. at >= herdr.status[p] BY <1>3, <1>5, <2>1, <2>2
    <3> QED BY <1>4, <3>1 DEF DataTrue
  <2>3. CASE herdr.status[p] > stream.from
    <3>1. StatusIn(stream.queue, p) \/ StatusIn(stream.wire, p) BY <2>3 DEF SnapFits
    <3> QED BY <2>3, <3>1 DEF StatusWaits
  <2> QED BY <1>5, <2>1, <2>2, <2>3
<1>8. SnapMember(got["sup"]) BY DEF SnapFits
<1> QED BY <1>2, <1>6, <1>7, <1>8 DEF FreshData, SnapMember, HD!covers

LEMMA SnapshotKeeps ==
  ASSUME FollowInv, sup.pc = "snap", got["sup"].k = "ok", HD!covers(got["sup"].data.panes),
         NEW gap, gap = HD!Lines(stream.queue),
         sup' = [sup EXCEPT !.pc = "announce",
                   !.out = <<HD!Synced(got["sup"])>>
                           \o [i \in 1..Len(gap) |-> HD!Invalidated(gap[i], TRUE)],
                   !.refresh = \E i \in 1..Len(gap) : HD!changes_pane_membership(gap[i])],
         stream' = [stream EXCEPT !.queue = HD!Rest(@)], got' = [got EXCEPT !["sup"] = HD!Waiting],
         UNCHANGED <<herdr, signals, flight, keeper, why>>
  PROVE  FollowInv'
<1> USE DEF FollowInv
<1>1. /\ sup \in SupStates /\ stream \in Streams /\ stream.queue \in Seq(StreamLines)
      /\ got \in [{"sup", "actor"} -> Fetched]
      /\ \A i \in 1..Len(stream.queue) : stream.queue[i].k = "end" => i = Len(stream.queue)
  BY DEF FollowTypes, SupStates, Streams, OpenFits
<1>2. PICK q \in Seq(StreamLines) : q = stream.queue BY <1>1
<1>3. got["sup"].data \in HerdrData /\ got["sup"].at \in Nat /\ stream.from \in Nat
  <2>1. got["sup"] \in Fetched BY <1>1
  <2> QED BY <1>1, <2>1 DEF Fetched, HD!Waiting, HD!NoAnswer, Streams
<1>4. PICK s : s = HD!Synced(got["sup"]) OBVIOUS
<1>5. s \in SyncSignals /\ s.k = "synced" /\ s.data = got["sup"].data
      /\ (~s.old => got["sup"].at >= stream.from)
  <2>1. s = [k |-> "synced", data |-> got["sup"].data, old |-> got["sup"].at < stream.from]
    BY <1>4 DEF HD!Synced
  <2>2. s.k = "synced" /\ s.data = got["sup"].data /\ (s.old <=> got["sup"].at < stream.from) BY <2>1
  <2>3. s.old \in BOOLEAN
    <3>1. s.old = (got["sup"].at < stream.from) BY <2>1
    <3>2. (got["sup"].at < stream.from) \in BOOLEAN BY <1>3, LessIsBoolean
    <3> QED BY <3>1, <3>2, Zenon
  <2>4. s = [k |-> s.k, data |-> s.data, old |-> s.old] BY <2>1
  <2>5. s \in SyncSignals BY <1>3, <2>2, <2>3, <2>4 DEF SyncSignals
  <2> QED BY <1>3, <2>2, <2>5
<1>6. PICK o : o = OutOf(s, q) OBVIOUS
<1>7. /\ o \in Seq(HerdrSignals) /\ Len(o) = Len(HD!Lines(q)) + 1 /\ o[1] = s
      /\ \A i \in 2..Len(o) :
           /\ IsEvent(o[i]) /\ i - 1 \in 1..Len(q) /\ q[i - 1] \in HerdrEvents
           /\ o[i].k = q[i - 1].k /\ o[i].p = q[i - 1].p /\ o[i].n = q[i - 1].n
      /\ \A j \in 1..Len(HD!Lines(q)) :
           o[j + 1].k = q[j].k /\ o[j + 1].p = q[j].p /\ o[j + 1].n = q[j].n
  <2>1. \A i \in 1..Len(q) : q[i].k = "end" => i = Len(q) BY <1>1, <1>2
  <2> HIDE <1>1, <1>2, <1>4
  <2>2. s \in SyncSignals BY <1>5
  <2> QED BY <1>6, <2>1, <2>2, OutFacts
<1>8. PICK n \in Nat : n = Len(HD!Lines(q)) /\ n <= Len(q) /\ Len(q) \in Nat BY <1>1, <1>2, LinesFacts
<1>9. PICK b \in BOOLEAN : b = \E i \in 1..n : HD!changes_pane_membership(HD!Lines(q)[i]) OBVIOUS
<1>10. /\ sup' = [sup EXCEPT !.pc = "announce", !.out = o, !.refresh = b]
       /\ sup' \in SupStates /\ sup'.pc = "announce" /\ sup'.out = o /\ sup'.refresh = b
  <2>1. sup' = [sup EXCEPT !.pc = "announce", !.out = o, !.refresh = b]
    BY <1>2, <1>4, <1>6, <1>8, <1>9 DEF OutOf, Prefixed
  <2> QED BY <1>1, <1>7, <2>1 DEF SupStates
<1>11. PICK r \in Seq(StreamLines) :
         /\ r = HD!Rest(q) /\ (r # <<>> => Len(r) = 1 /\ r[1].k = "end" /\ HD!Terminal(q))
  BY <1>1, <1>2, LinesFacts
<1>12. /\ stream' \in Streams /\ stream'.queue = r /\ stream'.wire = stream.wire
       /\ stream'.open = stream.open /\ stream'.subs = stream.subs /\ stream'.tracks = stream.tracks
       /\ stream'.from = stream.from /\ stream'.reader = stream.reader
  BY <1>1, <1>2, <1>11 DEF Streams
<1>13. \A x \in Items(r) : x.k = "end" /\ ~IsEvent(x)
  BY <1>11, EmptyItems DEF Items, IsEvent, EventKinds, Changes
<1>14. ~IsEvent(s) BY <1>5 DEF IsEvent, EventKinds, Changes
<1>15. \A x \in Items(o) : IsEvent(x) => \E y \in Items(q) : IsEvent(y) /\ x.k = y.k /\ x.p = y.p /\ x.n = y.n
  <2> SUFFICES ASSUME NEW x \in Items(o), IsEvent(x)
               PROVE  \E y \in Items(q) : IsEvent(y) /\ x.k = y.k /\ x.p = y.p /\ x.n = y.n
    OBVIOUS
  <2>0. PICK i \in 1..Len(o) : x = o[i] BY DEF Items
  <2>4. i # 1 BY <1>7, <1>14, <2>0
  <2>1. i \in 2..Len(o) BY <1>7, <1>8, <2>4
  <2>2. PICK m \in 1..Len(q) : m = i - 1 BY <1>7, <2>1
  <2>3. o[i].k = q[m].k /\ o[i].p = q[m].p /\ o[i].n = q[m].n BY <1>7, <2>1, <2>2
  <2>5. q[m] \in Items(q) BY DEF Items
  <2> QED BY <2>0, <2>3, <2>5 DEF IsEvent
<1>16. Rising(o)
  <2> SUFFICES ASSUME NEW i \in 1..Len(o), NEW j \in 1..Len(o), i < j, IsEvent(o[i]), IsEvent(o[j])
               PROVE  o[i].n < o[j].n
    BY DEF Rising
  <2>1. i \in 2..Len(o) /\ j \in 2..Len(o) BY <1>7, <1>8, <1>14
  <2>2. PICK l \in 1..Len(q) : l = i - 1 BY <1>7, <2>1
  <2>3. PICK m \in 1..Len(q) : m = j - 1 BY <1>7, <2>1
  <2>4. o[i].k = q[l].k /\ o[i].n = q[l].n /\ o[j].k = q[m].k /\ o[j].n = q[m].n
    BY <1>7, <2>1, <2>2, <2>3
  <2>5. l < m /\ IsEvent(q[l]) /\ IsEvent(q[m]) BY <2>1, <2>2, <2>3, <2>4 DEF IsEvent
  <2> QED BY <1>2, <2>4, <2>5 DEF InOrder, Rising
<1>17. FollowTypes'
  <2>1. got' \in [{"sup", "actor"} -> Fetched] BY <1>1 DEF Fetched
  <2> QED BY <1>10, <1>12, <2>1 DEF FollowTypes, SupStates, Streams
<1>18. InOrder'
  <2>1. Below(signals, sup.out)' /\ Below(sup.out, stream.wire)'
    <3>1. Below(signals, q) /\ Below(q, stream.wire) BY <1>2 DEF InOrder
    <3>2. Below(signals, o) BY <1>15, <3>1 DEF Below
    <3>3. Below(o, stream.wire) BY <1>15, <3>1 DEF Below
    <3> QED BY <1>10, <1>12, <3>2, <3>3 DEF Below
  <2>2. Below(signals, stream.queue)' /\ Below(sup.out, stream.queue)' /\ Below(stream.queue, stream.wire)'
    BY <1>12, <1>13 DEF Below
  <2>3. Rising(stream.queue)'
    BY <1>11, <1>12, RisingEmpty DEF Rising
  <2>4. Rising(stream'.wire) /\ Rising(signals') /\ Below(signals, stream.wire)'
    BY <1>12 DEF InOrder, Below
  <2> QED BY <1>10, <1>16, <2>1, <2>2, <2>3, <2>4 DEF InOrder
<1>19. Numbers'
  <2>1. Past(sup.out)'
    <3> SUFFICES ASSUME NEW x \in Items(o), IsEvent(x)
                 PROVE  x.n <= herdr.n /\ (x.k = "status" => x.n <= herdr.status[x.p])
      BY <1>10 DEF Past, IsPast
    <3>1. PICK y \in Items(q) : IsEvent(y) /\ x.k = y.k /\ x.p = y.p /\ x.n = y.n BY <1>15
    <3>2. IsPast(y) BY <1>2 DEF Numbers, Past
    <3> QED BY <3>1, <3>2 DEF IsPast
  <2>2. Past(stream.queue)' /\ Later(stream.queue)' BY <1>12, <1>13 DEF Past, IsPast, Later
  <2>3. stream.open => Later(sup.out)'
    <3> SUFFICES ASSUME stream.open, NEW x \in Items(o), IsEvent(x) PROVE x.n > stream.from
      BY <1>10, <1>12 DEF Later
    <3>1. PICK y \in Items(q) : IsEvent(y) /\ x.n = y.n BY <1>15
    <3> QED BY <1>2, <3>1 DEF Numbers, Later
  <2>4. Past(signals)' /\ Past(stream.wire)' /\ (stream.open => Later(stream.wire)')
    BY <1>12 DEF Numbers, Past, IsPast, Later
  <2> QED BY <1>12, <2>1, <2>2, <2>3, <2>4 DEF Numbers
<1>20. stream.open => ~HD!Terminal(q)
  <2> SUFFICES ASSUME stream.open, HD!Terminal(q) PROVE FALSE OBVIOUS
  <2>1. Len(q) \in 1..Len(q) BY <1>8 DEF HD!Terminal
  <2>2. q[Len(q)] \in Items(stream.queue) BY <1>2, <2>1 DEF Items
  <2>3. q[Len(q)].k = "end" BY DEF HD!Terminal
  <2> QED BY <2>2, <2>3 DEF OpenFits, IsEvent, EventKinds, Changes
<1>21. OpenFits'
  <2>1. stream'.open => /\ sup'.pc \in {"snap", "announce", "watch"} /\ stream'.reader = "reading"
                        /\ \A x \in Items(stream'.queue) : IsEvent(x)
                        /\ \A x \in Items(stream'.wire) : IsEvent(x)
    <3> SUFFICES ASSUME stream.open PROVE Items(r) = {} BY <1>10, <1>12 DEF OpenFits
    <3> QED BY <1>11, <1>20, EmptyItems
  <2>2. \A i \in 1..Len(stream'.queue) :
          stream'.queue[i].k = "end" => i = Len(stream'.queue) /\ stream'.reader = "off"
    <3> SUFFICES ASSUME NEW i \in 1..Len(r) PROVE i = Len(r) /\ stream.reader = "off" BY <1>12
    <3>1. r # <<>> /\ Len(r) = 1 BY <1>11
    <3>2. Len(q) \in 1..Len(q) /\ q[Len(q)].k = "end" BY <1>8, <1>11, <3>1 DEF HD!Terminal
    <3> QED BY SMTT(30), <1>2, <3>1, <3>2 DEF OpenFits
  <2>3. \A i \in 1..Len(sup'.out) : IsEvent(sup'.out[i]) \/ (i = 1 /\ sup'.out[i].k = "synced")
    <3> SUFFICES ASSUME NEW i \in 1..Len(o), i # 1 PROVE IsEvent(o[i]) BY <1>5, <1>7, <1>10
    <3>1. i \in 2..Len(o) BY <1>7, <1>8
    <3> QED BY <1>7, <3>1
  <2> QED BY <1>10, <2>1, <2>2, <2>3 DEF OpenFits
<1>22. FlightFits'
  <2>1. "sup" \notin flight.waiters BY DEF FlightFits, HD!Waiting
  <2>2. got'["sup"] = HD!Waiting /\ got'["actor"] = got["actor"] BY <1>1
  <2> QED BY <2>1, <2>2 DEF FlightFits
<1>23. ReadsTrue'
  <2>1. \A c \in {"sup", "actor"} : got'[c].k = "ok" => got'[c] = got[c] BY <1>1 DEF HD!Waiting
  <2> QED BY <2>1 DEF ReadsTrue, DataTrue
<1>24. CASE ~stream.open
  <2>1. ~stream'.open BY <1>12, <1>24
  <2> QED BY <1>17, <1>18, <1>19, <1>21, <1>22, <1>23, <2>1, ClosedFollow
<1>25. CASE stream.open
  <2>1. n = Len(q) /\ r = <<>> /\ HD!Lines(q) = q BY <1>1, <1>2, <1>8, <1>11, <1>20, <1>25, LinesFacts
  <2>2. Announced' /\ SyncOut' /\ ~NoSync' /\ sup'.out[1] = s
    <3>1. o # <<>> BY <1>7, <1>8
    <3> QED BY <1>5, <1>7, <1>10, <1>12, <1>25, <3>1 DEF Announced, SyncOut, NoSync
  <2>3. SnapFits' BY <1>10 DEF SnapFits
  <2>4. SyncFits'
    <3>1. Sooner(signals) BY <1>25 DEF SnapFits
    <3>2. Sooner(signals)' BY <1>12, <3>1 DEF Sooner
    <3>3. \A j \in 1..Len(signals') : IsEvent(signals'[j]) => signals'[j].n <= stream'.from
      BY <3>2 DEF Sooner, Items
    <3> QED BY <2>2, <3>2, <3>3 DEF SyncFits
  <2>5. Items(sup.out) = {} BY EmptyItems DEF OpenFits
  <2>6. Carried(OnTheWay, OnTheWay')
    <3> SUFFICES ASSUME NEW x \in Items(q), IsEvent(x)
                 PROVE  \E y \in Items(o) : y.k = x.k /\ y.p = x.p /\ y.n = x.n
      BY <1>2, <1>10, <1>12, <2>5 DEF Carried, OnTheWay
    <3>1. PICK j \in 1..n : x = q[j] BY <2>1 DEF Items
    <3>2. j + 1 \in 1..Len(o) BY <1>7, <1>8
    <3>3. o[j + 1].k = x.k /\ o[j + 1].p = x.p /\ o[j + 1].n = x.n BY <1>7, <1>8, <3>1
    <3> QED BY <3>2, <3>3 DEF Items
  <2>7. Carried(OnTheWay', OnTheWay)
    <3>1. \A x \in Items(o) : IsEvent(x) => \E y \in Items(q) : y.k = x.k /\ y.p = x.p /\ y.n = x.n
      BY <1>15
    <3> QED BY <1>2, <1>10, <1>12, <1>13, <3>1 DEF Carried, OnTheWay
  <2>8. StatusFollows' BY <1>12, <1>25, <2>6, <2>7, CarriedFollows
  <2>9. SyncFresh'
    <3>1. ASSUME ~s.old PROVE FreshData(s.data)' /\ Members'
      <4>1. /\ FreshData(got["sup"].data)
            /\ stream.tracks => herdr.panes = stream.subs \/ MemberIn(stream.queue) \/ MemberIn(stream.wire)
        BY <1>5, <1>25, <3>1, SnapshotFresh
      <4>2. FreshData(s.data) BY <1>5, <4>1
      <4>3. FreshData(s.data)' BY <1>12, <2>6, <4>2, CarriedWaits
      <4>4. MemberIn(q) => b
        <5> SUFFICES ASSUME NEW x \in Items(q), x.k \in {"created", "closed"} PROVE b
          BY DEF MemberIn
        <5>1. PICK i \in 1..n : x = q[i] BY <2>1 DEF Items
        <5> QED BY <1>9, <2>1, <5>1 DEF HD!changes_pane_membership
      <4>5. Members' BY <1>2, <1>10, <1>12, <4>1, <4>4 DEF Members, MemberIn
      <4> QED BY <4>3, <4>5
    <3>2. \A i : ~LastSync(i)' BY <2>2 DEF LastSync
    <3> QED BY <2>2, <3>1, <3>2 DEF SyncFresh
  <2>10. ViewFresh' BY <2>2 DEF ViewFresh
  <2> QED BY <1>17, <1>18, <1>19, <1>21, <1>22, <1>23, <2>3, <2>4, <2>8, <2>9, <2>10
<1> QED BY <1>24, <1>25

LEMMA BootstrapKeeps ==
  ASSUME FollowInv, HD!bootstrap_with
  PROVE  FollowInv'
<1> USE DEF FollowInv
<1>1. /\ got \in [{"sup", "actor"} -> Fetched] /\ sup.pc = "snap" /\ got["sup"] # HD!Waiting
      /\ "sup" \notin flight.waiters /\ UNCHANGED <<herdr, flight, keeper, why>>
      /\ got' = [got EXCEPT !["sup"] = HD!Waiting]
  BY DEF FollowTypes, FlightFits, HD!bootstrap_with
<1>2. HD!Waiting \in Fetched BY DEF Fetched
<1>3. got' \in [{"sup", "actor"} -> Fetched] /\ got'["sup"] = HD!Waiting /\ got'["actor"] = got["actor"]
  BY <1>1, <1>2
<1>4. CASE got["sup"].k = "err"
  <2>1. HD!Backoff BY <1>4 DEF HD!bootstrap_with
  <2> QED BY <1>1, <1>3, <2>1, BackoffKeeps
<1>5. CASE got["sup"].k # "err" /\ ~HD!covers(got["sup"].data.panes)
  <2>1. sup' = [HD!NoAttempt EXCEPT !.pc = "attempt"] /\ stream' = HD!NoStream /\ signals' = signals
    BY <1>5 DEF HD!bootstrap_with
  <2> QED BY <1>1, <1>3, <2>1, ResetKeeps
<1>6. CASE got["sup"].k # "err" /\ HD!covers(got["sup"].data.panes)
  <2>1. got["sup"].k = "ok"
    <3>1. got["sup"] \in Fetched BY <1>1
    <3> QED BY <1>1, <1>6, <3>1 DEF Fetched, HD!NoAnswer, HD!Waiting
  <2>2. PICK gap : gap = HD!Lines(stream.queue) OBVIOUS
  <2>3. /\ sup' = [sup EXCEPT !.pc = "announce",
                   !.out = <<HD!Synced(got["sup"])>>
                           \o [i \in 1..Len(gap) |-> HD!Invalidated(gap[i], TRUE)],
                   !.refresh = \E i \in 1..Len(gap) : HD!changes_pane_membership(gap[i])]
        /\ stream' = [stream EXCEPT !.queue = HD!Rest(@)] /\ signals' = signals
    BY <1>6, <2>2 DEF HD!bootstrap_with
  <2> QED BY <1>1, <1>6, <2>1, <2>2, <2>3, SnapshotKeeps
<1> QED BY <1>4, <1>5, <1>6

-----------------------------------------------------------------------------
(* The client of Herdr: what the supervisor relays *)

(* An event of this connection joins the signals. *)
LEMMA EventTold ==
  ASSUME FollowInv, Announced, Announced', UNCHANGED <<herdr, flight, got, keeper, why>>,
         NEW x \in EventSignals, signals' = Append(signals, x), x.n > stream.from, ~SyncOut, ~SyncOut',
         stream'.from = stream.from, stream'.subs = stream.subs, sup'.pc # "snap",
         Carried(OnTheWay, OnTheWay'), Carried(OnTheWay', OnTheWay), Members => Members'
  PROVE  SnapFits' /\ SyncFits' /\ StatusFollows' /\ SyncFresh' /\ ViewFresh'
<1> USE DEF FollowInv
<1>1. IsEvent(x) /\ x.k # "synced" /\ x \in HerdrSignals /\ x.n \in Nat /\ stream.from \in Nat
  BY DEF EventSignals, IsEvent, EventKinds, Changes, HerdrSignals, FollowTypes
<1>2. signals \in Seq(HerdrSignals) BY DEF FollowTypes
<1>3. PICK n \in Nat : n = Len(signals) BY <1>2
<1>4. Len(signals') = n + 1 /\ signals'[n + 1] = x /\ \A i \in 1..n : signals'[i] = signals[i]
  BY <1>1, <1>2, <1>3
<1>5. \A i \in 1..(n + 1) : i \in 1..n \/ i = n + 1 BY <1>3
<1>6. \A i \in 1..n : i \in 1..(n + 1) BY <1>3
<1>7. SnapFits' BY DEF SnapFits
<1>8. SyncFits'
  <2>1. \A i, j \in 1..Len(signals') :
          j < i /\ signals'[i].k = "synced" /\ IsEvent(signals'[j]) => signals'[j].n <= stream'.from
    <3> SUFFICES ASSUME NEW i \in 1..(n + 1), NEW j \in 1..(n + 1), j < i,
                        signals'[i].k = "synced", IsEvent(signals'[j])
                 PROVE  signals'[j].n <= stream.from
      BY <1>4
    <3>1. i \in 1..n /\ j \in 1..n BY SMTT(30), <1>1, <1>4, <1>5
    <3> QED BY <1>3, <1>4, <3>1 DEF SyncFits
  <2>2. \A i \in 1..Len(signals') :
          IsEvent(signals'[i]) /\ signals'[i].n <= stream'.from =>
            SyncOut' \/ \E j \in 1..Len(signals') : j > i /\ signals'[j].k = "synced"
    <3> SUFFICES ASSUME NEW i \in 1..(n + 1), IsEvent(signals'[i]), signals'[i].n <= stream.from
                 PROVE  \E j \in 1..(n + 1) : j > i /\ signals'[j].k = "synced"
      BY <1>4
    <3>1. i \in 1..n BY <1>1, <1>4, <1>5
    <3>2. PICK j \in 1..n : j > i /\ signals[j].k = "synced" BY <1>3, <1>4, <3>1 DEF SyncFits
    <3>3. j \in 1..(n + 1) /\ signals'[j] = signals[j] BY <1>4, <1>6
    <3> QED BY <3>2, <3>3
  <2> QED BY <2>1, <2>2 DEF SyncFits
<1>9. StatusFollows'
  <2>1. stream.open BY DEF Announced
  <2> QED BY <2>1, CarriedFollows
<1>10. \A d : FreshData(d) => FreshData(d)' BY CarriedWaits
<1>11. SyncIn(signals') <=> SyncIn(signals)
  <2>1. Items(Append(signals, x)) = Items(signals) \cup {x} BY <1>1, <1>2, AppendItems
  <2> QED BY <1>1, <2>1 DEF SyncIn
<1>12. NoSync' <=> NoSync
  <2>1. SyncIn(signals)' <=> SyncIn(signals) BY <1>11 DEF SyncIn
  <2> QED BY <2>1 DEF NoSync
<1>13. SyncFresh'
  <2> SUFFICES ASSUME NEW i \in 1..(n + 1), LastSync(i)', ~signals'[i].old
               PROVE  FreshData(signals[i].data)' /\ Members'
    BY <1>4 DEF SyncFresh
  <2>1. i \in 1..n /\ signals'[i] = signals[i]
    <3>1. signals'[i].k = "synced" BY DEF LastSync
    <3>2. i \in 1..n BY <1>1, <1>4, <1>5, <3>1
    <3> QED BY <1>4, <3>2
  <2>2. LastSync(i)
    <3>1. signals'[i].k = "synced" /\ \A j \in 1..Len(signals') : j > i => signals'[j].k # "synced"
      BY DEF LastSync
    <3>2. \A j \in 1..n : j > i => signals[j].k # "synced" BY <1>4, <1>6, <3>1
    <3> QED BY <1>3, <2>1, <3>1, <3>2 DEF LastSync
  <2>3. FreshData(signals[i].data) /\ Members BY <1>3, <2>1, <2>2 DEF SyncFresh
  <2>4. PICK d : d = signals[i].data OBVIOUS
  <2>5. FreshData(d)' BY <1>10, <2>3, <2>4
  <2> QED BY <2>1, <2>3, <2>4, <2>5 DEF FreshData, FreshTopo, FreshStatus
<1>14. ViewFresh' BY <1>10, <1>12 DEF ViewFresh
<1> QED BY <1>7, <1>8, <1>9, <1>13, <1>14

(* Types, order and numbers when a signal is relayed. *)
LEMMA ToldOrder ==
  ASSUME FollowInv, UNCHANGED <<herdr, flight, got, keeper, why>>,
         NEW x \in HerdrSignals, signals' = Append(signals, x), sup' \in SupStates, stream' \in Streams,
         stream'.open = stream.open, stream'.from = stream.from, stream'.wire = stream.wire,
         stream'.reader = stream.reader,
         sup.pc \in {"announce", "watch"}, sup'.pc = sup.pc, sup.pc = "watch" => sup'.out = <<>>,
         Rising(sup'.out), Rising(stream'.queue),
         Items(sup'.out) \subseteq Items(sup.out), Items(stream'.queue) \subseteq Items(stream.queue),
         \A i \in 1..Len(stream'.queue) : stream'.queue[i].k = "end" => i = Len(stream'.queue) /\ stream.reader = "off",
         \A i \in 1..Len(sup'.out) : IsEvent(sup'.out[i]),
         IsEvent(x) =>
           /\ \A y \in Items(signals) : IsEvent(y) => y.n < x.n
           /\ \A y \in Items(sup'.out) \cup Items(stream'.queue) \cup Items(stream.wire) : IsEvent(y) => x.n < y.n
           /\ IsPast(x)
  PROVE  FollowTypes' /\ InOrder' /\ Numbers' /\ OpenFits' /\ FlightFits' /\ ReadsTrue'
<1> USE DEF FollowInv
<1>1. signals \in Seq(HerdrSignals) BY DEF FollowTypes
<1>2. Items(signals') = Items(signals) \cup {x}
  <2>1. Items(Append(signals, x)) = Items(signals) \cup {x} BY <1>1, AppendItems
  <2> QED BY <2>1
<1>3. FollowTypes'
  <2>1. signals' \in Seq(HerdrSignals) BY <1>1
  <2> QED BY <2>1 DEF FollowTypes, SupStates, Streams
<1>4. InOrder'
  <2>1. Rising(signals')
    <3>1. Rising(Append(signals, x)) BY <1>1, RisingAppend DEF InOrder
    <3> QED BY <3>1
  <2>2. Rising(stream'.wire) BY DEF InOrder
  <2>3. Below(signals', sup'.out) /\ Below(signals', stream'.queue) /\ Below(signals', stream'.wire)
    BY <1>2 DEF InOrder, Below
  <2>4. Below(sup'.out, stream'.queue) /\ Below(sup'.out, stream'.wire) /\ Below(stream'.queue, stream'.wire)
    BY DEF InOrder, Below
  <2> QED BY <2>1, <2>2, <2>3, <2>4 DEF InOrder, Below
<1>5. Numbers'
  <2>1. Past(signals)' /\ Past(sup.out)' /\ Past(stream.queue)' /\ Past(stream.wire)'
    BY <1>2 DEF Numbers, Past, IsPast
  <2>2. stream.open => Later(sup.out)' /\ Later(stream.queue)' /\ Later(stream.wire)'
    BY DEF Numbers, Later
  <2> QED BY <2>1, <2>2 DEF Numbers
<1>6. OpenFits' BY DEF OpenFits
<1>7. FlightFits' /\ ReadsTrue' BY DEF FlightFits, ReadsTrue, DataTrue
<1> QED BY <1>3, <1>4, <1>5, <1>6, <1>7

(* The snapshot of this connection joins the signals. *)
LEMMA SyncTold ==
  ASSUME FollowInv, Announced, Announced', UNCHANGED <<herdr, stream, flight, got, keeper, why>>,
         SyncOut, ~SyncOut', signals' = Append(signals, sup.out[1]), sup'.pc # "snap",
         sup'.refresh = sup.refresh, Carried(OnTheWay, OnTheWay'), Carried(OnTheWay', OnTheWay)
  PROVE  SnapFits' /\ SyncFits' /\ StatusFollows' /\ SyncFresh' /\ ViewFresh'
<1> USE DEF FollowInv
<1>1. signals \in Seq(HerdrSignals) /\ sup.out \in Seq(HerdrSignals) /\ stream.from \in Nat BY DEF FollowTypes
<1>2. PICK x \in HerdrSignals : x = sup.out[1] /\ x.k = "synced" BY <1>1 DEF SyncOut
<1>3. PICK n \in Nat : n = Len(signals) BY <1>1
<1>4. Len(signals') = n + 1 /\ signals'[n + 1] = x /\ \A i \in 1..n : signals'[i] = signals[i]
  BY <1>1, <1>2, <1>3
<1>5. \A i \in 1..(n + 1) : i \in 1..n \/ i = n + 1 BY <1>3
<1>6. n + 1 \in 1..(n + 1) /\ \A i \in 1..n : n + 1 > i BY <1>3
<1>7. ~IsEvent(x) BY <1>2 DEF IsEvent, EventKinds, Changes
<1>8. SnapFits' BY DEF SnapFits
<1>9. SyncFits'
  <2>1. \A i \in 1..n : IsEvent(signals[i]) => signals[i].n <= stream.from
    <3>1. Sooner(signals) BY DEF SyncFits
    <3> QED BY <1>3, <3>1 DEF Sooner, Items
  <2>2. \A i \in 1..(n + 1) : IsEvent(signals'[i]) => i \in 1..n /\ signals'[i] = signals[i]
    BY <1>4, <1>5, <1>7
  <2> QED BY <1>2, <1>4, <1>6, <2>1, <2>2 DEF SyncFits
<1>10. StatusFollows'
  <2>1. stream.open BY DEF Announced
  <2> QED BY <2>1, CarriedFollows
<1>11. SyncFresh'
  <2> SUFFICES ASSUME NEW i \in 1..(n + 1), LastSync(i)', ~signals'[i].old
               PROVE  FreshData(signals[i].data)' /\ Members'
    BY <1>4 DEF SyncFresh
  <2>1. signals'[i] = x
    <3>1. \A j \in 1..Len(signals') : j > i => signals'[j].k # "synced" BY DEF LastSync
    <3>2. ~(n + 1 > i) BY <1>2, <1>4, <1>6, <3>1
    <3> QED BY <1>4, <1>5, <1>6, <3>2
  <2>2. FreshData(x.data) /\ Members BY <1>2, <2>1 DEF SyncFresh
  <2>3. PICK d : d = x.data OBVIOUS
  <2>4. FreshData(d)' BY <2>2, <2>3, CarriedWaits
  <2>5. Members' BY <2>2 DEF Members, MemberIn
  <2> QED BY <2>1, <2>3, <2>4, <2>5 DEF FreshData, FreshTopo, FreshStatus
<1>12. ~NoSync'
  <2>1. x \in Items(signals') BY <1>4, <1>6 DEF Items
  <2> QED BY <1>2, <2>1 DEF NoSync, SyncIn
<1>13. ViewFresh' BY <1>12 DEF ViewFresh
<1> QED BY <1>8, <1>9, <1>10, <1>11, <1>13

LEMMA AnnounceKeeps ==
  ASSUME FollowInv, HD!Announce
  PROVE  FollowInv'
<1> USE DEF FollowInv
<1>1. /\ sup \in SupStates /\ stream \in Streams /\ sup.out \in Seq(HerdrSignals)
      /\ signals \in Seq(HerdrSignals) /\ sup.pc = "announce"
      /\ UNCHANGED <<herdr, stream, flight, got, keeper, why>>
  BY DEF FollowTypes, SupStates, Streams, HD!Announce
<1>2. CASE sup.out = <<>>
  <2>1. sup' = [HD!NoAttempt EXCEPT !.pc = "watch", !.refresh = sup.refresh,
                  !.remaining = IF sup.refresh THEN Len(stream.queue) ELSE 0] /\ signals' = signals
    BY <1>2 DEF HD!Announce
  <2>2. PICK m \in Int : m = IF sup.refresh THEN Len(stream.queue) ELSE 0
    <3>1. Len(stream.queue) \in Int /\ 0 \in Int BY <1>1 DEF Streams
    <3>2. (IF sup.refresh THEN Len(stream.queue) ELSE 0) \in Int BY <3>1
    <3> QED BY <3>2
  <2>3. sup' = [pc |-> "watch", attempt |-> FALSE, panes |-> {}, out |-> <<>>,
                refresh |-> sup.refresh, remaining |-> m]
    BY <2>1, <2>2 DEF HD!NoAttempt
  <2>4. sup'.pc = "watch" /\ sup'.out = sup.out /\ sup'.refresh = sup.refresh BY <1>2, <2>3
  <2>5. sup' \in SupStates
    <3>1. sup'.attempt \in BOOLEAN
      <4>1. sup'.attempt = FALSE BY <2>3
      <4> QED BY <4>1, Zenon
    <3>2. sup'.refresh \in BOOLEAN BY <1>1, <2>4 DEF SupStates
    <3>3. sup'.pc \in {"boot", "backoff", "attempt", "ids", "sub", "snap", "announce", "watch"} BY <2>3
    <3>4. sup'.out \in Seq(HerdrSignals) /\ sup'.panes \in SUBSET HerdrPanes BY <1>1, <2>3, <2>4
    <3>5. sup'.remaining \in Int BY <2>2, <2>3
    <3>6. sup' = [pc |-> sup'.pc, attempt |-> sup'.attempt, panes |-> sup'.panes, out |-> sup'.out,
                  refresh |-> sup'.refresh, remaining |-> sup'.remaining]
      BY <2>3
    <3> QED BY <3>1, <3>2, <3>3, <3>4, <3>5, <3>6 DEF SupStates
  <2>6. FollowTypes' BY <1>1, <2>1, <2>5 DEF FollowTypes, SupStates
  <2> QED BY <1>1, <1>2, <2>1, <2>4, <2>6, FollowFrame
<1>3. CASE sup.out # <<>>
  <2>1. signals' = Append(signals, Head(sup.out)) /\ sup' = [sup EXCEPT !.out = Tail(@)]
    BY <1>3 DEF HD!Announce
  <2>2. PICK h \in HerdrSignals : h = Head(sup.out) BY <1>1, <1>3
  <2>3. Tail(sup.out) \in Seq(HerdrSignals) /\ Items(sup.out) = {h} \cup Items(Tail(sup.out))
    BY <1>1, <1>3, <2>2, TailItems
  <2>4. /\ sup' \in SupStates /\ sup'.pc = "announce" /\ sup'.out = Tail(sup.out)
        /\ sup'.refresh = sup.refresh
    BY <1>1, <2>1, <2>3 DEF SupStates
  <2>5. /\ Rising(Tail(sup.out))
        /\ \A x \in Items(Tail(sup.out)) : IsEvent(h) /\ IsEvent(x) => h.n < x.n
    BY <1>1, <1>3, <2>2, RisingTail DEF InOrder
  <2>6. /\ Len(sup.out) \in Nat /\ Len(sup.out) > 0 /\ h = sup.out[1]
        /\ Len(sup'.out) = Len(sup.out) - 1
        /\ \A i \in 1..Len(sup'.out) : sup'.out[i] = sup.out[i + 1]
    BY <1>1, <1>3, <2>2, <2>4
  <2>7. \A i \in 1..Len(sup'.out) : IsEvent(sup'.out[i])
    <3> SUFFICES ASSUME NEW i \in 1..Len(sup'.out) PROVE IsEvent(sup'.out[i]) OBVIOUS
    <3>1. i + 1 \in 1..Len(sup.out) /\ i + 1 # 1 BY <2>6
    <3> QED BY <2>6, <3>1 DEF OpenFits
  <2>8. IsEvent(h) =>
          /\ \A y \in Items(signals) : IsEvent(y) => y.n < h.n
          /\ \A y \in Items(sup'.out) \cup Items(stream'.queue) \cup Items(stream.wire) : IsEvent(y) => h.n < y.n
          /\ IsPast(h)
    BY <1>1, <2>3, <2>4, <2>5 DEF InOrder, Below, Numbers, Past
  <2>9. FollowTypes' /\ InOrder' /\ Numbers' /\ OpenFits' /\ FlightFits' /\ ReadsTrue'
    <3>1. Items(sup'.out) \subseteq Items(sup.out) /\ Rising(sup'.out) BY <2>3, <2>4, <2>5
    <3>2. Rising(stream'.queue) BY <1>1 DEF InOrder
    <3>3. \A i \in 1..Len(stream'.queue) :
            stream'.queue[i].k = "end" => i = Len(stream'.queue) /\ stream.reader = "off"
      BY <1>1 DEF OpenFits
    <3> QED BY <1>1, <2>1, <2>2, <2>4, <2>7, <2>8, <3>1, <3>2, <3>3, ToldOrder
  <2>10. CASE ~stream.open
    <3>1. ~stream'.open BY <1>1, <2>10
    <3> QED BY <2>9, <3>1, ClosedFollow
  <2>11. CASE stream.open
    <3>1. Announced /\ Announced' BY <1>1, <2>4, <2>11 DEF Announced
    <3>2. ~SyncOut'
      <4>1. ASSUME sup'.out # <<>> PROVE IsEvent(sup'.out[1])
        <5>1. sup'.out \in Seq(HerdrSignals) BY <2>3, <2>4
        <5>2. 1 \in 1..Len(sup'.out) BY <4>1, <5>1
        <5> QED BY <2>7, <5>2
      <4> QED BY <4>1 DEF SyncOut, IsEvent, EventKinds, Changes
    <3>3. OnTheWay' = OnTheWay
      <4>1. Items(Append(signals, h)) = Items(signals) \cup {h} BY <1>1, AppendItems
      <4> QED BY <1>1, <2>1, <2>2, <2>3, <2>4, <4>1 DEF OnTheWay
    <3>4. Carried(OnTheWay, OnTheWay') /\ Carried(OnTheWay', OnTheWay) BY <3>3 DEF Carried
    <3>5. h.k = "synced" \/ h \in EventSignals
      <4>1. 1 \in 1..Len(sup.out) BY <2>6
      <4>2. h.k = "synced" \/ IsEvent(h) BY <2>6, <4>1 DEF OpenFits
      <4> QED BY <4>2 DEF HerdrSignals, SyncSignals, IsEvent, EventKinds, Changes
    <3>6. CASE h.k = "synced"
      <4>1. SyncOut BY <1>3, <2>6, <3>6 DEF SyncOut
      <4>2. signals' = Append(signals, sup.out[1]) BY <2>1, <2>2, <2>6
      <4> QED BY <1>1, <2>4, <2>9, <3>1, <3>2, <3>4, <4>1, <4>2, SyncTold
    <3>7. CASE h \in EventSignals
      <4>1. IsEvent(h) /\ h.k # "synced" BY <3>7 DEF EventSignals, IsEvent, EventKinds, Changes
      <4>2. ~SyncOut BY <2>6, <4>1 DEF SyncOut
      <4>3. h.n > stream.from BY <2>3, <2>11, <4>1 DEF Numbers, Later
      <4>4. Members => Members' BY <1>1, <2>4 DEF Members, MemberIn
      <4>5. signals' = Append(signals, h) BY <2>1, <2>2
      <4> QED BY <1>1, <2>4, <2>9, <3>1, <3>2, <3>4, <3>7, <4>2, <4>3, <4>4, <4>5, EventTold
    <3> QED BY <3>5, <3>6, <3>7
  <2> QED BY <2>10, <2>11
<1> QED BY <1>2, <1>3

LEMMA WatchKeeps ==
  ASSUME FollowInv, HD!Watch
  PROVE  FollowInv'
<1> USE DEF FollowInv
<1>1. /\ sup \in SupStates /\ stream \in Streams /\ sup.out = <<>> /\ sup.pc = "watch"
      /\ signals \in Seq(HerdrSignals) /\ stream.queue \in Seq(StreamLines)
      /\ got \in [{"sup", "actor"} -> Fetched] /\ got["sup"] = HD!Waiting /\ "sup" \notin flight.waiters
      /\ UNCHANGED <<herdr, flight, got, keeper, why>>
  BY DEF FollowTypes, SupStates, Streams, OpenFits, FlightFits, HD!Watch
<1>2. CASE sup.refresh /\ sup.remaining = 0
  <2>1. sup' = HD!NoAttempt /\ stream' = HD!NoStream /\ signals' = signals BY <1>2 DEF HD!Watch
  <2>2. HD!NoAttempt = [HD!NoAttempt EXCEPT !.pc = "boot"] BY DEF HD!NoAttempt
  <2>3. PICK to \in {"boot", "backoff", "attempt"} : to = "boot" OBVIOUS
  <2>4. sup' = [HD!NoAttempt EXCEPT !.pc = to] BY <2>1, <2>2, <2>3
  <2> QED BY <1>1, <2>1, <2>4, ResetKeeps
<1>3. CASE ~(sup.refresh /\ sup.remaining = 0)
  <2>1. stream.queue # <<>> BY <1>3 DEF HD!Watch
  <2>2. PICK e \in StreamLines : e = Head(stream.queue) BY <1>1, <2>1
  <2>3. CASE e.k = "end"
    <3>1. HD!Backoff BY <1>3, <2>2, <2>3 DEF HD!Watch
    <3> QED BY <1>1, <3>1, BackoffKeeps
  <2>4. CASE e.k # "end"
    <3>1. /\ signals' = Append(signals, HD!Invalidated(e, FALSE))
          /\ stream' = [stream EXCEPT !.queue = Tail(@)]
          /\ sup' = [sup EXCEPT !.refresh = @ \/ HD!changes_pane_membership(e),
                       !.remaining = CASE sup.refresh -> @ - 1
                                       [] HD!changes_pane_membership(e) -> Len(stream.queue) - 1
                                       [] OTHER -> 0]
      BY <1>3, <2>2, <2>4 DEF HD!Watch
    <3>2. e \in HerdrEvents /\ e.k \in EventKinds /\ e.p \in HerdrPanes /\ e.n \in Nat
      BY <2>4 DEF StreamLines, HerdrEvents
    <3>3. PICK x : x = HD!Invalidated(e, FALSE) OBVIOUS
    <3>4. x \in EventSignals /\ x \in HerdrSignals /\ IsEvent(x) /\ x.k = e.k /\ x.p = e.p /\ x.n = e.n /\ IsEvent(e)
      BY <3>2, <3>3 DEF HD!Invalidated, EventSignals, HerdrSignals, IsEvent
    <3>5. Tail(stream.queue) \in Seq(StreamLines) /\ Items(stream.queue) = {e} \cup Items(Tail(stream.queue))
      BY <1>1, <2>1, <2>2, TailItems
    <3>6. /\ stream' \in Streams /\ stream'.queue = Tail(stream.queue) /\ stream'.wire = stream.wire
          /\ stream'.open = stream.open /\ stream'.subs = stream.subs /\ stream'.tracks = stream.tracks
          /\ stream'.from = stream.from /\ stream'.reader = stream.reader
      BY <1>1, <3>1, <3>5 DEF Streams
    <3>7. /\ sup' \in SupStates /\ sup'.pc = "watch" /\ sup'.out = <<>>
          /\ sup'.refresh <=> sup.refresh \/ HD!changes_pane_membership(e)
      <4>1. sup.remaining - 1 \in Int /\ Len(stream.queue) - 1 \in Int /\ 0 \in Int BY <1>1 DEF SupStates
      <4>2. PICK m \in Int : m = CASE sup.refresh -> sup.remaining - 1
                                   [] HD!changes_pane_membership(e) -> Len(stream.queue) - 1
                                   [] OTHER -> 0
        <5>1. (CASE sup.refresh -> sup.remaining - 1
                 [] HD!changes_pane_membership(e) -> Len(stream.queue) - 1
                 [] OTHER -> 0) \in Int
          BY <4>1
        <5> QED BY <5>1
      <4>3. PICK b \in BOOLEAN : b = (sup.refresh \/ HD!changes_pane_membership(e)) OBVIOUS
      <4>4. sup' = [sup EXCEPT !.refresh = b, !.remaining = m] BY <3>1, <4>2, <4>3
      <4> QED BY <1>1, <4>3, <4>4 DEF SupStates
    <3>8. /\ Rising(Tail(stream.queue))
          /\ \A y \in Items(Tail(stream.queue)) : IsEvent(e) /\ IsEvent(y) => e.n < y.n
      BY <1>1, <2>1, <2>2, RisingTail DEF InOrder
    <3>9. FollowTypes' /\ InOrder' /\ Numbers' /\ OpenFits' /\ FlightFits' /\ ReadsTrue'
      <4>1. \A i \in 1..Len(stream'.queue) :
              stream'.queue[i].k = "end" => i = Len(stream'.queue) /\ stream.reader = "off"
        <5>1. /\ Len(stream.queue) \in Nat /\ Len(stream.queue) > 0
              /\ Len(stream'.queue) = Len(stream.queue) - 1
              /\ \A i \in 1..Len(stream'.queue) : stream'.queue[i] = stream.queue[i + 1]
          BY <1>1, <2>1, <3>6
        <5> SUFFICES ASSUME NEW i \in 1..Len(stream'.queue), stream'.queue[i].k = "end"
                     PROVE  i = Len(stream'.queue) /\ stream.reader = "off"
          OBVIOUS
        <5>2. i + 1 \in 1..Len(stream.queue) /\ stream.queue[i + 1].k = "end" BY <5>1
        <5>3. i + 1 = Len(stream.queue) /\ stream.reader = "off" BY <5>2 DEF OpenFits
        <5> QED BY <5>1, <5>3
      <4>2. Items(stream'.queue) \subseteq Items(stream.queue) /\ Rising(stream'.queue) BY <3>5, <3>6, <3>8
      <4>3. Items(sup'.out) \subseteq Items(sup.out) /\ Rising(sup'.out)
            /\ \A i \in 1..Len(sup'.out) : IsEvent(sup'.out[i])
        BY <1>1, <3>7, RisingEmpty
      <4>4. /\ \A y \in Items(signals) : IsEvent(y) => y.n < x.n
            /\ \A y \in Items(sup'.out) \cup Items(stream'.queue) \cup Items(stream.wire) : IsEvent(y) => x.n < y.n
            /\ IsPast(x)
        <5>1. \A y \in Items(signals) : IsEvent(y) => y.n < e.n BY <3>4, <3>5 DEF InOrder, Below
        <5>2. \A y \in Items(stream.wire) : IsEvent(y) => e.n < y.n BY <3>4, <3>5 DEF InOrder, Below
        <5>3. IsPast(e) BY <3>5 DEF Numbers, Past
        <5>4. IsPast(x) BY <3>4, <5>3 DEF IsPast
        <5> QED BY <3>4, <3>6, <3>7, <3>8, <5>1, <5>2, <5>4, EmptyItems
      <4>5. signals' = Append(signals, x) BY <3>1, <3>3
      <4> QED BY <1>1, <3>4, <3>6, <3>7, <4>1, <4>2, <4>3, <4>4, <4>5, ToldOrder
    <3>10. CASE ~stream.open
      <4>1. ~stream'.open BY <3>6, <3>10
      <4> QED BY <3>9, <4>1, ClosedFollow
    <3>11. CASE stream.open
      <4>1. Announced /\ Announced' BY <1>1, <3>6, <3>7, <3>11 DEF Announced
      <4>2. ~SyncOut /\ ~SyncOut' BY <1>1, <3>7 DEF SyncOut
      <4>3. Items(signals') = Items(signals) \cup {x}
        <5>1. Items(Append(signals, x)) = Items(signals) \cup {x} BY <1>1, <3>4, AppendItems
        <5> QED BY <3>1, <3>3, <5>1
      <4>4. Items(sup.out) = {} /\ Items(sup'.out) = {} BY <1>1, <3>7, EmptyItems
      <4>5. Carried(OnTheWay, OnTheWay')
        <5>1. Items(signals') \cup Items(stream'.queue) \cup Items(stream'.wire) \subseteq OnTheWay'
          BY DEF OnTheWay
        <5>2. \A z \in OnTheWay : z \in OnTheWay' \/ z = e BY <3>5, <3>6, <4>3, <4>4 DEF OnTheWay
        <5>3. x \in OnTheWay' BY <4>3, <5>1
        <5> QED BY <3>4, <5>2, <5>3 DEF Carried
      <4>6. Carried(OnTheWay', OnTheWay)
        <5>1. \A z \in OnTheWay' : z \in OnTheWay \/ z = x BY <3>5, <3>6, <4>3, <4>4 DEF OnTheWay
        <5>2. e \in OnTheWay BY <3>5 DEF OnTheWay
        <5> QED BY <3>4, <5>1, <5>2 DEF Carried
      <4>7. x.n > stream.from BY <3>4, <3>5, <3>11 DEF Numbers, Later
      <4>8. Members => Members'
        <5>1. MemberIn(stream.queue) => MemberIn(stream.queue)' \/ e.k \in {"created", "closed"}
          BY <3>5, <3>6 DEF MemberIn
        <5>2. MemberIn(stream.wire) => MemberIn(stream.wire)' BY <3>6 DEF MemberIn
        <5>3. e.k \in {"created", "closed"} => sup'.refresh BY <3>7 DEF HD!changes_pane_membership
        <5>4. sup.refresh => sup'.refresh BY <3>7
        <5> QED BY <1>1, <3>6, <5>1, <5>2, <5>3, <5>4 DEF Members
      <4>9. signals' = Append(signals, x) /\ sup'.pc # "snap" BY <3>1, <3>3, <3>7
      <4> QED BY <1>1, <3>4, <3>6, <3>9, <4>1, <4>2, <4>5, <4>6, <4>7, <4>8, <4>9, EventTold
    <3> QED BY <3>10, <3>11
  <2> QED BY <2>3, <2>4
<1> QED BY <1>2, <1>3

-----------------------------------------------------------------------------
(* The client of Herdr: the actor *)

Keepers == [pc : {"idle", "refresh", "poll"}, failed : BOOLEAN, view : HerdrData]

(* The actor, with nothing asked for, asks for a read: a new one, unless the  *)
(* supervisor's is under way, and that is before the connection is announced. *)
LEMMA AskFacts ==
  ASSUME FollowInv, keeper.pc = "idle", NEW to \in {"refresh", "poll"},
         keeper' = [keeper EXCEPT !.pc = to], HD!execute("actor"), UNCHANGED <<herdr, stream, sup, got>>
  PROVE  /\ keeper' \in Keepers /\ keeper'.pc # "idle" /\ flight' \in Flights
         /\ FlightFits' /\ ReadsTrue' /\ got["actor"] = HD!Waiting
         /\ Announced => flight'.st = "dial"
         /\ flight'.st = "served" => flight.st = "served" /\ flight'.data = flight.data /\ flight'.at = flight.at
<1> USE DEF FollowInv
<1>1. keeper \in Keepers /\ flight \in Flights BY DEF FollowTypes, Keepers, Flights
<1>2. keeper' \in Keepers /\ keeper'.pc = to /\ keeper'.pc # "idle" BY <1>1 DEF Keepers
<1>3. "actor" \notin flight.waiters /\ got["actor"] = HD!Waiting BY DEF FlightFits
<1>4. "actor" \in {"sup", "actor"} OBVIOUS
<1>5. /\ flight' \in Flights
      /\ \/ flight.st = "none" /\ flight'.st = "dial" /\ flight'.waiters = {"actor"}
         \/ /\ flight.st # "none" /\ flight'.st = flight.st /\ flight'.data = flight.data
            /\ flight'.at = flight.at /\ flight'.waiters = flight.waiters \cup {"actor"}
  BY <1>1, <1>4, ExecuteFacts
<1>6. FlightFits' BY <1>2, <1>3, <1>5 DEF FlightFits
<1>7. ReadsTrue' BY <1>5 DEF ReadsTrue, DataTrue
<1>8. Announced => flight'.st = "dial"
  <2> SUFFICES ASSUME Announced PROVE flight.st = "none" BY <1>5
  <2>1. "sup" \notin flight.waiters BY DEF Announced, FlightFits
  <2>2. flight.waiters = {} BY <1>1, <1>3, <2>1 DEF Flights
  <2> QED BY <2>2 DEF FlightFits
<1> QED BY <1>2, <1>3, <1>5, <1>6, <1>7, <1>8

LEMMA PollTimerKeeps ==
  ASSUME FollowInv, HD!PollTimer
  PROVE  FollowInv'
<1> USE DEF FollowInv
<1>1. /\ keeper.pc = "idle" /\ UNCHANGED <<herdr, stream, sup, signals, got, why>>
      /\ keeper' = [keeper EXCEPT !.pc = "poll"] /\ HD!execute("actor")
  BY DEF HD!PollTimer
<1>2. PICK to \in {"refresh", "poll"} : to = "poll" OBVIOUS
<1>3. /\ keeper' \in Keepers /\ keeper'.pc # "idle" /\ flight' \in Flights
      /\ FlightFits' /\ ReadsTrue' /\ got["actor"] = HD!Waiting
      /\ Announced => flight'.st = "dial"
      /\ flight'.st = "served" => flight.st = "served" /\ flight'.data = flight.data /\ flight'.at = flight.at
  BY <1>1, <1>2, AskFacts
<1>4. FollowTypes' BY <1>1, <1>3 DEF FollowTypes, Keepers, Flights
<1>5. InOrder' /\ Numbers' /\ OpenFits' /\ SyncFits' /\ StatusFollows' /\ SyncFresh'
      /\ Members = Members' /\ Announced = Announced' /\ NoSync = NoSync'
  BY <1>1, ReadFrame
<1>6. SnapFits'
  <2>1. stream.open /\ sup.pc = "snap" =>
           /\ flight'.st = "served" => SnapMember(flight')
           /\ got'["sup"].k = "ok" => SnapMember(got'["sup"])
    BY <1>1, <1>3 DEF SnapFits, SnapMember
  <2> QED BY <1>1, <2>1, ReadSnap
<1>7. ViewFresh' BY <1>1, <1>3, <1>5 DEF ViewFresh, HD!Waiting
<1> QED BY <1>3, <1>4, <1>5, <1>6, <1>7

LEMMA RefreshedKeeps ==
  ASSUME FollowInv, HD!Refreshed
  PROVE  FollowInv'
<1> USE DEF FollowInv
<1>1. /\ keeper.pc \in {"refresh", "poll"} /\ got["actor"] # HD!Waiting
      /\ got' = [got EXCEPT !["actor"] = HD!Waiting]
      /\ UNCHANGED <<herdr, stream, sup, signals, flight>>
  BY DEF HD!Refreshed
<1>2. keeper \in Keepers /\ got \in [{"sup", "actor"} -> Fetched] BY DEF FollowTypes, Keepers
<1>3. HD!Waiting \in Fetched BY DEF Fetched
<1>4. got' \in [{"sup", "actor"} -> Fetched] /\ got'["actor"] = HD!Waiting /\ got'["sup"] = got["sup"]
  BY <1>1, <1>2, <1>3
<1>5. "actor" \notin flight.waiters BY <1>1 DEF FlightFits
<1>6. InOrder' /\ Numbers' /\ OpenFits' /\ SyncFits' /\ StatusFollows' /\ SyncFresh'
      /\ (\A d : FreshData(d) = FreshData(d)') /\ Members = Members'
      /\ Announced = Announced' /\ NoSync = NoSync'
  BY <1>1, ReadFrame
<1>7. SnapFits'
  <2>1. stream.open /\ sup.pc = "snap" =>
           /\ flight'.st = "served" => SnapMember(flight')
           /\ got'["sup"].k = "ok" => SnapMember(got'["sup"])
    BY <1>1, <1>4 DEF SnapFits, SnapMember
  <2> QED BY <1>1, <2>1, ReadSnap
<1>8. ReadsTrue'
  <2>1. \A c \in {"sup", "actor"} : got'[c].k = "ok" => got'[c] = got[c] BY <1>4 DEF HD!Waiting
  <2> QED BY <1>1, <2>1 DEF ReadsTrue, DataTrue
<1>9. CASE got["actor"].k = "err"
  <2>1. /\ keeper' = [keeper EXCEPT !.pc = "idle", !.failed = @ \/ keeper.pc = "poll"]
        /\ why' = IF keeper.pc = "refresh" THEN why \cup {"unread"} ELSE why
    BY <1>9 DEF HD!Refreshed
  <2>2. PICK b \in BOOLEAN : b = (keeper.failed \/ keeper.pc = "poll") OBVIOUS
  <2>3. keeper' = [keeper EXCEPT !.pc = "idle", !.failed = b] BY <2>1, <2>2
  <2>4. keeper' \in Keepers /\ keeper'.pc = "idle" /\ keeper'.failed = b BY <1>2, <2>3 DEF Keepers
  <2>5. FollowTypes' BY <1>1, <1>4, <2>4 DEF FollowTypes, Keepers
  <2>6. FlightFits' BY <1>1, <1>4, <1>5, <2>4 DEF FlightFits
  <2>7. keeper'.failed \/ "unread" \in why' BY <1>1, <2>1, <2>2, <2>4
  <2>8. "unwatched" \notin why' => "unwatched" \notin why BY <2>1
  <2>9. ViewFresh' BY <1>1, <1>4, <1>5, <1>6, <2>7, <2>8 DEF ViewFresh, HD!Waiting
  <2> QED BY <1>6, <1>7, <1>8, <2>5, <2>6, <2>9
<1>10. CASE got["actor"].k # "err"
  <2>1. /\ keeper' = [keeper EXCEPT !.pc = "idle", !.failed = FALSE, !.view = got["actor"].data]
        /\ why' = why \ {"unread", "shared"}
    BY <1>10 DEF HD!Refreshed
  <2>2. got["actor"].k = "ok" /\ got["actor"].data \in HerdrData
    <3>1. got["actor"] \in Fetched BY <1>2
    <3> QED BY <1>1, <1>10, <3>1 DEF Fetched, HD!NoAnswer, HD!Waiting
  <2>3. PICK b \in BOOLEAN : b = FALSE OBVIOUS
  <2>4. keeper' = [keeper EXCEPT !.pc = "idle", !.failed = b, !.view = got["actor"].data] BY <2>1, <2>3
  <2>5. keeper' \in Keepers /\ keeper'.pc = "idle" /\ keeper'.view = got["actor"].data
    BY <1>2, <2>2, <2>4 DEF Keepers
  <2>6. FollowTypes' BY <1>1, <1>4, <2>5 DEF FollowTypes, Keepers
  <2>7. FlightFits' BY <1>1, <1>4, <1>5, <2>5 DEF FlightFits
  <2>8. "unwatched" \notin why' => "unwatched" \notin why BY <2>1
  <2>9. PICK d : d = got["actor"].data OBVIOUS
  <2>10. Announced /\ NoSync => FreshData(d)' BY <1>6, <2>2, <2>9 DEF ViewFresh
  <2>11. Announced /\ NoSync => FreshData(keeper.view)'
    BY <2>5, <2>9, <2>10 DEF FreshData, FreshTopo, FreshStatus
  <2>12. ViewFresh' BY <1>1, <1>4, <1>5, <1>6, <2>8, <2>11 DEF ViewFresh, HD!Waiting
  <2> QED BY <1>6, <1>7, <1>8, <2>6, <2>7, <2>12
<1> QED BY <1>9, <1>10

(* The actor takes a signal: every event after it is a later one. *)
LEMMA HeadFacts ==
  ASSUME FollowInv, signals # <<>>, signals' = Tail(signals), UNCHANGED <<herdr, stream, sup>>,
         NEW h, h = Head(signals)
  PROVE  /\ signals' \in Seq(HerdrSignals) /\ h \in HerdrSignals /\ h \in Items(signals)
         /\ Items(signals) = {h} \cup Items(signals')
         /\ OnTheWay = OnTheWay' \cup {h}
         /\ \A x \in OnTheWay' : IsEvent(h) /\ IsEvent(x) => h.n < x.n
         /\ Len(signals) \in Nat /\ Len(signals) > 0 /\ signals[1] = h
         /\ Len(signals') = Len(signals) - 1
         /\ \A i \in 1..Len(signals') : signals'[i] = signals[i + 1] /\ i + 1 \in 1..Len(signals)
         /\ \A i \in 2..Len(signals) : i - 1 \in 1..Len(signals') /\ signals'[i - 1] = signals[i]
         /\ NoSync' <=> ~SyncOut /\ ~SyncIn(signals')
         /\ NoSync <=> NoSync' /\ h.k # "synced"
<1> USE DEF FollowInv
<1>1. signals \in Seq(HerdrSignals) BY DEF FollowTypes
<1>2. h \in HerdrSignals /\ signals' \in Seq(HerdrSignals) /\ Items(signals) = {h} \cup Items(signals')
  BY <1>1, TailItems
<1>3. OnTheWay = OnTheWay' \cup {h} BY <1>2 DEF OnTheWay
<1>4. \A x \in Items(signals') : IsEvent(h) /\ IsEvent(x) => h.n < x.n
  BY <1>1, RisingTail DEF InOrder
<1>5. \A x \in OnTheWay' : IsEvent(h) /\ IsEvent(x) => h.n < x.n
  BY <1>2, <1>4 DEF OnTheWay, InOrder, Below
<1>6. /\ Len(signals) \in Nat /\ Len(signals) > 0 /\ signals[1] = h
      /\ Len(signals') = Len(signals) - 1
      /\ \A i \in 1..Len(signals') : signals'[i] = signals[i + 1]
  BY <1>1
<1>7. \A i \in 1..Len(signals') : i + 1 \in 1..Len(signals) BY <1>6
<1>8. \A i \in 2..Len(signals) : i - 1 \in 1..Len(signals') /\ signals'[i - 1] = signals[i]
  <2> SUFFICES ASSUME NEW i \in 2..Len(signals)
               PROVE  i - 1 \in 1..Len(signals') /\ signals'[i - 1] = signals[i]
    OBVIOUS
  <2>1. PICK m \in 1..Len(signals') : m = i - 1
    <3>1. i - 1 \in 1..Len(signals') BY <1>6
    <3> QED BY <3>1
  <2>2. m + 1 = i BY <1>6, <2>1
  <2> QED BY <1>6, <2>1, <2>2
<1>9. NoSync' <=> ~SyncOut /\ ~SyncIn(signals')
  BY DEF NoSync, SyncOut, SyncIn
<1>10. NoSync <=> NoSync' /\ h.k # "synced"
  BY <1>2, <1>9 DEF NoSync, SyncIn
<1> QED BY <1>2, <1>3, <1>5, <1>6, <1>7, <1>8, <1>9, <1>10

(* A signal that says nothing of this connection. *)
LEMMA OldTaken ==
  ASSUME FollowInv, signals # <<>>, signals' = Tail(signals), UNCHANGED <<herdr, stream, sup>>,
         IsEvent(Head(signals)) => Head(signals).n <= stream.from
  PROVE  \A d \in HerdrData : FreshData(d) => FreshData(d)'
<1> USE DEF FollowInv
<1>1. PICK h : h = Head(signals) OBVIOUS
<1>2. OnTheWay = OnTheWay' \cup {h} /\ h \in HerdrSignals BY <1>1, HeadFacts
<1>3. herdr.topo \in Nat /\ stream.from \in Nat /\ herdr.status \in [HerdrPanes -> Nat]
      /\ stream.subs \subseteq HerdrPanes
  BY DEF FollowTypes
<1>4. IsEvent(h) => h.n <= stream.from /\ h.n \in Nat BY <1>1, <1>2, EventFields
<1> SUFFICES ASSUME NEW d \in HerdrData, FreshData(d) PROVE FreshData(d)' OBVIOUS
<1>5. herdr.topo > stream.from /\ ChangeWaits => ChangeWaits'
  <2> SUFFICES ASSUME herdr.topo > stream.from, NEW x \in OnTheWay, IsChange(x)
               PROVE  \E y \in OnTheWay' : IsChange(y)'
    BY DEF ChangeWaits, ChangeIn, OnTheWay
  <2>1. IsEvent(x) /\ x.n = herdr.topo BY DEF IsChange, IsEvent, EventKinds
  <2>2. x # h BY <1>3, <1>4, <2>1
  <2> QED BY <1>2, <2>2 DEF IsChange
<1>6. ASSUME NEW p \in HerdrPanes, herdr.status[p] > stream.from, StatusWaits(p) PROVE StatusWaits(p)'
  <2>1. PICK x \in OnTheWay : IsStatus(x, p) BY <1>6, WaitsOnTheWay
  <2>2. IsEvent(x) /\ x.n = herdr.status[p] BY <2>1 DEF IsStatus, IsEvent, EventKinds
  <2>3. herdr.status[p] \in Nat BY <1>3
  <2>4. x # h BY <1>3, <1>4, <1>6, <2>2, <2>3
  <2>5. x \in OnTheWay' /\ IsStatus(x, p)' BY <1>2, <2>1, <2>4 DEF IsStatus
  <2> QED BY <2>5 DEF StatusWaits, StatusIn, OnTheWay
<1>7. FreshTopo(d)' BY <1>5 DEF FreshData, FreshTopo
<1>8. FreshStatus(d)'
  <2> SUFFICES ASSUME NEW p \in stream.subs \cap d.panes
               PROVE  d.status[p] = herdr.status[p] \/ (herdr.status[p] > stream.from /\ StatusWaits(p)')
    BY DEF FreshStatus
  <2>1. p \in HerdrPanes BY <1>3
  <2> QED BY <1>6, <2>1 DEF FreshData, FreshStatus
<1> QED BY <1>7, <1>8 DEF FreshData

LEMMA TakeFrame ==
  ASSUME FollowInv, signals # <<>>, signals' = Tail(signals), UNCHANGED <<herdr, stream, sup>>
  PROVE  /\ InOrder' /\ Numbers' /\ OpenFits' /\ SyncFits' /\ StatusFollows' /\ SyncFresh'
         /\ Announced' <=> Announced
         /\ Members => Members'
<1> USE DEF FollowInv
<1>1. PICK h : h = Head(signals) OBVIOUS
<1>2. /\ signals' \in Seq(HerdrSignals) /\ h \in HerdrSignals /\ h \in Items(signals)
      /\ Items(signals) = {h} \cup Items(signals')
      /\ OnTheWay = OnTheWay' \cup {h}
      /\ \A x \in OnTheWay' : IsEvent(h) /\ IsEvent(x) => h.n < x.n
      /\ Len(signals) \in Nat /\ Len(signals) > 0 /\ signals[1] = h
      /\ Len(signals') = Len(signals) - 1
      /\ \A i \in 1..Len(signals') : signals'[i] = signals[i + 1] /\ i + 1 \in 1..Len(signals)
      /\ \A i \in 2..Len(signals) : i - 1 \in 1..Len(signals') /\ signals'[i - 1] = signals[i]
  BY <1>1, HeadFacts
<1>3. InOrder'
  <2>1. Rising(signals')
    <3>1. signals \in Seq(HerdrSignals) BY DEF FollowTypes
    <3> QED BY <3>1, RisingTail DEF InOrder
  <2>2. Below(signals', sup.out) /\ Below(signals', stream.queue) /\ Below(signals', stream.wire)
    BY <1>2 DEF InOrder, Below
  <2> QED BY <2>1, <2>2 DEF InOrder, Below
<1>4. Numbers'
  <2>1. Past(signals)' BY <1>2 DEF Numbers, Past, IsPast
  <2>2. Past(sup.out)' /\ Past(stream.queue)' /\ Past(stream.wire)' BY DEF Numbers, Past, IsPast
  <2>3. stream.open => Later(sup.out)' /\ Later(stream.queue)' /\ Later(stream.wire)' BY DEF Numbers, Later
  <2> QED BY <2>1, <2>2, <2>3 DEF Numbers
<1>5. OpenFits' BY DEF OpenFits
<1>6. (Announced' <=> Announced) /\ (SyncOut' <=> SyncOut) BY DEF Announced, SyncOut
<1>7. SyncFits'
  <2> SUFFICES ASSUME Announced
               PROVE  /\ SyncOut => Sooner(signals)'
                      /\ \A i, j \in 1..Len(signals') :
                           j < i /\ signals'[i].k = "synced" /\ IsEvent(signals'[j]) => signals'[j].n <= stream.from
                      /\ \A i \in 1..Len(signals') :
                           IsEvent(signals'[i]) /\ signals'[i].n <= stream.from =>
                             SyncOut \/ \E j \in 1..Len(signals') : j > i /\ signals'[j].k = "synced"
    BY <1>6 DEF SyncFits
  <2>1. SyncOut => Sooner(signals)' BY <1>2 DEF SyncFits, Sooner
  <2>2. ASSUME NEW i \in 1..Len(signals'), NEW j \in 1..Len(signals'), j < i, signals'[i].k = "synced",
               IsEvent(signals'[j])
        PROVE  signals'[j].n <= stream.from
    <3>1. j + 1 < i + 1 BY <2>2
    <3> QED BY <1>2, <2>2, <3>1 DEF SyncFits
  <2>3. ASSUME NEW i \in 1..Len(signals'), IsEvent(signals'[i]), signals'[i].n <= stream.from, ~SyncOut
        PROVE  \E j \in 1..Len(signals') : j > i /\ signals'[j].k = "synced"
    <3>1. PICK j \in 1..Len(signals) : j > i + 1 /\ signals[j].k = "synced" BY <1>2, <2>3 DEF SyncFits
    <3>2. j \in 2..Len(signals) /\ j - 1 > i BY <1>2, <3>1
    <3> QED BY <1>2, <3>1, <3>2
  <2> QED BY <2>1, <2>2, <2>3
<1>8. StatusFollows'
  <2> SUFFICES ASSUME stream.open, NEW p \in stream.subs, AnyStatusWaits(p)' PROVE StatusWaits(p)'
    BY DEF StatusFollows
  <2>1. PICK x \in OnTheWay' : x.k = "status" /\ x.p = p /\ x.n > stream.from
    BY DEF AnyStatusWaits, AnyStatusIn, OnTheWay
  <2>2. x \in OnTheWay BY <1>2
  <2>3. StatusWaits(p) BY <2>1, <2>2, WaitsOnTheWay DEF StatusFollows
  <2>4. PICK y \in OnTheWay : IsStatus(y, p) BY <2>3, WaitsOnTheWay
  <2>5. IsEvent(x) /\ IsEvent(y) /\ y.n = herdr.status[p] BY <2>1, <2>4 DEF IsStatus, IsEvent, EventKinds
  <2>6. x.n <= herdr.status[p] /\ x.n \in Nat /\ herdr.status[p] \in Nat
    <3>1. x \in HerdrSignals \cup StreamLines BY <2>2, QueueItems DEF OnTheWay
    <3>2. IsPast(x) BY <2>2 DEF OnTheWay, Numbers, Past
    <3>3. herdr.status \in [HerdrPanes -> Nat] /\ p \in HerdrPanes BY DEF FollowTypes
    <3> QED BY <2>1, <2>5, <3>1, <3>2, <3>3, EventFields DEF IsPast
  <2>7. y # h BY <1>2, <2>1, <2>5, <2>6
  <2>8. y \in OnTheWay' /\ IsStatus(y, p)' BY <1>2, <2>4, <2>7 DEF IsStatus
  <2> QED BY <2>8 DEF StatusWaits, StatusIn, OnTheWay
<1>9. Members => Members' BY DEF Members, MemberIn
<1>10. SyncFresh'
  <2>1. ASSUME Announced, SyncOut, ~sup.out[1].old PROVE FreshData(sup.out[1].data)' /\ Members'
    <3>1. IsEvent(h) => h.n <= stream.from BY <1>2, <2>1 DEF SyncFits, Sooner
    <3>2. PICK d \in HerdrData : d = sup.out[1].data BY <2>1, SyncsAreData
    <3>3. FreshData(d) /\ Members BY <2>1, <3>2 DEF SyncFresh
    <3>4. FreshData(d)' BY <1>1, <3>1, <3>3, OldTaken
    <3> QED BY <1>9, <3>2, <3>3, <3>4 DEF FreshData, FreshTopo, FreshStatus
  <2>2. ASSUME Announced, NEW i \in 1..Len(signals'), LastSync(i)', ~signals'[i].old
        PROVE  FreshData(signals[i].data)' /\ Members'
    <3>1. /\ signals'[i].k = "synced" /\ ~SyncOut
          /\ \A j \in 1..Len(signals') : j > i => signals'[j].k # "synced"
      BY <1>6, <2>2 DEF LastSync
    <3>2. i + 1 \in 1..Len(signals) /\ signals[i + 1] = signals'[i] BY <1>2
    <3>3. LastSync(i + 1)
      <4> SUFFICES ASSUME NEW j \in 1..Len(signals), j > i + 1 PROVE signals[j].k # "synced"
        BY <3>1, <3>2 DEF LastSync
      <4>1. j \in 2..Len(signals) /\ j - 1 > i BY <1>2
      <4> QED BY <1>2, <3>1, <4>1
    <3>4. IsEvent(h) => h.n <= stream.from
      <4>1. 1 < i + 1 /\ 1 \in 1..Len(signals) BY <1>2
      <4> QED BY <1>2, <2>2, <3>1, <3>2, <4>1 DEF SyncFits
    <3>5. PICK d \in HerdrData : d = signals[i + 1].data BY <3>2, <3>3, SyncsAreData
    <3>6. FreshData(d) /\ Members BY <2>2, <3>2, <3>3, <3>5 DEF SyncFresh
    <3>7. FreshData(d)' BY <1>1, <3>4, <3>6, OldTaken
    <3>8. d = signals'[i].data BY <3>2, <3>5
    <3> QED BY <1>9, <3>6, <3>7, <3>8 DEF FreshData, FreshTopo, FreshStatus
  <2> QED BY <1>6, <2>1, <2>2 DEF SyncFresh
<1> QED BY <1>3, <1>4, <1>5, <1>6, <1>7, <1>8, <1>9, <1>10

(* A signal that asks for nothing. *)
LEMMA QuietTake ==
  ASSUME FollowInv, signals # <<>>, signals' = Tail(signals), keeper.pc = "idle",
         UNCHANGED <<herdr, stream, sup, flight, got>>, keeper' \in Keepers, keeper'.pc = "idle",
         Announced /\ NoSync' =>
           /\ "unwatched" \notin why' => Members
           /\ ~keeper'.failed /\ why' \cap {"unread", "shared"} = {} => FreshData(keeper.view)'
  PROVE  FollowInv'
<1> USE DEF FollowInv
<1>1. /\ InOrder' /\ Numbers' /\ OpenFits' /\ SyncFits' /\ StatusFollows' /\ SyncFresh'
      /\ Announced' <=> Announced
      /\ Members => Members'
  BY TakeFrame
<1>2. signals' \in Seq(HerdrSignals) /\ Items(signals') \subseteq Items(signals) BY HeadFacts
<1>3. FollowTypes' BY <1>2 DEF FollowTypes, Keepers
<1>4. "actor" \notin flight.waiters /\ got["actor"] = HD!Waiting BY DEF FlightFits
<1>5. FlightFits' /\ ReadsTrue' BY DEF FlightFits, ReadsTrue, DataTrue
<1>6. SnapFits'
  <2>1. Sooner(signals) => Sooner(signals)' BY <1>2 DEF Sooner
  <2>2. ChangeIn(stream.queue)' = ChangeIn(stream.queue) /\ ChangeIn(stream.wire)' = ChangeIn(stream.wire)
    BY Zenon DEF ChangeIn, IsChange
  <2>3. \A p : StatusIn(stream.queue, p)' = StatusIn(stream.queue, p) /\ StatusIn(stream.wire, p)' = StatusIn(stream.wire, p)
    BY Zenon DEF StatusIn, IsStatus
  <2>4. (flight.st = "served" /\ SnapMember(flight) => SnapMember(flight)')
        /\ (SnapMember(got["sup"]) => SnapMember(got["sup"])')
    BY DEF SnapMember, MemberIn
  <2> QED BY <2>1, <2>2, <2>3, <2>4 DEF SnapFits
<1>7. ViewFresh' BY <1>1, <1>4 DEF ViewFresh, HD!Waiting
<1> QED BY <1>1, <1>3, <1>5, <1>6, <1>7

(* A status that the actor commits. *)
LEMMA CommitFresh ==
  ASSUME FollowInv, signals # <<>>, signals' = Tail(signals), UNCHANGED <<herdr, stream, sup>>,
         Announced, NoSync, NEW h, h = Head(signals), h.k = "status",
         NEW d \in HerdrData, FreshData(d), NEW v,
         v = IF h.p \in d.panes THEN [d EXCEPT !.status[h.p] = h.n] ELSE d
  PROVE  v \in HerdrData /\ FreshData(v)'
<1> USE DEF FollowInv
<1>1. /\ h \in HerdrSignals /\ h \in Items(signals) /\ OnTheWay = OnTheWay' \cup {h}
      /\ Len(signals) \in Nat /\ Len(signals) > 0 /\ signals[1] = h
  BY HeadFacts
<1>2. IsEvent(h) /\ h.p \in HerdrPanes /\ h.n \in Nat
  <2>1. IsEvent(h) BY DEF IsEvent, EventKinds
  <2> QED BY <1>1, <2>1, EventFields
<1>3. herdr.topo \in Nat /\ stream.from \in Nat /\ herdr.status \in [HerdrPanes -> Nat]
      /\ stream.subs \subseteq HerdrPanes /\ stream.open
  BY DEF FollowTypes, Announced
<1>4. h.n > stream.from
  <2>1. 1 \in 1..Len(signals) BY <1>1
  <2>2. ~SyncOut /\ \A j \in 1..Len(signals) : signals[j].k # "synced" BY DEF NoSync, SyncIn, Items
  <2>3. ~(h.n <= stream.from) BY <1>1, <1>2, <2>1, <2>2 DEF SyncFits
  <2> QED BY <1>2, <1>3, <2>3
<1>5. h.n <= herdr.status[h.p]
  <2>1. IsPast(h) BY <1>1 DEF Numbers, Past
  <2> QED BY <1>2, <2>1 DEF IsPast
<1>6. h.p \in d.panes =>
        /\ v \in HerdrData /\ v.panes = d.panes /\ v.topo = d.topo
        /\ v.status = [d.status EXCEPT ![h.p] = h.n]
  BY <1>2, CommittedIsData
<1>7. v \in HerdrData /\ v.panes = d.panes /\ v.topo = d.topo
      /\ \A p \in d.panes : v.status[p] = IF p = h.p THEN h.n ELSE d.status[p]
  <2>1. d.status \in [d.panes -> Nat] BY DataFacts
  <2>2. CASE h.p \in d.panes
    <3>1. \A p \in d.panes : v.status[p] = IF p = h.p THEN h.n ELSE d.status[p] BY <1>6, <2>1, <2>2
    <3> QED BY <1>6, <2>2, <3>1
  <2>3. CASE h.p \notin d.panes BY <2>3
  <2> QED BY <2>2, <2>3
<1>8. FreshTopo(v)'
  <2>1. ChangeWaits => ChangeWaits'
    <3> SUFFICES ASSUME NEW x \in OnTheWay, IsChange(x) PROVE \E y \in OnTheWay' : IsChange(y)'
      BY DEF ChangeWaits, ChangeIn, OnTheWay
    <3>1. x # h BY DEF IsChange, Changes
    <3> QED BY <1>1, <3>1 DEF IsChange
  <2>2. FreshTopo(d) BY DEF FreshData
  <2> QED BY <1>7, <2>1, <2>2 DEF FreshTopo
<1>9. FreshStatus(v)'
  <2> SUFFICES ASSUME NEW p \in stream.subs \cap d.panes
               PROVE  v.status[p] = herdr.status[p] \/ (herdr.status[p] > stream.from /\ StatusWaits(p)')
    BY <1>7 DEF FreshStatus
  <2>1. ASSUME StatusWaits(p), p # h.p \/ h.n # herdr.status[p] PROVE StatusWaits(p)'
    <3>1. PICK x \in OnTheWay : IsStatus(x, p) BY <2>1, WaitsOnTheWay
    <3>2. x # h BY <2>1, <3>1 DEF IsStatus
    <3>3. x \in OnTheWay' /\ IsStatus(x, p)' BY <1>1, <3>1, <3>2 DEF IsStatus
    <3> QED BY <3>3 DEF StatusWaits, StatusIn, OnTheWay
  <2>2. CASE p # h.p
    <3>1. v.status[p] = d.status[p] BY <1>7, <2>2
    <3>2. FreshStatus(d) BY DEF FreshData
    <3> QED BY <2>1, <2>2, <3>1, <3>2 DEF FreshStatus
  <2>3. CASE p = h.p /\ h.n = herdr.status[p] BY <1>7, <2>3
  <2>4. CASE p = h.p /\ h.n # herdr.status[p]
    <3>1. AnyStatusWaits(p) BY <1>1, <1>4, <2>4, WaitsOnTheWay
    <3>2. StatusWaits(p) BY <1>3, <3>1 DEF StatusFollows
    <3>3. herdr.status[p] > stream.from
      <4>1. herdr.status[p] \in Nat BY <1>3
      <4> QED BY <1>2, <1>3, <1>4, <1>5, <2>4, <4>1
    <3> QED BY <2>1, <2>4, <3>2, <3>3
  <2> QED BY <2>2, <2>3, <2>4
<1> QED BY <1>7, <1>8, <1>9 DEF FreshData

LEMMA TakeKeeps ==
  ASSUME FollowInv, HD!Take
  PROVE  FollowInv'
<1> USE DEF FollowInv
<1>1. /\ keeper.pc = "idle" /\ signals # <<>> /\ signals' = Tail(signals)
      /\ UNCHANGED <<herdr, stream, sup, got>>
  BY DEF HD!Take
<1>2. PICK h : h = Head(signals) OBVIOUS
<1>3. /\ signals' \in Seq(HerdrSignals) /\ h \in HerdrSignals /\ h \in Items(signals)
      /\ Items(signals) = {h} \cup Items(signals')
      /\ Len(signals) \in Nat /\ Len(signals) > 0 /\ signals[1] = h
      /\ NoSync' <=> ~SyncOut /\ ~SyncIn(signals')
      /\ NoSync <=> NoSync' /\ h.k # "synced"
  BY <1>1, <1>2, HeadFacts
<1>4. keeper \in Keepers /\ keeper.view \in HerdrData BY DEF FollowTypes, Keepers
<1>5. CASE h.k = "synced"
  <2>1. /\ keeper' = [keeper EXCEPT !.view = h.data, !.failed = FALSE]
        /\ why' = (why \ {"unread", "shared", "unwatched"})
                  \cup (IF h.old THEN {"shared", "unwatched"} ELSE {})
        /\ flight' = flight
    BY <1>2, <1>5 DEF HD!Take
  <2>2. h.data \in HerdrData BY <1>3, <1>5 DEF HerdrSignals, SyncSignals, EventSignals, EventKinds, Changes
  <2>3. PICK b \in BOOLEAN : b = FALSE OBVIOUS
  <2>4. keeper' = [keeper EXCEPT !.view = h.data, !.failed = b] BY <2>1, <2>3
  <2>5. keeper' \in Keepers /\ keeper'.pc = "idle" /\ keeper'.view = h.data
    BY <1>1, <1>4, <2>2, <2>4 DEF Keepers
  <2>6. ASSUME Announced, NoSync', ~h.old PROVE Members /\ FreshData(keeper.view)'
    <3>1. 1 \in 1..Len(signals) BY <1>3
    <3>2. \A j \in 1..Len(signals) : j > 1 => signals[j].k # "synced"
      <4> SUFFICES ASSUME NEW j \in 1..Len(signals), j > 1 PROVE signals[j].k # "synced" OBVIOUS
      <4>1. j \in 2..Len(signals) BY <1>3
      <4>2. PICK m \in 1..Len(signals') : signals'[m] = signals[j] BY <1>1, <4>1, HeadFacts
      <4> QED BY <1>3, <2>6, <4>2 DEF SyncIn, Items
    <3>3. LastSync(1) BY <1>3, <1>5, <2>6, <3>2 DEF LastSync
    <3>4. PICK d \in HerdrData : d = h.data BY <2>2
    <3>5. FreshData(d) /\ Members BY <1>3, <2>6, <3>1, <3>3, <3>4 DEF SyncFresh
    <3>6. ~IsEvent(h) BY <1>5 DEF IsEvent, EventKinds, Changes
    <3>7. FreshData(d)' BY <1>1, <1>2, <3>5, <3>6, OldTaken
    <3>8. d = keeper'.view BY <2>5, <3>4
    <3> QED BY <3>5, <3>7, <3>8 DEF FreshData, FreshTopo, FreshStatus
  <2>7. "unwatched" \notin why' => ~h.old BY <2>1
  <2>8. why' \cap {"unread", "shared"} = {} => ~h.old BY <2>1
  <2> QED BY <1>1, <2>1, <2>5, <2>6, <2>7, <2>8, QuietTake
<1>6. CASE h.k = "reconnecting"
  <2>1. UNCHANGED <<keeper, flight, why>> BY <1>2, <1>6 DEF HD!Take
  <2>2. ~IsEvent(h) BY <1>6 DEF IsEvent, EventKinds, Changes
  <2>3. NoSync <=> NoSync' BY <1>3, <1>6
  <2>4. PICK d \in HerdrData : d = keeper.view BY <1>4
  <2>5. FreshData(d) => FreshData(d)' BY <1>1, <1>2, <2>2, OldTaken
  <2>6. FreshData(keeper.view) => FreshData(keeper.view)'
    BY <2>1, <2>4, <2>5 DEF FreshData, FreshTopo, FreshStatus
  <2>7. Announced /\ NoSync' =>
           /\ "unwatched" \notin why' => Members
           /\ ~keeper'.failed /\ why' \cap {"unread", "shared"} = {} => FreshData(keeper.view)'
    BY <1>1, <2>1, <2>3, <2>6 DEF ViewFresh
  <2> QED BY <1>1, <1>4, <2>1, <2>7, QuietTake
<1>7. CASE h.k = "status" /\ ~h.gap
  <2>1. keeper' = [keeper EXCEPT !.view = HD!commit_agent_status(h)] /\ UNCHANGED <<flight, why>>
    BY <1>2, <1>7 DEF HD!Take
  <2>2. NoSync <=> NoSync' BY <1>3, <1>7
  <2>3. PICK d \in HerdrData : d = keeper.view BY <1>4
  <2>4. PICK v : v = IF h.p \in d.panes THEN [d EXCEPT !.status[h.p] = h.n] ELSE d OBVIOUS
  <2>5. keeper' = [keeper EXCEPT !.view = v] BY <2>1, <2>3, <2>4 DEF HD!commit_agent_status
  <2>6. v \in HerdrData
    <3>1. IsEvent(h) BY <1>7 DEF IsEvent, EventKinds
    <3>2. h.n \in Nat BY <1>3, <3>1, EventFields
    <3> QED BY <2>4, <3>2, CommittedIsData
  <2>7. keeper' \in Keepers /\ keeper'.pc = "idle" /\ keeper'.view = v /\ keeper'.failed = keeper.failed
    BY <1>1, <1>4, <2>5, <2>6 DEF Keepers
  <2>8. ASSUME Announced, NoSync, FreshData(keeper.view) PROVE FreshData(keeper.view)'
    <3>1. FreshData(d) BY <2>3, <2>8
    <3>2. FreshData(v)' BY <1>1, <1>2, <1>7, <2>4, <2>8, <3>1, CommitFresh
    <3> QED BY <2>7, <3>2 DEF FreshData, FreshTopo, FreshStatus
  <2>9. Announced /\ NoSync' =>
           /\ "unwatched" \notin why' => Members
           /\ ~keeper'.failed /\ why' \cap {"unread", "shared"} = {} => FreshData(keeper.view)'
    BY <1>1, <2>1, <2>2, <2>7, <2>8 DEF ViewFresh
  <2> QED BY <1>1, <2>1, <2>7, <2>9, QuietTake
<1>8. CASE h.k \notin {"synced", "reconnecting"} /\ ~(h.k = "status" /\ ~h.gap)
  <2>1. keeper' = [keeper EXCEPT !.pc = IF HD!is_pane_topology(h) THEN "refresh" ELSE "poll"]
        /\ HD!execute("actor") /\ why' = why
    BY <1>2, <1>8 DEF HD!Take
  <2>2. PICK to \in {"refresh", "poll"} : to = IF HD!is_pane_topology(h) THEN "refresh" ELSE "poll"
    OBVIOUS
  <2>3. /\ keeper' \in Keepers /\ keeper'.pc # "idle" /\ flight' \in Flights
        /\ FlightFits' /\ ReadsTrue' /\ got["actor"] = HD!Waiting
        /\ Announced => flight'.st = "dial"
        /\ flight'.st = "served" => flight.st = "served" /\ flight'.data = flight.data /\ flight'.at = flight.at
    <3>1. keeper' = [keeper EXCEPT !.pc = to] BY <2>1, <2>2
    <3> QED BY <1>1, <2>1, <3>1, AskFacts
  <2>4. FollowTypes' BY <1>1, <1>3, <2>3 DEF FollowTypes, Keepers, Flights
  <2>5. /\ InOrder' /\ Numbers' /\ OpenFits' /\ SyncFits' /\ StatusFollows' /\ SyncFresh'
        /\ Announced' <=> Announced
        /\ Members => Members'
    BY <1>1, TakeFrame
  <2>6. SnapFits'
    <3>1. Sooner(signals) => Sooner(signals)' BY <1>1, <1>3 DEF Sooner
    <3>2. ChangeIn(stream.queue)' = ChangeIn(stream.queue) /\ ChangeIn(stream.wire)' = ChangeIn(stream.wire)
      BY <1>1, Zenon DEF ChangeIn, IsChange
    <3>3. \A p : StatusIn(stream.queue, p)' = StatusIn(stream.queue, p) /\ StatusIn(stream.wire, p)' = StatusIn(stream.wire, p)
      BY <1>1, Zenon DEF StatusIn, IsStatus
    <3>4. flight'.st = "served" /\ SnapMember(flight) => SnapMember(flight)'
      BY <1>1, <2>3 DEF SnapMember, MemberIn
    <3>5. SnapMember(got["sup"]) => SnapMember(got["sup"])' BY <1>1 DEF SnapMember, MemberIn
    <3> QED BY <1>1, <2>3, <3>1, <3>2, <3>3, <3>4, <3>5 DEF SnapFits
  <2>7. ViewFresh'
    <3>1. NoSync <=> NoSync' BY <1>3, <1>8
    <3> QED BY <1>1, <2>1, <2>3, <2>5, <3>1 DEF ViewFresh, HD!Waiting
  <2> QED BY <2>3, <2>4, <2>5, <2>6, <2>7
<1> QED BY <1>5, <1>6, <1>7, <1>8

-----------------------------------------------------------------------------
(* The client of Herdr: the ledger *)

LEMMA BuildsAreSome == \A b \in HD!Builds : b # HD!Nobody
<1>1. {} # {"none"} OBVIOUS
<1>2. {"status", "read"} # {"none"} OBVIOUS
<1> QED BY <1>1, <1>2 DEF HD!Builds, HD!Features, HD!Nobody, HD!None

(* A step that leaves the ledger and its refresh alone: the connection it is  *)
(* about was announced before, or is not.                                     *)
LEMMA RefreshFrame ==
  ASSUME RefreshFits, UNCHANGED <<caps, collect>>, "replaced" \in why => "replaced" \in why',
         Announced' /\ NoSync' => Announced /\ NoSync /\ herdr'.build = herdr.build
  PROVE  RefreshFits'
<1>1. \A f, b : HD!note_for(f, b)' = HD!note_for(f, b) BY Zenon DEF HD!note_for
<1>2. \A f : HD!Misbound(f)' = HD!Misbound(f) BY Zenon DEF HD!Misbound
<1>3. ASSUME Announced', NoSync' PROVE \A r, f : SaysTrue(r, f) => SaysTrue(r, f)'
  BY <1>3 DEF SaysTrue
<1>4. Announced' /\ NoSync' /\ ~collect'.wanted =>
       /\ collect'.pc # "idle" =>
            /\ collect'.epoch = caps'.epoch
            /\ collect'.identity \in {HD!Nobody, herdr'.build}
       /\ collect'.pc = "apply" /\ collect'.identity # HD!Nobody /\ "replaced" \notin why' =>
            \A f \in HD!Features :
              SaysTrue(collect'.next, f) \/ HD!note_for(f, herdr'.build) \/ HD!Misbound(f)
       /\ collect'.pc = "idle" /\ caps'.identity # HD!Nobody /\ "replaced" \notin why' =>
            /\ caps'.identity = herdr'.build
            /\ \A f \in HD!Features : SaysTrue(caps'.report, f) \/ HD!Misbound(f)
  BY DEF RefreshFits
<1> QED BY <1>1, <1>2, <1>3, <1>4 DEF RefreshFits, SaysTrue

LEMMA CallFrame ==
  ASSUME CallFits, UNCHANGED call, herdr'.build = herdr.build
  PROVE  CallFits'
BY DEF CallFits, HD!PhaseTells

(* A step that touches neither the ledger, nor its refresh, nor a call. *)
LEMMA LedgerFrame ==
  ASSUME LedgerInv, UNCHANGED <<caps, collect, call, why>>, herdr'.build = herdr.build,
         Announced' /\ NoSync' => Announced /\ NoSync
  PROVE  LedgerInv'
<1>1. LedgerTypes' /\ NotesTrue' BY DEF LedgerInv, LedgerTypes, NotesTrue
<1>2. CallFits' BY CallFrame DEF LedgerInv
<1>3. RefreshFits' BY RefreshFrame DEF LedgerInv
<1> QED BY <1>1, <1>2, <1>3 DEF LedgerInv

LEMMA RestartLedger ==
  ASSUME FollowInv, LedgerInv, HD!Restart
  PROVE  LedgerInv'
<1> USE DEF LedgerInv
<1>1. UNCHANGED <<caps, collect, why>> BY DEF HD!Restart
<1>2. ~stream'.open BY DEF HD!Restart, FollowInv, FollowTypes
<1>3. CASE call.pc = "answered"
  <2>1. call' = [call EXCEPT !.pc = "cut"] BY <1>3 DEF HD!Restart
  <2>2. LedgerTypes' /\ call'.pc = "cut" BY <1>1, <2>1 DEF LedgerTypes
  <2>3. CallFits' BY <2>2 DEF CallFits, HD!PhaseTells
  <2> QED BY <1>1, <1>2, <2>2, <2>3, RefreshFrame DEF NotesTrue, Announced
<1>4. CASE call.pc # "answered"
  <2>1. call' = call BY <1>4 DEF HD!Restart
  <2>2. CallFits' BY <1>4, <2>1 DEF CallFits, HD!PhaseTells
  <2> QED BY <1>1, <1>2, <2>1, <2>2, RefreshFrame DEF LedgerTypes, NotesTrue, Announced
<1> QED BY <1>3, <1>4

(* A note of what the build that answered can do. *)
LEMMA NoteFacts ==
  ASSUME LedgerTypes, NotesTrue, NEW f \in HD!Features, NEW state \in {"yes", "no"}, NEW by \in BuildsOrNobody,
         state = "yes" => f \in by, state = "no" => f \notin by, NEW epoch,
         caps' = HD!note_at(epoch, f, state, by), UNCHANGED <<collect, call>>
  PROVE  /\ caps'.epoch = caps.epoch /\ caps'.identity = caps.identity
         /\ LedgerTypes' /\ NotesTrue'
         /\ \/ caps' = caps
            \/ /\ caps'.notes = [caps.notes EXCEPT ![f] = [state |-> state, of |-> caps.identity, by |-> by]]
               /\ caps'.report = [caps.report EXCEPT ![f] = state]
<1>1. CASE epoch # caps.epoch
  <2>1. caps' = caps BY <1>1 DEF HD!note_at
  <2> QED BY <2>1 DEF LedgerTypes, NotesTrue
<1>2. CASE epoch = caps.epoch
  <2>1. PICK note : note = [state |-> state, of |-> caps.identity, by |-> by] OBVIOUS
  <2>2. note \in FeatureNotes /\ note.state = state /\ note.of = caps.identity /\ note.by = by
    BY <2>1 DEF FeatureNotes, Verdicts, LedgerTypes
  <2>3. caps' = [caps EXCEPT !.notes[f] = note, !.report[f] = state] BY <1>2, <2>1 DEF HD!note_at
  <2>4. caps.notes \in [HD!Features -> FeatureNotes] /\ caps.report \in [HD!Features -> Verdicts]
    BY DEF LedgerTypes
  <2>5. /\ caps'.epoch = caps.epoch /\ caps'.identity = caps.identity
        /\ caps'.notes = [caps.notes EXCEPT ![f] = note] /\ caps'.report = [caps.report EXCEPT ![f] = state]
    BY <2>3 DEF LedgerTypes
  <2>6. caps' \in [epoch : Nat, identity : BuildsOrNobody, report : [HD!Features -> Verdicts],
                   notes : [HD!Features -> FeatureNotes]]
    <3>1. [caps.notes EXCEPT ![f] = note] \in [HD!Features -> FeatureNotes] BY <2>2, <2>4
    <3>2. [caps.report EXCEPT ![f] = state] \in [HD!Features -> Verdicts] BY <2>4 DEF Verdicts
    <3> QED BY <2>3, <2>5, <3>1, <3>2 DEF LedgerTypes
  <2>7. LedgerTypes' BY <2>6 DEF LedgerTypes
  <2>8. NotesTrue'
    <3>1. \A g \in HD!Features : caps'.notes[g] = IF g = f THEN note ELSE caps.notes[g] BY <2>4, <2>5
    <3> QED BY <2>2, <2>5, <3>1 DEF NotesTrue
  <2> QED BY <2>1, <2>5, <2>7, <2>8
<1> QED BY <1>1, <1>2

LEMMA SubscribeLedger ==
  ASSUME FollowInv, LedgerInv, HD!subscribe_topology
  PROVE  LedgerInv'
<1> USE DEF LedgerInv
<1>1. UNCHANGED <<herdr, collect, call, why>> /\ sup.pc = "sub" BY DEF HD!subscribe_topology
<1>2. "status" \in HD!Features /\ herdr.build \in BuildsOrNobody
  BY DEF HD!Features, BuildsOrNobody, FollowInv, FollowTypes
<1>3. ~Announced'
  <2>1. sup'.pc \in {"sub", "snap", "backoff"}
    BY <1>1 DEF HD!subscribe_topology, HD!Backoff, HD!NoAttempt, FollowInv, FollowTypes
  <2> QED BY <2>1 DEF Announced
<1>4. LedgerTypes' /\ NotesTrue'
  <2>1. CASE caps' = caps BY <1>1, <2>1 DEF LedgerTypes, NotesTrue
  <2>2. CASE caps' = HD!note_at(caps.epoch, "status", "no", herdr.build) /\ "status" \notin herdr.build
    <3>1. PICK st \in {"yes", "no"} : st = "no" OBVIOUS
    <3>2. caps' = HD!note_at(caps.epoch, "status", st, herdr.build) BY <2>2, <3>1
    <3> QED BY <1>1, <1>2, <2>2, <3>1, <3>2, NoteFacts
  <2>3. CASE caps' = HD!note_at(caps.epoch, "status", "yes", herdr.build) /\ "status" \in herdr.build
    <3>1. PICK st \in {"yes", "no"} : st = "yes" OBVIOUS
    <3>2. caps' = HD!note_at(caps.epoch, "status", st, herdr.build) BY <2>3, <3>1
    <3> QED BY <1>1, <1>2, <2>3, <3>1, <3>2, NoteFacts
  <2> QED BY <2>1, <2>2, <2>3 DEF HD!subscribe_topology
<1>5. CallFits' BY <1>1, CallFrame
<1>6. RefreshFits' BY <1>1, <1>3 DEF RefreshFits
<1> QED BY <1>4, <1>5, <1>6

LEMMA BootLedger ==
  ASSUME FollowInv, LedgerInv, HD!Boot
  PROVE  LedgerInv'
<1> USE DEF LedgerInv
<1>1. UNCHANGED <<herdr, collect, call, why>> /\ caps' = HD!invalidate_live /\ sup' = [sup EXCEPT !.pc = "attempt"]
  BY DEF HD!Boot
<1>2. ~Announced' BY <1>1 DEF Announced, FollowInv, FollowTypes
<1>3. PICK r : r = [f \in HD!Features |-> IF f \in HD!LiveFeatures THEN "unknown" ELSE caps.report[f]] OBVIOUS
<1>4. r \in [HD!Features -> Verdicts] BY <1>3 DEF LedgerTypes, Verdicts
<1>5. caps' = [caps EXCEPT !.epoch = @ + 1, !.identity = HD!Nobody, !.report = r]
  BY <1>1, <1>3 DEF HD!invalidate_live
<1>6. caps.epoch + 1 \in Nat /\ HD!Nobody \in BuildsOrNobody BY DEF LedgerTypes, BuildsOrNobody
<1>7. LedgerTypes' /\ caps'.identity = HD!Nobody /\ caps'.notes = caps.notes
  <2>1. caps \in [epoch : Nat, identity : BuildsOrNobody, report : [HD!Features -> Verdicts],
                  notes : [HD!Features -> FeatureNotes]]
    BY DEF LedgerTypes
  <2>2. caps' \in [epoch : Nat, identity : BuildsOrNobody, report : [HD!Features -> Verdicts],
                   notes : [HD!Features -> FeatureNotes]]
    BY <1>4, <1>5, <1>6, <2>1
  <2>3. caps'.identity = HD!Nobody /\ caps'.notes = caps.notes BY <1>5, <2>1
  <2> QED BY <1>1, <2>2, <2>3 DEF LedgerTypes
<1>8. NotesTrue' BY <1>7 DEF NotesTrue
<1>9. CallFits' BY <1>1, CallFrame
<1>10. RefreshFits' BY <1>1, <1>2 DEF RefreshFits
<1> QED BY <1>7, <1>8, <1>9, <1>10

Calls ==
  [pc : {"idle", "permit", "answered", "cut", "done"}, kind : {"read", "do"},
   epoch : Nat, applied : BOOLEAN, by : BuildsOrNobody,
   reply : {"none", "ok", "unknown_method", "refused", "unreadable_request"},
   phase : {"none", "ok", "refused", "dispatched", "not_started"}]
Collects ==
  [pc : {"idle", "schema", "probe", "apply"}, wanted : BOOLEAN, epoch : Nat,
   identity : BuildsOrNobody, bin : BuildsOrNobody, next : [HD!Features -> Verdicts]]
Ledgers ==
  [epoch : Nat, identity : BuildsOrNobody, report : [HD!Features -> Verdicts],
   notes : [HD!Features -> FeatureNotes]]

LEMMA NoCallFacts ==
  /\ HD!NoCall \in Calls /\ HD!NoCall.pc = "idle" /\ ~HD!NoCall.applied
<1>1. HD!NoCall = [pc |-> "idle", kind |-> "read", epoch |-> 0, applied |-> FALSE,
                   reply |-> "none", phase |-> "none", by |-> HD!Nobody]
  BY DEF HD!NoCall, HD!None
<1>2. HD!Nobody \in BuildsOrNobody BY DEF BuildsOrNobody
<1>3. HD!NoCall.applied \in BOOLEAN
  <2>1. HD!NoCall.applied = FALSE BY <1>1
  <2> QED BY <2>1, Zenon
<1> QED BY <1>1, <1>2, <1>3 DEF Calls

LEMMA StartCallLedger ==
  ASSUME LedgerInv, NEW kind \in {"read", "do"}, HD!StartCall(kind)
  PROVE  LedgerInv'
<1> USE DEF LedgerInv
<1>1. /\ call' = [HD!NoCall EXCEPT !.pc = "permit", !.kind = kind, !.epoch = caps.epoch]
      /\ UNCHANGED <<herdr, stream, sup, signals, caps, collect, why>>
  BY DEF HD!StartCall
<1>2. caps.epoch \in Nat BY DEF LedgerTypes
<1>3. call' \in Calls /\ call'.pc = "permit" /\ call'.applied = HD!NoCall.applied
  BY <1>1, <1>2, NoCallFacts DEF Calls
<1>4. LedgerTypes' /\ NotesTrue' BY <1>1, <1>3 DEF LedgerTypes, NotesTrue, Calls
<1>5. CallFits' BY <1>3, NoCallFacts DEF CallFits, HD!PhaseTells
<1>6. RefreshFits' BY <1>1, RefreshFrame DEF Announced, NoSync, SyncOut, SyncIn
<1> QED BY <1>4, <1>5, <1>6

(* What an answer teaches of pane.read. *)
LEMMA NotedRefresh ==
  ASSUME LedgerInv, FollowTypes, NEW state \in {"yes", "no"}, NEW epoch,
         caps' = HD!note_at(epoch, "read", state, herdr.build),
         (state = "yes") <=> ("read" \in herdr.build),
         UNCHANGED <<herdr, stream, sup, signals, collect, why>>
  PROVE  NotesTrue' /\ caps' \in Ledgers /\ RefreshFits'
<1> USE DEF LedgerInv
<1>1. "read" \in HD!Features /\ herdr.build \in BuildsOrNobody /\ herdr.build # HD!Nobody
  BY BuildsAreSome DEF HD!Features, BuildsOrNobody, FollowTypes
<1>2. PICK c : c = HD!note_at(epoch, "read", state, herdr.build) OBVIOUS
<1>3. CASE epoch # caps.epoch
  <2>1. caps' = caps BY <1>3 DEF HD!note_at
  <2>2. RefreshFits' BY <2>1, RefreshFrame DEF Announced, NoSync, SyncOut, SyncIn
  <2> QED BY <2>1, <2>2 DEF LedgerTypes, NotesTrue, Ledgers
<1>4. CASE epoch = caps.epoch
  <2>1. PICK note : note = [state |-> state, of |-> caps.identity, by |-> herdr.build] OBVIOUS
  <2>2. note \in FeatureNotes /\ note.state = state /\ note.of = caps.identity /\ note.by = herdr.build
    BY <1>1, <2>1 DEF FeatureNotes, Verdicts, LedgerTypes
  <2>3. caps' = [caps EXCEPT !.notes["read"] = note, !.report["read"] = state] BY <1>4, <2>1 DEF HD!note_at
  <2>4. caps.notes \in [HD!Features -> FeatureNotes] /\ caps.report \in [HD!Features -> Verdicts] /\ caps \in Ledgers
    BY DEF LedgerTypes, Ledgers
  <2>5. /\ caps'.epoch = caps.epoch /\ caps'.identity = caps.identity
        /\ caps'.notes = [caps.notes EXCEPT !["read"] = note] /\ caps'.report = [caps.report EXCEPT !["read"] = state]
        /\ caps' \in Ledgers
    <3>1. [caps.notes EXCEPT !["read"] = note] \in [HD!Features -> FeatureNotes] BY <2>2, <2>4
    <3>2. [caps.report EXCEPT !["read"] = state] \in [HD!Features -> Verdicts] BY <2>4 DEF Verdicts
    <3> QED BY <2>3, <2>4, <3>1, <3>2 DEF Ledgers
  <2>6. \A g \in HD!Features : /\ caps'.notes[g] = IF g = "read" THEN note ELSE caps.notes[g]
                               /\ caps'.report[g] = IF g = "read" THEN state ELSE caps.report[g]
    BY <2>4, <2>5
  <2>7. NotesTrue' BY <2>2, <2>5, <2>6 DEF NotesTrue
  <2>8. RefreshFits'
    <3>1. (Announced' <=> Announced) /\ (NoSync' <=> NoSync) BY DEF Announced, NoSync, SyncOut, SyncIn
    <3>2. ASSUME NEW f \in HD!Features, NEW b PROVE f # "read" =>
             (HD!note_for(f, b)' <=> HD!note_for(f, b)) /\ (HD!Misbound(f)' <=> HD!Misbound(f))
      BY <2>6 DEF HD!note_for, HD!Misbound
    <3>3. HD!note_for("read", herdr.build)' \/ HD!Misbound("read")'
      <4>1. caps'.notes["read"] = note BY <1>1, <2>6
      <4> QED BY <2>2, <4>1 DEF HD!note_for, HD!Misbound
    <3>4. ASSUME NEW f \in HD!Features, SaysTrue(collect.next, f) \/ HD!note_for(f, herdr.build) \/ HD!Misbound(f)
          PROVE  SaysTrue(collect.next, f) \/ HD!note_for(f, herdr.build)' \/ HD!Misbound(f)'
      BY <3>2, <3>3, <3>4
    <3>5. ASSUME NEW f \in HD!Features, SaysTrue(caps.report, f) \/ HD!Misbound(f)
          PROVE  SaysTrue(caps'.report, f) \/ HD!Misbound(f)'
      <4>1. CASE f = "read"
        <5>1. caps'.report[f] = state BY <2>6, <4>1
        <5> QED BY <4>1, <5>1 DEF SaysTrue
      <4>2. CASE f # "read"
        <5>1. caps'.report[f] = caps.report[f] BY <2>6, <4>2
        <5> QED BY <3>2, <3>5, <4>2, <5>1 DEF SaysTrue
      <4> QED BY <4>1, <4>2
    <3> QED BY <2>5, <3>1, <3>4, <3>5 DEF RefreshFits, SaysTrue
  <2> QED BY <2>5, <2>7, <2>8
<1> QED BY <1>3, <1>4

LEMMA CallLedger ==
  ASSUME FollowInv, LedgerInv, HD!call_inner
  PROVE  LedgerInv'
<1> USE DEF LedgerInv
<1>1. UNCHANGED <<herdr, stream, sup, signals, collect, why>> BY DEF HD!call_inner
<1>2. call \in Calls /\ herdr.build \in BuildsOrNobody BY DEF LedgerTypes, Calls, FollowInv, FollowTypes, BuildsOrNobody
<1>3. ASSUME call' \in Calls, CallFits', caps' = caps PROVE LedgerInv'
  <2>1. LedgerTypes' /\ NotesTrue' BY <1>1, <1>3 DEF LedgerTypes, NotesTrue, Calls
  <2>2. RefreshFits' BY <1>1, <1>3, RefreshFrame DEF Announced, NoSync, SyncOut, SyncIn
  <2> QED BY <1>3, <2>1, <2>2
<1>4. CASE /\ call.pc = "permit" /\ caps' = caps
           /\ call' = [call EXCEPT !.pc = "answered", !.by = herdr.build,
                      !.applied = call.kind = "do" \/ "read" \in herdr.build,
                      !.reply = IF call.kind = "read" /\ "read" \notin herdr.build
                                  THEN "unknown_method" ELSE "ok"]
  <2>1. PICK a \in BOOLEAN : a = (call.kind = "do" \/ "read" \in herdr.build) OBVIOUS
  <2>2. PICK r \in {"unknown_method", "ok"} :
          r = IF call.kind = "read" /\ "read" \notin herdr.build THEN "unknown_method" ELSE "ok"
    OBVIOUS
  <2>3. call' = [call EXCEPT !.pc = "answered", !.by = herdr.build, !.applied = a, !.reply = r]
    BY <1>4, <2>1, <2>2
  <2>4. /\ call' \in Calls /\ call'.pc = "answered" /\ call'.by = herdr.build /\ call'.applied = a
        /\ call'.reply = r /\ call'.kind = call.kind
    BY <1>2, <2>3 DEF Calls
  <2>5. CallFits'
    <3>1. call.kind \in {"read", "do"} BY <1>2 DEF Calls
    <3> QED BY <1>1, <2>1, <2>2, <2>4, <3>1 DEF CallFits, HD!PhaseTells
  <2> QED BY <1>3, <1>4, <2>4, <2>5
<1>5. CASE call.pc = "permit" /\ caps' = caps
           /\ \E offset \in 0..1 : call' = [call EXCEPT !.pc = "done", !.phase = HD!write_request(offset)]
  <2>1. PICK ph \in {"not_started", "dispatched"} : call' = [call EXCEPT !.pc = "done", !.phase = ph]
    BY <1>5 DEF HD!write_request
  <2>2. call' \in Calls /\ call'.pc = "done" /\ call'.phase = ph /\ call'.applied = call.applied
    BY <1>2, <2>1 DEF Calls
  <2>3. CallFits' BY <1>5, <2>2 DEF CallFits, HD!PhaseTells
  <2> QED BY <1>3, <1>5, <2>2, <2>3
<1>6. CASE call.pc = "permit" /\ caps' = caps
           /\ \E r \in {"refused", "unreadable_request"} : call' = [call EXCEPT !.pc = "answered", !.reply = r]
  <2>1. PICK r \in {"refused", "unreadable_request"} : call' = [call EXCEPT !.pc = "answered", !.reply = r]
    BY <1>6
  <2>2. call' \in Calls /\ call'.pc = "answered" /\ call'.reply = r /\ call'.applied = call.applied
    BY <1>2, <2>1 DEF Calls
  <2>3. CallFits' BY <1>6, <2>2 DEF CallFits, HD!PhaseTells
  <2> QED BY <1>3, <1>6, <2>2, <2>3
<1>7. CASE /\ call.pc = "answered" /\ caps' = HD!note_socket_feature
           /\ call' = [call EXCEPT !.pc = "done", !.phase = HD!classify_response(call.reply)]
  <2>1. PICK ph \in {"ok", "refused", "dispatched"} : ph = HD!classify_response(call.reply)
    BY DEF HD!classify_response
  <2>2. call' = [call EXCEPT !.pc = "done", !.phase = ph] BY <1>7, <2>1
  <2>3. call' \in Calls /\ call'.pc = "done" /\ call'.phase = ph /\ call'.applied = call.applied
    BY <1>2, <2>2 DEF Calls
  <2>4. ph = "ok" <=> call.reply = "ok" BY <2>1 DEF HD!classify_response
  <2>5. CallFits'
    <3>1. call.applied <=> call.reply = "ok" BY <1>7 DEF CallFits
    <3> QED BY <2>3, <2>4, <3>1 DEF CallFits, HD!PhaseTells
  <2>6. CASE call.kind = "read" /\ call.reply = "ok"
    <3>1. call.by = herdr.build /\ "read" \in herdr.build BY <1>7, <2>6 DEF CallFits
    <3>2. PICK st \in {"yes", "no"} : st = "yes" OBVIOUS
    <3>3. caps' = HD!note_at(call.epoch, "read", st, herdr.build)
      BY <1>7, <2>6, <3>1, <3>2 DEF HD!note_socket_feature
    <3>4. NotesTrue' /\ caps' \in Ledgers /\ RefreshFits'
      BY <1>1, <3>1, <3>2, <3>3, NotedRefresh DEF FollowInv
    <3> QED BY <1>1, <2>3, <2>5, <3>4 DEF LedgerTypes, Calls, Ledgers
  <2>7. CASE call.kind = "read" /\ call.reply = "unknown_method"
    <3>1. call.by = herdr.build /\ "read" \notin herdr.build BY <1>7, <2>7 DEF CallFits
    <3>2. PICK st \in {"yes", "no"} : st = "no" OBVIOUS
    <3>3. caps' = HD!note_at(call.epoch, "read", st, herdr.build)
      BY <1>7, <2>7, <3>1, <3>2 DEF HD!note_socket_feature
    <3>4. NotesTrue' /\ caps' \in Ledgers /\ RefreshFits'
      BY <1>1, <3>1, <3>2, <3>3, NotedRefresh DEF FollowInv
    <3> QED BY <1>1, <2>3, <2>5, <3>4 DEF LedgerTypes, Calls, Ledgers
  <2>8. CASE ~(call.kind = "read" /\ call.reply \in {"ok", "unknown_method"})
    <3>1. caps' = caps BY <1>7, <2>8 DEF HD!note_socket_feature
    <3> QED BY <1>3, <2>3, <2>5, <3>1
  <2> QED BY <2>6, <2>7, <2>8
<1>8. CASE call.pc \in {"answered", "cut"} /\ caps' = caps
           /\ \E r \in {"foreign", "cut"} : call' = [call EXCEPT !.pc = "done", !.phase = HD!classify_response(r)]
  <2>1. call' = [call EXCEPT !.pc = "done", !.phase = "dispatched"] BY <1>8 DEF HD!classify_response
  <2>2. call' \in Calls /\ call'.pc = "done" /\ call'.phase = "dispatched" BY <1>2, <2>1 DEF Calls
  <2>3. CallFits' BY <2>2 DEF CallFits, HD!PhaseTells
  <2> QED BY <1>3, <1>8, <2>2, <2>3
<1>9. CASE call' = HD!NoCall /\ caps' = caps
  <2>1. call' \in Calls /\ call'.pc = "idle" /\ ~call'.applied BY <1>9, NoCallFacts
  <2>2. CallFits' BY <2>1 DEF CallFits, HD!PhaseTells
  <2> QED BY <1>3, <1>9, <2>1, <2>2
<1> QED BY <1>4, <1>5, <1>6, <1>7, <1>8, <1>9 DEF HD!call_inner

LEMMA NoCollectFacts ==
  /\ HD!NoCollect \in Collects /\ HD!NoCollect.pc = "idle"
<1>1. HD!NoCollect = [pc |-> "idle", wanted |-> FALSE, epoch |-> 0, identity |-> HD!Nobody,
                      bin |-> HD!Nobody, next |-> [f \in HD!Features |-> "unknown"]]
  BY DEF HD!NoCollect
<1>2. HD!Nobody \in BuildsOrNobody BY DEF BuildsOrNobody
<1>3. [f \in HD!Features |-> "unknown"] \in [HD!Features -> Verdicts] BY DEF Verdicts
<1>4. HD!NoCollect.wanted \in BOOLEAN
  <2>1. HD!NoCollect.wanted = FALSE BY <1>1
  <2> QED BY <2>1, Zenon
<1> QED BY <1>1, <1>2, <1>3, <1>4 DEF Collects

(* A step of the refresh that does not write the ledger. *)
LEMMA CollectFrame ==
  ASSUME LedgerInv, collect' \in Collects, UNCHANGED <<herdr, stream, sup, signals, caps, call>>,
         collect'.pc \in {"schema", "probe"} => collect'.identity # HD!Nobody,
         collect'.pc = "probe" => collect'.next["status"] = "unknown",
         collect'.pc # "idle",
         Announced /\ NoSync /\ ~collect'.wanted =>
           /\ collect'.epoch = caps.epoch /\ collect'.identity \in {HD!Nobody, herdr.build}
           /\ collect'.pc = "apply" /\ collect'.identity # HD!Nobody /\ "replaced" \notin why' =>
                \A f \in HD!Features :
                  SaysTrue(collect'.next, f) \/ HD!note_for(f, herdr.build) \/ HD!Misbound(f)
  PROVE  LedgerInv'
<1> USE DEF LedgerInv
<1>1. LedgerTypes' /\ NotesTrue' BY DEF LedgerTypes, NotesTrue, Collects
<1>2. CallFits' BY CallFrame
<1>3. (Announced' <=> Announced) /\ (NoSync' <=> NoSync) BY DEF Announced, NoSync, SyncOut, SyncIn
<1>4. \A f, b : HD!note_for(f, b)' = HD!note_for(f, b) BY Zenon DEF HD!note_for
<1>5. \A f : HD!Misbound(f)' = HD!Misbound(f) BY Zenon DEF HD!Misbound
<1>6. RefreshFits' BY <1>3, <1>4, <1>5 DEF RefreshFits, SaysTrue
<1> QED BY <1>1, <1>2, <1>6

LEMMA CollectStartLedger ==
  ASSUME FollowInv, LedgerInv, HD!CollectStart
  PROVE  LedgerInv'
<1>1. /\ collect' = [HD!NoCollect EXCEPT !.pc = "schema", !.epoch = caps.epoch, !.bin = herdr.bin,
                       !.identity = HD!Identity(herdr.build)]
      /\ UNCHANGED <<herdr, stream, sup, signals, caps, call, why>>
  BY DEF HD!CollectStart
<1>2. caps.epoch \in Nat /\ herdr.bin \in BuildsOrNobody /\ herdr.build \in BuildsOrNobody
      /\ herdr.build # HD!Nobody
  BY BuildsAreSome DEF LedgerInv, LedgerTypes, FollowInv, FollowTypes, BuildsOrNobody
<1>3. collect' \in Collects /\ collect'.pc = "schema" /\ collect'.epoch = caps.epoch /\ collect'.identity = herdr.build
  BY <1>1, <1>2, NoCollectFacts DEF Collects, HD!Identity
<1> QED BY <1>1, <1>2, <1>3, CollectFrame

LEMMA PingFailsLedger ==
  ASSUME FollowInv, LedgerInv, HD!PingFails
  PROVE  LedgerInv'
<1>1. /\ collect' = [collect EXCEPT !.pc = "apply", !.identity = HD!Nobody] /\ collect.pc = "schema"
      /\ UNCHANGED <<herdr, stream, sup, signals, caps, call, why>>
  BY DEF HD!PingFails
<1>2. collect \in Collects /\ HD!Nobody \in BuildsOrNobody
  BY DEF LedgerInv, LedgerTypes, Collects, BuildsOrNobody
<1>3. collect' \in Collects /\ collect'.pc = "apply" /\ collect'.epoch = collect.epoch
      /\ collect'.identity = HD!Nobody /\ collect'.wanted = collect.wanted
  BY <1>1, <1>2 DEF Collects
<1>4. Announced /\ NoSync /\ ~collect'.wanted => collect.epoch = caps.epoch
  BY <1>1, <1>3 DEF LedgerInv, RefreshFits
<1> QED BY <1>1, <1>3, <1>4, CollectFrame

LEMMA SchemaLedger ==
  ASSUME FollowInv, LedgerInv, HD!Schema
  PROVE  LedgerInv'
<1>1. collect.pc = "schema" /\ UNCHANGED <<herdr, stream, sup, signals, caps, call>> BY DEF HD!Schema
<1>2. collect \in Collects /\ herdr.bin \in HD!Builds /\ herdr.build \in HD!Builds
  BY DEF LedgerInv, LedgerTypes, Collects, FollowInv, FollowTypes
<1>3. Announced /\ NoSync /\ ~collect.wanted =>
        collect.epoch = caps.epoch /\ collect.identity \in {HD!Nobody, herdr.build}
  BY <1>1 DEF LedgerInv, RefreshFits
<1>4. collect.identity # HD!Nobody BY <1>1 DEF LedgerInv, RefreshFits
<1>5. CASE HD!schema_trustworthy
  <2>1. PICK t : t = [f \in HD!Features |-> IF f \in herdr.bin THEN "yes" ELSE "no"] OBVIOUS
  <2>2. t \in [HD!Features -> Verdicts] BY <2>1 DEF Verdicts
  <2>3. collect' = [collect EXCEPT !.pc = "apply", !.next = t]
        /\ why' = IF herdr.bin # collect.bin THEN why \cup {"replaced"} ELSE why
    BY <1>5, <2>1 DEF HD!Schema
  <2>4. /\ collect' \in Collects /\ collect'.pc = "apply" /\ collect'.epoch = collect.epoch
        /\ collect'.identity = collect.identity /\ collect'.wanted = collect.wanted /\ collect'.next = t
    BY <1>2, <2>2, <2>3 DEF Collects
  <2>5. ASSUME Announced, NoSync, ~collect.wanted, "replaced" \notin why', NEW f \in HD!Features
        PROVE  SaysTrue(t, f)
    <3>1. herdr.bin = herdr.build BY <1>3, <1>4, <1>5, <2>3, <2>5 DEF HD!schema_trustworthy
    <3>2. t[f] = IF f \in herdr.build THEN "yes" ELSE "no" BY <2>1, <3>1
    <3> QED BY <3>2 DEF SaysTrue
  <2> QED BY <1>1, <1>3, <2>4, <2>5, CollectFrame
<1>6. CASE ~HD!schema_trustworthy
  <2>1. PICK t : t = [f \in HD!Features |-> "unknown"] OBVIOUS
  <2>2. t \in [HD!Features -> Verdicts] /\ t["status"] = "unknown" BY <2>1 DEF Verdicts, HD!Features
  <2>3. collect' = [collect EXCEPT !.pc = "probe", !.next = t] /\ why' = why
    BY <1>6, <2>1 DEF HD!Schema
  <2>4. /\ collect' \in Collects /\ collect'.pc = "probe" /\ collect'.epoch = collect.epoch
        /\ collect'.identity = collect.identity /\ collect'.wanted = collect.wanted /\ collect'.next = t
    BY <1>2, <2>2, <2>3 DEF Collects
  <2> QED BY <1>1, <1>3, <1>4, <2>2, <2>4, CollectFrame
<1> QED BY <1>5, <1>6

LEMMA ProbeLedger ==
  ASSUME FollowInv, LedgerInv, HD!Probe
  PROVE  LedgerInv'
<1>1. collect.pc = "probe" /\ UNCHANGED <<herdr, stream, sup, signals, caps, call, why>> BY DEF HD!Probe
<1>2. collect \in Collects /\ caps.notes \in [HD!Features -> FeatureNotes]
  BY DEF LedgerInv, LedgerTypes, Collects
<1>3. Announced /\ NoSync /\ ~collect.wanted =>
        collect.epoch = caps.epoch /\ collect.identity \in {HD!Nobody, herdr.build}
  BY <1>1 DEF LedgerInv, RefreshFits
<1>4. collect.identity # HD!Nobody /\ collect.next["status"] = "unknown"
  BY <1>1 DEF LedgerInv, RefreshFits
<1>5. PICK r : r = IF HD!note_for("read", collect.identity) THEN caps.notes["read"].state ELSE HD!probe_verdict
  OBVIOUS
<1>6. r \in Verdicts BY <1>2, <1>5 DEF HD!probe_verdict, Verdicts, FeatureNotes, HD!Features
<1>7. collect' = [collect EXCEPT !.pc = "apply", !.next["read"] = r] BY <1>5 DEF HD!Probe
<1>8. /\ collect' \in Collects /\ collect'.pc = "apply" /\ collect'.epoch = collect.epoch
      /\ collect'.identity = collect.identity /\ collect'.wanted = collect.wanted
      /\ collect'.next = [collect.next EXCEPT !["read"] = r]
  BY <1>2, <1>6, <1>7 DEF Collects
<1>9. collect.next \in [HD!Features -> Verdicts] BY <1>2 DEF Collects
<1>10. ASSUME Announced, NoSync, ~collect.wanted, NEW f \in HD!Features
       PROVE  SaysTrue(collect'.next, f) \/ HD!note_for(f, herdr.build)
  <2>1. f = "status" \/ f = "read" BY DEF HD!Features
  <2>2. CASE f = "status"
    <3>1. collect'.next[f] = "unknown" BY <1>4, <1>8, <1>9, <2>2
    <3> QED BY <3>1 DEF SaysTrue
  <2>3. CASE f = "read"
    <3>1. collect'.next[f] = r BY <1>8, <1>9, <2>3
    <3>2. collect.identity = herdr.build BY <1>3, <1>4, <1>10
    <3> QED BY <1>5, <2>3, <3>1, <3>2 DEF SaysTrue, HD!probe_verdict
  <2> QED BY <2>1, <2>2, <2>3
<1> QED BY <1>1, <1>3, <1>8, <1>10, CollectFrame

(* A refresh is applied: what was seen of the build outranks what the schema  *)
(* or the probe said.                                                         *)
LEMMA ApplyLedger ==
  ASSUME FollowInv, LedgerInv, HD!apply_refresh
  PROVE  LedgerInv'
<1> USE DEF LedgerInv
<1>1. /\ collect.pc = "apply" /\ collect' = [HD!NoCollect EXCEPT !.wanted = collect.wanted]
      /\ UNCHANGED <<herdr, stream, sup, signals, call, why>>
  BY DEF HD!apply_refresh
<1>2. collect \in Collects /\ caps \in Ledgers /\ herdr.build # HD!Nobody
  BY BuildsAreSome DEF LedgerTypes, Collects, Ledgers, FollowInv, FollowTypes
<1>3. collect' \in Collects /\ collect'.pc = "idle" /\ collect'.wanted = collect.wanted
  BY <1>1, <1>2, NoCollectFacts DEF Collects
<1>4. (Announced' <=> Announced) /\ (NoSync' <=> NoSync) BY <1>1 DEF Announced, NoSync, SyncOut, SyncIn
<1>5. CallFits' BY <1>1, CallFrame
<1>6. CASE collect.epoch # caps.epoch
  <2>1. caps' = caps BY <1>6 DEF HD!apply_refresh
  <2>2. LedgerTypes' /\ NotesTrue' BY <1>1, <1>3, <2>1 DEF LedgerTypes, NotesTrue, Collects
  <2>3. ~(Announced /\ NoSync /\ ~collect.wanted) BY <1>1, <1>6 DEF RefreshFits
  <2>4. RefreshFits' BY <1>3, <1>4, <2>3 DEF RefreshFits
  <2> QED BY <1>5, <2>2, <2>4
<1>7. CASE collect.epoch = caps.epoch
  <2>1. PICK r : r = [f \in HD!Features |-> IF collect.identity # HD!Nobody /\ HD!note_for(f, collect.identity)
                                              THEN caps.notes[f].state ELSE collect.next[f]]
    OBVIOUS
  <2>2. PICK m : m = IF caps.identity = HD!Nobody /\ collect.identity # HD!Nobody
                       THEN [f \in HD!Features |-> IF caps.notes[f].of = HD!Nobody
                               THEN [caps.notes[f] EXCEPT !.of = collect.identity] ELSE caps.notes[f]]
                       ELSE caps.notes
    OBVIOUS
  <2>3. caps' = [caps EXCEPT !.identity = collect.identity, !.report = r, !.notes = m]
    BY <1>7, <2>1, <2>2 DEF HD!apply_refresh
  <2>4. caps.notes \in [HD!Features -> FeatureNotes] /\ collect.next \in [HD!Features -> Verdicts]
        /\ collect.identity \in BuildsOrNobody
    BY <1>2 DEF Ledgers, Collects
  <2>5. \A f \in HD!Features : caps.notes[f] \in FeatureNotes /\ caps.notes[f].state \in Verdicts
    BY <2>4 DEF FeatureNotes
  <2>6. r \in [HD!Features -> Verdicts] BY <2>1, <2>4, <2>5
  <2>7. \A f \in HD!Features : [caps.notes[f] EXCEPT !.of = collect.identity] \in FeatureNotes
    BY <2>4, <2>5 DEF FeatureNotes
  <2>8. m \in [HD!Features -> FeatureNotes] BY <2>2, <2>4, <2>5, <2>7
  <2>9. \A f \in HD!Features :
          /\ m[f].state = caps.notes[f].state /\ m[f].by = caps.notes[f].by
          /\ m[f].of = IF caps.identity = HD!Nobody /\ collect.identity # HD!Nobody /\ caps.notes[f].of = HD!Nobody
                         THEN collect.identity ELSE caps.notes[f].of
    BY <2>2, <2>5 DEF FeatureNotes
  <2>10. /\ caps' \in Ledgers /\ caps'.identity = collect.identity /\ caps'.report = r /\ caps'.notes = m
    BY <1>2, <2>3, <2>4, <2>6, <2>8 DEF Ledgers
  <2>11. LedgerTypes' BY <1>1, <1>3, <2>10 DEF LedgerTypes, Ledgers, Collects
  <2>12. NotesTrue' BY <2>9, <2>10 DEF NotesTrue
  <2>13. RefreshFits'
    <3> SUFFICES ASSUME Announced, NoSync, ~collect.wanted, collect.identity # HD!Nobody, "replaced" \notin why,
                        NEW f \in HD!Features
                 PROVE  collect.identity = herdr.build /\ (SaysTrue(r, f) \/ HD!Misbound(f)')
      <4>1. Announced /\ NoSync /\ ~collect.wanted /\ collect.identity # HD!Nobody /\ "replaced" \notin why
              => collect.identity = herdr.build
        BY <1>1 DEF RefreshFits
      <4>2. \A f \in HD!Features :
              Announced /\ NoSync /\ ~collect.wanted /\ collect.identity # HD!Nobody /\ "replaced" \notin why
              => SaysTrue(r, f) \/ HD!Misbound(f)'
        OBVIOUS
      <4> QED BY <1>1, <1>3, <1>4, <2>10, <4>1, <4>2 DEF RefreshFits, SaysTrue
    <3>1. collect.identity = herdr.build BY <1>1 DEF RefreshFits
    <3>2. caps'.notes[f] = m[f] BY <2>10
    <3>3. CASE HD!note_for(f, herdr.build)
      <4>1. r[f] = caps.notes[f].state BY <2>1, <3>1, <3>3
      <4>2. caps.notes[f].of \in {herdr.build, HD!Nobody} BY <3>3 DEF HD!note_for
      <4>3. m[f].of = herdr.build BY <2>9, <3>1, <4>2 DEF NotesTrue
      <4>4. CASE caps.notes[f].by = herdr.build BY <3>1, <4>1, <4>4 DEF SaysTrue, NotesTrue
      <4>5. CASE caps.notes[f].by # herdr.build
        BY <1>2, <2>9, <3>1, <3>2, <4>3, <4>5 DEF HD!Misbound
      <4> QED BY <3>1, <4>4, <4>5
    <3>4. CASE ~HD!note_for(f, herdr.build)
      <4>1. r[f] = collect.next[f] BY <2>1, <3>1, <3>4
      <4>2. SaysTrue(collect.next, f) \/ HD!Misbound(f) BY <1>1, <3>4 DEF RefreshFits
      <4>3. HD!Misbound(f) => HD!Misbound(f)' BY <2>9, <3>2 DEF HD!Misbound
      <4> QED BY <3>1, <4>1, <4>2, <4>3 DEF SaysTrue
    <3> QED BY <3>3, <3>4
  <2> QED BY <1>5, <2>11, <2>12, <2>13
<1> QED BY <1>6, <1>7

-----------------------------------------------------------------------------
(* The client of Herdr: all steps *)

(* The steps of the way from Herdr to the actor, for the ledger: a connection *)
(* that is announced with nothing to synchronise was so before.               *)
LEMMA RelayLedger ==
  ASSUME FollowInv, FollowInv', LedgerInv,
         \/ HD!Attempt \/ HD!PaneIds \/ HD!bootstrap_with \/ HD!Announce \/ HD!Watch
  PROVE  LedgerInv'
<1> USE DEF FollowInv
<1>1. UNCHANGED <<herdr, caps, collect, call, why>>
  BY DEF HD!Attempt, HD!PaneIds, HD!bootstrap_with, HD!Announce, HD!Watch
<1>2. /\ sup \in SupStates /\ signals \in Seq(HerdrSignals) /\ sup.out \in Seq(HerdrSignals)
      /\ stream.queue \in Seq(StreamLines)
  BY DEF FollowTypes, SupStates
<1>3. HD!Backoff => ~Announced' BY DEF HD!Backoff, HD!NoStream, Announced
<1>4. CASE HD!Attempt
  <2>1. sup'.pc \in {"ids", "sub"} BY <1>2, <1>4 DEF HD!Attempt, SupStates
  <2>2. ~Announced' BY <2>1 DEF Announced
  <2> QED BY <1>1, <2>2, LedgerFrame
<1>5. CASE HD!PaneIds
  <2>1. HD!Backoff \/ sup'.pc = "sub" BY <1>2, <1>5 DEF HD!PaneIds, SupStates
  <2>2. ~Announced' BY <1>3, <2>1 DEF Announced
  <2> QED BY <1>1, <2>2, LedgerFrame
<1>6. CASE HD!bootstrap_with
  <2>1. HD!Backoff \/ stream' = HD!NoStream
        \/ sup' = [sup EXCEPT !.pc = "announce",
                     !.out = <<HD!Synced(got["sup"])>>
                             \o [i \in 1..Len(HD!Lines(stream.queue)) |-> HD!Invalidated(HD!Lines(stream.queue)[i], TRUE)],
                     !.refresh = \E i \in 1..Len(HD!Lines(stream.queue)) :
                                   HD!changes_pane_membership(HD!Lines(stream.queue)[i])]
    BY <1>6 DEF HD!bootstrap_with
  <2>2. stream' = HD!NoStream => ~Announced' BY DEF HD!NoStream, Announced
  <2>3. CASE sup' = [sup EXCEPT !.pc = "announce",
                     !.out = <<HD!Synced(got["sup"])>>
                             \o [i \in 1..Len(HD!Lines(stream.queue)) |-> HD!Invalidated(HD!Lines(stream.queue)[i], TRUE)],
                     !.refresh = \E i \in 1..Len(HD!Lines(stream.queue)) :
                                   HD!changes_pane_membership(HD!Lines(stream.queue)[i])]
    <3>1. PICK s : s = HD!Synced(got["sup"]) OBVIOUS
    <3>2. PICK f : f = [i \in 1..Len(HD!Lines(stream.queue)) |-> HD!Invalidated(HD!Lines(stream.queue)[i], TRUE)]
      OBVIOUS
    <3>3. sup'.out = Prefixed(s, f) BY <1>2, <2>3, <3>1, <3>2 DEF SupStates, Prefixed
    <3>4. PICK n \in Nat : n = Len(HD!Lines(stream.queue)) BY <1>2, LinesFacts DEF OpenFits
    <3>5. PICK S : S = {f[i] : i \in 1..n} \cup {s} OBVIOUS
    <3>6. f \in [1..n -> S] /\ s \in S BY <3>2, <3>4, <3>5
    <3>7. Prefixed(s, f)[1] = s /\ Len(Prefixed(s, f)) = n + 1 BY <3>6, PrefixFacts
    <3>8. sup'.out # <<>> BY <3>3, <3>7
    <3>9. s.k = "synced" BY <3>1 DEF HD!Synced
    <3>10. SyncOut' BY <3>3, <3>7, <3>8, <3>9 DEF SyncOut
    <3> QED BY <1>1, <3>10, LedgerFrame DEF NoSync
  <2> QED BY <1>1, <1>3, <2>1, <2>2, <2>3, LedgerFrame
<1>7. CASE HD!Announce
  <2>1. sup.pc = "announce" /\ stream' = stream BY <1>7 DEF HD!Announce
  <2>2. Announced' => Announced BY <2>1 DEF Announced
  <2>3. CASE sup.out = <<>>
    <3>1. signals' = signals /\ ~SyncOut BY <1>7, <2>3 DEF HD!Announce, SyncOut
    <3> QED BY <1>1, <2>2, <3>1, LedgerFrame DEF NoSync, SyncIn
  <2>4. CASE sup.out # <<>>
    <3>1. signals' = Append(signals, Head(sup.out)) BY <1>7, <2>4 DEF HD!Announce
    <3>2. PICK h \in HerdrSignals : h = Head(sup.out) /\ h = sup.out[1] BY <1>2, <2>4
    <3>3. Items(Append(signals, h)) = Items(signals) \cup {h} BY <1>2, AppendItems
    <3>4. NoSync' => NoSync
      BY <3>1, <3>2, <3>3 DEF NoSync, SyncIn, SyncOut
    <3> QED BY <1>1, <2>2, <3>4, LedgerFrame
  <2> QED BY <2>3, <2>4
<1>8. CASE HD!Watch
  <2>1. sup.pc = "watch" /\ sup.out = <<>> /\ ~SyncOut BY <1>8 DEF HD!Watch, OpenFits, SyncOut
  <2>2. CASE HD!Backoff \/ stream' = HD!NoStream
    <3>1. ~Announced' BY <2>2 DEF HD!Backoff, HD!NoStream, Announced
    <3> QED BY <1>1, <3>1, LedgerFrame
  <2>3. CASE ~(HD!Backoff \/ stream' = HD!NoStream)
    <3>1. /\ stream.queue # <<>> /\ Head(stream.queue).k # "end"
          /\ signals' = Append(signals, HD!Invalidated(Head(stream.queue), FALSE))
          /\ stream' = [stream EXCEPT !.queue = Tail(@)]
      BY <1>8, <2>3 DEF HD!Watch
    <3>2. stream'.open = stream.open BY <3>1 DEF FollowTypes
    <3>3. Announced' => Announced BY <2>1, <3>2 DEF Announced
    <3>4. PICK x : x = HD!Invalidated(Head(stream.queue), FALSE) OBVIOUS
    <3>5. signals' = Append(signals, x) BY <3>1, <3>4
    <3>6. NoSync' => NoSync
      <4> SUFFICES ASSUME NEW y \in Items(signals) PROVE y \in Items(signals')
        BY <2>1 DEF NoSync, SyncIn
      <4>1. PICK i \in 1..Len(signals) : y = signals[i] BY DEF Items
      <4>2. Len(signals) \in Nat /\ Len(signals') = Len(signals) + 1 BY <1>2, <3>5
      <4>3. signals'[i] = signals[i] /\ i \in 1..Len(signals') BY <1>2, <3>5, <4>2
      <4> QED BY <4>1, <4>3 DEF Items
    <3> QED BY <1>1, <3>3, <3>6, LedgerFrame
  <2> QED BY <2>2, <2>3
<1> QED BY <1>4, <1>5, <1>6, <1>7, <1>8

LEMMA TakeLedger ==
  ASSUME FollowInv, LedgerInv, HD!Take
  PROVE  LedgerInv'
<1>1. /\ signals # <<>> /\ signals' = Tail(signals) /\ UNCHANGED <<herdr, stream, sup, caps, call>>
  BY DEF HD!Take
<1>2. PICK h : h = Head(signals) OBVIOUS
<1>3. (NoSync <=> NoSync' /\ h.k # "synced") BY <1>1, <1>2, HeadFacts
<1>4. Announced' <=> Announced BY <1>1 DEF Announced
<1>5. CASE h.k = "synced"
  <2>1. collect' = [collect EXCEPT !.wanted = TRUE] BY <1>2, <1>5 DEF HD!Take
  <2>2. PICK b \in BOOLEAN : b = TRUE OBVIOUS
  <2>3. collect' = [collect EXCEPT !.wanted = b] BY <2>1, <2>2
  <2>4. collect \in Collects BY DEF LedgerInv, LedgerTypes, Collects
  <2>5. collect' \in Collects /\ collect'.pc = collect.pc /\ collect'.identity = collect.identity
        /\ collect'.next = collect.next /\ collect'.wanted = b
    BY <2>3, <2>4 DEF Collects
  <2>6. LedgerTypes' /\ NotesTrue' BY <1>1, <2>5 DEF LedgerInv, LedgerTypes, NotesTrue, Collects
  <2>7. CallFits' BY <1>1, CallFrame DEF LedgerInv
  <2>8. RefreshFits' BY <2>2, <2>5 DEF LedgerInv, RefreshFits
  <2> QED BY <2>6, <2>7, <2>8 DEF LedgerInv
<1>6. CASE h.k # "synced"
  <2>1. UNCHANGED <<collect, why>> BY <1>2, <1>6 DEF HD!Take
  <2> QED BY <1>1, <1>3, <1>4, <1>6, <2>1, LedgerFrame
<1> QED BY <1>5, <1>6

(* Every step keeps both invariants. *)
LEMMA HerdrStep ==
  ASSUME FollowInv, LedgerInv, HD!Next
  PROVE  FollowInv' /\ LedgerInv'
<1>1. CASE HD!Change
  <2>1. FollowInv' BY <1>1, ChangeKeeps
  <2>2. PICK k, p, panes : HD!Changed(k, p, panes) BY <1>1 DEF HD!Change
  <2>3. /\ UNCHANGED <<sup, signals, caps, collect, call, why>> /\ herdr'.build = herdr.build
        /\ stream'.open = stream.open
    <3>1. UNCHANGED <<sup, signals, caps, collect, call, why>> BY <2>2 DEF HD!Changed
    <3>2. herdr'.build = herdr.build BY <2>2 DEF HD!Changed, FollowInv, FollowTypes
    <3>3. stream' = HD!Emitted(HD!Event(k, p)) BY <2>2 DEF HD!Changed
    <3>4. stream'.open = stream.open BY <3>3 DEF HD!Emitted, FollowInv, FollowTypes
    <3> QED BY <3>1, <3>2, <3>4
  <2>4. Announced' /\ NoSync' => Announced /\ NoSync BY <2>3 DEF Announced, NoSync, SyncOut, SyncIn
  <2> QED BY <2>1, <2>3, <2>4, LedgerFrame
<1>2. CASE HD!Restart BY <1>2, RestartKeeps, RestartLedger
<1>3. CASE HD!Upgrade
  <2>1. FollowInv' BY <1>3, UpgradeKeeps
  <2>2. UNCHANGED <<stream, sup, signals, caps, collect, call, why>> BY <1>3 DEF HD!Upgrade
  <2>3. herdr'.build = herdr.build BY <1>3 DEF HD!Upgrade, FollowInv, FollowTypes
  <2>4. Announced' /\ NoSync' => Announced /\ NoSync BY <2>2 DEF Announced, NoSync, SyncOut, SyncIn
  <2> QED BY <2>1, <2>2, <2>3, <2>4, LedgerFrame
<1>4. CASE HD!call_shared \/ HD!PollTimer \/ HD!Refreshed
  <2>1. FollowInv' BY <1>4, CallSharedKeeps, PollTimerKeeps, RefreshedKeeps
  <2>2. UNCHANGED <<herdr, stream, sup, signals, caps, collect, call>>
    BY <1>4 DEF HD!call_shared, HD!PollTimer, HD!Refreshed
  <2>3. "replaced" \in why => "replaced" \in why'
    BY <1>4 DEF HD!call_shared, HD!PollTimer, HD!Refreshed
  <2>4. Announced' /\ NoSync' => Announced /\ NoSync BY <2>2 DEF Announced, NoSync, SyncOut, SyncIn
  <2>5. LedgerTypes' /\ NotesTrue' BY <2>2 DEF LedgerInv, LedgerTypes, NotesTrue
  <2>6. CallFits' /\ RefreshFits' BY <2>2, <2>3, <2>4, CallFrame, RefreshFrame DEF LedgerInv
  <2> QED BY <2>1, <2>5, <2>6 DEF LedgerInv
<1>5. CASE HD!call_inner
  <2>1. UNCHANGED <<herdr, stream, sup, signals, flight, got, keeper, why>> BY <1>5 DEF HD!call_inner
  <2>2. FollowInv' BY <2>1, OthersKeep
  <2> QED BY <1>5, <2>2, CallLedger
<1>6. ASSUME NEW kind \in {"read", "do"}, HD!StartCall(kind) PROVE FollowInv' /\ LedgerInv'
  <2>1. UNCHANGED <<herdr, stream, sup, signals, flight, got, keeper, why>> BY <1>6 DEF HD!StartCall
  <2>2. FollowInv' BY <2>1, OthersKeep
  <2> QED BY <1>6, <2>2, StartCallLedger
<1>7. CASE HD!read_loop
  <2>1. FollowInv' BY <1>7, ReadLoopKeeps
  <2>2. UNCHANGED <<herdr, sup, signals, caps, collect, call, why>> BY <1>7 DEF HD!read_loop
  <2>3. stream'.open => stream.open BY ZenonT(30), <1>7 DEF HD!read_loop, FollowInv, FollowTypes
  <2>4. Announced' /\ NoSync' => Announced /\ NoSync BY <2>2, <2>3 DEF Announced, NoSync, SyncOut, SyncIn
  <2> QED BY <2>1, <2>2, <2>4, LedgerFrame
<1>8. CASE HD!Boot BY <1>8, BootKeeps, BootLedger
<1>9. CASE HD!subscribe_topology BY <1>9, SubscribeKeeps, SubscribeLedger
<1>10. CASE HD!Attempt \/ HD!PaneIds \/ HD!bootstrap_with \/ HD!Announce \/ HD!Watch
  <2>1. FollowInv' BY <1>10, AttemptKeeps, PaneIdsKeeps, BootstrapKeeps, AnnounceKeeps, WatchKeeps
  <2> QED BY <1>10, <2>1, RelayLedger
<1>11. CASE HD!Take BY <1>11, TakeKeeps, TakeLedger
<1>12. CASE HD!collect_capabilities
  <2>1. /\ UNCHANGED <<herdr, stream, sup, signals, flight, got, keeper>>
        /\ why' = why \/ why' = why \cup {"replaced"}
    BY <1>12 DEF HD!collect_capabilities, HD!CollectStart, HD!PingFails, HD!Schema, HD!Probe, HD!apply_refresh
  <2>2. FollowInv' BY <2>1, OthersKeep
  <2>3. LedgerInv'
    BY <1>12, CollectStartLedger, PingFailsLedger, SchemaLedger, ProbeLedger, ApplyLedger
       DEF HD!collect_capabilities
  <2> QED BY <2>2, <2>3
<1> QED
  BY <1>1, <1>2, <1>3, <1>4, <1>5, <1>6, <1>7, <1>8, <1>9, <1>10, <1>11, <1>12
     DEF HD!Next, HD!Supervisor

LEMMA HerdrStutter ==
  ASSUME FollowInv, LedgerInv, UNCHANGED HD!vars
  PROVE  FollowInv' /\ LedgerInv'
<1>1. UNCHANGED <<herdr, stream, sup, signals, flight, got, keeper, caps, collect, call, why>> BY DEF HD!vars
<1>2. FollowInv' BY <1>1, OthersKeep
<1>3. Announced' /\ NoSync' => Announced /\ NoSync BY <1>1 DEF Announced, NoSync, SyncOut, SyncIn
<1> QED BY <1>1, <1>2, <1>3, LedgerFrame

LEMMA HerdrBegins ==
  ASSUME HD!Init
  PROVE  FollowInv /\ LedgerInv
<1>1. PICK b \in HD!Builds :
        herdr = [build |-> b, bin |-> b, n |-> 0, panes |-> {1}, topo |-> 0,
                 status |-> [p \in HerdrPanes |-> 0]]
  BY DEF HD!Init
<1>2. /\ stream = HD!NoStream /\ sup = HD!NoAttempt /\ signals = <<>>
      /\ got = [c \in {"sup", "actor"} |-> HD!Waiting]
      /\ flight = [st |-> "dial", data |-> HD!Nothing, at |-> 0, waiters |-> {"actor"}]
      /\ keeper = [pc |-> "poll", failed |-> FALSE, view |-> HD!Nothing]
  BY DEF HD!Init, HD!NoFlight
<1>3. herdr \in [build : HD!Builds, bin : HD!Builds, n : Nat, panes : SUBSET HerdrPanes,
                topo : Nat, status : [HerdrPanes -> Nat]]
  <2>1. [p \in HerdrPanes |-> 0] \in [HerdrPanes -> Nat] /\ {1} \in SUBSET HerdrPanes BY PanesAssumption
  <2> QED BY <1>1, <2>1
<1>4. sup \in SupStates /\ sup.pc = "boot" /\ sup.out = <<>>
  <2>1. HD!NoAttempt = [HD!NoAttempt EXCEPT !.pc = "boot"] BY DEF HD!NoAttempt
  <2>2. PICK to \in {"boot", "backoff", "attempt"} : to = "boot" OBVIOUS
  <2>3. sup = [HD!NoAttempt EXCEPT !.pc = to] BY <1>2, <2>1, <2>2
  <2> QED BY <2>2, <2>3, NoAttemptFacts
<1>5. HD!Waiting \in Fetched BY DEF Fetched
<1>6. keeper \in Keepers /\ keeper.pc = "poll"
  <2>1. PICK f \in BOOLEAN : f = FALSE OBVIOUS
  <2>2. keeper = [pc |-> "poll", failed |-> f, view |-> HD!Nothing] BY <1>2, <2>1
  <2> QED BY <2>2, NothingIsData DEF Keepers
<1>7. flight \in Flights BY <1>2, NothingIsData DEF Flights
<1>8. FollowTypes
  <2>1. got \in [{"sup", "actor"} -> Fetched] BY <1>2, <1>5
  <2>2. signals \in Seq(HerdrSignals) BY <1>2
  <2> QED BY <1>2, <1>3, <1>4, <1>6, <1>7, <2>1, <2>2, NoStreamFacts DEF FollowTypes, SupStates, Streams, Flights, Keepers
<1>9. InOrder BY <1>2, <1>4, NoStreamFacts, EmptyItems, RisingEmpty DEF InOrder, Below
<1>10. Numbers
  <2>1. herdr.n = 0 /\ herdr.topo = 0 /\ herdr.status = [p \in HerdrPanes |-> 0] BY <1>1
  <2> QED BY <1>2, <1>4, <2>1, NoStreamFacts, EmptyItems DEF Numbers, Past, Later
<1>11. OpenFits BY <1>2, <1>4, NoStreamFacts DEF OpenFits
<1>12. FlightFits BY <1>2, <1>4, <1>6 DEF FlightFits
<1>13. ReadsTrue BY <1>2 DEF ReadsTrue, HD!Waiting
<1>14. ~stream.open BY <1>2, NoStreamFacts
<1>15. FollowInv
  BY <1>8, <1>9, <1>10, <1>11, <1>12, <1>13, <1>14
     DEF FollowInv, SnapFits, SyncFits, StatusFollows, SyncFresh, ViewFresh, Announced
<1>16. /\ caps = [epoch |-> 0, identity |-> HD!Nobody, report |-> [f \in HD!Features |-> "unknown"],
                  notes |-> [f \in HD!Features |-> [state |-> "unknown", of |-> HD!Nobody, by |-> HD!Nobody]]]
       /\ collect = HD!NoCollect /\ call = HD!NoCall
  BY DEF HD!Init
<1>17. LedgerTypes
  <2>1. HD!Nobody \in BuildsOrNobody BY DEF BuildsOrNobody
  <2>2. [state |-> "unknown", of |-> HD!Nobody, by |-> HD!Nobody] \in FeatureNotes
    BY <2>1 DEF FeatureNotes, Verdicts
  <2>3. caps.notes \in [HD!Features -> FeatureNotes] /\ caps.report \in [HD!Features -> Verdicts]
    BY <1>16, <2>2 DEF Verdicts
  <2>4. caps \in Ledgers BY <1>16, <2>1, <2>3 DEF Ledgers
  <2> QED BY <1>16, <2>4, NoCollectFacts, NoCallFacts DEF LedgerTypes, Ledgers, Collects, Calls
<1>18. NotesTrue BY <1>16 DEF NotesTrue
<1>19. CallFits BY <1>16, NoCallFacts DEF CallFits, HD!PhaseTells
<1>20. RefreshFits BY <1>14, <1>16, NoCollectFacts DEF RefreshFits, Announced
<1> QED BY <1>15, <1>17, <1>18, <1>19, <1>20 DEF LedgerInv

(* With nothing on its way, what is fresh is what Herdr holds. *)
LEMMA SettledShows ==
  ASSUME FollowInv, LedgerInv
  PROVE  HD!ViewFollows /\ HD!FeaturesTrue /\ HD!PhaseTells
<1> USE DEF FollowInv
<1>1. ASSUME HD!Settled
      PROVE  Announced /\ NoSync /\ ~ChangeWaits /\ (\A p : ~StatusWaits(p)) /\ keeper.pc = "idle"
             /\ (Members /\ stream.tracks => herdr.panes = stream.subs)
  <2>1. /\ sup.pc = "watch" /\ ~sup.refresh /\ stream.open /\ stream.wire = <<>> /\ stream.queue = <<>>
        /\ signals = <<>> /\ keeper.pc = "idle"
    BY <1>1 DEF HD!Settled
  <2>2. sup.out = <<>> BY <2>1 DEF OpenFits
  <2>3. OnTheWay = {} BY <2>1, <2>2, EmptyItems DEF OnTheWay
  <2>4. ~ChangeWaits /\ \A p : ~StatusWaits(p) BY <2>3, WaitsOnTheWay
  <2>5. Announced /\ NoSync BY <2>1, <2>2, EmptyItems DEF Announced, NoSync, SyncOut, SyncIn
  <2>6. Members /\ stream.tracks => herdr.panes = stream.subs BY <2>1, EmptyItems DEF Members, MemberIn
  <2> QED BY <2>1, <2>4, <2>5, <2>6
<1>2. HD!ViewFollows
  <2> SUFFICES ASSUME HD!Settled, ~keeper.failed, why \cap {"unread", "shared"} = {}
               PROVE  /\ keeper.view.panes = herdr.panes /\ keeper.view.topo = herdr.topo
                      /\ stream.tracks /\ "unwatched" \notin why => keeper.view.status = HD!Contents.status
    BY DEF HD!ViewFollows
  <2>1. FreshData(keeper.view) BY <1>1 DEF ViewFresh
  <2>2. keeper.view.panes = herdr.panes /\ keeper.view.topo = herdr.topo
    BY <1>1, <2>1 DEF FreshData, FreshTopo
  <2>3. ASSUME stream.tracks, "unwatched" \notin why PROVE keeper.view.status = HD!Contents.status
    <3>1. herdr.panes = stream.subs BY <1>1, <2>3 DEF ViewFresh
    <3>2. \A p \in herdr.panes : keeper.view.status[p] = herdr.status[p]
      BY <1>1, <2>1, <2>2, <3>1 DEF FreshData, FreshStatus
    <3>3. keeper.view \in HerdrData BY DEF FollowTypes
    <3>4. keeper.view.status \in [herdr.panes -> Nat] BY <2>2, <3>3, DataFacts
    <3>5. HD!Contents.status = [p \in herdr.panes |-> herdr.status[p]] BY ContentsAreData
    <3> QED BY <3>2, <3>4, <3>5
  <2> QED BY <2>2, <2>3
<1>3. HD!FeaturesTrue
  <2> SUFFICES ASSUME HD!Settled, collect.pc = "idle", ~collect.wanted, caps.identity # HD!Nobody,
                      "replaced" \notin why, NEW f \in HD!Features, ~HD!Misbound(f)
               PROVE  SaysTrue(caps.report, f)
    BY DEF HD!FeaturesTrue, SaysTrue
  <2> QED BY <1>1 DEF LedgerInv, RefreshFits
<1>4. HD!PhaseTells BY DEF LedgerInv, CallFits
<1> QED BY <1>2, <1>3, <1>4

(* With nothing on its way the actor shows what Herdr holds, the ledger says  *)
(* what the connected build can do and a call says what it did, however       *)
(* changes, subscriptions, shared reads, restarts and reconnects interleave:  *)
(* but for the causes Herdr names (bootstrap_with, run, call_shared,          *)
(* note_at, apply_refresh, classify_response).                                *)
THEOREM HerdrAlwaysFollowed == HD!Spec => []HerdrFollowed
<1>1. HD!Init => FollowInv /\ LedgerInv BY HerdrBegins
<1>2. FollowInv /\ LedgerInv /\ [HD!Next]_HD!vars => (FollowInv /\ LedgerInv)'
  BY HerdrStep, HerdrStutter
<1>3. FollowInv /\ LedgerInv => HerdrFollowed BY SettledShows DEF HerdrFollowed
<1> QED BY <1>1, <1>2, <1>3, PTL DEF HD!Spec

=============================================================================
