----------------------------- MODULE PushQueue -----------------------------
(***************************************************************************)
(* The push subsystem: subscriptions, the durable delivery queue with its   *)
(* retraction ledger, and the worker that drains it.  A pass of the worker   *)
(* snapshots the due entries and sends them with the lock released, so the   *)
(* handlers, the notification producer and a crash meet entries in flight.   *)
(* Times are abstract: an entry is waiting (settle, cooldown, back-off) or   *)
(* due, and expiry is a choice.  Payloads, signatures, encryption, locales   *)
(* and the policy's numbers are left out; a policy says yes or no.           *)
(***************************************************************************)
EXTENDS Naturals, Sequences, FiniteSets, SequencesExt

CONSTANTS
  Devices, Endpoints,
  MaxPublish,    \* bound on published events
  MaxOdds,       \* bound on registry changes, failed writes, crashes, expiries
  MaxAttempts    \* MAX_DELIVERY_ATTEMPTS

VARIABLES
  mgr,    \* the State behind the Push mutex
  disk,   \* subscriptions.json and queue.json
  pass,   \* the worker's pass
  shown,  \* notifications the push service was given and not retracted
  env,    \* live devices, the event the pane now stands for, the bounds' counters
  excuse  \* events owed to a phone, and why a notification may be left over: history

pushVars == <<mgr, disk, pass, shown, env, excuse>>

(* Event 0 is the test notification; an agent event has a fresh number. *)
Test == 0
Events == Test..(MaxPublish + MaxOdds + 1)
Key(d, ev) == [dev |-> d, ev |-> ev]
Keys == [dev : Devices, ev : Events]

(* A queue entry; its delivery_id is the key with the endpoint. *)
Entry(key, ep, retract, wait) ==
  [key |-> key, ep |-> ep, retract |-> retract, wait |-> wait, tries |-> 0]
SameId(e, f) == e.key = f.key /\ e.ep = f.ep
Record(e) == [key |-> e.key, ep |-> e.ep]
HasId(entries, e) == \E f \in entries : SameId(e, f)
HasKey(set, key) == \E x \in set : x.key = key

(* Entries inserted where their id is still free; of several with one id the *)
(* first in hash order stays.                                                *)
Merge(stay, new) ==
  stay \cup {CHOOSE f \in new : SameId(f, g) : g \in {h \in new : ~HasId(stay, h)}}

(* A failed write costs one of the odds. *)
Writes == IF env.odds < MaxOdds THEN BOOLEAN ELSE {TRUE}
Odd == env' = [env EXCEPT !.odds = @ + 1]
Costs(ok) == env' = [env EXCEPT !.odds = IF ok THEN @ ELSE @ + 1]

Queue(m) == [entries |-> m.entries, delivered |-> m.delivered]
(* persist_queue_locked of m. *)
SaveQueue(m) == disk' = [disk EXCEPT !.queue = Queue(m)]

-----------------------------------------------------------------------------
(* Policy *)

(* At publish time: category, snooze, viewed pane; a delivery then waits for  *)
(* the settle time and the cooldown of its slot.                             *)
decide_locked(key) == key.ev = Test \/ key.dev \notin mgr.muted \cup mgr.viewed

(* The same gate when the entry is about to be sent. *)
allows_locked(key) == key.ev = Test \/ key.dev \notin mgr.muted \cup mgr.viewed

(* Publish to the latest subscription of every device. *)
Latest(subs, d, except) ==
  LET own == {i \in 1..Len(subs) : subs[i].dev = d /\ subs[i].ep \notin except}
  IN  {subs[i].ep : i \in {j \in own : \A k \in own : k <= j}}

(* enqueue_locked: an entry with the same id is replaced. *)
Enqueued(entries, new) == {f \in entries : ~HasId(new, f)} \cup new

publish(ev) ==
  LET targets == {d \in Devices : Latest(mgr.subs, d, {}) # {} /\ decide_locked(Key(d, ev))}
  IN  \E ok \in Writes : \E done \in IF ok THEN {targets} ELSE SUBSET targets :
        LET new == {Entry(Key(d, ev), CHOOSE ep \in Latest(mgr.subs, d, {}) : TRUE, FALSE, TRUE) :
                      d \in done}
            m == [mgr EXCEPT !.entries = Enqueued(@, new),
                             !.active = @ \cup {Key(d, ev) : d \in done}]
        IN  /\ env.published < MaxPublish
            /\ ~ok => done # targets
            /\ mgr' = m
            /\ IF done = {} THEN UNCHANGED disk ELSE SaveQueue(m)
            /\ env' = [env EXCEPT !.published = @ + 1,
                                  !.odds = IF ok THEN @ ELSE @ + 1,
                                  !.current = @ \/ ev # Test]
            /\ excuse' = [excuse EXCEPT !.owed = @ \cup {Key(d, ev) : d \in done \cap env.live}]
  /\ UNCHANGED <<pass, shown>>

-----------------------------------------------------------------------------
(* Resolution *)

(* Mutation: delivered notifications are forgotten instead of retracted. *)
resolve_forgets(m, key, fails) ==
  [m EXCEPT !.entries = {e \in @ : e.key # key}, !.active = @ \ {key},
            !.delivered = {r \in @ : r.key # key}]

(* resolve: cancel pending entries, retract delivered ones.  A write fails   *)
(* before anything changed, or after the key has left active.                *)
resolve(m, key, fails) ==
  LET cancelled == {e \in m.entries : e.key # key}
      records == {r \in m.delivered : r.key = key}
  IN  CASE fails = "first" /\ cancelled # m.entries -> m
        [] records = {} ->
             [m EXCEPT !.entries = cancelled, !.active = @ \ {key}]
        [] OTHER ->
             [m EXCEPT !.entries = IF fails # "none" THEN cancelled
                         ELSE cancelled \cup {Entry(key, r.ep, TRUE, FALSE) : r \in records},
                       !.active = @ \ {key}, !.retracting = @ \cup {key}]

(* resolve_pane_id and the loop of reconcile: the first error ends it. *)
ResolveAll(keys, fails, opens) ==
  \E done \in IF fails = "none" THEN {SetToSeq(keys)}
              ELSE {s \in UNION {[1..n -> keys] : n \in 1..Cardinality(keys)} : IsInjective(s)} :
    LET Step(m, key) == resolve(m, key, IF key = done[Len(done)] THEN fails ELSE "none")
        m == FoldLeft(Step, mgr, done)
    IN  /\ mgr' = [m EXCEPT !.reconciled = IF opens THEN fails = "none" ELSE @]
        /\ SaveQueue(m)
        /\ excuse' = [excuse EXCEPT
             !.owed = @ \ ToSet(done),
             !.left = @ \cup IF fails = "none" THEN {} ELSE {[key |-> k, ep |-> ep] : k \in keys, ep \in Endpoints}]

Failures == IF env.odds < MaxOdds THEN {"none", "first", "last"} ELSE {"none"}
Resolvable == {k \in mgr.active : k.ev # Test}

(* The pane works again, or another event replaces this one. *)
resolve_pane_id ==
  /\ env.current
  /\ \E fails \in Failures :
       /\ Resolvable = {} => fails = "none"
       /\ ResolveAll(Resolvable, fails, FALSE)
       /\ env' = [env EXCEPT !.odds = IF fails = "none" THEN @ ELSE @ + 1,
                             !.current = fails # "none",
                             !.event = IF fails = "none" THEN @ + 1 ELSE @]
  /\ UNCHANGED <<pass, shown>>

(* The first inventory after a start says which events are still current.    *)
reconcile ==
  /\ ~mgr.reconciled
  /\ \E still \in {FALSE, env.current}, fails \in Failures :
       LET stale == {k \in Resolvable : ~(still /\ k.ev = env.event)} IN
       /\ stale = {} => fails = "none"
       /\ ResolveAll(stale, fails, TRUE)
       /\ env' = [env EXCEPT !.odds = IF fails = "none" THEN @ ELSE @ + 1, !.current = still,
                             !.event = IF still THEN @ ELSE @ + 1]
  /\ UNCHANGED <<pass, shown>>

-----------------------------------------------------------------------------
(* The registry *)

Drop(m, d, eps) ==
  [m EXCEPT !.subs = SelectSeq(@, LAMBDA s : ~(s.dev = d /\ s.ep \in eps)),
            !.entries = {e \in @ : ~(e.key.dev = d /\ e.ep \in eps)},
            !.delivered = {r \in @ : ~(r.key.dev = d /\ r.ep \in eps)}]

Forget(d, eps) ==
  excuse' = [excuse EXCEPT !.owed = {k \in @ : k.dev # d},
                           !.left = @ \cup [key : {k \in Keys : k.dev = d}, ep : eps]]

(* The rows of a revoked device. *)
Removed(m, d) ==
  [Drop(m, d, Endpoints) EXCEPT !.active = {k \in @ : k.dev # d},
     !.retracting = {k \in @ : k.dev # d}, !.muted = @ \ {d}, !.viewed = @ \ {d}]

(* subscribe with replace_endpoints: pending entries migrate, the ledger of   *)
(* replaced endpoints is dropped.  An endpoint of a dead device is taken     *)
(* over after its owner's rows are removed; one of a live device is refused. *)
replace_subscriptions_locked(m, d, ep, replaced) ==
  LET moved == {e \in m.entries : e.key.dev = d /\ e.ep \in replaced}
  IN  [m EXCEPT !.entries = Merge(m.entries \ moved, {[e EXCEPT !.ep = ep] : e \in moved}),
                !.delivered = {r \in @ : ~(r.key.dev = d /\ r.ep \in replaced \ {ep})}]

subscribe(d, ep, replaced) ==
  LET owners == {s \in ToSet(mgr.subs) : s.ep = ep /\ s.dev # d}
      dead == {s.dev : s \in {t \in owners : t.dev \notin env.live}}
      base == IF dead = {} THEN mgr ELSE Removed(mgr, CHOOSE o \in dead : TRUE)
      new == [dev |-> d, ep |-> ep]
      kept == SelectSeq(base.subs, LAMBDA s : ~(s.ep \in replaced \ {ep} /\ s.dev = d))
      subs == IF new \in ToSet(kept) THEN kept ELSE Append(kept, new)
      m == [replace_subscriptions_locked(base, d, ep, replaced) EXCEPT !.subs = subs]
  IN  /\ env.odds < MaxOdds /\ d \in env.live
      /\ Odd
      /\ IF owners # {} /\ dead = {} THEN UNCHANGED <<mgr, disk, excuse>>
           ELSE /\ mgr' = m
                /\ disk' = [subs |-> subs,
                            queue |-> IF replaced = {} /\ dead = {} /\ new \notin ToSet(kept)
                                        THEN disk.queue ELSE Queue(m)]
                /\ excuse' = [excuse EXCEPT
                     !.owed = {k \in @ : k.dev \notin dead},
                     !.left = @ \cup [key : {k \in Keys : k.dev \in dead}, ep : Endpoints]
                                \cup [key : {k \in Keys : k.dev = d}, ep : replaced \ {ep}]]
      /\ UNCHANGED <<pass, shown>>

(* The registry is committed before the queue; a failed queue write keeps    *)
(* the entries.                                                              *)
unsubscribe_device(d, ep) ==
  LET m == Drop(mgr, d, {ep}) IN
  /\ env.odds < MaxOdds /\ [dev |-> d, ep |-> ep] \in ToSet(mgr.subs)
  /\ \E ok \in BOOLEAN :
       /\ mgr' = IF ok THEN m ELSE [mgr EXCEPT !.subs = m.subs]
       /\ disk' = [disk EXCEPT !.subs = m.subs, !.queue = IF ok THEN Queue(m) ELSE @]
  /\ Odd
  /\ Forget(d, {ep})
  /\ UNCHANGED <<pass, shown>>

(* The device is revoked and its rows are removed, unless a crash or a       *)
(* failed write intervenes.                                                  *)
remove_device(d) ==
  LET m == Removed(mgr, d) IN
  /\ env.odds < MaxOdds /\ d \in env.live
  /\ env' = [env EXCEPT !.odds = @ + 1, !.live = @ \ {d}]
  /\ Forget(d, Endpoints)
  /\ \/ /\ mgr' = m
        /\ disk' = [subs |-> m.subs, queue |-> Queue(m)]
     \/ UNCHANGED <<mgr, disk>>
     \/ /\ mgr' = [m EXCEPT !.entries = mgr.entries, !.delivered = mgr.delivered,
                            !.muted = mgr.muted, !.viewed = mgr.viewed]
        /\ disk' = [disk EXCEPT !.subs = m.subs]
  /\ UNCHANGED <<pass, shown>>

(* push_policy_set and push_snooze: read the policy, change it, save it. *)
set_policy(d) ==
  /\ env.odds < MaxOdds /\ d \in env.live
  /\ Odd
  /\ mgr' = [mgr EXCEPT !.muted = IF d \in @ THEN @ \ {d} ELSE @ \cup {d}]
  /\ UNCHANGED <<disk, pass, shown, excuse>>

(* push_viewed_pane: the phone is looking at the pane, or no longer.  It is   *)
(* not saved.                                                                *)
viewed_pane(d) ==
  /\ env.odds < MaxOdds /\ d \in env.live
  /\ Odd
  /\ mgr' = [mgr EXCEPT !.viewed = IF d \in @ THEN @ \ {d} ELSE @ \cup {d}]
  /\ UNCHANGED <<disk, pass, shown, excuse>>

(* The requests of a device about its endpoints, and about its wishes. *)
Registry(d) ==
  \E ep \in Endpoints :
    \/ \E replaced \in SUBSET Endpoints : subscribe(d, ep, replaced)
    \/ unsubscribe_device(d, ep)
Preferences(d) == set_policy(d) \/ viewed_pane(d)

-----------------------------------------------------------------------------
(* The worker *)

NoPass == [on |-> FALSE, todo |-> {}, flying |-> {}, dead |-> {}, results |-> {}, gone |-> {}]
Group(e) == <<e.key.dev, e.ep>>

(* Settling, cooling or backing off is over. *)
Due(e) ==
  /\ e.wait
  /\ mgr' = [mgr EXCEPT !.entries = (@ \ {e}) \cup {[e EXCEPT !.wait = FALSE]}]
  /\ UNCHANGED <<disk, pass, shown, env, excuse>>

drain_once ==
  /\ ~pass.on /\ mgr.reconciled
  /\ \E e \in mgr.entries : ~e.wait
  /\ pass' = [NoPass EXCEPT !.on = TRUE, !.todo = {e \in mgr.entries : ~e.wait}]
  /\ UNCHANGED <<mgr, disk, shown, env, excuse>>

(* finish_entry: only the entry the snapshot was taken of. *)
finish_entry(e, disposition) ==
  IF e \notin mgr.entries THEN mgr
    ELSE [mgr EXCEPT !.entries = @ \ {e},
                     !.delivered = IF disposition = "accepted" /\ ~e.retract
                                     THEN @ \cup {Record(e)} ELSE @,
                     !.dirty = TRUE]

entry_current(key) ==
  key \in mgr.retracting \/ (key \in mgr.active /\ allows_locked(key))

(* push_open_ref: the reference of a notification opens its pane. *)
open_ref(key) == mgr.reconciled /\ key \in mgr.active

Result(e, disposition) == [e |-> e, disposition |-> disposition]
Ends(e, disposition) ==
  /\ mgr' = finish_entry(e, disposition)
  /\ excuse' = [excuse EXCEPT !.owed = IF disposition = "pruned" THEN @ ELSE @ \ {e.key},
                              !.left = IF e.retract /\ disposition # "pruned"
                                         THEN @ \cup {Record(e)} ELSE @]

(* process_group up to the send. *)
Process(e) ==
  /\ e \in pass.todo /\ ~\E f \in pass.flying : Group(f) = Group(e)
  /\ \/ /\ Group(e) \in pass.dead
        /\ Ends(e, "pruned")
        /\ pass' = [pass EXCEPT !.todo = @ \ {e}, !.results = @ \cup {Result(e, "pruned")}]
        /\ UNCHANGED env
     \/ /\ Group(e) \notin pass.dead
        /\ env.odds < MaxOdds /\ Odd
        /\ Ends(e, "expired")
        /\ pass' = [pass EXCEPT !.todo = @ \ {e}, !.results = @ \cup {Result(e, "expired")}]
     \/ /\ Group(e) \notin pass.dead /\ ~entry_current(e.key)
        /\ Ends(e, "stale")
        /\ pass' = [pass EXCEPT !.todo = @ \ {e}, !.results = @ \cup {Result(e, "stale")}]
        /\ UNCHANGED env
     \/ /\ Group(e) \notin pass.dead /\ entry_current(e.key)
        /\ pass' = [pass EXCEPT !.todo = @ \ {e}, !.flying = @ \cup {e}]
        /\ UNCHANGED <<mgr, excuse, env>>
  /\ UNCHANGED <<disk, shown>>

(* The push service took it.  note_accepted starts the cooldown; when that   *)
(* write fails the pass ends and the results of unfinished groups are lost.  *)
Unfinished(e) == {Group(f) : f \in pass.todo \cup pass.flying \cup {e}}

(* Its entry was cancelled or replaced while it was being sent. *)
Raced(e) == IF e.retract \/ e \in mgr.entries THEN {} ELSE {Record(e)}

Accepted(e) ==
  LET m == finish_entry(e, "accepted") IN
  /\ e \in pass.flying
  /\ shown' = IF e.retract THEN shown \ {Record(e)} ELSE shown \cup {Record(e)}
  /\ mgr' = m
  /\ \/ /\ pass' = [pass EXCEPT !.flying = @ \ {e}, !.results = @ \cup {Result(e, "accepted")}]
        /\ excuse' = [excuse EXCEPT !.left = IF e.retract THEN @ \ {Record(e)} ELSE @,
                                    !.raced = @ \cup Raced(e)]
        /\ UNCHANGED env
     \/ /\ env.odds < MaxOdds /\ Odd
        /\ e.key \notin mgr.retracting
        /\ LET lost == {r \in pass.results : Group(r.e) \in Unfinished(e)} IN
             /\ pass' = [pass EXCEPT !.todo = {}, !.flying = {}, !.gone = {"error"},
                                     !.results = @ \ lost]
             /\ excuse' = [excuse EXCEPT
                  !.owed = @ \ {r.e.key : r \in lost}, !.raced = @ \cup Raced(e)]
  /\ UNCHANGED disk

(* 404 or 410: the endpoint is gone. *)
Terminal(e) ==
  /\ e \in pass.flying /\ env.odds < MaxOdds
  /\ Odd
  /\ mgr' = finish_entry(e, "pruned")
  /\ pass' = [pass EXCEPT !.flying = @ \ {e}, !.dead = @ \cup {Group(e)},
                          !.results = @ \cup {Result(e, "pruned")}]
  /\ UNCHANGED <<disk, shown, excuse>>

(* A timeout, a 408, 429 or 5xx is retried while attempts and lifetime last;  *)
(* any other refusal drops the entry.                                        *)
is_retryable(error) == error = "transient"

SendFails(e, error) ==
  /\ e \in pass.flying /\ env.odds < MaxOdds
  /\ Odd
  /\ \/ /\ is_retryable(error) /\ e.tries + 1 < MaxAttempts
        /\ mgr' = IF e \notin mgr.entries THEN mgr
                    ELSE [mgr EXCEPT !.entries = (@ \ {e}) \cup
                            {[e EXCEPT !.tries = @ + 1, !.wait = TRUE]}, !.dirty = TRUE]
        /\ pass' = [pass EXCEPT !.flying = @ \ {e}, !.results = @ \cup {Result(e, "retrying")}]
        /\ UNCHANGED excuse
     \/ /\ Ends(e, "dropped")
        /\ pass' = [pass EXCEPT !.flying = @ \ {e}, !.results = @ \cup {Result(e, "dropped")}]
  /\ UNCHANGED <<disk, shown>>

Returns(e) ==
  Accepted(e) \/ Terminal(e) \/ \E error \in {"transient", "refused"} : SendFails(e, error)

Pruned == {r \in pass.results : r.disposition = "pruned"}
PrunedOf(d) == {r.e.ep : r \in {s \in Pruned : s.e.key.dev = d}}

(* Mutation: the events that just failed are not given to the fallback. *)
recover_pruned_pending_only(m) ==
  LET Fallback(d) == Latest(m.subs, d, PrunedOf(d))
      hit == {e \in m.entries : e.ep \in PrunedOf(e.key.dev)}
      stay == m.entries \ hit
  IN  [m EXCEPT !.subs = SelectSeq(@, LAMBDA s : s.ep \notin PrunedOf(s.dev)),
                !.delivered = {r \in @ : r.ep \notin PrunedOf(r.key.dev)},
                !.entries = stay, !.dirty = TRUE]

(* recover_pruned: the dead endpoints leave the registry and the ledger;     *)
(* their pending entries and the events that just failed go to the device's  *)
(* latest other endpoint.                                                    *)
recover_pruned(m) ==
  LET Fallback(d) == Latest(m.subs, d, PrunedOf(d))
      hit == {e \in m.entries : e.ep \in PrunedOf(e.key.dev)}
      stay == m.entries \ hit
      migrated == UNION {{[e EXCEPT !.ep = ep] : ep \in Fallback(e.key.dev)} : e \in hit}
      requeued == UNION {{Entry(r.e.key, ep, r.e.retract, FALSE) : ep \in Fallback(r.e.key.dev)} :
                           r \in Pruned}
  IN  [m EXCEPT !.subs = SelectSeq(@, LAMBDA s : s.ep \notin PrunedOf(s.dev)),
                !.delivered = {r \in @ : r.ep \notin PrunedOf(r.key.dev)},
                !.entries = Merge(Merge(stay, migrated), requeued),
                !.dirty = @ \/ Pruned # {}]

(* The registry write failed: the failed entries come back with a back-off.  *)
restore_pruned_locked(m) ==
  LET back == {[r.e EXCEPT !.wait = TRUE] : r \in Pruned}
  IN  [m EXCEPT !.entries = Merge(@, back), !.dirty = TRUE]

(* sweep_keys: finished retractions and finished tests are forgotten; a key  *)
(* with nothing queued and nothing delivered leaves active.                  *)
sweep_keys(m) ==
  LET seen == {r.e.key : r \in pass.results}
      idle == {k \in seen : ~HasKey(m.entries, k)}
      forgotten == {k \in idle : k \in m.retracting \/ k.ev = Test}
      delivered == {r \in m.delivered : r.key \notin forgotten}
      quits == {k \in idle \ m.retracting : k.ev = Test \/ ~HasKey(delivered, k)}
  IN  [m EXCEPT !.delivered = delivered, !.retracting = @ \ idle, !.active = @ \ quits]

(* The end of a pass: prune recovery, one flush, and the sweep unless the    *)
(* pass failed.                                                              *)
FinishPass ==
  LET stranded == {d \in Devices : PrunedOf(d) # {} /\ Latest(mgr.subs, d, PrunedOf(d)) = {}} IN
  /\ pass.on /\ pass.todo = {} /\ pass.flying = {}
  /\ pass' = NoPass
  /\ \E wrote, flushed \in Writes :
       LET m == IF Pruned = {} THEN mgr
                  ELSE IF wrote THEN recover_pruned(mgr) ELSE restore_pruned_locked(mgr)
           swept == IF wrote /\ flushed /\ pass.gone = {} THEN sweep_keys(m) ELSE m
       IN  /\ wrote \/ (flushed /\ Pruned # {})
           /\ flushed \/ m.dirty
           /\ mgr' = [swept EXCEPT !.dirty = ~flushed]
           /\ disk' = [disk EXCEPT !.subs = IF wrote THEN m.subs ELSE @,
                                   !.queue = IF flushed /\ m.dirty THEN Queue(swept) ELSE @]
           /\ excuse' = [excuse EXCEPT
                !.owed = {k \in @ : k.dev \notin stranded},
                !.left = @ \cup {i \in [key : Keys, ep : Endpoints] : i.ep \in PrunedOf(i.key.dev)}]
           /\ Costs(wrote /\ flushed)
  /\ UNCHANGED shown

(* The process ends and starts again from its files; rows of devices without *)
(* a credential are removed, and delivery waits for reconcile.               *)
Restart ==
  LET live(S) == {x \in S : x.key.dev \in env.live}
      entries == live(disk.queue.entries)
      delivered == live(disk.queue.delivered)
      subs == SelectSeq(disk.subs, LAMBDA s : s.dev \in env.live)
      active == {x.key : x \in entries} \cup {x.key : x \in delivered}
  IN  /\ env.odds < MaxOdds
      /\ Odd
      /\ mgr' = [subs |-> subs, entries |-> entries, delivered |-> delivered,
                 active |-> active, retracting |-> {}, reconciled |-> active = {},
                 muted |-> mgr.muted \cap env.live, viewed |-> {},
                 dirty |-> FALSE]
      /\ disk' = [subs |-> subs,
                  queue |-> [entries |-> entries, delivered |-> delivered]]
      /\ pass' = NoPass
      /\ excuse' = [excuse EXCEPT
           !.owed = @ \ {r.e.key : r \in Pruned},
           !.left = @ \cup {s \in shown : s \notin delivered}]
      /\ UNCHANGED shown

Worker ==
  \/ drain_once \/ FinishPass
  \/ \E e \in mgr.entries : Due(e)
  \/ \E e \in pass.todo : Process(e)
  \/ \E e \in pass.flying : Returns(e)

Init ==
  \E d \in Devices, ep \in Endpoints :
    /\ mgr = [subs |-> <<[dev |-> d, ep |-> ep]>>, entries |-> {}, delivered |-> {},
              active |-> {}, retracting |-> {}, reconciled |-> TRUE, muted |-> {}, viewed |-> {},
              dirty |-> FALSE]
    /\ disk = [subs |-> mgr.subs, queue |-> Queue(mgr)]
    /\ pass = NoPass
    /\ shown = {}
    /\ env = [live |-> Devices, current |-> FALSE, event |-> 1, published |-> 0, odds |-> 0]
    /\ excuse = [owed |-> {}, left |-> {}, raced |-> {}]

Next ==
  \/ \E ev \in {Test, env.event} : publish(ev)
  \/ resolve_pane_id \/ reconcile
  \/ \E d \in Devices : Registry(d) \/ Preferences(d) \/ remove_device(d)
  \/ Worker \/ Restart

Spec == Init /\ [][Next]_pushVars

-----------------------------------------------------------------------------
(* Properties *)

TypeOK ==
  /\ \A e, f \in mgr.entries : SameId(e, f) => e = f
  /\ \A e \in mgr.entries : e.key \in Keys /\ e.ep \in Endpoints /\ e.tries < MaxAttempts
  /\ mgr.active \subseteq Keys /\ mgr.retracting \subseteq Keys
  /\ env.odds \in 0..MaxOdds

(* Nothing to do: the queue is empty and no pass runs. *)
Quiet == ~pass.on /\ mgr.reconciled /\ mgr.entries = {}

(* A published event that is not resolved reaches the phone: when the queue  *)
(* has drained it is shown on an endpoint of its device, whatever endpoints   *)
(* died or were replaced meanwhile, unless it expired, was muted, ran out of  *)
(* attempts, its device left, or a failed pass or a crash lost a dead        *)
(* endpoint's result.  The notification opens unless the ledger lost it.     *)
OwedIsShown ==
  Quiet => \A k \in excuse.owed :
    /\ HasKey(shown, k)
    /\ \A r \in shown \ (excuse.left \cup excuse.raced) :
         r.key = k /\ k.ev # Test => open_ref(k)

(* A resolved event leaves the phone: when the queue has drained, what is    *)
(* shown is active, except for the named causes and for a send whose entry   *)
(* was cancelled or replaced while it was in flight.                         *)
ResolvedIsRetracted ==
  Quiet => \A r \in shown :
    r.key.ev = Test \/ r.key \in mgr.active \/ r \in excuse.left \/ r \in excuse.raced

(* What resolve's comment says without that exception: pending entries are   *)
(* cancelled and delivered ones retracted.                                   *)
ResolveCancelsOrRetracts ==
  Quiet => \A r \in shown :
    r.key.ev = Test \/ r.key \in mgr.active \/ r \in excuse.left
=============================================================================
