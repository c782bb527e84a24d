-------------------------------- MODULE Herdr --------------------------------
(***************************************************************************)
(* The client of the Herdr multiplexer and its event supervisor, with the  *)
(* actor that consumes them: one-shot calls over a fresh connection each   *)
(* (client.rs, wire.rs, error.rs), shared reads (singleflight.rs), the     *)
(* subscribe-then-snapshot bootstrap and the resync loop (events.rs), the  *)
(* ledger of what the connected build supports (capabilities.rs).  Herdr   *)
(* itself is known by what it answers: its contents are the number of the  *)
(* last change of each part, its build the optional features it has.       *)
(***************************************************************************)
EXTENDS Naturals, Sequences, FiniteSets

CONSTANTS
  HerdrPanes,      \* the panes that may exist
  EventQueue,      \* lines buffered between the stream's reader and its owner
  SignalQueue,     \* signals buffered between the supervisor and the actor
  DialPermits,     \* requests that may be on a connection at a time
  MaxHerdrEvents   \* bound on changes, restarts, polls, calls and faults

VARIABLES
  herdr,     \* the server: build, contents, number of changes, installed binary
  stream,    \* the event connection the supervisor holds
  sup,       \* the supervisor task
  signals,   \* SupervisorSignals the actor has not taken
  flight,    \* the session.snapshot in flight, if any
  got,       \* the answer a caller of it has not looked at
  keeper,    \* the topology actor: what it waits for and what it shows
  caps,      \* the capability ledger
  collect,   \* the capability refresh
  call,      \* one unary call of an action or a watch
  spent,     \* how much of MaxHerdrEvents is used
  why        \* why the actor may show what is not so

vars == <<herdr, stream, sup, signals, flight, got, keeper, caps, collect, call, spent, why>>

-----------------------------------------------------------------------------
(* Herdr, as its answers show it. *)

None == "none"
Nobody == {None}                  \* no build is known
Features == {"status", "read"}    \* pane.agent_status_changed, pane.read
LiveFeatures == {"read"}
Builds == {{}, Features}
Identity(b) == b                  \* two builds never report the same

Contents == [panes |-> herdr.panes, topo |-> herdr.topo,
             status |-> [p \in herdr.panes |-> herdr.status[p]]]

Nothing == [panes |-> {}, topo |-> 0, status |-> <<>>]

Spend == spent < MaxHerdrEvents /\ spent' = spent + 1

End == [k |-> "end"]

(* An event reaches the connection that subscribed to it. *)
Emitted(e) ==
  IF stream.open /\ (e.k = "status" => e.p \in stream.subs)
    THEN [stream EXCEPT !.wire = Append(@, e)] ELSE stream

Event(k, p) == [k |-> k, p |-> p, n |-> herdr.n + 1]

Changed(k, p, panes) ==
  /\ Spend
  /\ herdr' = [herdr EXCEPT !.n = @ + 1, !.panes = panes,
                            !.topo = IF k = "status" THEN @ ELSE herdr.n + 1,
                            !.status[p] = IF k = "status" THEN herdr.n + 1 ELSE @]
  /\ stream' = Emitted(Event(k, p))
  /\ UNCHANGED <<sup, signals, flight, got, keeper, caps, collect, call, why>>

Change ==
  \/ \E p \in HerdrPanes \ herdr.panes : Changed("created", p, herdr.panes \cup {p})
  \/ \E p \in herdr.panes : Changed("closed", p, herdr.panes \ {p})
  \/ \E p \in herdr.panes, k \in {"updated", "status"} : Changed(k, p, herdr.panes)

(* The connections of a server that goes down end; what it had read of a    *)
(* request is lost with it.                                                 *)
Restart ==
  /\ Spend
  /\ \E b \in Builds \ {herdr.build} :
       herdr' = [herdr EXCEPT !.build = b, !.bin = b, !.n = @ + 1, !.topo = herdr.n + 1]
  /\ stream' = [stream EXCEPT !.open = FALSE,
                              !.wire = IF stream.open THEN Append(@, End) ELSE @]
  /\ flight' = IF flight.st = "served" THEN [flight EXCEPT !.st = "cut"] ELSE flight
  /\ call' = IF call.pc = "answered" THEN [call EXCEPT !.pc = "cut"] ELSE call
  /\ UNCHANGED <<sup, signals, got, keeper, caps, collect, why>>

(* A package manager replaces the binary; the running server is the old one. *)
Upgrade ==
  /\ Spend
  /\ \E b \in Builds \ {herdr.bin} : herdr' = [herdr EXCEPT !.bin = b]
  /\ UNCHANGED <<stream, sup, signals, flight, got, keeper, caps, collect, call, why>>

-----------------------------------------------------------------------------
(* Calls: a permit, a connection, one line each way. *)

InFlight ==
  (IF flight.st \in {"served", "cut"} THEN 1 ELSE 0)
  + (IF call.pc \in {"answered", "cut"} THEN 1 ELSE 0)

dial_semaphore == InFlight < DialPermits

NoFlight == [st |-> None, data |-> Nothing, at |-> 0, waiters |-> {}]

(* One leader per request; whoever asks meanwhile follows it and gets its    *)
(* result.                                                                   *)
execute(caller) ==
  flight' = IF flight.st = None
              THEN [st |-> "dial", data |-> Nothing, at |-> 0, waiters |-> {caller}]
              ELSE [flight EXCEPT !.waiters = @ \cup {caller}]

(* The leader drops its entry before the result goes out. *)
Landed(result) ==
  /\ flight' = NoFlight
  /\ got' = [c \in DOMAIN got |-> IF c \in flight.waiters THEN result ELSE got[c]]

Waiting == [k |-> "waiting", data |-> Nothing, at |-> 0]
NoAnswer == [Waiting EXCEPT !.k = "err"]
Answer == [k |-> "ok", data |-> flight.data, at |-> flight.at]

call_shared ==
  /\ flight.st # None
  /\ \/ /\ flight.st = "dial" /\ dial_semaphore
        /\ flight' = [flight EXCEPT !.st = "served", !.data = Contents, !.at = herdr.n]
        /\ UNCHANGED <<got, spent>>
     \/ flight.st = "served" /\ Landed(Answer) /\ UNCHANGED spent
     \/ flight.st = "cut" /\ Landed(NoAnswer) /\ UNCHANGED spent
     \/ flight.st # "cut" /\ Spend /\ Landed(NoAnswer)      \* a time-out, a bad line
  /\ UNCHANGED <<herdr, stream, sup, signals, keeper, caps, collect, call, why>>

(* What the ledger keeps of an outcome: only of the connection it was asked  *)
(* on, and bound to the identity known then.                                 *)
note_at(epoch, f, state, by) ==
  IF epoch # caps.epoch THEN caps
  ELSE [caps EXCEPT !.notes[f] = [state |-> state, of |-> caps.identity, by |-> by],
                    !.report[f] = state]

note_for(f, identity) ==
  caps.notes[f].state # "unknown" /\ caps.notes[f].of \in {identity, Nobody}

note_socket_feature ==
  IF call.kind # "read" THEN caps
  ELSE IF call.reply = "ok" THEN note_at(call.epoch, "read", "yes", call.by)
  ELSE IF call.reply = "unknown_method" THEN note_at(call.epoch, "read", "no", call.by)
  ELSE caps

NoCall == [pc |-> "idle", kind |-> "read", epoch |-> 0, applied |-> FALSE,
           reply |-> None, phase |-> None, by |-> Nobody]

StartCall(kind) ==
  /\ call.pc = "idle" /\ Spend
  /\ call' = [NoCall EXCEPT !.pc = "permit", !.kind = kind, !.epoch = caps.epoch]
  /\ UNCHANGED <<herdr, stream, sup, signals, flight, got, keeper, caps, collect, why>>

(* A request of which not a byte was written may be sent again; one of which  *)
(* some were has perhaps been applied.                                        *)
write_request(offset) == IF offset = 0 THEN "not_started" ELSE "dispatched"

(* A reply that is not about this request says nothing of it, but for the     *)
(* refusal of a line Herdr could not read.                                    *)
classify_response(reply) ==
  CASE reply = "ok" -> "ok"
    [] reply \in {"unknown_method", "refused", "unreadable_request"} -> "refused"
    [] OTHER -> "dispatched"

call_inner ==
  /\ \/ /\ call.pc = "permit" /\ dial_semaphore
        /\ call' = [call EXCEPT !.pc = "answered", !.by = herdr.build,
                      !.applied = call.kind = "do" \/ "read" \in herdr.build,
                      !.reply = IF call.kind = "read" /\ "read" \notin herdr.build
                                  THEN "unknown_method" ELSE "ok"]
        /\ UNCHANGED <<caps, spent>>
     \/ /\ call.pc = "permit" /\ Spend         \* no permit, no connection, a short write
        /\ \E offset \in 0..1 :
             call' = [call EXCEPT !.pc = "done", !.phase = write_request(offset)]
        /\ UNCHANGED caps
     \/ /\ call.pc = "permit" /\ Spend
        /\ \E r \in {"refused", "unreadable_request"} :
             call' = [call EXCEPT !.pc = "answered", !.reply = r]
        /\ UNCHANGED caps
     \/ /\ call.pc = "answered"
        /\ call' = [call EXCEPT !.pc = "done", !.phase = classify_response(call.reply)]
        /\ caps' = note_socket_feature /\ UNCHANGED spent
     \/ /\ call.pc = "answered" /\ Spend       \* no line, one too long, another's answer
        /\ call' = [call EXCEPT !.pc = "done", !.phase = classify_response("foreign")]
        /\ UNCHANGED caps
     \/ /\ call.pc = "cut"
        /\ call' = [call EXCEPT !.pc = "done", !.phase = classify_response("cut")]
        /\ UNCHANGED <<caps, spent>>
     \/ call.pc = "done" /\ call' = NoCall /\ UNCHANGED <<caps, spent>>
  /\ UNCHANGED <<herdr, stream, sup, signals, flight, got, keeper, collect, why>>

-----------------------------------------------------------------------------
(* The event connection and its reader. *)

NoStream == [open |-> FALSE, subs |-> {}, tracks |-> FALSE, from |-> 0,
             wire |-> <<>>, queue |-> <<>>, reader |-> "off"]

(* A full queue ends the stream rather than lose a line unnoticed; the error  *)
(* itself waits for room.                                                     *)
read_loop ==
  /\ \/ /\ stream.reader = "reading" /\ stream.wire # <<>> /\ Head(stream.wire).k # "end"
        /\ stream' = IF Len(stream.queue) < EventQueue
                       THEN [stream EXCEPT !.queue = Append(@, Head(stream.wire)),
                                           !.wire = Tail(@)]
                       ELSE [stream EXCEPT !.reader = "failed", !.open = FALSE]
        /\ UNCHANGED spent
     \/ /\ stream.reader = "reading" /\ stream.wire # <<>> /\ Head(stream.wire).k = "end"
        /\ stream' = [stream EXCEPT !.reader = "failed"] /\ UNCHANGED spent
     \/ /\ stream.reader = "reading" /\ stream.open /\ Spend     \* events_lost, an odd line
        /\ stream' = [stream EXCEPT !.reader = "failed", !.open = FALSE]
     \/ /\ stream.reader = "failed" /\ Len(stream.queue) < EventQueue
        /\ stream' = [stream EXCEPT !.queue = Append(@, End), !.reader = "off"]
        /\ UNCHANGED spent
  /\ UNCHANGED <<herdr, sup, signals, flight, got, keeper, caps, collect, call, why>>

changes_pane_membership(e) == e.k \in {"created", "closed"}

-----------------------------------------------------------------------------
(* The supervisor. *)

Synced(a) == [k |-> "synced", data |-> a.data, old |-> a.at < stream.from]
Invalidated(e, gap) == [k |-> e.k, p |-> e.p, n |-> e.n, gap |-> gap]
Reconnecting == [k |-> "reconnecting"]

(* A (re)connect may answer with another build. *)
invalidate_live ==
  [caps EXCEPT !.epoch = @ + 1, !.identity = Nobody,
               !.report = [f \in Features |-> IF f \in LiveFeatures THEN "unknown" ELSE @[f]]]

should_attempt(f) == caps.report[f] # "no"

NoAttempt == [pc |-> "boot", attempt |-> FALSE, panes |-> {}, out |-> <<>>,
              refresh |-> FALSE, remaining |-> 0]

Backoff ==
  /\ sup' = [NoAttempt EXCEPT !.pc = "backoff"]
  /\ stream' = NoStream
  /\ signals' = IF Len(signals) < SignalQueue THEN Append(signals, Reconnecting) ELSE signals

Boot ==
  /\ sup.pc \in {"boot", "backoff"}
  /\ caps' = invalidate_live
  /\ sup' = [sup EXCEPT !.pc = "attempt"]
  /\ UNCHANGED <<herdr, stream, signals, flight, got, keeper, collect, call, spent, why>>

(* The panes there are, to subscribe to the status of each. *)
Attempt ==
  /\ sup.pc = "attempt"
  /\ IF should_attempt("status")
       THEN /\ sup' = [sup EXCEPT !.pc = "ids", !.attempt = TRUE] /\ execute("sup")
       ELSE /\ sup' = [sup EXCEPT !.pc = "sub", !.attempt = FALSE, !.panes = {}]
            /\ UNCHANGED flight
  /\ UNCHANGED <<herdr, stream, signals, got, keeper, caps, collect, call, spent, why>>

PaneIds ==
  /\ sup.pc = "ids" /\ got["sup"] # Waiting
  /\ got' = [got EXCEPT !["sup"] = Waiting]
  /\ IF got["sup"].k = "err"
       THEN Backoff
       ELSE /\ sup' = [sup EXCEPT !.pc = "sub", !.panes = got["sup"].data.panes]
            /\ UNCHANGED <<stream, signals>>
  /\ UNCHANGED <<herdr, flight, keeper, caps, collect, call, spent, why>>

(* A name that Herdr does not know refuses the whole request, which is sent   *)
(* again without it; the snapshot is asked for when the connection is there.  *)
subscribe_topology ==
  /\ sup.pc = "sub"
  /\ \/ /\ sup.attempt /\ sup.panes # {} /\ "status" \notin herdr.build
        /\ sup' = [sup EXCEPT !.attempt = FALSE]
        /\ caps' = note_at(caps.epoch, "status", "no", herdr.build)
        /\ UNCHANGED <<stream, signals, flight, spent>>
     \/ /\ sup.attempt /\ sup.panes # {} => "status" \in herdr.build
        /\ sup' = [sup EXCEPT !.pc = "snap"] /\ execute("sup")
        /\ stream' = [NoStream EXCEPT !.open = TRUE, !.reader = "reading", !.from = herdr.n,
                        !.subs = IF sup.attempt THEN sup.panes ELSE {}, !.tracks = sup.attempt]
        /\ caps' = IF sup.attempt /\ sup.panes # {}
                     THEN note_at(caps.epoch, "status", "yes", herdr.build) ELSE caps
        /\ UNCHANGED <<signals, spent>>
     \/ Spend /\ Backoff /\ UNCHANGED <<flight, caps>>
  /\ UNCHANGED <<herdr, got, keeper, collect, call, why>>

(* A terminal error is the last thing the reader queues; a drain leaves it. *)
Terminal(q) == q # <<>> /\ q[Len(q)].k = "end"
Lines(q) == IF Terminal(q) THEN SubSeq(q, 1, Len(q) - 1) ELSE q
Rest(q) == IF Terminal(q) THEN <<End>> ELSE <<>>

(* Mutation: the panes of the subscription are not compared with those of    *)
(* the snapshot.                                                             *)
covers_anything(panes) == TRUE

(* The status of a pane that came or went meanwhile is not subscribed to. *)
covers(panes) == stream.tracks => stream.subs = panes

(* The snapshot, then what arrived in the gap before it. *)
bootstrap_with ==
  /\ sup.pc = "snap" /\ got["sup"] # Waiting
  /\ got' = [got EXCEPT !["sup"] = Waiting]
  /\ IF got["sup"].k = "err"
       THEN Backoff
     ELSE IF ~covers(got["sup"].data.panes)
       THEN /\ sup' = [NoAttempt EXCEPT !.pc = "attempt"] /\ stream' = NoStream
            /\ UNCHANGED signals
     ELSE LET gap == Lines(stream.queue)
          IN /\ sup' = [sup EXCEPT !.pc = "announce",
                          !.out = <<Synced(got["sup"])>>
                                  \o [i \in 1..Len(gap) |-> Invalidated(gap[i], TRUE)],
                          !.refresh = \E i \in 1..Len(gap) : changes_pane_membership(gap[i])]
             /\ stream' = [stream EXCEPT !.queue = Rest(@)]
             /\ UNCHANGED signals
  /\ UNCHANGED <<herdr, flight, keeper, caps, collect, call, spent, why>>

Announce ==
  /\ sup.pc = "announce"
  /\ IF sup.out # <<>>
       THEN /\ Len(signals) < SignalQueue
            /\ signals' = Append(signals, Head(sup.out))
            /\ sup' = [sup EXCEPT !.out = Tail(@)]
       ELSE /\ sup' = [NoAttempt EXCEPT !.pc = "watch", !.refresh = sup.refresh,
                         !.remaining = IF sup.refresh THEN Len(stream.queue) ELSE 0]
            /\ UNCHANGED signals
  /\ UNCHANGED <<herdr, stream, flight, got, keeper, caps, collect, call, spent, why>>

(* The loop of run: relay each event; when the panes changed, those that are  *)
(* buffered too, and start over.                                              *)
Watch ==
  /\ sup.pc = "watch"
  /\ IF sup.refresh /\ sup.remaining = 0
       THEN /\ sup' = NoAttempt /\ stream' = NoStream
            /\ UNCHANGED signals
       ELSE /\ stream.queue # <<>>
            /\ LET e == Head(stream.queue)
               IN IF e.k = "end"
                    THEN Backoff
                    ELSE /\ Len(signals) < SignalQueue
                         /\ signals' = Append(signals, Invalidated(e, FALSE))
                         /\ stream' = [stream EXCEPT !.queue = Tail(@)]
                         /\ sup' = [sup EXCEPT !.refresh = @ \/ changes_pane_membership(e),
                              !.remaining = CASE sup.refresh -> @ - 1
                                              [] changes_pane_membership(e) -> Len(stream.queue) - 1
                                              [] OTHER -> 0]
  /\ UNCHANGED <<herdr, flight, got, keeper, caps, collect, call, spent, why>>

Supervisor ==
  \/ Boot \/ Attempt \/ PaneIds \/ subscribe_topology
  \/ bootstrap_with \/ Announce \/ Watch

-----------------------------------------------------------------------------
(* The topology actor, as the consumer. *)

commit_agent_status(e) ==
  IF e.p \in keeper.view.panes THEN [keeper.view EXCEPT !.status[e.p] = e.n] ELSE keeper.view

is_pane_topology(e) == e.k \in {"created", "closed", "updated"}

Take ==
  /\ keeper.pc = "idle" /\ signals # <<>>
  /\ signals' = Tail(signals)
  /\ LET s == Head(signals)
     IN CASE s.k = "synced" ->
               /\ keeper' = [keeper EXCEPT !.view = s.data, !.failed = FALSE]
               /\ collect' = [collect EXCEPT !.wanted = TRUE]
               /\ why' = (why \ {"unread", "shared", "unwatched"})
                         \cup (IF s.old THEN {"shared", "unwatched"} ELSE {})
               /\ UNCHANGED flight
          [] s.k = "reconnecting" ->
               UNCHANGED <<keeper, flight, collect, why>>
          [] s.k = "status" /\ ~s.gap ->
               /\ keeper' = [keeper EXCEPT !.view = commit_agent_status(s)]
               /\ UNCHANGED <<flight, collect, why>>
          [] OTHER ->
               /\ keeper' = [keeper EXCEPT !.pc = IF is_pane_topology(s) THEN "refresh" ELSE "poll"]
               /\ execute("actor") /\ UNCHANGED <<collect, why>>
  /\ UNCHANGED <<herdr, stream, sup, got, caps, call, spent>>

PollTimer ==
  /\ keeper.pc = "idle" /\ signals = <<>> /\ Spend
  /\ keeper' = [keeper EXCEPT !.pc = "poll"] /\ execute("actor")
  /\ UNCHANGED <<herdr, stream, sup, signals, got, caps, collect, call, why>>

(* An event's read that fails leaves the last state as it is; a poll that     *)
(* fails says so.                                                             *)
Refreshed ==
  /\ keeper.pc \in {"refresh", "poll"} /\ got["actor"] # Waiting
  /\ got' = [got EXCEPT !["actor"] = Waiting]
  /\ IF got["actor"].k = "err"
       THEN /\ keeper' = [keeper EXCEPT !.pc = "idle", !.failed = @ \/ keeper.pc = "poll"]
            /\ why' = IF keeper.pc = "refresh" THEN why \cup {"unread"} ELSE why
       ELSE /\ keeper' = [keeper EXCEPT !.pc = "idle", !.failed = FALSE,
                                        !.view = got["actor"].data]
            /\ why' = why \ {"unread", "shared"}
  /\ UNCHANGED <<herdr, stream, sup, signals, flight, caps, collect, call, spent>>

-----------------------------------------------------------------------------
(* The capability refresh: one at a time, over several calls. *)

NoCollect == [pc |-> "idle", wanted |-> FALSE, epoch |-> 0, identity |-> Nobody, bin |-> Nobody,
              next |-> [f \in Features |-> "unknown"]]

(* It begins with the version of the binary and a ping. *)
CollectStart ==
  /\ collect.pc = "idle"
  /\ IF collect.wanted THEN UNCHANGED spent ELSE Spend      \* the tick of half a minute
  /\ collect' = [NoCollect EXCEPT !.pc = "schema", !.epoch = caps.epoch, !.bin = herdr.bin,
                                  !.identity = Identity(herdr.build)]
  /\ UNCHANGED <<herdr, stream, sup, signals, flight, got, keeper, caps, call, why>>

PingFails ==
  /\ collect.pc = "schema" /\ Spend
  /\ collect' = [collect EXCEPT !.pc = "apply", !.identity = Nobody]
  /\ UNCHANGED <<herdr, stream, sup, signals, flight, got, keeper, caps, call, why>>

(* The schema is the installed binary's: it counts when that is the build     *)
(* that answered.                                                             *)
schema_trustworthy == collect.bin = collect.identity

Schema ==
  /\ collect.pc = "schema"
  /\ IF schema_trustworthy
       THEN /\ collect' = [collect EXCEPT !.pc = "apply",
                             !.next = [f \in Features |-> IF f \in herdr.bin THEN "yes" ELSE "no"]]
            /\ why' = IF herdr.bin # collect.bin THEN why \cup {"replaced"} ELSE why
       ELSE /\ collect' = [collect EXCEPT !.pc = "probe",
                                          !.next = [f \in Features |-> "unknown"]]
            /\ UNCHANGED why
  /\ UNCHANGED <<herdr, stream, sup, signals, flight, got, keeper, caps, call, spent>>

probe_verdict == IF "read" \in herdr.build THEN "yes" ELSE "no"

Probe ==
  /\ collect.pc = "probe"
  /\ collect' = [collect EXCEPT !.pc = "apply",
        !.next["read"] = IF note_for("read", collect.identity)
                           THEN caps.notes["read"].state ELSE probe_verdict]
  /\ UNCHANGED <<herdr, stream, sup, signals, flight, got, keeper, caps, call, spent, why>>

(* What was seen of this build outranks what was inferred.  A refresh that    *)
(* straddled a reconnect is dropped; notes of a server not yet known are now  *)
(* of this one.                                                               *)
apply_refresh ==
  /\ collect.pc = "apply"
  /\ collect' = [NoCollect EXCEPT !.wanted = collect.wanted]
  /\ caps' = IF collect.epoch # caps.epoch THEN caps
             ELSE [caps EXCEPT !.identity = collect.identity, !.report = [f \in Features |-> IF collect.identity # Nobody /\ note_for(f, collect.identity)
                                                   THEN caps.notes[f].state ELSE collect.next[f]],
                     !.notes = IF caps.identity = Nobody /\ collect.identity # Nobody
                       THEN [f \in Features |-> IF @[f].of = Nobody
                                                  THEN [@[f] EXCEPT !.of = collect.identity] ELSE @[f]]
                       ELSE @]
  /\ UNCHANGED <<herdr, stream, sup, signals, flight, got, keeper, call, spent, why>>

collect_capabilities == CollectStart \/ PingFails \/ Schema \/ Probe \/ apply_refresh

-----------------------------------------------------------------------------
Init ==
  /\ \E b \in Builds :
       herdr = [build |-> b, bin |-> b, n |-> 0, panes |-> {1}, topo |-> 0,
                status |-> [p \in HerdrPanes |-> 0]]
  /\ stream = NoStream
  /\ sup = NoAttempt
  /\ signals = <<>>
  /\ flight = [NoFlight EXCEPT !.st = "dial", !.waiters = {"actor"}]
  /\ got = [c \in {"sup", "actor"} |-> Waiting]
  /\ keeper = [pc |-> "poll", failed |-> FALSE,
               view |-> Nothing]
  /\ caps = [epoch |-> 0, identity |-> Nobody, report |-> [f \in Features |-> "unknown"],
             notes |-> [f \in Features |-> [state |-> "unknown", of |-> Nobody, by |-> Nobody]]]
  /\ collect = NoCollect
  /\ call = NoCall
  /\ spent = 0
  /\ why = {}

Next ==
  \/ Change \/ Restart \/ Upgrade
  \/ call_shared \/ call_inner \/ (\E kind \in {"read", "do"} : StartCall(kind))
  \/ read_loop \/ Supervisor
  \/ Take \/ PollTimer \/ Refreshed
  \/ collect_capabilities

Spec == Init /\ [][Next]_vars

-----------------------------------------------------------------------------
(* Nothing is on its way from Herdr to the actor. *)
Settled ==
  /\ sup.pc = "watch" /\ ~sup.refresh
  /\ stream.open /\ stream.wire = <<>> /\ stream.queue = <<>>
  /\ signals = <<>> /\ flight.st = None /\ keeper.pc = "idle"

(* What the actor shows is what Herdr holds, without waiting for a poll,      *)
(* however changes, subscriptions, snapshots and reconnects interleave: but   *)
(* for a read an event asked for that failed, a snapshot shared with a read   *)
(* that began before the subscription, and statuses on a build that does not  *)
(* announce them or that was not asked to: of panes that came between such a  *)
(* snapshot and the subscription, even when a poll has read them since.       *)
ViewFollows ==
  (Settled /\ ~keeper.failed /\ why \cap {"unread", "shared"} = {}) =>
    /\ keeper.view.panes = herdr.panes /\ keeper.view.topo = herdr.topo
    /\ stream.tracks /\ "unwatched" \notin why => keeper.view.status = Contents.status

(* A verdict that was bound to a build other than the one that gave it: it    *)
(* was noted before the build was known, and another one answered the ping.   *)
Misbound(f) == caps.notes[f].of \notin {caps.notes[f].by, Nobody}

(* A feature the ledger calls supported or not is so of the build that is     *)
(* connected, once a refresh has run on this connection, but for a verdict    *)
(* bound to another build and a binary replaced while its schema was read.    *)
FeaturesTrue ==
  (Settled /\ collect.pc = "idle" /\ ~collect.wanted /\ caps.identity # Nobody /\ call.pc = "idle"
     /\ "replaced" \notin why) =>
    \A f \in {g \in Features : ~Misbound(g)} :
      /\ caps.report[f] = "yes" => f \in herdr.build
      /\ caps.report[f] = "no" => f \notin herdr.build

(* What a call reports of itself is so: one that was not started or was       *)
(* refused has changed nothing.                                               *)
PhaseTells ==
  call.pc = "done" => /\ call.phase \in {"not_started", "refused"} => ~call.applied
                      /\ call.phase = "ok" => call.applied
=============================================================================
