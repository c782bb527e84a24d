----------------------------- MODULE PaneWatch -----------------------------
(***************************************************************************)
(* One phone watching one pane.  The relay's watch task probes and reads    *)
(* the pane, or renders an observer stream of it, and sends full frames     *)
(* and deltas of which one at a time may be unacknowledged.  The phone      *)
(* applies them and answers; a chain it cannot extend makes it read the     *)
(* pane anew, which ends the watch, and watch again.  Recoveries of a       *)
(* TUI's own scrollback move the screen under every watcher and are gated   *)
(* by a store shared between them.                                          *)
(* A screen is a number, the output so far modulo Period, and stands for    *)
(* its text, its lines and its fingerprint.                                 *)
(***************************************************************************)
EXTENDS Integers, Sequences

CONSTANTS
  Period,        \* after so many outputs the screen looks the same again
  MaxOutput,     \* bound on output of the pane
  MaxTrouble,    \* bound on what disturbs the watch, taken together: commits that
                 \* move the row, deaths, recoveries, observers lost, frames
                 \* refused, acknowledgements overdue, what the user does
  CtlQueue       \* WATCH_CTL_QUEUE

VARIABLES
  scr,    \* the pane in Herdr, and its committed row
  hist,   \* the pane's entry of the application-history store
  loop,   \* the watch task
  obs,    \* its StreamSlot
  reader, \* tasks answering read_pane
  ctl,    \* controls queued for the watch task
  upq,    \* messages of the phone, not yet routed
  downq,  \* frames to the phone
  surf,   \* the phone's PaneSurface and AckGate
  odds    \* how often something went wrong, and why the phone may be owed a frame:
          \* the last push was refused, told of a death or showed a scrolled screen,
          \* or a frame of a watch passed for the answer of a read (history)

watchVars == <<scr, hist, loop, obs, reader, ctl, upq, downq, surf, odds>>

None == -1       \* no screen, no version
Blank == -2      \* what the phone shows for a frame without content
Scroll == -3     \* the screen while a recovery scrolls it

Text == scr.out % Period

Trouble == odds.trouble < MaxTrouble /\ odds' = [odds EXCEPT !.trouble = @ + 1]

(* What a read finds on the screen.  A recovery scrolls it and, before it    *)
(* ends, scrolls it back.                                                    *)
Visible == IF hist.busy THEN {Text, Scroll} ELSE {Text}

(* Herdr 0.9.1 reports every read as revision 0. *)
Revision == IF scr.counts THEN scr.out ELSE 0

-----------------------------------------------------------------------------
(* The pane and the committed topology *)

Output ==
  /\ scr.alive /\ scr.out < MaxOutput /\ ~hist.busy
  /\ scr' = [scr EXCEPT !.out = @ + 1]
  /\ UNCHANGED <<hist, loop, obs, reader, ctl, upq, downq, surf, odds>>

(* content_rev moves with the agent the screen is classified for. *)
RowCommit ==
  /\ Trouble
  /\ \/ scr' = [scr EXCEPT !.crev = @ + 1, !.agent = 1 - @]
     \/ scr' = [scr EXCEPT !.gen = @ + 1]
     \/ scr.alive /\ ~hist.busy /\ scr' = [scr EXCEPT !.alive = FALSE, !.gen = @ + 1]
  /\ UNCHANGED <<hist, loop, obs, reader, ctl, upq, downq, surf>>

Respawn ==
  /\ ~scr.alive
  /\ scr' = [scr EXCEPT !.alive = TRUE]
  /\ UNCHANGED <<hist, loop, obs, reader, ctl, upq, downq, surf, odds>>

-----------------------------------------------------------------------------
(* The application-history store: one recovery of a pane at a time *)

read_version == IF hist.busy THEN None ELSE hist.version

Epoch == <<scr.gen, scr.crev>>

(* The entry as observe finds or makes it; a new epoch makes a recovery due  *)
(* again and a new terminal drops the rows.                                  *)
Entry ==
  IF hist.version = 0
    THEN [hist EXCEPT !.version = 1, !.epoch = Epoch]
    ELSE IF hist.busy \/ hist.epoch = Epoch THEN hist
    ELSE [hist EXCEPT !.epoch = Epoch, !.complete = FALSE,
                      !.rows = @ /\ hist.epoch[1] = Epoch[1]]

Due(entry) == scr.alive /\ ~entry.busy /\ ~entry.complete

Reserved(entry) == [entry EXCEPT !.busy = TRUE]

(* A watch of another phone takes the reservation. *)
OtherReserves ==
  /\ Due(Entry)
  /\ Trouble
  /\ hist' = Reserved(Entry)
  /\ UNCHANGED <<scr, loop, obs, reader, ctl, upq, downq, surf>>

(* Reservation::finish, or its drop when the recovery failed. *)
Finish ==
  /\ hist.busy
  /\ \E recovered \in BOOLEAN :
       hist' = [hist EXCEPT !.busy = FALSE, !.version = @ + 1,
                            !.rows = @ \/ recovered, !.complete = recovered]
  /\ UNCHANGED <<scr, loop, obs, reader, ctl, upq, downq, surf, odds>>

-----------------------------------------------------------------------------
(* Sending *)

(* A frame of the watch with a screen that a recovery was scrolling. *)
ShowsScroll(f) == f.kind \in {"full", "delta"} /\ f.text = Scroll

(* A push is queued, or refused: the client's queue is full. *)
Push(frame) ==
  /\ downq' = Append(downq, frame)
  /\ odds' = [odds EXCEPT !.owed = (@ \cap {"overtaken"}) \cup (IF ShowsScroll(frame) THEN {"scroll"} ELSE {})]

Refuse ==
  /\ odds.trouble < MaxTrouble
  /\ odds' = [trouble |-> odds.trouble + 1, owed |-> odds.owed \cup {"refused"}]
  /\ UNCHANGED downq

(* Frames whose loss nobody notices. *)
Tell(frame) ==
  \/ downq' = Append(downq, frame) /\ UNCHANGED odds
  \/ Trouble /\ UNCHANGED downq

(* The emulator is rendered for a resync, which does not ask the recovery    *)
(* store, or shows a frame that came before the watch ever asked it: history. *)
Unasked == obs.ready /\ (obs.early \/ loop.why = "resync")

Plain(kind, text) == [kind |-> kind, text |-> text, agent |-> 0, base |-> None, unasked |-> FALSE]
Delta(text, agent, base) ==
  [kind |-> "delta", text |-> text, agent |-> agent, base |-> base,
   unasked |-> text = Scroll /\ Unasked]
Full(text, agent) == [Delta(text, agent, None) EXCEPT !.kind = "full"]
GoneFrame == Plain("error", None)

Gated(l, text, agent) ==
  [l EXCEPT !.sent = text, !.sent_agent = agent, !.pending = TRUE, !.force = FALSE]
Ungated(l) == [l EXCEPT !.pending = FALSE]

(* send_gone: one terminal frame per death. *)
send_gone(l) ==
  IF l.gone
    THEN loop' = l /\ UNCHANGED <<downq, odds>>
    ELSE /\ loop' = Ungated([l EXCEPT !.gone = TRUE])
         /\ \/ downq' = Append(downq, GoneFrame) /\ odds' = [odds EXCEPT !.owed = @ \cup {"death"}]
            \/ Refuse

Candidates(l, text, agent) ==
  IF l.force \/ l.sent = None THEN {Full(text, agent)}
    ELSE IF text = l.sent THEN {Delta(text, agent, l.sent)}
    ELSE {Delta(text, agent, l.sent), Full(text, agent)}

(* send_frame: nothing for a frame the phone has, a delta where it pays,     *)
(* else the full frame.  A refused push leaves the watch as it was.          *)
send_frame(l, text, agent) ==
  IF ~l.force /\ l.sent = text /\ l.sent_agent = agent
    THEN loop' = [l EXCEPT !.acked = text] /\ UNCHANGED <<downq, odds>>
    ELSE \/ \E frame \in Candidates(l, text, agent) :
              Push(frame) /\ loop' = Gated(l, text, agent)
         \/ Refuse /\ loop' = l

-----------------------------------------------------------------------------
(* The watch task.  A step ends where the task waits for a read. *)

NoObserver == [on |-> FALSE, ready |-> FALSE, shows |-> None, dirty |-> FALSE,
               failed |-> FALSE, app |-> 0, resume |-> FALSE, early |-> FALSE]

Spawned(ok) == [NoObserver EXCEPT !.on = ok, !.failed = ~ok]

NoRead == [gen |-> 0, crev |-> 0, agent |-> 0, version |-> None, probe |-> None]
Idle(l) == [l EXCEPT !.at = "idle", !.why = "nothing", !.cap = NoRead]

(* What a read is checked against when it returns. *)
Captured(version, probe) ==
  [gen |-> scr.gen, crev |-> scr.crev, agent |-> scr.agent, version |-> version, probe |-> probe]

(* read_watch_frame up to its read; a pane under recovery is tried later. *)
BeginRead(l, why, probe) ==
  IF read_version = None THEN Idle(l)
    ELSE [l EXCEPT !.at = "read", !.why = why,
                   !.cap = Captured(read_version, probe)]

At(place) == loop.on /\ loop.at = place

FirstRead ==
  /\ At("start")
  /\ loop' = BeginRead(loop, "first", None)
  /\ UNCHANGED <<scr, hist, obs, reader, ctl, upq, downq, surf, odds>>

(* refresh_application_history, then the decision to render.  s is the slot. *)
Restarts(s) == s.app # Entry.version /\ (s.app # 0 \/ Entry.rows)

try_poll_stream(l, s) ==
  IF l.pending \/ ~s.ready
    THEN loop' = Idle(l) /\ obs' = s /\ UNCHANGED <<hist, odds>>
    ELSE \/ /\ Due(Entry)
            /\ Trouble
            /\ hist' = Reserved(Entry)
            /\ obs' = [s EXCEPT !.app = Entry.version]
            /\ loop' = Idle(l)
         \/ /\ hist' = Entry
            /\ UNCHANGED odds
            /\ IF Entry.busy
                 THEN obs' = [s EXCEPT !.app = Entry.version] /\ loop' = Idle(l)
               ELSE IF Restarts(s)
                 THEN /\ loop' = Idle(l)
                      /\ \/ obs' = [s EXCEPT !.app = Entry.version, !.resume = TRUE,
                                             !.ready = FALSE, !.shows = None]
                         \/ obs' = [NoObserver EXCEPT !.failed = TRUE, !.app = Entry.version]
               ELSE /\ obs' = [s EXCEPT !.app = Entry.version]
                    /\ loop' = IF s.dirty \/ (l.sent # None /\ l.sent_agent # scr.agent)
                                 THEN BeginRead(l, "stream", None) ELSE Idle(l)

(* A tick, or an invalidation past next_read: poll. *)
Poll ==
  /\ At("idle") /\ ~loop.pending
  /\ IF obs.resume /\ obs.on
       THEN UNCHANGED <<loop, obs, hist, odds>>
     ELSE IF obs.ready THEN try_poll_stream(loop, obs)
     ELSE /\ loop' = [loop EXCEPT !.at = "probe", !.why = "poll", !.cap = Captured(None, None)]
          /\ UNCHANGED <<obs, hist, odds>>
  /\ UNCHANGED <<scr, reader, ctl, upq, downq, surf>>

(* sync_stream_geometry: the pane's grid drifted and its observer is replaced *)
(* before the poll goes on.                                                  *)
sync_stream_geometry ==
  /\ At("idle") /\ ~loop.pending /\ obs.on
  /\ Trouble
  /\ \E ok \in BOOLEAN : obs' = [Spawned(ok) EXCEPT !.app = obs.app, !.resume = obs.resume]
  /\ UNCHANGED <<scr, hist, loop, reader, ctl, upq, downq, surf>>

(* Mutation: a row that was only reclassified is not read again. *)
needs_read_screen_only(probe) == loop.probe # probe \/ Revision > loop.served

needs_read(probe) ==
  \/ loop.probe # probe
  \/ loop.sent # None /\ loop.sent_agent # scr.agent
  \/ Revision > loop.served

(* The probe returned: dead, refused, or the visible screen. *)
Probed ==
  /\ At("probe")
  /\ \/ ~scr.alive /\ send_gone(Idle(loop)) /\ UNCHANGED obs
     \/ loop' = Idle(loop) /\ UNCHANGED <<obs, downq, odds>>
     \/ /\ scr.alive
        /\ IF loop.gone /\ ~obs.failed /\ ~obs.on
             THEN \E ok \in BOOLEAN : obs' = [Spawned(ok) EXCEPT !.app = obs.app]
             ELSE UNCHANGED obs
        /\ LET l == [loop EXCEPT !.gone = FALSE] IN
           IF loop.cap.gen # scr.gen \/ loop.cap.crev # scr.crev
             THEN loop' = Idle(l)
             ELSE \E probe \in Visible :
                    loop' = IF needs_read(probe)
                              THEN BeginRead([l EXCEPT !.served = Revision], "poll", probe)
                              ELSE Idle([l EXCEPT !.served = Revision])
        /\ UNCHANGED <<downq, odds>>
  /\ UNCHANGED <<scr, hist, reader, ctl, upq, surf>>

(* Mutation: a frame is sent although a recovery went on under its read. *)
fenced_without_history(cap) == cap.gen = scr.gen /\ cap.crev = scr.crev

(* The row and the recovery store are where they were before the read. *)
Fenced(cap) ==
  cap.gen = scr.gen /\ cap.crev = scr.crev /\ read_version = cap.version

(* A frame that was read.  The first one may be what the phone already has. *)
FrameRead(text) ==
  LET l == [Idle(loop) EXCEPT !.gone = FALSE,
                              !.served = IF obs.ready THEN @ ELSE Revision,
                              !.probe = IF loop.why = "poll" THEN loop.cap.probe ELSE @]
  IN  IF loop.why = "first" /\ loop.known = text
        THEN \/ Push(Delta(text, loop.cap.agent, text)) /\ loop' = Gated(l, text, loop.cap.agent)
             \/ Refuse /\ loop' = l
        ELSE send_frame(l, text, loop.cap.agent)

ReadDone ==
  /\ At("read")
  /\ \/ /\ ~obs.ready /\ ~scr.alive /\ UNCHANGED obs
        /\ IF loop.why = "stream" THEN loop' = Idle(loop) /\ UNCHANGED <<downq, odds>>
             ELSE send_gone(Idle(loop))
     \/ /\ (~obs.ready \/ ~Fenced(loop.cap))
        /\ loop' = Idle(loop) /\ UNCHANGED <<obs, downq, odds>>
     \/ /\ Fenced(loop.cap) /\ (obs.ready \/ scr.alive)
        /\ \E text \in IF obs.ready THEN {obs.shows} ELSE Visible : FrameRead(text)
        /\ obs' = IF loop.why = "stream" THEN [obs EXCEPT !.dirty = FALSE] ELSE obs
  /\ UNCHANGED <<scr, hist, reader, ctl, upq, surf>>

(* pane_applied: the pending frame, the last one again, or a foreign one. *)
Acked(text) ==
  IF loop.pending /\ text = loop.sent
    THEN /\ try_poll_stream(Ungated([loop EXCEPT !.acked = text]), obs)
         /\ UNCHANGED downq
    ELSE /\ UNCHANGED <<loop, obs, hist>>
         /\ IF text = loop.acked THEN UNCHANGED <<downq, odds>> ELSE Tell(Plain("resync", None))

Rebuild(l) == [Ungated(l) EXCEPT !.acked = None, !.probe = None, !.force = TRUE]

Control ==
  /\ At("idle") /\ ctl # <<>>
  /\ IF Head(ctl).kind = "applied" THEN Acked(Head(ctl).text)
       ELSE /\ loop' = BeginRead(Rebuild(loop), "resync", None)
            /\ UNCHANGED <<obs, hist, downq, odds>>
  /\ ctl' = Tail(ctl)
  /\ UNCHANGED <<scr, reader, upq, surf>>

(* ACK_TIMEOUT *)
AckTimesOut ==
  /\ At("idle") /\ ctl = <<>> /\ loop.pending
  /\ Trouble
  /\ loop' = Rebuild(loop)
  /\ UNCHANGED <<scr, hist, obs, reader, ctl, upq, downq, surf>>

(* A terminal frame was applied to the emulator. *)
StreamUpdated ==
  /\ At("idle") /\ ctl = <<>> /\ obs.on /\ scr.alive
  /\ \E text \in Visible :
       /\ obs.shows # text
       /\ try_poll_stream(loop, [obs EXCEPT !.ready = TRUE, !.shows = text, !.dirty = TRUE,
                                            !.resume = FALSE,
                                            !.early = obs.app = 0 /\ loop.pending])
  /\ UNCHANGED <<scr, reader, ctl, upq, downq, surf>>

StreamClosed ==
  /\ At("idle") /\ ctl = <<>> /\ obs.on /\ ~scr.alive
  /\ obs' = [obs EXCEPT !.on = FALSE, !.ready = FALSE, !.shows = None]
  /\ send_gone(loop)
  /\ UNCHANGED <<scr, hist, reader, ctl, upq, surf>>

StreamEnded ==
  /\ At("idle") /\ ctl = <<>> /\ obs.on
  /\ Trouble
  /\ obs' = [obs EXCEPT !.on = FALSE, !.ready = FALSE, !.shows = None, !.failed = TRUE]
  /\ loop' = [loop EXCEPT !.probe = None]
  /\ UNCHANGED <<scr, hist, reader, ctl, upq, downq, surf>>

Watch ==
  \/ FirstRead \/ sync_stream_geometry \/ Poll \/ Probed \/ ReadDone \/ Control \/ AckTimesOut
  \/ StreamUpdated \/ StreamClosed \/ StreamEnded

-----------------------------------------------------------------------------
(* Routing of the phone's messages *)

NoWatch ==
  [on |-> FALSE, at |-> "idle", why |-> "nothing", known |-> None, sent |-> None, sent_agent |-> 0,
   probe |-> None, acked |-> None, pending |-> FALSE, force |-> FALSE, served |-> 0,
   gone |-> FALSE, cap |-> NoRead]

Stopped == loop' = NoWatch /\ ctl' = <<>> /\ obs' = NoObserver

(* watch_pane replaces the pane's watch; read_pane and unwatch_pane stop it. *)
Route ==
  /\ upq # <<>>
  /\ upq' = Tail(upq)
  /\ LET m == Head(upq) IN
     CASE m.kind \in {"applied", "resync"} ->
            /\ ctl' = IF loop.on /\ Len(ctl) < CtlQueue THEN Append(ctl, m) ELSE ctl
            /\ UNCHANGED <<loop, obs, reader>>
       [] m.kind = "watch" ->
            /\ loop' = [NoWatch EXCEPT !.on = TRUE, !.at = "start", !.known = m.text]
            /\ ctl' = <<>>
            /\ \E ok \in BOOLEAN : obs' = Spawned(ok)
            /\ UNCHANGED reader
       [] m.kind = "read" ->
            /\ Stopped
            /\ reader' = Append(reader, [known |-> m.text, gen |-> scr.gen, crev |-> scr.crev])
       [] m.kind = "unwatch" -> Stopped /\ UNCHANGED reader
  /\ UNCHANGED <<scr, hist, downq, surf, odds>>

(* The task of a read_pane answers; push_later drops what finds no room. *)
ReadPaneDone ==
  /\ reader # <<>>
  /\ LET r == Head(reader)
         fails == r.gen # scr.gen \/ r.crev # scr.crev
     IN  \/ (fails \/ ~scr.alive) /\ Tell(Plain("error", None))
         \/ /\ ~fails /\ scr.alive
            /\ \E text \in Visible :
                 Tell(IF text = r.known THEN Plain("unchanged", text)
                        ELSE [Plain("content", text) EXCEPT !.agent = scr.agent])
  /\ reader' = Tail(reader)
  /\ UNCHANGED <<scr, hist, loop, obs, ctl, upq, surf>>

-----------------------------------------------------------------------------
(* The phone *)

Up(kind, text) == [kind |-> kind, text |-> text]

(* startWatch: once, with a fingerprint, and not while a read is out. *)
CanStart(s) == s.watching /\ ~s.started /\ s.fp # None /\ ~s.reading
startWatch(s, first) ==
  IF CanStart(s)
    THEN surf' = [s EXCEPT !.started = TRUE] /\ upq' = upq \o first \o <<Up("watch", s.fp)>>
    ELSE surf' = s /\ upq' = upq \o first

forceRead(s) ==
  IF ~s.watching THEN surf' = s /\ UNCHANGED upq
    ELSE /\ surf' = [s EXCEPT !.started = FALSE, !.reading = TRUE]
         /\ upq' = Append(upq, Up("read", None))

(* Answers of read_pane that are still to come. *)
Answers == reader # <<>> \/ (\E i \in 1..Len(upq) : upq[i].kind = "read")
             \/ (\E i \in 2..Len(downq) : downq[i].kind \in {"content", "error", "unchanged"})

Shown(f) == [surf EXCEPT !.fp = f.text, !.content = f.text, !.agent = f.agent]

Receive ==
  /\ downq # <<>>
  /\ downq' = Tail(downq)
  /\ LET f == Head(downq)
         ack == IF surf.watching THEN <<Up("applied", f.text)>> ELSE <<>>
     IN /\ CASE f.kind = "full" -> startWatch([Shown(f) EXCEPT !.reading = FALSE], ack)
           [] f.kind = "content" -> startWatch([Shown(f) EXCEPT !.reading = FALSE], <<>>)
           [] f.kind = "error" ->
                startWatch([surf EXCEPT !.content = Blank, !.reading = FALSE], <<>>)
           [] f.kind = "unchanged" ->
                startWatch([surf EXCEPT !.fp = f.text, !.reading = FALSE], <<>>)
           [] f.kind = "resync" -> forceRead(surf)
           [] f.kind = "delta" ->
                IF surf.fp = f.base /\ surf.content = f.base
                  THEN surf' = Shown(f) /\ upq' = upq \o ack
                  ELSE forceRead(surf)
        /\ odds' = IF f.kind \notin {"full", "delta"} THEN odds
             ELSE [odds EXCEPT !.owed = IF Answers THEN @ \cup {"overtaken"} ELSE @ \ {"overtaken"}]
  /\ UNCHANGED <<scr, hist, loop, obs, reader, ctl>>

(* The user asks for a fresh read, or leaves; other clients may send the     *)
(* resync control.                                                           *)
UserActs ==
  /\ surf.watching /\ upq = <<>>
  /\ Trouble
  /\ \/ /\ ~surf.reading
        /\ surf' = [surf EXCEPT !.started = FALSE, !.reading = TRUE]
        /\ upq' = <<Up("read", surf.fp)>>
     \/ /\ UNCHANGED surf
        /\ upq' = <<Up("resync", None)>>
     \/ /\ surf' = [surf EXCEPT !.watching = FALSE, !.started = FALSE, !.fp = None,
                               !.content = None, !.reading = FALSE]
        /\ upq' = <<Up("unwatch", None)>>
  /\ UNCHANGED <<scr, hist, loop, obs, reader, ctl, downq>>

-----------------------------------------------------------------------------
(* openPane: watching, no frame yet, the first read under way. *)
Init ==
  /\ scr \in [out : {0}, alive : {TRUE}, gen : {0}, crev : {0}, agent : {0}, counts : BOOLEAN]
  /\ hist = [version |-> 0, busy |-> FALSE, epoch |-> <<0, 0>>, complete |-> FALSE,
             rows |-> FALSE]
  /\ loop = NoWatch
  /\ obs = [on |-> FALSE, ready |-> FALSE, shows |-> None, dirty |-> FALSE,
            failed |-> FALSE, app |-> 0, resume |-> FALSE, early |-> FALSE]
  /\ reader = <<>> /\ ctl = <<>> /\ downq = <<>>
  /\ upq = <<Up("read", None)>>
  /\ surf = [fp |-> None, content |-> None, agent |-> 0, watching |-> TRUE, started |-> FALSE,
             reading |-> TRUE]
  /\ odds = [trouble |-> 0, owed |-> {}]

Next ==
  \/ Output \/ RowCommit \/ Respawn \/ OtherReserves \/ Finish
  \/ Watch \/ Route \/ ReadPaneDone \/ Receive \/ UserActs

Spec == Init /\ [][Next]_watchVars

-----------------------------------------------------------------------------
(* Properties *)

TypeOK ==
  /\ loop.at \in {"start", "idle", "probe", "read"}
  /\ loop.at = "read" => loop.cap.version # None
  /\ obs.ready => obs.on
  /\ Len(ctl) <= CtlQueue
  /\ loop.pending => loop.sent # None
  /\ surf.started => surf.fp # None

InFlight == upq # <<>> \/ downq # <<>> \/ ctl # <<>> \/ reader # <<>>

(* The next tick of the watch finds nothing to do: the emulator has every    *)
(* frame and was rendered, or the probe shows what it showed last.           *)
TickFindsNothing ==
  /\ At("idle") /\ ~loop.pending /\ ~InFlight
  /\ scr.alive /\ ~loop.gone /\ read_version # None
  /\ IF obs.on
       THEN obs.ready /\ ~obs.resume /\ obs.shows = Text /\ ~obs.dirty
              /\ loop.sent_agent = scr.agent /\ obs.app = Entry.version
       ELSE ~needs_read(Text)

Rendered == surf.content = Text /\ surf.fp = Text /\ surf.agent = scr.agent

(* The screen came back to what the last probe had seen, after a frame of     *)
(* another screen was read behind that probe: the fingerprint vouches for it. *)
Recurred == ~obs.on /\ loop.probe = Text /\ loop.sent # Text

(* A watch that has nothing left to do has shown the phone the screen and    *)
(* its classification, whatever was late, foreign or read in between.  What  *)
(* leaves a phone on another screen is one of five: a push was refused, the  *)
(* phone was told of a death the pane survived, an observer's emulator held  *)
(* a scrolled screen, a frame of a watch passed a read's answer, or the      *)
(* screen came back to the fingerprint that is kept of it.                   *)
NothingMissed ==
  TickFindsNothing /\ surf.watching /\ odds.owed = {} /\ ~Recurred => Rendered

(* What ClientSink promises: a push that was refused costs the client its    *)
(* connection, so that no phone is left on an old screen.                    *)
RefusedIsNotice ==
  TickFindsNothing /\ surf.watching /\ odds.owed \subseteq {"refused"} => Rendered

(* The fences of a read, the gate on a pane under recovery and the restart   *)
(* of observers keep what a recovery scrolled past out of every frame, but   *)
(* for an emulator that is rendered unasked.                                 *)
ScrollFenced == \A i \in 1..Len(downq) : ShowsScroll(downq[i]) => downq[i].unasked

(* What refresh_application_history's comment says: every watcher is gated   *)
(* while the scroll frames arrive and every observer restarts afterwards.    *)
ScrollUnseen == \A i \in 1..Len(downq) : ~ShowsScroll(downq[i])
=============================================================================
