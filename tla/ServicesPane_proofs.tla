-------------------------- MODULE ServicesPane_proofs --------------------------
(***************************************************************************)
(* Proofs about the watch of a pane, as the services run it: what a         *)
(* recovery of the application's history scrolled past is in no frame the   *)
(* watch sends, but for an emulator that is rendered unasked.               *)
(*                                                                          *)
(* A read is fenced by the version of the recovery store, but an emulator   *)
(* that was fed during a recovery still shows it when the recovery is over. *)
(* What keeps such a screen back is that the version the watch last asked   *)
(* for is then behind the store's, so that the observer is restarted before *)
(* it is rendered.                                                          *)
(***************************************************************************)
EXTENDS ServicesPane, Integers, Sequences, TLAPS

-----------------------------------------------------------------------------
(* Types *)

Messages == [kind : {"applied", "resync", "watch", "read", "unwatch"}, text : Int]
Frames ==
  [kind : {"full", "delta", "content", "error", "unchanged", "resync"}, text : Int, agent : Int, base : Int,
   unasked : BOOLEAN]
Reasons == {"nothing", "first", "poll", "stream", "resync"}
Captures == [gen : Nat, crev : Nat, agent : Int, version : Int, probe : Int]
Observers ==
  [on : BOOLEAN, ready : BOOLEAN, shows : Int, dirty : BOOLEAN, failed : BOOLEAN, app : Nat, resume : BOOLEAN,
   early : BOOLEAN]
Epochs == Nat \X Nat
Histories == [version : Nat, busy : BOOLEAN, epoch : Epochs, complete : BOOLEAN, rows : BOOLEAN]
Loops ==
  [on : BOOLEAN, at : {"start", "idle", "probe", "read"}, why : Reasons, known : Int, sent : Int,
   sent_agent : Int, probe : Int, acked : Int, pending : BOOLEAN, force : BOOLEAN, served : Nat,
   gone : BOOLEAN, cap : Captures]
Panes == [out : Nat, alive : BOOLEAN, gen : Nat, crev : Nat, agent : Int, counts : BOOLEAN]
Readers == [known : Int, gen : Nat, crev : Nat]
Surfaces == [fp : Int, content : Int, agent : Int, watching : BOOLEAN, started : BOOLEAN, reading : BOOLEAN]
Odds == [trouble : Nat, owed : SUBSET {"refused", "death", "scroll", "overtaken"}]

WatchTypes ==
  /\ scr \in Panes
  /\ hist \in Histories
  /\ loop \in Loops
  /\ obs \in Observers
  /\ reader \in Seq(Readers)
  /\ ctl \in Seq(Messages) /\ upq \in Seq(Messages) /\ downq \in Seq(Frames)
  /\ surf \in Surfaces
  /\ odds \in Odds

-----------------------------------------------------------------------------
(* The invariant *)

(* A recovery has an entry, and no observer has asked of a later version. *)
EntryThere == (hist.busy => hist.version # 0) /\ obs.app <= hist.version

(* What an emulator shows of a recovery is of one the watch has to hear of:  *)
(* one that runs, or one that has moved the version on.                      *)
ScrollIsOld ==
  obs.ready /\ obs.shows = PW!Scroll /\ ~obs.early =>
    obs.app # 0 /\ (hist.busy \/ obs.app < hist.version)

(* The emulator is not rendered for a read that found none. *)
NotReady ==
  loop.at \in {"start", "probe"} \/ (loop.at = "read" /\ loop.why \in {"first", "poll"}) => ~obs.ready

(* A read is under way from a version, and one of the stream's of no scroll. *)
ReadsFenced ==
  loop.at = "read" =>
    /\ loop.cap.version # PW!None
    /\ loop.why # "nothing"
    /\ loop.why = "stream" /\ obs.ready /\ obs.shows = PW!Scroll => obs.early

WatchInv == WatchTypes /\ EntryThere /\ ScrollIsOld /\ NotReady /\ ReadsFenced /\ PW!ScrollFenced

-----------------------------------------------------------------------------
(* Constructors *)

LEMMA SentinelsApart ==
  ASSUME WatchTypes
  PROVE  /\ PW!Text \in Nat /\ PW!Text # PW!Scroll /\ PW!Revision \in Nat
         /\ PW!None \in Int /\ PW!Scroll \in Int /\ PW!Blank \in Int
         /\ \A text \in PW!Visible : text \in Int /\ (text = PW!Scroll => hist.busy)
<1>1. PW!Text \in Nat
  BY PeriodAssumption DEF WatchTypes, Panes, PW!Text
<1>2. PW!None \in Int /\ PW!Scroll \in Int /\ PW!Blank \in Int /\ PW!Scroll < 0
  BY DEF PW!None, PW!Scroll, PW!Blank
<1>3. PW!Revision \in Nat
  BY DEF WatchTypes, Panes, PW!Revision
<1>4. \A text \in PW!Visible : text \in Int /\ (text = PW!Scroll => hist.busy)
  BY <1>1, <1>2 DEF PW!Visible, WatchTypes, Histories
<1> QED BY <1>1, <1>2, <1>3, <1>4

LEMMA IdleIs ==
  ASSUME NEW l \in Loops
  PROVE  PW!Idle(l) \in Loops /\ PW!Idle(l).at = "idle" /\ PW!Idle(l).why = "nothing"
<1>1. PW!NoRead \in Captures
  BY DEF PW!NoRead, Captures, PW!None
<1> QED BY <1>1 DEF PW!Idle, Loops, Reasons

LEMMA BeginReadIs ==
  ASSUME WatchTypes, NEW l \in Loops, NEW reason \in Reasons \ {"nothing"}, NEW probe \in Int
  PROVE  /\ PW!BeginRead(l, reason, probe) \in Loops
         /\ \/ PW!BeginRead(l, reason, probe).at = "idle"
            \/ /\ PW!BeginRead(l, reason, probe).at = "read" /\ PW!BeginRead(l, reason, probe).why = reason
               /\ PW!BeginRead(l, reason, probe).cap.version # PW!None
<1>1. CASE PW!read_version = PW!None
  BY <1>1, IdleIs DEF PW!BeginRead
<1>2. CASE PW!read_version # PW!None
  <2> DEFINE c == PW!Captured(PW!read_version, probe)
  <2>1. PW!read_version \in Int
    BY DEF PW!read_version, PW!None, WatchTypes, Histories
  <2>2. c \in Captures /\ c.version = PW!read_version
    BY <2>1 DEF PW!Captured, Captures, WatchTypes, Panes
  <2>3. PW!BeginRead(l, reason, probe) = [l EXCEPT !.at = "read", !.why = reason, !.cap = c]
    BY <1>2 DEF PW!BeginRead
  <2> HIDE DEF c
  <2> QED BY <1>2, <2>2, <2>3 DEF Loops
<1> QED BY <1>1, <1>2

LEMMA LoopsType ==
  ASSUME NEW l \in Loops, NEW text \in Int, NEW reading \in Int
  PROVE  /\ PW!Ungated(l) \in Loops /\ PW!Ungated(l).at = l.at /\ ~PW!Ungated(l).pending
         /\ PW!Gated(l, text, reading) \in Loops /\ PW!Gated(l, text, reading).at = l.at
         /\ PW!Rebuild(l) \in Loops /\ PW!Rebuild(l).at = l.at
         /\ [l EXCEPT !.acked = text] \in Loops /\ [l EXCEPT !.acked = text].at = l.at
         /\ [l EXCEPT !.gone = TRUE] \in Loops /\ [l EXCEPT !.gone = TRUE].at = l.at
         /\ [l EXCEPT !.gone = FALSE] \in Loops
         /\ [l EXCEPT !.probe = text] \in Loops /\ [l EXCEPT !.probe = text].at = l.at
<1>1. PW!Ungated(l) \in Loops /\ PW!Ungated(l).at = l.at /\ ~PW!Ungated(l).pending
  BY DEF Loops, PW!Ungated
<1>2. PW!Gated(l, text, reading) \in Loops /\ PW!Gated(l, text, reading).at = l.at
  BY DEF Loops, PW!Gated
<1>3. PW!Rebuild(l) \in Loops /\ PW!Rebuild(l).at = l.at
  <2> DEFINE u == PW!Ungated(l)
  <2>1. u \in Loops /\ u.at = l.at
    BY <1>1
  <2> HIDE DEF u
  <2>2. PW!None \in Int
    BY DEF PW!None
  <2>3. LET r == [u EXCEPT !.acked = PW!None, !.probe = PW!None, !.force = TRUE]
        IN  r \in Loops /\ r.at = l.at
    BY <2>1, <2>2 DEF Loops
  <2> QED BY <2>3 DEF PW!Rebuild, u
<1>4. /\ [l EXCEPT !.acked = text] \in Loops /\ [l EXCEPT !.acked = text].at = l.at
      /\ [l EXCEPT !.probe = text] \in Loops /\ [l EXCEPT !.probe = text].at = l.at
  BY DEF Loops
<1>5. /\ [l EXCEPT !.gone = TRUE] \in Loops /\ [l EXCEPT !.gone = TRUE].at = l.at
      /\ [l EXCEPT !.gone = FALSE] \in Loops
  BY DEF Loops
<1> QED BY <1>1, <1>2, <1>3, <1>4, <1>5

LEMMA EntryIs ==
  ASSUME WatchTypes, EntryThere
  PROVE  /\ PW!Entry \in Histories /\ PW!Entry.busy = hist.busy /\ PW!Entry.version # 0
         /\ PW!Entry.version >= hist.version /\ (hist.version # 0 => PW!Entry.version = hist.version)
         /\ PW!Reserved(PW!Entry) \in Histories /\ PW!Reserved(PW!Entry).busy
         /\ PW!Reserved(PW!Entry).version = PW!Entry.version
<1>1. PW!Epoch \in Epochs
  BY DEF PW!Epoch, WatchTypes, Panes, Epochs
<1>2. /\ PW!Entry \in Histories /\ PW!Entry.busy = hist.busy /\ PW!Entry.version # 0
      /\ PW!Entry.version >= hist.version /\ (hist.version # 0 => PW!Entry.version = hist.version)
  <2>1. hist \in Histories
    BY DEF WatchTypes
  <2>2. CASE hist.version = 0
    <3>1. PW!Entry = [hist EXCEPT !.version = 1, !.epoch = PW!Epoch]
      BY <2>2 DEF PW!Entry
    <3>2. PW!Entry \in Histories
      BY <1>1, <2>1, <3>1 DEF Histories
    <3>3. PW!Entry.version = 1 /\ PW!Entry.busy = hist.busy
      BY <2>1, <3>1 DEF Histories
    <3> QED BY <2>2, <3>2, <3>3
  <2>3. CASE hist.version # 0 /\ (hist.busy \/ hist.epoch = PW!Epoch)
    <3>1. PW!Entry = hist
      BY <2>3 DEF PW!Entry
    <3> QED BY <2>1, <2>3, <3>1 DEF Histories
  <2>4. CASE hist.version # 0 /\ ~(hist.busy \/ hist.epoch = PW!Epoch)
    <3> DEFINE rows == hist.rows /\ hist.epoch[1] = PW!Epoch[1]
    <3>1. PW!Entry = [hist EXCEPT !.epoch = PW!Epoch, !.complete = FALSE, !.rows = rows]
      BY <2>4 DEF PW!Entry
    <3>2. rows \in BOOLEAN
      BY <2>1 DEF Histories
    <3> HIDE DEF rows
    <3>3. PW!Entry \in Histories
      BY <1>1, <2>1, <3>1, <3>2 DEF Histories
    <3>4. PW!Entry.version = hist.version /\ PW!Entry.busy = hist.busy
      BY <2>1, <3>1 DEF Histories
    <3> QED BY <2>1, <2>4, <3>3, <3>4 DEF Histories
  <2> QED BY <2>2, <2>3, <2>4
<1> DEFINE e == PW!Entry
<1>3. e \in Histories
  BY <1>2
<1> HIDE DEF e
<1>4. PW!Reserved(e) \in Histories /\ PW!Reserved(e).busy /\ PW!Reserved(e).version = e.version
  BY <1>3 DEF PW!Reserved, Histories
<1> QED BY <1>2, <1>4 DEF e

LEMMA ObserversType ==
  ASSUME NEW app \in Nat, NEW resume \in BOOLEAN, NEW ok \in BOOLEAN
  PROVE  /\ PW!NoObserver \in Observers /\ PW!NoObserver.app = 0 /\ ~PW!NoObserver.ready
         /\ PW!Spawned(ok) \in Observers /\ PW!Spawned(ok).app = 0 /\ ~PW!Spawned(ok).ready
         /\ [PW!Spawned(ok) EXCEPT !.app = app] \in Observers
         /\ [PW!Spawned(ok) EXCEPT !.app = app].app = app /\ ~[PW!Spawned(ok) EXCEPT !.app = app].ready
         /\ [PW!Spawned(ok) EXCEPT !.app = app, !.resume = resume] \in Observers
         /\ [PW!Spawned(ok) EXCEPT !.app = app, !.resume = resume].app = app
         /\ ~[PW!Spawned(ok) EXCEPT !.app = app, !.resume = resume].ready
<1>1. PW!NoObserver \in Observers /\ PW!NoObserver.app = 0 /\ PW!NoObserver.ready = FALSE
  BY DEF PW!NoObserver, Observers, PW!None
<1> DEFINE n == PW!NoObserver
<1>2. n \in Observers /\ n.app = 0 /\ n.ready = FALSE
  BY <1>1
<1> HIDE DEF n
<1> DEFINE s == [n EXCEPT !.on = ok, !.failed = ~ok]
<1>3. s \in Observers /\ s.app = 0 /\ s.ready = FALSE
  BY <1>2 DEF Observers
<1>4. PW!Spawned(ok) = s
  BY DEF PW!Spawned, n
<1> HIDE DEF s
<1>5. /\ [s EXCEPT !.app = app] \in Observers
      /\ [s EXCEPT !.app = app].app = app /\ [s EXCEPT !.app = app].ready = FALSE
      /\ [s EXCEPT !.app = app, !.resume = resume] \in Observers
      /\ [s EXCEPT !.app = app, !.resume = resume].app = app
      /\ [s EXCEPT !.app = app, !.resume = resume].ready = FALSE
  BY <1>3 DEF Observers
<1> QED BY <1>1, <1>3, <1>4, <1>5

LEMMA TroubleType ==
  ASSUME odds \in Odds, PW!Trouble
  PROVE  odds' \in Odds
BY DEF PW!Trouble, Odds

-----------------------------------------------------------------------------
(* Frames *)

LEMMA AppendFenced ==
  ASSUME WatchTypes, PW!ScrollFenced, NEW f \in Frames, PW!ShowsScroll(f) => f.unasked,
         downq' = Append(downq, f)
  PROVE  downq' \in Seq(Frames) /\ PW!ScrollFenced'
<1>1. downq \in Seq(Frames)
  BY DEF WatchTypes
<1>2. downq' \in Seq(Frames) /\ Len(downq') = Len(downq) + 1
  BY <1>1
<1>3. \A i \in 1..Len(downq') : downq'[i] = f \/ (i \in 1..Len(downq) /\ downq'[i] = downq[i])
  BY <1>1, <1>2
<1>4. \A i \in 1..Len(downq') : PW!ShowsScroll(downq'[i]) => downq'[i].unasked
  BY <1>3 DEF PW!ScrollFenced
<1> QED BY <1>2, <1>4 DEF PW!ScrollFenced, PW!ShowsScroll

LEMMA TailFenced ==
  ASSUME WatchTypes, PW!ScrollFenced, downq # <<>>, downq' = Tail(downq)
  PROVE  downq' \in Seq(Frames) /\ PW!ScrollFenced'
<1>1. downq \in Seq(Frames)
  BY DEF WatchTypes
<1>2. downq' \in Seq(Frames) /\ \A i \in 1..Len(downq') : i + 1 \in 1..Len(downq) /\ downq'[i] = downq[i + 1]
  BY <1>1
<1>3. \A i \in 1..Len(downq') : PW!ShowsScroll(downq'[i]) => downq'[i].unasked
  BY <1>2 DEF PW!ScrollFenced
<1> QED BY <1>2, <1>3 DEF PW!ScrollFenced, PW!ShowsScroll

LEMMA SameFenced ==
  ASSUME WatchTypes, PW!ScrollFenced, UNCHANGED downq
  PROVE  downq' \in Seq(Frames) /\ PW!ScrollFenced'
BY DEF WatchTypes, PW!ScrollFenced, PW!ShowsScroll

LEMMA PlainIs ==
  ASSUME NEW kind \in {"content", "error", "unchanged", "resync"}, NEW text \in Int, NEW reading \in Int
  PROVE  /\ PW!Plain(kind, text) \in Frames /\ ~PW!ShowsScroll(PW!Plain(kind, text))
         /\ [PW!Plain(kind, text) EXCEPT !.agent = reading] \in Frames
         /\ ~PW!ShowsScroll([PW!Plain(kind, text) EXCEPT !.agent = reading])
<1> DEFINE p == PW!Plain(kind, text)
<1>1. p = [kind |-> kind, text |-> text, agent |-> 0, base |-> PW!None, unasked |-> FALSE]
  BY DEF PW!Plain
<1>2. PW!None \in Int
  BY DEF PW!None
<1> HIDE DEF p
<1>3. p \in Frames /\ p.kind = kind
  BY <1>1, <1>2 DEF Frames
<1>4. [p EXCEPT !.agent = reading] \in Frames /\ [p EXCEPT !.agent = reading].kind = kind
  BY <1>3 DEF Frames
<1> QED BY <1>3, <1>4 DEF p, PW!ShowsScroll

LEMMA TellKeeps ==
  ASSUME WatchTypes, PW!ScrollFenced, NEW f \in Frames, ~PW!ShowsScroll(f), PW!Tell(f)
  PROVE  downq' \in Seq(Frames) /\ PW!ScrollFenced' /\ odds' \in Odds
<1>1. odds \in Odds
  BY DEF WatchTypes
<1> QED BY <1>1, AppendFenced, SameFenced, TroubleType DEF PW!Tell

LEMMA RefuseKeeps ==
  ASSUME WatchTypes, PW!ScrollFenced, PW!Refuse
  PROVE  downq' \in Seq(Frames) /\ PW!ScrollFenced' /\ odds' \in Odds
<1>1. odds' \in Odds
  BY DEF PW!Refuse, WatchTypes, Odds
<1> QED BY <1>1, SameFenced DEF PW!Refuse

LEMMA PushKeeps ==
  ASSUME WatchTypes, PW!ScrollFenced, NEW f \in Frames, PW!ShowsScroll(f) => f.unasked, PW!Push(f)
  PROVE  downq' \in Seq(Frames) /\ PW!ScrollFenced' /\ odds' \in Odds
<1>1. odds' \in Odds
  BY DEF PW!Push, WatchTypes, Odds
<1> QED BY <1>1, AppendFenced DEF PW!Push

(* A frame with a scrolled screen says that it was rendered unasked. *)
LEMMA ScreenFrameIs ==
  ASSUME WatchTypes, NEW text \in Int, NEW reading \in Int, NEW base \in Int, text = PW!Scroll => PW!Unasked
  PROVE  /\ PW!Delta(text, reading, base) \in Frames
         /\ PW!ShowsScroll(PW!Delta(text, reading, base)) => PW!Delta(text, reading, base).unasked
         /\ PW!Full(text, reading) \in Frames
         /\ PW!ShowsScroll(PW!Full(text, reading)) => PW!Full(text, reading).unasked
<1>1. PW!Unasked \in BOOLEAN
  BY DEF PW!Unasked, WatchTypes, Observers
<1> DEFINE u == text = PW!Scroll /\ PW!Unasked
           d(b) == [kind |-> "delta", text |-> text, agent |-> reading, base |-> b, unasked |-> u]
<1>2. u \in BOOLEAN /\ (text = PW!Scroll => u)
  BY <1>1
<1>3. \A b \in Int : PW!Delta(text, reading, b) = d(b)
  BY DEF PW!Delta
<1>4. PW!Full(text, reading) = [d(PW!None) EXCEPT !.kind = "full"] /\ PW!None \in Int
  BY DEF PW!Full, PW!Delta, PW!None
<1> HIDE DEF u
<1>5. \A b \in Int : d(b) \in Frames /\ d(b).unasked = u /\ d(b).text = text
  BY <1>2 DEF Frames
<1>6. /\ [d(PW!None) EXCEPT !.kind = "full"] \in Frames
      /\ [d(PW!None) EXCEPT !.kind = "full"].unasked = u
      /\ [d(PW!None) EXCEPT !.kind = "full"].text = text
  BY <1>2, <1>4 DEF Frames
<1> HIDE DEF d
<1> QED BY <1>2, <1>3, <1>4, <1>5, <1>6 DEF PW!ShowsScroll

LEMMA SendGoneKeeps ==
  ASSUME WatchTypes, PW!ScrollFenced, NEW l \in Loops, PW!send_gone(l)
  PROVE  /\ loop' \in Loops /\ loop'.at = l.at
         /\ downq' \in Seq(Frames) /\ PW!ScrollFenced' /\ odds' \in Odds
<1>1. CASE l.gone
  BY <1>1, SameFenced DEF PW!send_gone, WatchTypes
<1>2. CASE ~l.gone
  <2> DEFINE g == [l EXCEPT !.gone = TRUE]
  <2>1. g \in Loops /\ g.at = l.at
    BY DEF Loops
  <2>2. loop' = PW!Ungated(g)
    BY <1>2 DEF PW!send_gone
  <2>3. loop' \in Loops /\ loop'.at = l.at
    BY <2>1, <2>2 DEF Loops, PW!Ungated
  <2>4. PW!GoneFrame \in Frames /\ ~PW!ShowsScroll(PW!GoneFrame)
    <3>1. PW!None \in Int
      BY DEF PW!None
    <3> QED BY <3>1, PlainIs DEF PW!GoneFrame
  <2>5. CASE downq' = Append(downq, PW!GoneFrame) /\ odds' = [odds EXCEPT !.owed = @ \cup {"death"}]
    <3>1. odds' \in Odds
      BY <2>5 DEF WatchTypes, Odds
    <3> QED BY <2>3, <2>4, <2>5, <3>1, AppendFenced
  <2>6. CASE PW!Refuse
    BY <2>3, <2>6, RefuseKeeps
  <2> QED BY <1>2, <2>5, <2>6 DEF PW!send_gone
<1> QED BY <1>1, <1>2

LEMMA SendFrameKeeps ==
  ASSUME WatchTypes, PW!ScrollFenced, NEW l \in Loops, NEW text \in Int, NEW reading \in Int,
         text = PW!Scroll => PW!Unasked, PW!send_frame(l, text, reading)
  PROVE  /\ loop' \in Loops /\ loop'.at = l.at
         /\ downq' \in Seq(Frames) /\ PW!ScrollFenced' /\ odds' \in Odds
<1>1. CASE UNCHANGED <<downq, odds>> /\ loop' = [l EXCEPT !.acked = text]
  BY <1>1, SameFenced, LoopsType DEF WatchTypes
<1>2. ASSUME NEW f \in PW!Candidates(l, text, reading), PW!Push(f), loop' = PW!Gated(l, text, reading)
      PROVE  /\ loop' \in Loops /\ loop'.at = l.at
             /\ downq' \in Seq(Frames) /\ PW!ScrollFenced' /\ odds' \in Odds
  <2>1. f = PW!Full(text, reading) \/ f = PW!Delta(text, reading, l.sent)
    BY <1>2 DEF PW!Candidates
  <2>2. l.sent \in Int
    BY DEF Loops
  <2>3. f \in Frames /\ (PW!ShowsScroll(f) => f.unasked)
    BY <2>1, <2>2, ScreenFrameIs
  <2> QED BY <1>2, <2>3, PushKeeps, LoopsType
<1>3. CASE PW!Refuse /\ loop' = l
  BY <1>3, RefuseKeeps
<1> QED BY <1>1, <1>2, <1>3 DEF PW!send_frame

-----------------------------------------------------------------------------
(* Around the watch: the pane, the recovery store, routing and the phone *)

(* What leaves the store, the emulator, the task and the frames as they are. *)
LEMMA AsideKeeps ==
  ASSUME WatchInv, UNCHANGED <<hist, obs, loop, downq>>
  PROVE  EntryThere' /\ ScrollIsOld' /\ NotReady' /\ ReadsFenced' /\ PW!ScrollFenced'
BY DEF WatchInv, EntryThere, ScrollIsOld, NotReady, ReadsFenced, PW!ScrollFenced, PW!ShowsScroll

LEMMA PaneKeeps ==
  ASSUME WatchInv, PW!Output \/ PW!RowCommit \/ PW!Respawn
  PROVE  WatchInv'
<1>1. WatchTypes
  BY DEF WatchInv
<1>2. UNCHANGED <<hist, loop, obs, reader, ctl, upq, downq, surf>>
  BY DEF PW!Output, PW!RowCommit, PW!Respawn
<1>3. odds' \in Odds
  BY <1>1, TroubleType DEF PW!Output, PW!RowCommit, PW!Respawn, WatchTypes
<1>4. scr' \in Panes
  <2>1. scr \in Panes
    BY <1>1 DEF WatchTypes
  <2>2. \/ scr' = [scr EXCEPT !.out = @ + 1]
        \/ scr' = [scr EXCEPT !.crev = @ + 1, !.agent = 1 - @]
        \/ scr' = [scr EXCEPT !.gen = @ + 1]
        \/ scr' = [scr EXCEPT !.alive = FALSE, !.gen = @ + 1]
        \/ scr' = [scr EXCEPT !.alive = TRUE]
    BY DEF PW!Output, PW!RowCommit, PW!Respawn
  <2>3. scr.out + 1 \in Nat /\ scr.crev + 1 \in Nat /\ scr.gen + 1 \in Nat /\ 1 - scr.agent \in Int
    BY <2>1 DEF Panes
  <2>4. /\ [scr EXCEPT !.out = @ + 1] \in Panes
        /\ [scr EXCEPT !.gen = @ + 1] \in Panes
        /\ [scr EXCEPT !.alive = TRUE] \in Panes
    BY <2>1, <2>3 DEF Panes
  <2>5. [scr EXCEPT !.crev = @ + 1, !.agent = 1 - @] \in Panes
    BY <2>1, <2>3 DEF Panes
  <2>6. [scr EXCEPT !.alive = FALSE, !.gen = @ + 1] \in Panes
    BY <2>1, <2>3 DEF Panes
  <2> QED BY <2>2, <2>4, <2>5, <2>6
<1>5. WatchTypes'
  BY <1>1, <1>2, <1>3, <1>4 DEF WatchTypes
<1> QED BY <1>2, <1>5, AsideKeeps DEF WatchInv

LEMMA OtherReservesKeeps ==
  ASSUME WatchInv, PW!OtherReserves
  PROVE  WatchInv'
<1>1. WatchTypes /\ EntryThere
  BY DEF WatchInv
<1>2. UNCHANGED <<scr, loop, obs, reader, ctl, upq, downq, surf>> /\ hist' = PW!Reserved(PW!Entry)
  BY DEF PW!OtherReserves
<1>3. odds' \in Odds
  BY <1>1, TroubleType DEF PW!OtherReserves, WatchTypes
<1>4. /\ hist' \in Histories /\ hist'.busy /\ hist'.version # 0 /\ hist'.version >= hist.version
  BY <1>1, <1>2, EntryIs
<1>5. WatchTypes'
  BY <1>1, <1>2, <1>3, <1>4 DEF WatchTypes
<1>6. EntryThere' /\ ScrollIsOld'
  BY <1>1, <1>2, <1>4 DEF WatchInv, EntryThere, ScrollIsOld, WatchTypes, Histories, Observers
<1>7. NotReady' /\ ReadsFenced' /\ PW!ScrollFenced'
  BY <1>2 DEF WatchInv, NotReady, ReadsFenced, PW!ScrollFenced, PW!ShowsScroll
<1> QED BY <1>5, <1>6, <1>7 DEF WatchInv

(* The recovery is over, and with the version every emulator it fed is old. *)
LEMMA FinishKeeps ==
  ASSUME WatchInv, PW!Finish
  PROVE  WatchInv'
<1>1. WatchTypes /\ EntryThere
  BY DEF WatchInv
<1>2. UNCHANGED <<scr, loop, obs, reader, ctl, upq, downq, surf, odds>>
  BY DEF PW!Finish
<1>3. PICK recovered \in BOOLEAN :
        hist' = [hist EXCEPT !.busy = FALSE, !.version = @ + 1, !.rows = @ \/ recovered, !.complete = recovered]
  BY DEF PW!Finish
<1> DEFINE rows == hist.rows \/ recovered
<1>4. rows \in BOOLEAN
  OBVIOUS
<1>5. hist' = [hist EXCEPT !.busy = FALSE, !.version = hist.version + 1, !.rows = rows, !.complete = recovered]
  BY <1>3
<1> HIDE DEF rows
<1>6. hist' \in Histories /\ hist'.version = hist.version + 1 /\ ~hist'.busy
  <2>1. hist \in Histories
    BY <1>1 DEF WatchTypes
  <2>2. hist' \in Histories
    <3> DEFINE v == hist.version + 1
    <3>1. v \in Nat
      BY <2>1 DEF Histories
    <3>2. hist' = [hist EXCEPT !.busy = FALSE, !.version = v, !.rows = rows, !.complete = recovered]
      BY <1>5
    <3> HIDE DEF v
    <3> QED BY <1>4, <2>1, <3>1, <3>2 DEF Histories
  <2>3. hist'.version = hist.version + 1 /\ hist'.busy = FALSE
    BY <1>5, <2>1 DEF Histories
  <2> QED BY <2>2, <2>3
<1>7. WatchTypes'
  BY <1>1, <1>2, <1>6 DEF WatchTypes
<1>8. EntryThere' /\ ScrollIsOld'
  BY <1>1, <1>2, <1>6 DEF WatchInv, EntryThere, ScrollIsOld, WatchTypes, Histories, Observers
<1>9. NotReady' /\ ReadsFenced' /\ PW!ScrollFenced'
  BY <1>2 DEF WatchInv, NotReady, ReadsFenced, PW!ScrollFenced, PW!ShowsScroll
<1> QED BY <1>7, <1>8, <1>9 DEF WatchInv

LEMMA NoWatchIs ==
  ASSUME NEW text \in Int
  PROVE  /\ PW!NoWatch \in Loops /\ PW!NoWatch.at = "idle"
         /\ [PW!NoWatch EXCEPT !.on = TRUE, !.at = "start", !.known = text] \in Loops
         /\ [PW!NoWatch EXCEPT !.on = TRUE, !.at = "start", !.known = text].at = "start"
<1>1. PW!NoRead \in Captures /\ PW!None \in Int
  BY DEF PW!NoRead, Captures, PW!None
<1> DEFINE n == PW!NoWatch
<1>2. n \in Loops /\ n.at = "idle"
  BY <1>1 DEF PW!NoWatch, Loops, Reasons
<1> HIDE DEF n
<1>3. /\ [n EXCEPT !.on = TRUE, !.at = "start", !.known = text] \in Loops
      /\ [n EXCEPT !.on = TRUE, !.at = "start", !.known = text].at = "start"
  BY <1>2 DEF Loops
<1> QED BY <1>2, <1>3 DEF n

(* A watch that starts or stops has an emulator that shows nothing. *)
LEMMA FreshKeeps ==
  ASSUME WatchInv, UNCHANGED <<hist, downq>>, obs' \in Observers, obs'.app = 0, ~obs'.ready,
         loop'.at \in {"idle", "start"}
  PROVE  EntryThere' /\ ScrollIsOld' /\ NotReady' /\ ReadsFenced' /\ PW!ScrollFenced'
<1>1. hist.version \in Nat
  BY DEF WatchInv, WatchTypes, Histories
<1> QED BY <1>1 DEF WatchInv, EntryThere, ScrollIsOld, NotReady, ReadsFenced, PW!ScrollFenced, PW!ShowsScroll

LEMMA RouteKeeps ==
  ASSUME WatchInv, PW!Route
  PROVE  WatchInv'
<1>1. WatchTypes
  BY DEF WatchInv
<1> DEFINE m == Head(upq)
<1>2. m \in Messages /\ upq' \in Seq(Messages)
  BY <1>1 DEF PW!Route, WatchTypes
<1>3. UNCHANGED <<scr, hist, downq, surf, odds>>
  BY DEF PW!Route
<1>4. CASE m.kind \in {"applied", "resync"}
  <2>1. ctl' = (IF loop.on /\ Len(ctl) < CtlQueue THEN Append(ctl, m) ELSE ctl) /\ UNCHANGED <<loop, obs, reader>>
    BY <1>4 DEF PW!Route
  <2>2. ctl' \in Seq(Messages)
    BY <1>1, <1>2, <2>1 DEF WatchTypes
  <2>3. WatchTypes'
    BY <1>1, <1>2, <1>3, <2>1, <2>2 DEF WatchTypes
  <2> QED BY <1>3, <2>1, <2>3, AsideKeeps DEF WatchInv
<1>5. CASE m.kind = "watch"
  <2>1. /\ loop' = [PW!NoWatch EXCEPT !.on = TRUE, !.at = "start", !.known = m.text]
        /\ ctl' = <<>> /\ UNCHANGED reader /\ \E ok \in BOOLEAN : obs' = PW!Spawned(ok)
    BY <1>5 DEF PW!Route
  <2>2. m.text \in Int
    BY <1>2 DEF Messages
  <2>3. loop' \in Loops /\ loop'.at = "start"
    BY <2>1, <2>2, NoWatchIs
  <2>4. obs' \in Observers /\ obs'.app = 0 /\ ~obs'.ready
    BY <2>1, ObserversType
  <2>5. WatchTypes'
    BY <1>1, <1>2, <1>3, <2>1, <2>3, <2>4 DEF WatchTypes
  <2> QED BY <1>3, <2>3, <2>4, <2>5, FreshKeeps DEF WatchInv
<1>6. CASE m.kind \in {"read", "unwatch"}
  <2>1. PW!Stopped /\ (reader' = reader \/ reader' = Append(reader, [known |-> m.text, gen |-> scr.gen, crev |-> scr.crev]))
    BY <1>6 DEF PW!Route
  <2>2. m.text \in Int /\ scr.gen \in Nat /\ scr.crev \in Nat
    BY <1>1, <1>2 DEF Messages, WatchTypes, Panes
  <2>3. [known |-> m.text, gen |-> scr.gen, crev |-> scr.crev] \in Readers
    BY <2>2 DEF Readers
  <2>4. reader' \in Seq(Readers)
    <3> DEFINE e == [known |-> m.text, gen |-> scr.gen, crev |-> scr.crev]
    <3>1. reader \in Seq(Readers) /\ e \in Readers /\ (reader' = reader \/ reader' = Append(reader, e))
      BY <1>1, <2>1, <2>3 DEF WatchTypes
    <3> HIDE DEF e
    <3> QED BY <3>1
  <2>5. loop' \in Loops /\ loop'.at = "idle" /\ ctl' = <<>>
    BY <2>1, <2>2, NoWatchIs DEF PW!Stopped
  <2>6. obs' \in Observers /\ obs'.app = 0 /\ ~obs'.ready
    BY <2>1, ObserversType DEF PW!Stopped
  <2>7. WatchTypes'
    BY <1>1, <1>2, <1>3, <2>4, <2>5, <2>6 DEF WatchTypes
  <2> QED BY <1>3, <2>5, <2>6, <2>7, FreshKeeps DEF WatchInv
<1> QED BY <1>2, <1>4, <1>5, <1>6 DEF Messages

LEMMA ReadPaneKeeps ==
  ASSUME WatchInv, PW!ReadPaneDone
  PROVE  WatchInv'
<1>1. WatchTypes /\ PW!ScrollFenced
  BY DEF WatchInv
<1>2. reader' \in Seq(Readers) /\ UNCHANGED <<scr, hist, loop, obs, ctl, upq, surf>>
  BY <1>1 DEF PW!ReadPaneDone, WatchTypes
<1>3. PICK f \in Frames : ~PW!ShowsScroll(f) /\ PW!Tell(f)
  <2> DEFINE r == Head(reader)
             fails == r.gen # scr.gen \/ r.crev # scr.crev
  <2>1. scr.agent \in Int /\ PW!None \in Int
    BY <1>1 DEF WatchTypes, Panes, PW!None
  <2>2. CASE PW!Tell(PW!Plain("error", PW!None))
    BY <2>1, <2>2, PlainIs
  <2>3. ASSUME NEW text \in PW!Visible,
               PW!Tell(IF text = r.known THEN PW!Plain("unchanged", text)
                         ELSE [PW!Plain("content", text) EXCEPT !.agent = scr.agent])
        PROVE  \E f \in Frames : ~PW!ShowsScroll(f) /\ PW!Tell(f)
    <3>1. text \in Int
      BY <1>1, SentinelsApart
    <3>2. CASE text = r.known
      BY <2>1, <2>3, <3>1, <3>2, PlainIs
    <3>3. CASE text # r.known
      <4> DEFINE f == [PW!Plain("content", text) EXCEPT !.agent = scr.agent]
      <4>1. f \in Frames /\ ~PW!ShowsScroll(f)
        BY <2>1, <3>1, PlainIs
      <4>2. PW!Tell(f)
        BY <2>3, <3>3
      <4> HIDE DEF f
      <4> QED BY <4>1, <4>2
    <3> QED BY <3>2, <3>3
  <2> QED BY <2>2, <2>3 DEF PW!ReadPaneDone
<1>4. downq' \in Seq(Frames) /\ PW!ScrollFenced' /\ odds' \in Odds
  BY <1>1, <1>3, TellKeeps
<1>5. WatchTypes'
  BY <1>1, <1>2, <1>4 DEF WatchTypes
<1>6. EntryThere' /\ ScrollIsOld' /\ NotReady' /\ ReadsFenced'
  BY <1>2 DEF WatchInv, EntryThere, ScrollIsOld, NotReady, ReadsFenced
<1> QED BY <1>4, <1>5, <1>6 DEF WatchInv

LEMMA UpType ==
  ASSUME NEW kind \in {"applied", "resync", "watch", "read", "unwatch"}, NEW text \in Int
  PROVE  PW!Up(kind, text) \in Messages /\ <<PW!Up(kind, text)>> \in Seq(Messages)
<1>1. PW!Up(kind, text) \in Messages
  BY DEF PW!Up, Messages
<1> QED BY <1>1

LEMMA StartWatchType ==
  ASSUME WatchTypes, NEW s \in Surfaces, NEW first \in Seq(Messages), PW!startWatch(s, first)
  PROVE  surf' \in Surfaces /\ upq' \in Seq(Messages)
<1>1. upq \in Seq(Messages) /\ s.fp \in Int
  BY DEF WatchTypes, Surfaces
<1>2. CASE PW!CanStart(s)
  <2>1. surf' = [s EXCEPT !.started = TRUE] /\ upq' = upq \o first \o <<PW!Up("watch", s.fp)>>
    BY <1>2 DEF PW!startWatch
  <2>2. surf' \in Surfaces
    BY <2>1 DEF Surfaces
  <2>3. <<PW!Up("watch", s.fp)>> \in Seq(Messages)
    BY <1>1, UpType
  <2> QED BY <1>1, <2>1, <2>2, <2>3
<1>3. CASE ~PW!CanStart(s)
  <2>1. surf' = s /\ upq' = upq \o first
    BY <1>3 DEF PW!startWatch
  <2> QED BY <1>1, <2>1
<1> QED BY <1>2, <1>3

LEMMA ForceReadType ==
  ASSUME WatchTypes, PW!forceRead(surf)
  PROVE  surf' \in Surfaces /\ upq' \in Seq(Messages)
<1>1. PW!None \in Int
  BY DEF PW!None
<1>2. PW!Up("read", PW!None) \in Messages
  BY <1>1, UpType
<1>3. surf \in Surfaces /\ upq \in Seq(Messages)
  BY DEF WatchTypes
<1>4. CASE ~surf.watching
  BY <1>3, <1>4 DEF PW!forceRead
<1>5. CASE surf.watching
  <2>1. /\ surf' = [surf EXCEPT !.started = FALSE, !.reading = TRUE]
        /\ upq' = Append(upq, PW!Up("read", PW!None))
    BY <1>5 DEF PW!forceRead
  <2>2. surf' \in Surfaces
    BY <1>3, <2>1 DEF Surfaces
  <2> QED BY <1>2, <1>3, <2>1, <2>2
<1> QED BY <1>4, <1>5

LEMMA ReceiveKeeps ==
  ASSUME WatchInv, PW!Receive
  PROVE  WatchInv'
<1>1. WatchTypes /\ PW!ScrollFenced
  BY DEF WatchInv
<1>2. downq # <<>> /\ downq' = Tail(downq) /\ UNCHANGED <<scr, hist, loop, obs, reader, ctl>>
  BY DEF PW!Receive
<1>3. downq' \in Seq(Frames) /\ PW!ScrollFenced'
  BY <1>1, <1>2, TailFenced
<1> DEFINE f == Head(downq)
           ack == IF surf.watching THEN <<PW!Up("applied", f.text)>> ELSE <<>>
<1>4. f \in Frames /\ f.text \in Int /\ f.agent \in Int
  <2>1. f \in Frames
    BY <1>1, <1>2 DEF WatchTypes
  <2> QED BY <2>1 DEF Frames
<1>5. ack \in Seq(Messages) /\ <<>> \in Seq(Messages)
  BY <1>4, UpType
<1>6. surf \in Surfaces /\ odds \in Odds /\ upq \in Seq(Messages)
  BY <1>1 DEF WatchTypes
<1>7. odds' \in Odds
  <2>1. odds' = odds \/ odds' = [odds EXCEPT !.owed = IF PW!Answers THEN @ \cup {"overtaken"} ELSE @ \ {"overtaken"}]
    BY DEF PW!Receive
  <2> QED BY <1>6, <2>1 DEF Odds
<1>8. /\ PW!Shown(f) \in Surfaces /\ [PW!Shown(f) EXCEPT !.reading = FALSE] \in Surfaces
      /\ [surf EXCEPT !.content = PW!Blank, !.reading = FALSE] \in Surfaces
      /\ [surf EXCEPT !.fp = f.text, !.reading = FALSE] \in Surfaces
  <2> DEFINE s == PW!Shown(f)
  <2>1. s = [surf EXCEPT !.fp = f.text, !.content = f.text, !.agent = f.agent]
    BY DEF PW!Shown
  <2>2. s \in Surfaces
    BY <1>4, <1>6, <2>1 DEF Surfaces
  <2> HIDE DEF s
  <2>3. [s EXCEPT !.reading = FALSE] \in Surfaces
    BY <2>2 DEF Surfaces
  <2>4. PW!Blank \in Int
    BY DEF PW!Blank
  <2>5. [surf EXCEPT !.content = PW!Blank, !.reading = FALSE] \in Surfaces
    BY <1>6, <2>4 DEF Surfaces
  <2>6. [surf EXCEPT !.fp = f.text, !.reading = FALSE] \in Surfaces
    BY <1>4, <1>6 DEF Surfaces
  <2> QED BY <2>2, <2>3, <2>5, <2>6 DEF s
<1>9. surf' \in Surfaces /\ upq' \in Seq(Messages)
  <2> HIDE DEF ack
  <2>1. CASE PW!startWatch([PW!Shown(f) EXCEPT !.reading = FALSE], ack)
    BY <1>1, <1>5, <1>8, <2>1, StartWatchType
  <2>2. CASE PW!startWatch([PW!Shown(f) EXCEPT !.reading = FALSE], <<>>)
    BY <1>1, <1>5, <1>8, <2>2, StartWatchType
  <2>3. CASE PW!startWatch([surf EXCEPT !.content = PW!Blank, !.reading = FALSE], <<>>)
    BY <1>1, <1>5, <1>8, <2>3, StartWatchType
  <2>4. CASE PW!startWatch([surf EXCEPT !.fp = f.text, !.reading = FALSE], <<>>)
    BY <1>1, <1>5, <1>8, <2>4, StartWatchType
  <2>5. CASE PW!forceRead(surf)
    BY <1>1, <2>5, ForceReadType
  <2>6. CASE surf' = PW!Shown(f) /\ upq' = upq \o ack
    BY <1>5, <1>6, <1>8, <2>6
  <2>7. f.kind \in {"full", "delta", "content", "error", "unchanged", "resync"}
    BY <1>4 DEF Frames
  <2>8. CASE f.kind = "full"
    BY <2>1, <2>8 DEF PW!Receive, ack
  <2>9. CASE f.kind = "content"
    BY <2>2, <2>9 DEF PW!Receive
  <2>10. CASE f.kind = "error"
    BY <2>3, <2>10 DEF PW!Receive
  <2>11. CASE f.kind = "unchanged"
    BY <2>4, <2>11 DEF PW!Receive
  <2>12. CASE f.kind = "resync"
    BY <2>5, <2>12 DEF PW!Receive
  <2>13. CASE f.kind = "delta"
    BY <2>5, <2>6, <2>13 DEF PW!Receive, ack
  <2> QED BY <2>7, <2>8, <2>9, <2>10, <2>11, <2>12, <2>13
<1>10. WatchTypes'
  BY <1>1, <1>2, <1>3, <1>7, <1>9 DEF WatchTypes
<1>11. EntryThere' /\ ScrollIsOld' /\ NotReady' /\ ReadsFenced'
  BY <1>2 DEF WatchInv, EntryThere, ScrollIsOld, NotReady, ReadsFenced
<1> QED BY <1>3, <1>10, <1>11 DEF WatchInv

LEMMA UserKeeps ==
  ASSUME WatchInv, PW!UserActs
  PROVE  WatchInv'
<1>1. WatchTypes
  BY DEF WatchInv
<1>2. UNCHANGED <<scr, hist, loop, obs, reader, ctl, downq>>
  BY DEF PW!UserActs
<1>3. odds' \in Odds
  BY <1>1, TroubleType DEF PW!UserActs, WatchTypes
<1>4. PW!None \in Int /\ surf \in Surfaces /\ surf.fp \in Int
  BY <1>1 DEF PW!None, WatchTypes, Surfaces
<1>5. surf' \in Surfaces
  BY <1>4 DEF PW!UserActs, Surfaces
<1>6. upq' \in Seq(Messages)
  BY <1>4, UpType DEF PW!UserActs
<1>7. WatchTypes'
  BY <1>1, <1>2, <1>3, <1>5, <1>6 DEF WatchTypes
<1> QED BY <1>2, <1>7, AsideKeeps DEF WatchInv

-----------------------------------------------------------------------------
(* The watch task *)

(* A slot with a scrolled screen is of a recovery that runs, or of one whose *)
(* version the watch has not asked for since.                                *)
Held(l, s) ==
  s.ready /\ s.shows = PW!Scroll /\ ~s.early =>
    \/ hist.busy /\ (l.pending => s.app # 0)
    \/ s.app # 0 /\ s.app < hist.version

(* Asking the store before a render keeps such a screen back. *)
LEMMA TryPollKeeps ==
  ASSUME WatchInv, NEW l \in Loops, NEW s \in Observers, s.app <= hist.version, Held(l, s),
         PW!try_poll_stream(l, s)
  PROVE  /\ loop' \in Loops /\ obs' \in Observers /\ hist' \in Histories /\ odds' \in Odds
         /\ EntryThere' /\ ScrollIsOld' /\ NotReady' /\ ReadsFenced'
<1> DEFINE e == PW!Entry
           renewed == [s EXCEPT !.app = e.version]
<1>1. WatchTypes /\ EntryThere
  BY DEF WatchInv
<1>2. /\ hist \in Histories /\ odds \in Odds /\ hist.version \in Nat /\ s.app \in Nat
  BY <1>1 DEF WatchTypes, Histories, Observers
<1>3. /\ e \in Histories /\ e.busy = hist.busy /\ e.version # 0 /\ e.version \in Nat
      /\ e.version >= hist.version /\ (hist.version # 0 => e.version = hist.version)
      /\ PW!Reserved(e) \in Histories /\ PW!Reserved(e).busy /\ PW!Reserved(e).version = e.version
  BY <1>1, EntryIs DEF Histories
<1> HIDE DEF e
<1>4. /\ renewed \in Observers /\ renewed.app = e.version /\ renewed.ready = s.ready /\ renewed.shows = s.shows
      /\ renewed.early = s.early
  BY <1>3 DEF Observers
<1>5. PW!Idle(l) \in Loops /\ PW!Idle(l).at = "idle"
  BY IdleIs
<1> HIDE DEF renewed
<1>6. CASE l.pending \/ ~s.ready
  <2>1. loop' = PW!Idle(l) /\ obs' = s /\ UNCHANGED <<hist, odds>>
    BY <1>6 DEF PW!try_poll_stream
  <2>2. EntryThere'
    BY <1>1, <2>1 DEF EntryThere
  <2>3. ScrollIsOld'
    BY <1>2, <1>6, <2>1 DEF ScrollIsOld, Held
  <2>4. NotReady' /\ ReadsFenced'
    BY <1>5, <2>1 DEF NotReady, ReadsFenced
  <2> QED BY <1>2, <1>5, <2>1, <2>2, <2>3, <2>4
<1>7. CASE ~(l.pending \/ ~s.ready)
  <2>1. CASE PW!Due(e) /\ PW!Trouble /\ hist' = PW!Reserved(e) /\ obs' = renewed /\ loop' = PW!Idle(l)
    <3>1. EntryThere' /\ ScrollIsOld' /\ NotReady' /\ ReadsFenced'
      BY <1>3, <1>4, <1>5, <2>1 DEF EntryThere, ScrollIsOld, NotReady, ReadsFenced
    <3>2. odds' \in Odds
      BY <1>2, <2>1, TroubleType
    <3> QED BY <1>3, <1>4, <1>5, <2>1, <3>1, <3>2
  <2>2. CASE hist' = e /\ UNCHANGED odds /\ e.busy /\ obs' = renewed /\ loop' = PW!Idle(l)
    <3>1. EntryThere' /\ ScrollIsOld' /\ NotReady' /\ ReadsFenced'
      BY <1>3, <1>4, <1>5, <2>2 DEF EntryThere, ScrollIsOld, NotReady, ReadsFenced
    <3> QED BY <1>2, <1>3, <1>4, <1>5, <2>2, <3>1
  <2>3. CASE /\ hist' = e /\ UNCHANGED odds /\ ~e.busy /\ loop' = PW!Idle(l)
             /\ \/ obs' = [s EXCEPT !.app = e.version, !.resume = TRUE, !.ready = FALSE, !.shows = PW!None]
                \/ obs' = [PW!NoObserver EXCEPT !.failed = TRUE, !.app = e.version]
    <3>1. PW!None \in Int
      BY DEF PW!None
    <3>2. PW!NoObserver \in Observers /\ PW!NoObserver.ready = FALSE
      BY <3>1 DEF PW!NoObserver, Observers
    <3>3. LET o == [s EXCEPT !.app = e.version, !.resume = TRUE, !.ready = FALSE, !.shows = PW!None]
          IN  o \in Observers /\ o.app = e.version /\ o.ready = FALSE
      BY <1>3, <3>1 DEF Observers
    <3>4. LET o == [PW!NoObserver EXCEPT !.failed = TRUE, !.app = e.version]
          IN  o \in Observers /\ o.app = e.version /\ o.ready = FALSE
      BY <1>3, <3>2 DEF Observers
    <3>5. obs' \in Observers /\ obs'.app = e.version /\ ~obs'.ready
      BY <2>3, <3>3, <3>4
    <3>6. EntryThere' /\ ScrollIsOld' /\ NotReady' /\ ReadsFenced'
      BY <1>3, <1>5, <2>3, <3>5 DEF EntryThere, ScrollIsOld, NotReady, ReadsFenced
    <3> QED BY <1>2, <1>3, <1>5, <2>3, <3>5, <3>6
  <2>4. CASE /\ hist' = e /\ UNCHANGED odds /\ ~e.busy /\ ~PW!Restarts(s) /\ obs' = renewed
             /\ loop' \in {PW!BeginRead(l, "stream", PW!None), PW!Idle(l)}
    <3>1. s.app = e.version \/ s.app = 0
      BY <2>4 DEF PW!Restarts, e
    <3>2. s.ready /\ s.shows = PW!Scroll => s.early
      BY <1>2, <1>3, <2>4, <3>1 DEF Held
    <3>3. PW!None \in Int /\ "stream" \in Reasons \ {"nothing"}
      BY DEF PW!None, Reasons
    <3>4. loop' \in Loops /\ (loop'.at = "idle" \/ (/\ loop'.at = "read" /\ loop'.why = "stream"
                                                    /\ loop'.cap.version # PW!None))
      BY <1>1, <1>5, <2>4, <3>3, BeginReadIs
    <3>5. EntryThere' /\ ScrollIsOld' /\ NotReady' /\ ReadsFenced'
      BY <1>3, <1>4, <2>4, <3>2, <3>4 DEF EntryThere, ScrollIsOld, NotReady, ReadsFenced
    <3> QED BY <1>2, <1>3, <1>4, <2>4, <3>4, <3>5
  <2>5. \/ PW!Due(e) /\ PW!Trouble /\ hist' = PW!Reserved(e) /\ obs' = renewed /\ loop' = PW!Idle(l)
        \/ /\ hist' = e /\ UNCHANGED odds
           /\ \/ e.busy /\ obs' = renewed /\ loop' = PW!Idle(l)
              \/ /\ ~e.busy /\ loop' = PW!Idle(l)
                 /\ \/ obs' = [s EXCEPT !.app = e.version, !.resume = TRUE, !.ready = FALSE, !.shows = PW!None]
                    \/ obs' = [PW!NoObserver EXCEPT !.failed = TRUE, !.app = e.version]
              \/ /\ ~e.busy /\ ~PW!Restarts(s) /\ obs' = renewed
                 /\ loop' \in {PW!BeginRead(l, "stream", PW!None), PW!Idle(l)}
    BY <1>7 DEF PW!try_poll_stream, e, renewed
  <2> QED BY <2>1, <2>2, <2>3, <2>4, <2>5
<1> QED BY <1>6, <1>7

LEMMA HeldNow ==
  ASSUME WatchInv, NEW l \in Loops
  PROVE  Held(l, obs) /\ obs.app <= hist.version
BY DEF WatchInv, ScrollIsOld, EntryThere, Held

LEMMA FirstReadKeeps ==
  ASSUME WatchInv, PW!FirstRead
  PROVE  WatchInv'
<1>1. WatchTypes /\ ~obs.ready
  BY DEF WatchInv, NotReady, PW!FirstRead, PW!At
<1>2. loop' = PW!BeginRead(loop, "first", PW!None) /\ UNCHANGED <<scr, hist, obs, reader, ctl, upq, downq, surf, odds>>
  BY DEF PW!FirstRead
<1>3. PW!None \in Int /\ "first" \in Reasons \ {"nothing"} /\ loop \in Loops
  BY <1>1 DEF PW!None, Reasons, WatchTypes
<1>4. loop' \in Loops /\ (loop'.at = "idle" \/ (/\ loop'.at = "read" /\ loop'.why = "first"
                                                /\ loop'.cap.version # PW!None))
  BY <1>1, <1>2, <1>3, BeginReadIs
<1>5. WatchTypes'
  BY <1>1, <1>2, <1>4 DEF WatchTypes
<1>6. EntryThere' /\ ScrollIsOld' /\ PW!ScrollFenced'
  BY <1>2 DEF WatchInv, EntryThere, ScrollIsOld, PW!ScrollFenced, PW!ShowsScroll
<1>7. NotReady' /\ ReadsFenced'
  BY <1>1, <1>2, <1>4 DEF NotReady, ReadsFenced
<1> QED BY <1>5, <1>6, <1>7 DEF WatchInv

LEMMA PollKeeps ==
  ASSUME WatchInv, PW!Poll
  PROVE  WatchInv'
<1>1. WatchTypes /\ PW!ScrollFenced /\ loop \in Loops /\ obs \in Observers
  BY DEF WatchInv, WatchTypes
<1>2. UNCHANGED <<scr, reader, ctl, upq, downq, surf>>
  BY DEF PW!Poll
<1>3. CASE UNCHANGED <<loop, obs, hist, odds>>
  <2>1. WatchTypes'
    BY <1>1, <1>2, <1>3 DEF WatchTypes
  <2> QED BY <1>2, <1>3, <2>1, AsideKeeps DEF WatchInv
<1>4. CASE PW!try_poll_stream(loop, obs)
  <2>1. /\ loop' \in Loops /\ obs' \in Observers /\ hist' \in Histories /\ odds' \in Odds
        /\ EntryThere' /\ ScrollIsOld' /\ NotReady' /\ ReadsFenced'
    BY <1>1, <1>4, HeldNow, TryPollKeeps
  <2>2. WatchTypes'
    BY <1>1, <1>2, <2>1 DEF WatchTypes
  <2> QED BY <1>1, <1>2, <2>1, <2>2, SameFenced DEF WatchInv
<1>5. CASE /\ ~obs.ready /\ UNCHANGED <<obs, hist, odds>>
           /\ loop' = [loop EXCEPT !.at = "probe", !.why = "poll", !.cap = PW!Captured(PW!None, PW!None)]
  <2>1. PW!Captured(PW!None, PW!None) \in Captures
    BY <1>1 DEF PW!Captured, Captures, PW!None, WatchTypes, Panes
  <2>2. loop' \in Loops /\ loop'.at = "probe"
    BY <1>1, <1>5, <2>1 DEF Loops, Reasons
  <2>3. WatchTypes'
    BY <1>1, <1>2, <1>5, <2>2 DEF WatchTypes
  <2>4. EntryThere' /\ ScrollIsOld' /\ NotReady' /\ ReadsFenced'
    BY <1>5, <2>2 DEF WatchInv, EntryThere, ScrollIsOld, NotReady, ReadsFenced
  <2> QED BY <1>1, <1>2, <2>3, <2>4, SameFenced DEF WatchInv
<1> QED BY <1>3, <1>4, <1>5 DEF PW!Poll

(* An emulator that is replaced or lost shows nothing. *)
LEMMA BlankKeeps ==
  ASSUME WatchInv, UNCHANGED hist, obs' \in Observers, obs'.app = obs.app, ~obs'.ready, loop'.at = "idle"
  PROVE  EntryThere' /\ ScrollIsOld' /\ NotReady' /\ ReadsFenced'
BY DEF WatchInv, EntryThere, ScrollIsOld, NotReady, ReadsFenced

LEMMA GeometryKeeps ==
  ASSUME WatchInv, PW!sync_stream_geometry
  PROVE  WatchInv'
<1>1. WatchTypes /\ PW!ScrollFenced
  BY DEF WatchInv
<1>2. UNCHANGED <<scr, hist, loop, reader, ctl, upq, downq, surf>> /\ loop.at = "idle"
  BY DEF PW!sync_stream_geometry, PW!At
<1>3. odds' \in Odds
  BY <1>1, TroubleType DEF PW!sync_stream_geometry, WatchTypes
<1>4. obs.app \in Nat /\ obs.resume \in BOOLEAN
  BY <1>1 DEF WatchTypes, Observers
<1>5. obs' \in Observers /\ obs'.app = obs.app /\ ~obs'.ready
  <2>1. PICK ok \in BOOLEAN : obs' = [PW!Spawned(ok) EXCEPT !.app = obs.app, !.resume = obs.resume]
    BY DEF PW!sync_stream_geometry
  <2>2. LET o == [PW!Spawned(ok) EXCEPT !.app = obs.app, !.resume = obs.resume]
        IN  o \in Observers /\ o.app = obs.app /\ ~o.ready
    BY <1>4, ObserversType
  <2> QED BY <2>1, <2>2
<1>6. WatchTypes'
  BY <1>1, <1>2, <1>3, <1>5 DEF WatchTypes
<1> QED BY <1>1, <1>2, <1>5, <1>6, BlankKeeps, SameFenced DEF WatchInv

LEMMA ProbedKeeps ==
  ASSUME WatchInv, PW!Probed
  PROVE  WatchInv'
<1>1. WatchTypes /\ PW!ScrollFenced /\ loop \in Loops /\ obs \in Observers /\ ~obs.ready
  BY DEF WatchInv, WatchTypes, NotReady, PW!Probed, PW!At
<1>2. UNCHANGED <<scr, hist, reader, ctl, upq, surf>>
  BY DEF PW!Probed
<1>3. PW!Idle(loop) \in Loops /\ PW!Idle(loop).at = "idle"
  BY <1>1, IdleIs
<1>4. obs' \in Observers /\ obs'.app = obs.app /\ ~obs'.ready
  <2>1. obs' = obs \/ \E ok \in BOOLEAN : obs' = [PW!Spawned(ok) EXCEPT !.app = obs.app]
    BY DEF PW!Probed
  <2>2. obs.app \in Nat /\ TRUE \in BOOLEAN
    BY <1>1 DEF Observers
  <2>3. ASSUME NEW ok \in BOOLEAN
        PROVE  LET o == [PW!Spawned(ok) EXCEPT !.app = obs.app] IN o \in Observers /\ o.app = obs.app /\ ~o.ready
    BY <2>2, ObserversType
  <2> QED BY <1>1, <2>1, <2>3
<1>5. /\ downq' \in Seq(Frames) /\ PW!ScrollFenced' /\ odds' \in Odds /\ loop' \in Loops
      /\ \/ loop'.at = "idle"
         \/ loop'.at = "read" /\ loop'.why = "poll" /\ loop'.cap.version # PW!None
  <2>1. CASE PW!send_gone(PW!Idle(loop))
    BY <1>1, <1>3, <2>1, SendGoneKeeps
  <2>2. CASE loop' = PW!Idle(loop) /\ UNCHANGED <<downq, odds>>
    BY <1>1, <1>3, <2>2, SameFenced DEF WatchTypes
  <2>3. CASE /\ UNCHANGED <<downq, odds>>
             /\ LET l == [loop EXCEPT !.gone = FALSE] IN
                \/ loop' = PW!Idle(l)
                \/ \E probe \in PW!Visible :
                     loop' = IF PW!needs_read(probe)
                               THEN PW!BeginRead([l EXCEPT !.served = PW!Revision], "poll", probe)
                               ELSE PW!Idle([l EXCEPT !.served = PW!Revision])
    <3> DEFINE l == [loop EXCEPT !.gone = FALSE]
               v == [l EXCEPT !.served = PW!Revision]
    <3>1. l \in Loops
      BY <1>1 DEF Loops
    <3>2. v \in Loops
      <4>1. PW!Revision \in Nat
        BY <1>1, SentinelsApart
      <4> HIDE DEF l
      <4> QED BY <3>1, <4>1 DEF Loops
    <3>3. \/ loop' = PW!Idle(l) \/ loop' = PW!Idle(v)
          \/ \E probe \in PW!Visible : loop' = PW!BeginRead(v, "poll", probe)
      BY <2>3
    <3> HIDE DEF l, v
    <3>4. \A probe \in PW!Visible : probe \in Int
      BY <1>1, SentinelsApart
    <3>5. "poll" \in Reasons \ {"nothing"}
      BY DEF Reasons
    <3>6. /\ loop' \in Loops
          /\ loop'.at = "idle" \/ (loop'.at = "read" /\ loop'.why = "poll" /\ loop'.cap.version # PW!None)
      BY <1>1, <3>1, <3>2, <3>3, <3>4, <3>5, IdleIs, BeginReadIs
    <3> QED BY <1>1, <2>3, <3>6, SameFenced DEF WatchTypes
  <2>4. \/ PW!send_gone(PW!Idle(loop))
        \/ loop' = PW!Idle(loop) /\ UNCHANGED <<downq, odds>>
        \/ /\ UNCHANGED <<downq, odds>>
           /\ LET l == [loop EXCEPT !.gone = FALSE] IN
              \/ loop' = PW!Idle(l)
              \/ \E probe \in PW!Visible :
                   loop' = IF PW!needs_read(probe)
                             THEN PW!BeginRead([l EXCEPT !.served = PW!Revision], "poll", probe)
                             ELSE PW!Idle([l EXCEPT !.served = PW!Revision])
    BY DEF PW!Probed
  <2> QED BY <2>1, <2>2, <2>3, <2>4
<1>6. WatchTypes'
  BY <1>1, <1>2, <1>4, <1>5 DEF WatchTypes
<1>7. EntryThere' /\ ScrollIsOld'
  BY <1>2, <1>4 DEF WatchInv, EntryThere, ScrollIsOld
<1>8. NotReady' /\ ReadsFenced'
  BY <1>4, <1>5 DEF NotReady, ReadsFenced
<1> QED BY <1>5, <1>6, <1>7, <1>8 DEF WatchInv

(* A read that is still fenced when it returns saw no scrolled screen, unless *)
(* it is the emulator's and nobody asked the store.                          *)
LEMMA FencedRead ==
  ASSUME WatchInv, PW!At("read"), PW!Fenced(loop.cap),
         NEW text \in IF obs.ready THEN {obs.shows} ELSE PW!Visible
  PROVE  text \in Int /\ (text = PW!Scroll => PW!Unasked)
<1>1. WatchTypes /\ ReadsFenced /\ NotReady /\ loop.at = "read"
  BY DEF WatchInv, PW!At
<1>2. ~hist.busy
  BY <1>1 DEF ReadsFenced, PW!Fenced, PW!read_version
<1>3. CASE ~obs.ready
  BY <1>1, <1>2, <1>3, SentinelsApart
<1>4. CASE obs.ready
  <2>1. text = obs.shows /\ text \in Int
    BY <1>1, <1>4 DEF WatchTypes, Observers
  <2>2. loop.why \in {"stream", "resync"}
    BY <1>1, <1>4 DEF NotReady, ReadsFenced, WatchTypes, Loops, Reasons
  <2> QED BY <1>1, <1>4, <2>1, <2>2 DEF ReadsFenced, PW!Unasked
<1> QED BY <1>3, <1>4

LEMMA FrameReadKeeps ==
  ASSUME WatchTypes, PW!ScrollFenced, NEW text \in Int, text = PW!Scroll => PW!Unasked, PW!FrameRead(text)
  PROVE  /\ loop' \in Loops /\ loop'.at = "idle"
         /\ downq' \in Seq(Frames) /\ PW!ScrollFenced' /\ odds' \in Odds
<1> DEFINE i == PW!Idle(loop)
           l == [i EXCEPT !.gone = FALSE,
                          !.served = IF obs.ready THEN @ ELSE PW!Revision,
                          !.probe = IF loop.why = "poll" THEN loop.cap.probe ELSE @]
<1>1. loop \in Loops /\ loop.cap.probe \in Int /\ loop.cap.agent \in Int /\ PW!Revision \in Nat
  BY SentinelsApart DEF WatchTypes, Loops, Captures
<1>2. i \in Loops /\ i.at = "idle"
  BY <1>1, IdleIs
<1>3. \/ PW!Push(PW!Delta(text, loop.cap.agent, text)) /\ loop' = PW!Gated(l, text, loop.cap.agent)
      \/ PW!Refuse /\ loop' = l
      \/ PW!send_frame(l, text, loop.cap.agent)
  BY DEF PW!FrameRead
<1> HIDE DEF i
<1>4. l \in Loops /\ l.at = "idle"
  <2> DEFINE served == IF obs.ready THEN i.served ELSE PW!Revision
             probe == IF loop.why = "poll" THEN loop.cap.probe ELSE i.probe
  <2>1. served \in Nat /\ probe \in Int
    BY <1>1, <1>2 DEF Loops
  <2>2. l = [i EXCEPT !.gone = FALSE, !.served = served, !.probe = probe]
    OBVIOUS
  <2> HIDE DEF served, probe, l
  <2> QED BY <1>2, <2>1, <2>2 DEF Loops
<1> HIDE DEF l
<1>5. CASE PW!Push(PW!Delta(text, loop.cap.agent, text)) /\ loop' = PW!Gated(l, text, loop.cap.agent)
  <2>1. /\ PW!Delta(text, loop.cap.agent, text) \in Frames
        /\ PW!ShowsScroll(PW!Delta(text, loop.cap.agent, text)) => PW!Delta(text, loop.cap.agent, text).unasked
    BY <1>1, ScreenFrameIs
  <2>2. downq' \in Seq(Frames) /\ PW!ScrollFenced' /\ odds' \in Odds
    BY <1>5, <2>1, PushKeeps
  <2> QED BY ZenonT(30), <1>1, <1>4, <1>5, <2>2, LoopsType
<1>6. CASE PW!Refuse /\ loop' = l
  BY <1>4, <1>6, RefuseKeeps
<1>7. CASE PW!send_frame(l, text, loop.cap.agent)
  BY <1>1, <1>4, <1>7, SendFrameKeeps
<1> QED BY <1>3, <1>5, <1>6, <1>7

LEMMA ReadDoneKeeps ==
  ASSUME WatchInv, PW!ReadDone
  PROVE  WatchInv'
<1>1. WatchTypes /\ PW!ScrollFenced /\ loop \in Loops /\ obs \in Observers
  BY DEF WatchInv, WatchTypes
<1>2. UNCHANGED <<scr, hist, reader, ctl, upq, surf>> /\ PW!At("read")
  BY DEF PW!ReadDone
<1>3. PW!Idle(loop) \in Loops /\ PW!Idle(loop).at = "idle"
  BY <1>1, IdleIs
<1>4. /\ obs' \in Observers /\ obs'.ready = obs.ready /\ obs'.shows = obs.shows /\ obs'.early = obs.early
      /\ obs'.app = obs.app
  <2>1. obs' = obs \/ obs' = [obs EXCEPT !.dirty = FALSE]
    BY DEF PW!ReadDone
  <2> QED BY <1>1, <2>1 DEF Observers
<1>5. /\ loop' \in Loops /\ loop'.at = "idle"
      /\ downq' \in Seq(Frames) /\ PW!ScrollFenced' /\ odds' \in Odds
  <2>1. CASE loop' = PW!Idle(loop) /\ UNCHANGED <<downq, odds>>
    BY <1>1, <1>3, <2>1, SameFenced DEF WatchTypes
  <2>2. CASE PW!send_gone(PW!Idle(loop))
    BY <1>1, <1>3, <2>2, SendGoneKeeps
  <2>3. ASSUME PW!Fenced(loop.cap), NEW text \in IF obs.ready THEN {obs.shows} ELSE PW!Visible,
               PW!FrameRead(text)
        PROVE  /\ loop' \in Loops /\ loop'.at = "idle"
               /\ downq' \in Seq(Frames) /\ PW!ScrollFenced' /\ odds' \in Odds
    BY <1>1, <1>2, <2>3, FencedRead, FrameReadKeeps
  <2> QED BY <2>1, <2>2, <2>3 DEF PW!ReadDone
<1>6. WatchTypes'
  BY <1>1, <1>2, <1>4, <1>5 DEF WatchTypes
<1>7. EntryThere' /\ ScrollIsOld'
  BY <1>2, <1>4 DEF WatchInv, EntryThere, ScrollIsOld
<1>8. NotReady' /\ ReadsFenced'
  BY <1>5 DEF NotReady, ReadsFenced
<1> QED BY <1>5, <1>6, <1>7, <1>8 DEF WatchInv

LEMMA ControlKeeps ==
  ASSUME WatchInv, PW!Control
  PROVE  WatchInv'
<1>1. WatchTypes /\ PW!ScrollFenced /\ loop \in Loops /\ obs \in Observers
  BY DEF WatchInv, WatchTypes
<1>2. UNCHANGED <<scr, reader, upq, surf>> /\ loop.at = "idle" /\ ctl # <<>>
  BY DEF PW!Control, PW!At
<1> DEFINE text == Head(ctl).text
<1>3. ctl' \in Seq(Messages) /\ text \in Int
  <2>1. ctl \in Seq(Messages) /\ ctl' = Tail(ctl)
    BY <1>1 DEF WatchTypes, PW!Control
  <2>2. Head(ctl) \in Messages
    BY <1>2, <2>1
  <2> QED BY <1>2, <2>1, <2>2 DEF Messages
<1>4. CASE PW!try_poll_stream(PW!Ungated([loop EXCEPT !.acked = text]), obs) /\ UNCHANGED downq
  <2>1. [loop EXCEPT !.acked = text] \in Loops
    BY <1>1, <1>3 DEF Loops
  <2> DEFINE l == PW!Ungated([loop EXCEPT !.acked = text])
  <2>2. l \in Loops
    BY <2>1, LoopsType, <1>3
  <2> HIDE DEF l
  <2>3. Held(l, obs) /\ obs.app <= hist.version
    BY <2>2, HeldNow
  <2>4. PW!try_poll_stream(l, obs)
    BY <1>4 DEF l
  <2>5. /\ loop' \in Loops /\ obs' \in Observers /\ hist' \in Histories /\ odds' \in Odds
        /\ EntryThere' /\ ScrollIsOld' /\ NotReady' /\ ReadsFenced'
    BY <1>1, <2>2, <2>3, <2>4, TryPollKeeps
  <2>6. downq' \in Seq(Frames) /\ PW!ScrollFenced'
    BY <1>1, <1>4, SameFenced
  <2>7. WatchTypes'
    BY <1>1, <1>2, <1>3, <2>5, <2>6 DEF WatchTypes
  <2> QED BY <2>5, <2>6, <2>7 DEF WatchInv
<1>5. CASE UNCHANGED <<loop, obs, hist>> /\ (UNCHANGED <<downq, odds>> \/ PW!Tell(PW!Plain("resync", PW!None)))
  <2>1. PW!None \in Int
    BY DEF PW!None
  <2>2. PW!Plain("resync", PW!None) \in Frames /\ ~PW!ShowsScroll(PW!Plain("resync", PW!None))
    BY <2>1, PlainIs
  <2>3. downq' \in Seq(Frames) /\ PW!ScrollFenced' /\ odds' \in Odds
    BY <1>1, <1>5, <2>2, TellKeeps, SameFenced DEF WatchTypes
  <2>4. WatchTypes'
    BY <1>1, <1>2, <1>3, <1>5, <2>3 DEF WatchTypes
  <2>5. EntryThere' /\ ScrollIsOld' /\ NotReady' /\ ReadsFenced'
    BY <1>5 DEF WatchInv, EntryThere, ScrollIsOld, NotReady, ReadsFenced
  <2> QED BY <2>3, <2>4, <2>5 DEF WatchInv
<1>6. CASE loop' = PW!BeginRead(PW!Rebuild(loop), "resync", PW!None) /\ UNCHANGED <<obs, hist, downq, odds>>
  <2>1. PW!None \in Int /\ "resync" \in Reasons \ {"nothing"}
    BY DEF PW!None, Reasons
  <2>2. PW!Rebuild(loop) \in Loops
    BY <1>1, <2>1, LoopsType
  <2>3. loop' \in Loops /\ (loop'.at = "idle" \/ (/\ loop'.at = "read" /\ loop'.why = "resync"
                                                  /\ loop'.cap.version # PW!None))
    BY <1>1, <1>6, <2>1, <2>2, BeginReadIs
  <2>4. WatchTypes'
    BY <1>1, <1>2, <1>3, <1>6, <2>3 DEF WatchTypes
  <2>5. EntryThere' /\ ScrollIsOld' /\ NotReady' /\ ReadsFenced'
    BY <1>6, <2>3 DEF WatchInv, EntryThere, ScrollIsOld, NotReady, ReadsFenced
  <2> QED BY <1>1, <1>6, <2>4, <2>5, SameFenced DEF WatchInv
<1> QED BY <1>4, <1>5, <1>6 DEF PW!Control, PW!Acked

LEMMA AckTimesOutKeeps ==
  ASSUME WatchInv, PW!AckTimesOut
  PROVE  WatchInv'
<1>1. WatchTypes /\ PW!ScrollFenced /\ loop \in Loops /\ PW!None \in Int
  BY DEF WatchInv, WatchTypes, PW!None
<1>2. UNCHANGED <<scr, hist, obs, reader, ctl, upq, downq, surf>> /\ loop.at = "idle" /\ loop' = PW!Rebuild(loop)
  BY DEF PW!AckTimesOut, PW!At
<1>3. odds' \in Odds
  BY <1>1, TroubleType DEF PW!AckTimesOut, WatchTypes
<1>4. loop' \in Loops /\ loop'.at = "idle"
  BY <1>1, <1>2, LoopsType
<1>5. WatchTypes'
  BY <1>1, <1>2, <1>3, <1>4 DEF WatchTypes
<1>6. EntryThere' /\ ScrollIsOld' /\ NotReady' /\ ReadsFenced'
  BY <1>2, <1>4 DEF WatchInv, EntryThere, ScrollIsOld, NotReady, ReadsFenced
<1> QED BY <1>1, <1>2, <1>5, <1>6, SameFenced DEF WatchInv

LEMMA StreamUpdatedKeeps ==
  ASSUME WatchInv, PW!StreamUpdated
  PROVE  WatchInv'
<1>1. WatchTypes /\ PW!ScrollFenced /\ loop \in Loops /\ obs \in Observers /\ obs.app <= hist.version
  BY DEF WatchInv, WatchTypes, EntryThere
<1>2. UNCHANGED <<scr, reader, ctl, upq, downq, surf>>
  BY DEF PW!StreamUpdated
<1> DEFINE early == obs.app = 0 /\ loop.pending
<1>3. PICK text \in PW!Visible :
        PW!try_poll_stream(loop, [obs EXCEPT !.ready = TRUE, !.shows = text, !.dirty = TRUE, !.resume = FALSE,
                                             !.early = early])
  BY DEF PW!StreamUpdated
<1> DEFINE s == [obs EXCEPT !.ready = TRUE, !.shows = text, !.dirty = TRUE, !.resume = FALSE, !.early = early]
<1>4. text \in Int /\ (text = PW!Scroll => hist.busy)
  BY <1>1, SentinelsApart
<1>5. early \in BOOLEAN /\ (early <=> obs.app = 0 /\ loop.pending)
  BY <1>1 DEF Loops
<1> HIDE DEF early
<1>6. s \in Observers
  BY <1>1, <1>4, <1>5 DEF Observers
<1>7. s.app = obs.app /\ s.shows = text /\ s.early = early
  BY <1>1 DEF Observers
<1>8. PW!try_poll_stream(loop, s)
  BY <1>3
<1> HIDE DEF s
<1>9. Held(loop, s)
  BY <1>4, <1>5, <1>7 DEF Held
<1>10. /\ loop' \in Loops /\ obs' \in Observers /\ hist' \in Histories /\ odds' \in Odds
       /\ EntryThere' /\ ScrollIsOld' /\ NotReady' /\ ReadsFenced'
  BY <1>1, <1>6, <1>7, <1>8, <1>9, TryPollKeeps
<1>11. WatchTypes'
  BY <1>1, <1>2, <1>10 DEF WatchTypes
<1> QED BY <1>1, <1>2, <1>10, <1>11, SameFenced DEF WatchInv

LEMMA StreamLostKeeps ==
  ASSUME WatchInv, PW!StreamClosed \/ PW!StreamEnded
  PROVE  WatchInv'
<1>1. WatchTypes /\ PW!ScrollFenced /\ loop \in Loops /\ obs \in Observers /\ loop.at = "idle" /\ PW!None \in Int
  BY DEF WatchInv, WatchTypes, PW!StreamClosed, PW!StreamEnded, PW!At, PW!None
<1>2. UNCHANGED <<scr, hist, reader, ctl, upq, surf>>
  BY DEF PW!StreamClosed, PW!StreamEnded
<1>3. obs' \in Observers /\ obs'.app = obs.app /\ ~obs'.ready
  <2>1. \/ obs' = [obs EXCEPT !.on = FALSE, !.ready = FALSE, !.shows = PW!None]
        \/ obs' = [obs EXCEPT !.on = FALSE, !.ready = FALSE, !.shows = PW!None, !.failed = TRUE]
    BY DEF PW!StreamClosed, PW!StreamEnded
  <2> QED BY ZenonT(30), <1>1, <2>1 DEF Observers
<1>4. /\ loop' \in Loops /\ loop'.at = "idle"
      /\ downq' \in Seq(Frames) /\ PW!ScrollFenced' /\ odds' \in Odds
  <2>1. CASE PW!send_gone(loop)
    BY <1>1, <2>1, SendGoneKeeps
  <2>2. CASE loop' = [loop EXCEPT !.probe = PW!None] /\ UNCHANGED downq /\ PW!Trouble
    <3>1. odds \in Odds
      BY <1>1 DEF WatchTypes
    <3> QED BY <1>1, <2>2, <3>1, LoopsType, SameFenced, TroubleType
  <2> QED BY <2>1, <2>2 DEF PW!StreamClosed, PW!StreamEnded
<1>5. WatchTypes'
  BY <1>1, <1>2, <1>3, <1>4 DEF WatchTypes
<1> QED BY <1>2, <1>3, <1>4, <1>5, BlankKeeps DEF WatchInv

-----------------------------------------------------------------------------
(* The theorem *)

LEMMA WatchStarts ==
  ASSUME PW!Init
  PROVE  WatchInv
<1>1. PW!None \in Int /\ TRUE \in BOOLEAN
  BY DEF PW!None
<1>2. /\ loop \in Loops /\ loop.at = "idle"
  BY <1>1, NoWatchIs DEF PW!Init
<1>3. obs \in Observers /\ obs.app = 0 /\ obs.ready = FALSE
  BY <1>1 DEF PW!Init, Observers
<1>4. hist \in Histories /\ hist.busy = FALSE /\ hist.version = 0
  BY DEF PW!Init, Histories, Epochs
<1>5. /\ scr \in Panes /\ reader = <<>> /\ ctl = <<>> /\ downq = <<>>
  <2>1. scr \in [out : {0}, alive : {TRUE}, gen : {0}, crev : {0}, agent : {0}, counts : BOOLEAN]
    BY DEF PW!Init
  <2>2. scr \in Panes
    <3>1. {0} \subseteq Nat /\ {0} \subseteq Int
      OBVIOUS
    <3>2. {TRUE} \subseteq BOOLEAN
      BY Zenon
    <3> QED BY <2>1, <3>1, <3>2, Zenon DEF Panes
  <2> QED BY <2>2 DEF PW!Init
<1>6. upq \in Seq(Messages)
  BY <1>1, UpType DEF PW!Init
<1>7. surf \in Surfaces /\ odds \in Odds
  BY <1>1 DEF PW!Init, Surfaces, Odds
<1>8. WatchTypes
  BY <1>2, <1>3, <1>4, <1>5, <1>6, <1>7 DEF WatchTypes
<1>9. EntryThere /\ ScrollIsOld /\ NotReady /\ ReadsFenced
  BY <1>2, <1>3, <1>4 DEF EntryThere, ScrollIsOld, NotReady, ReadsFenced
<1>10. PW!ScrollFenced
  BY <1>5 DEF PW!ScrollFenced
<1> QED BY <1>8, <1>9, <1>10 DEF WatchInv

(* However often the screen moves, recoveries begin and end, observers are    *)
(* lost and phones read, resync or leave: what a recovery scrolled past is    *)
(* in no frame of the watch, unless an emulator is rendered for a resync or   *)
(* showed it before the watch ever asked the recovery store                   *)
(* (read_watch_frame, refresh_application_history).                           *)
THEOREM ScrollAlwaysFenced == PW!Spec => []ScrollFenced
<1>1. PW!Init => WatchInv
  BY WatchStarts
<1>2. WatchInv /\ [PW!Next]_PW!watchVars => WatchInv'
  <2> SUFFICES ASSUME WatchInv, [PW!Next]_PW!watchVars PROVE WatchInv'
    OBVIOUS
  <2>1. CASE UNCHANGED PW!watchVars
    <3>1. UNCHANGED <<scr, hist, loop, obs, reader, ctl, upq, downq, surf, odds>>
      BY <2>1 DEF PW!watchVars
    <3>2. WatchTypes'
      BY <3>1 DEF WatchInv, WatchTypes
    <3> QED BY <3>1, <3>2, AsideKeeps DEF WatchInv
  <2>2. CASE PW!Next
    <3>3. PW!Watch => WatchInv'
      BY FirstReadKeeps, GeometryKeeps, PollKeeps, ProbedKeeps, ReadDoneKeeps, ControlKeeps,
         AckTimesOutKeeps, StreamUpdatedKeeps, StreamLostKeeps DEF PW!Watch
    <3> QED BY <2>2, <3>3, PaneKeeps, OtherReservesKeeps, FinishKeeps, RouteKeeps, ReadPaneKeeps,
               ReceiveKeeps, UserKeeps DEF PW!Next
  <2> QED BY <2>1, <2>2
<1>3. WatchInv => ScrollFenced
  BY DEF ScrollFenced, WatchInv
<1> QED BY <1>1, <1>2, <1>3, PTL DEF PW!Spec

=============================================================================
