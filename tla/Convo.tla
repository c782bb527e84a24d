-------------------------------- MODULE Convo --------------------------------
(***************************************************************************)
(* A conversation subscription from the agent's transcript to the phone's  *)
(* window: the readers of conversation/, the per-pane feed of              *)
(* convo_subs.rs, conversation_history, and FeedViewModel on the phone.    *)
(*                                                                         *)
(* A transcript is a sequence of rows, a row being what becomes one entry: *)
(* whether it carries a tool call, the version of its text and whether the *)
(* call's result is attached.  File 1 is the session of the pane, file 2   *)
(* the session it switches to or, for Claude, the continuation.  A flat    *)
(* file is stamped by its write counter; both sessions of a SQLite agent   *)
(* live in one database (path 3) with a write-ahead log.  Texts, byte      *)
(* budgets and clipping are left out, and so is the send buffer: its       *)
(* queue is empty whenever an update reaches it (RelaySession).            *)
(***************************************************************************)
EXTENDS Integers, Sequences, FiniteSets

CONSTANTS
  ConvoKinds,    \* the families of readers
  PageSize,      \* DEFAULT_PAGE_SIZE
  MaxConvoOps    \* bound on what agent, topology and network do

VARIABLES
  log,      \* the transcript on disk
  seat,     \* the pane's binding in the topology
  feed,     \* the feed task: its step, LastRead and what the poll captured
  kept,     \* the reader's page cache (OpenCode, OMO)
  wire,     \* conversation_update frames on their way
  window,   \* the phone: the pane it knows, its request and its entries
  demand,   \* the phone's history request
  doom      \* operations spent, and the ways the window may be wrong

vars == <<log, seat, feed, kept, wire, window, demand, doom>>

Sessions == {1, 2}
Database == 3
Absent == 0

Native(kind) == kind \in {"opencode", "hermes"}
OneDocument(kind) == kind = "devin"

(***************************************************************************)
(* The source as the readers see it.                                       *)
(***************************************************************************)

Entry(s, i, row) == [id |-> <<s, i>>, call |-> row.call, text |-> row.text, out |-> row.out]
EntriesOf(s) == [i \in 1..Len(log.rows[s]) |-> Entry(s, i, log.rows[s][i])]

(* A flat file: a record is an entry with an id digested from it, a result is attached to the call
   it names, the record that is half written is passed over. *)
parse_transcript(s) == EntriesOf(s)

(* The rows of a database and the steps of a document have ids of their own and may be rewritten. *)
parse_rows(s) == EntriesOf(s)
parse_steps(s) == EntriesOf(s)

(* inspect_claude_segment_footer and resolve_claude_chain: the child is a segment once both the
   link at the end of the file and the file it names are there. *)
LinkFound == log.link
Chained == log.kind = "claude" /\ LinkFound /\ log.child

(* namespace_claude_entries: the ids of the child are its own. *)
claude_entries == IF Chained THEN parse_transcript(1) \o parse_transcript(2) ELSE parse_transcript(1)

Newest(entries) ==
  SubSeq(entries, IF Len(entries) > PageSize THEN Len(entries) - PageSize + 1 ELSE 1, Len(entries))

(* The source path of a page, and the path the feed stats: the last segment of a Claude chain. *)
SourcePath(s) == IF Native(log.kind) THEN Database ELSE s
ProbePath(s) == IF Chained THEN 2 ELSE SourcePath(s)

(* locate_with_project: where the session's log is, if there is one. *)
Located(s) == log.writes[s] > 0

(* SourceStamp and ProbeStamp: a commit moves the log of a database, a checkpoint its file. *)
MissingStamp == <<-1, -1>>
ProbeStamp(path, wal) ==
  IF path = Database
  THEN <<log.checkpoints, IF wal THEN log.writes[1] + log.writes[2] ELSE -1>>
  ELSE <<log.writes[path], -1>>

NoEntries == <<>>
(* browse_unavailable *)
Unavailable(code) ==
  [available |-> FALSE, reason |-> code, entries |-> NoEntries, total |-> -1,
   source |-> Absent, probe |-> Absent]

(* wire_page *)
ReadPage(s, entries) ==
  [available |-> TRUE, reason |-> "", entries |-> Newest(entries), total |-> Len(entries),
   source |-> SourcePath(s), probe |-> ProbePath(s)]

NoLog == Unavailable("invalid_session")

flat_read(s) == IF Located(s) THEN ReadPage(s, parse_transcript(s)) ELSE NoLog
claude_read_chain(s) == IF Located(s) THEN ReadPage(s, claude_entries) ELSE NoLog
omo_read(s) == IF Located(s) THEN ReadPage(s, parse_transcript(s)) ELSE NoLog
opencode_read_for(s) == IF Located(s) THEN ReadPage(s, parse_rows(s)) ELSE NoLog
hermes_read_for(s) == IF Located(s) THEN ReadPage(s, parse_rows(s)) ELSE NoLog
devin_read_for(s) ==
  IF ~Located(s) THEN NoLog
  ELSE IF log.torn THEN Unavailable("source_corrupt") ELSE ReadPage(s, parse_steps(s))

(* read_with_project *)
PageOf(s) ==
  CASE log.kind = "hermes" -> hermes_read_for(s)
    [] log.kind = "opencode" -> opencode_read_for(s)
    [] log.kind = "omo" -> omo_read(s)
    [] log.kind = "devin" -> devin_read_for(s)
    [] log.kind = "claude" -> claude_read_chain(s)
    [] OTHER -> flat_read(s)

(* hermes read_from: the rows come first, the tool results from a second query. *)
WithoutResults(page) ==
  [page EXCEPT !.entries = [i \in DOMAIN page.entries |-> [page.entries[i] EXCEPT !.out = FALSE]]]

ResultNow(entry) == log.rows[entry.id[1]][entry.id[2]].out
attach_tool_results(page) ==
  [page EXCEPT !.entries =
     [i \in DOMAIN page.entries |-> [page.entries[i] EXCEPT !.out = ResultNow(page.entries[i])]]]

(***************************************************************************)
(* What a page is compared by.                                             *)
(***************************************************************************)

NoDigest == <<>>
entry_digest(entry) ==
  IF Native(log.kind) \/ entry.call THEN <<entry.call, entry.text, entry.out>> ELSE NoDigest

Ids(entries) == [i \in DOMAIN entries |-> entries[i].id]

SigOf(page) ==
  [resolved |-> TRUE, available |-> page.available, reason |-> page.reason, source |-> page.source,
   ids |-> Ids(page.entries),
   digests |-> [i \in DOMAIN page.entries |-> entry_digest(page.entries[i])],
   total |-> page.total]

Tombstone ==
  [resolved |-> FALSE, available |-> FALSE, reason |-> "", source |-> Absent, ids |-> <<>>,
   digests |-> <<>>, total |-> -1]

NoLast ==
  [known |-> FALSE, gen |-> 0, session |-> Absent, stamp |-> MissingStamp, probe |-> Absent,
   wal |-> FALSE, sig |-> Tombstone]

(* append_delta: where the previous page's last entry stands in the new one, when what precedes it
   is a suffix of the previous page, unchanged; 0 when it is no plain append. *)
Overlaps(prev, sig, pos) ==
  LET skip == Len(prev.ids) - pos
  IN /\ pos <= Len(prev.ids)
     /\ \A i \in 1..pos : sig.ids[i] = prev.ids[skip + i] /\ sig.digests[i] = prev.digests[skip + i]

AnchorAt(prev, sig) ==
  {pos \in DOMAIN sig.ids : prev.ids # <<>> /\ sig.ids[pos] = prev.ids[Len(prev.ids)]}

Appended(prev, sig) ==
  {pos \in AnchorAt(prev, sig) : Overlaps(prev, sig, pos) /\ pos < Len(sig.ids)}

SameSource(prev, sig) ==
  sig.source = prev.source /\ sig.available = prev.available /\ sig.reason = prev.reason

MustReset(last, gen) == ~last.known \/ last.gen # gen \/ ~last.sig.resolved

Nothing == [send |-> FALSE, reset |-> FALSE, messages |-> <<>>]

(* decide: a fresh feed, another pane epoch or another source resets, the same page says nothing,
   a plain append sends the new tail. *)
decide(last, gen, sig, entries) ==
  IF MustReset(last, gen) THEN [send |-> TRUE, reset |-> TRUE, messages |-> entries]
  ELSE IF sig = last.sig THEN Nothing
  ELSE IF SameSource(last.sig, sig) /\ Appended(last.sig, sig) # {}
       THEN [send |-> TRUE, reset |-> FALSE,
             messages |-> SubSeq(entries, (CHOOSE p \in Appended(last.sig, sig) : TRUE) + 1, Len(entries))]
       ELSE [send |-> TRUE, reset |-> TRUE, messages |-> entries]

(***************************************************************************)
(* Init                                                                    *)
(***************************************************************************)

Row(call) == [call |-> call, text |-> 0, out |-> FALSE]
NoPage == Unavailable("")
IdleFeed(step, last) ==
  [step |-> step, last |-> last, gen |-> 0, session |-> Absent, stamp |-> MissingStamp,
   page |-> NoPage]
NoKept == [session |-> Absent, stamp |-> MissingStamp, page |-> NoPage]
NoDemand == [step |-> "none", session |-> Absent, page |-> NoPage]

(* The other session of the same database; no file yet for the flat agents. *)
OtherSession(kind) == IF Native(kind) THEN <<Row(FALSE)>> ELSE <<>>

Init ==
  /\ \E kind \in ConvoKinds :
       log = [kind |-> kind, rows |-> <<<<Row(TRUE), Row(FALSE)>>, OtherSession(kind)>>,
              writes |-> <<1, Len(OtherSession(kind))>>,
              torn |-> FALSE, checkpoints |-> 0, link |-> FALSE, child |-> FALSE]
  /\ seat = [there |-> TRUE, gen |-> 1, session |-> 1]
  /\ feed = IdleFeed("off", NoLast)
  /\ kept = NoKept
  /\ wire = <<>>
  /\ window = [gen |-> 1, asks |-> "subscribe", follows |-> FALSE, entries |-> <<>>]
  /\ demand = [NoDemand EXCEPT !.step = "asked"]
  /\ doom = [spent |-> 0, why |-> {}]

Costs(n, why) ==
  /\ doom.spent + n <= MaxConvoOps
  /\ doom' = [spent |-> doom.spent + n, why |-> doom.why \cup why]
Spend(why) == Costs(1, why)

(***************************************************************************)
(* The agent writes its transcript (external).                             *)
(***************************************************************************)

WritesTo == IF log.kind = "claude" /\ log.child THEN 2 ELSE seat.session
Closed == log.link /\ ~log.child

Wrote(s) == [log.writes EXCEPT ![s] = @ + 1]

(* A record is appended, finishing the one that was half written. *)
AgentSays ==
  /\ ~Closed
  /\ \E s \in {WritesTo} :
       log' = [log EXCEPT !.rows[s] = Append(@, Row(FALSE)), !.writes = Wrote(s), !.torn = FALSE]
  /\ Spend({})
  /\ UNCHANGED <<seat, feed, kept, wire, window, demand>>

(* Half a record of a flat file, or half of the document, is on disk. *)
AgentTears ==
  /\ ~Native(log.kind) /\ ~log.torn /\ ~Closed
  /\ log' = [log EXCEPT !.torn = TRUE, !.writes = Wrote(WritesTo)]
  /\ Spend({})
  /\ UNCHANGED <<seat, feed, kept, wire, window, demand>>

(* The result of a call: a later record of a flat file, a tool row, a step's observation. *)
ToolReturns ==
  /\ ~log.torn /\ ~Closed
  /\ \E s \in {WritesTo} : \E i \in DOMAIN log.rows[s] :
       /\ log.rows[s][i].call /\ ~log.rows[s][i].out
       /\ log' = [log EXCEPT !.rows[s][i].out = TRUE, !.writes = Wrote(s)]
  /\ Spend({})
  /\ UNCHANGED <<seat, feed, kept, wire, window, demand>>

(* A row of a database, or a step of a document, is rewritten in place. *)
AgentEdits ==
  /\ ~log.torn
  /\ Native(log.kind) \/ OneDocument(log.kind)
  /\ \E s \in {WritesTo} : \E i \in {Len(log.rows[s])} \ {0} :
       /\ log.rows[s][i].text = 0
       /\ log' = [log EXCEPT !.rows[s][i].text = 1, !.writes = Wrote(s)]
       /\ Spend(IF OneDocument(log.kind) /\ ~log.rows[s][i].call THEN {"retold"} ELSE {})
  /\ UNCHANGED <<seat, feed, kept, wire, window, demand>>

Checkpoints ==
  /\ Native(log.kind) /\ log.checkpoints < log.writes[1] + log.writes[2]
  /\ log' = [log EXCEPT !.checkpoints = log.writes[1] + log.writes[2]]
  /\ Spend({})
  /\ UNCHANGED <<seat, feed, kept, wire, window, demand>>

(* Claude continues in another session: the link ends a file, the child appears before or after. *)
Continues ==
  /\ log.kind = "claude" /\ seat.session = 1 /\ log.writes[1] > 0
  /\ \/ /\ ~log.link
        /\ log' = [log EXCEPT !.link = TRUE, !.torn = FALSE, !.writes = Wrote(1)]
        /\ Spend({})
     \/ /\ ~log.child
        /\ log' = [log EXCEPT !.child = TRUE, !.writes = Wrote(2), !.rows[2] = <<Row(FALSE)>>]
        /\ Spend(IF log.link THEN {"child late"} ELSE {})
  /\ UNCHANGED <<seat, feed, kept, wire, window, demand>>

(***************************************************************************)
(* The topology moves the pane (external): another session, another pane   *)
(* epoch, a pane that leaves or comes back.                                *)
(***************************************************************************)

Moves ==
  /\ \/ /\ seat.there /\ seat.session = 1 /\ ~log.torn /\ log.kind # "claude"
        /\ \E gen \in {seat.gen, seat.gen + 1} : seat' = [seat EXCEPT !.session = 2, !.gen = gen]
        /\ Costs(2, {})
     \/ /\ seat.there /\ seat' = [seat EXCEPT !.there = FALSE]
        /\ Costs(2, {})
     \/ /\ ~seat.there
        /\ \E gen \in {seat.gen, seat.gen + 1} : seat' = [seat EXCEPT !.there = TRUE, !.gen = gen]
        /\ UNCHANGED doom
  /\ UNCHANGED <<log, feed, kept, wire, window, demand>>

(***************************************************************************)
(* The feed task: feed_loop and poll.                                      *)
(***************************************************************************)

Probed == feed.last.known /\ feed.last.probe # Absent
StampNow == IF Probed THEN ProbeStamp(feed.last.probe, feed.last.wal) ELSE MissingStamp

(* The page the client holds is current as far as two stats can tell. *)
Settled ==
  /\ Probed /\ feed.last.sig.resolved
  /\ feed.last.gen = seat.gen /\ feed.last.session = seat.session
  /\ StampNow = feed.last.stamp

(* A tick or an invalidation starts a poll: the fence and the stamp are taken before the read. *)
PollStarts ==
  /\ feed.step = "idle" /\ seat.there /\ ~Settled
  /\ feed' = [feed EXCEPT !.step = "read", !.gen = seat.gen, !.session = seat.session,
                          !.stamp = StampNow]
  /\ UNCHANGED <<log, seat, kept, wire, window, demand, doom>>

(* What a reader keeps between reads is used while the file, and the log of a database, stand. *)
CacheStamp(s) == ProbeStamp(SourcePath(s), TRUE)
Caches(kind) == kind \in {"opencode", "omo"}
CacheHit(s) == kept.session = s /\ kept.stamp = CacheStamp(s)
Remembers(s, page) ==
  IF Caches(log.kind) /\ page.available
  THEN [session |-> s, stamp |-> CacheStamp(s), page |-> page] ELSE kept

PollReads ==
  /\ feed.step = "read"
  /\ IF Caches(log.kind) /\ CacheHit(feed.session)
     THEN /\ feed' = [feed EXCEPT !.page = kept.page, !.step = "emit"]
          /\ UNCHANGED kept
     ELSE /\ \E page \in {PageOf(feed.session)} :
               /\ feed' = IF log.kind = "hermes" /\ page.available
                          THEN [feed EXCEPT !.page = WithoutResults(page), !.step = "results"]
                          ELSE [feed EXCEPT !.page = page, !.step = "emit"]
               /\ kept' = Remembers(feed.session, page)
  /\ UNCHANGED <<log, seat, wire, window, demand, doom>>

(* A source that cannot be opened fails the read; the poll returns and the next tick tries again. *)
PollFails ==
  /\ feed.step = "read"
  /\ feed' = IdleFeed("idle", feed.last)
  /\ Spend({})
  /\ UNCHANGED <<log, seat, kept, wire, window, demand>>

PollReadsResults ==
  /\ feed.step = "results"
  /\ feed' = [feed EXCEPT !.page = attach_tool_results(feed.page), !.step = "emit"]
  /\ UNCHANGED <<log, seat, kept, wire, window, demand, doom>>

Stale == ~seat.there \/ seat.gen # feed.gen \/ seat.session # feed.session

SameProbe(page) ==
  /\ feed.last.known /\ feed.last.probe = page.probe
  /\ feed.last.wal = (Native(log.kind) /\ page.probe # Absent)
(* Mutation: the source is stamped after the read. *)
PostReadStamp(page) ==
  IF SameProbe(page) /\ page.probe # Absent THEN ProbeStamp(page.probe, feed.last.wal) ELSE MissingStamp
PreReadStamp(page) == IF SameProbe(page) THEN feed.stamp ELSE MissingStamp

LastRead(page, sig) ==
  [known |-> TRUE, gen |-> feed.gen, session |-> feed.session, stamp |-> PreReadStamp(page),
   probe |-> page.probe, wal |-> Native(log.kind) /\ page.probe # Absent, sig |-> sig]

(* Nothing to send: only the stamp and the probe move on. *)
Restamped(page) ==
  [feed.last EXCEPT !.stamp = PreReadStamp(page), !.probe = page.probe,
                    !.wal = Native(log.kind) /\ page.probe # Absent]

Frame(gen, decision) ==
  [gen |-> gen, reset |-> decision.reset, messages |-> decision.messages]
QueueFull == Len(wire) >= 2

PollEmits ==
  /\ feed.step = "emit"
  /\ UNCHANGED <<log, seat, kept, window, demand, doom>>
  /\ \E decision \in {decide(feed.last, feed.gen, SigOf(feed.page), feed.page.entries)} :
       \/ /\ Stale
          /\ feed' = IdleFeed("idle", feed.last)
          /\ UNCHANGED wire
       \/ /\ ~Stale /\ ~decision.send
          /\ feed' = IdleFeed("idle", Restamped(feed.page))
          /\ UNCHANGED wire
       \/ /\ ~Stale /\ decision.send /\ QueueFull
          /\ feed' = IdleFeed("idle", feed.last)
          /\ UNCHANGED wire
       \/ /\ ~Stale /\ decision.send /\ ~QueueFull
          /\ feed' = IdleFeed("idle", LastRead(feed.page, SigOf(feed.page)))
          /\ wire' = Append(wire, Frame(feed.gen, decision))

(* emit_tombstone: the pane left; one empty reset. *)
PollBuries ==
  /\ feed.step = "idle" /\ ~seat.there /\ ~(feed.last.known /\ feed.last.sig = Tombstone)
  /\ ~QueueFull
  /\ feed' = IdleFeed("idle", [NoLast EXCEPT !.known = TRUE, !.gen = seat.gen])
  /\ wire' = Append(wire, Frame(seat.gen, [reset |-> TRUE, messages |-> <<>>]))
  /\ UNCHANGED <<log, seat, kept, window, demand, doom>>

(***************************************************************************)
(* Subscriptions, history and the phone.                                   *)
(***************************************************************************)

(* route_subscribe_conversation replaces the feed of the pane, or refuses when it is gone;
   route_unsubscribe_conversation aborts it. *)
Subscribes ==
  /\ window.asks # "nothing"
  /\ feed' = IF window.asks = "unsubscribe" THEN IdleFeed("off", NoLast)
             ELSE IF seat.there THEN IdleFeed("idle", NoLast) ELSE feed
  /\ window' = [window EXCEPT !.asks = "nothing",
                              !.follows = window.asks = "subscribe" /\ seat.there]
  /\ UNCHANGED <<log, seat, kept, wire, demand, doom>>

(* The phone learns where the pane is; another target subscribes again, none unsubscribes. *)
Learned == IF seat.there THEN seat.gen ELSE 0
PhoneLearns ==
  /\ window.gen # Learned
  /\ window' = [window EXCEPT !.gen = Learned,
                              !.asks = IF Learned = 0 THEN "unsubscribe" ELSE "subscribe"]
  /\ UNCHANGED <<log, seat, feed, kept, wire, demand, doom>>

(* conversation_history: a reader of its own, and the tuple checked again after the read. *)
HistoryReads ==
  /\ demand.step = "asked" /\ seat.there
  /\ demand' = [demand EXCEPT !.step = "read", !.session = seat.session, !.page = PageOf(seat.session)]
  /\ UNCHANGED <<log, seat, feed, kept, wire, window, doom>>

(* The page the phone takes from history is the one the feed sent last. *)
InStep == wire = <<>> /\ feed.last.gen = window.gen /\ SigOf(demand.page) = feed.last.sig

(* acceptHistoryPage: a fresh head replaces the window; a failure leaves it. *)
HistoryLost == ~seat.there \/ seat.session # demand.session
HistoryArrives ==
  /\ demand.step = "read" \/ (demand.step = "asked" /\ ~seat.there)
  /\ demand' = NoDemand
  /\ IF demand.step = "asked" \/ HistoryLost
     THEN UNCHANGED <<window, doom>>
     ELSE /\ window' = [window EXCEPT !.entries = demand.page.entries]
          /\ doom' = [doom EXCEPT !.why = @ \cup (IF InStep THEN {} ELSE {"crossed"})]
  /\ UNCHANGED <<log, seat, feed, kept, wire>>

(* mergeAppendedEntries keeps the entry it has. *)
Missing(messages) ==
  LET known == {window.entries[i].id : i \in DOMAIN window.entries}
  IN SelectSeq(messages, LAMBDA entry : entry.id \notin known)

(* applyConversationUpdate: another epoch is dropped, a reset replaces and browses again. *)
PhoneTakes ==
  /\ wire # <<>>
  /\ wire' = Tail(wire)
  /\ \E frame \in {Head(wire)} :
       \/ /\ window.gen = 0 \/ frame.gen # window.gen
          /\ window' = IF window.gen = 0 /\ frame.reset /\ frame.messages = <<>>
                       THEN [window EXCEPT !.entries = <<>>] ELSE window
          /\ UNCHANGED <<demand, doom>>
       \/ /\ window.gen # 0 /\ frame.gen = window.gen /\ frame.reset
          /\ window' = [window EXCEPT !.entries = frame.messages]
          /\ demand' = [NoDemand EXCEPT !.step = "asked"]
          /\ doom' = [doom EXCEPT !.why = @ \ {"crossed"}]
       \/ /\ window.gen # 0 /\ frame.gen = window.gen /\ ~frame.reset
          /\ window' = [window EXCEPT !.entries = @ \o Missing(frame.messages)]
          /\ UNCHANGED <<demand, doom>>
  /\ UNCHANGED <<log, seat, feed, kept>>

Next ==
  \/ AgentSays
  \/ AgentTears \/ ToolReturns \/ AgentEdits \/ Checkpoints \/ Continues \/ Moves
  \/ PollStarts \/ PollReads \/ PollFails \/ PollReadsResults \/ PollEmits \/ PollBuries
  \/ Subscribes \/ PhoneLearns \/ HistoryReads \/ HistoryArrives \/ PhoneTakes

(***************************************************************************)
(* Properties                                                              *)
(***************************************************************************)

(* No poll has anything left to say, nothing is on its way and the phone knows the pane. *)
ConvoQuiet ==
  /\ seat.there /\ feed.step = "idle" /\ feed.last.known
  /\ \/ Settled
     \/ ~decide(feed.last, seat.gen, SigOf(PageOf(seat.session)), <<>>).send
  /\ wire = <<>> /\ demand.step = "none" /\ window.asks = "nothing" /\ window.follows
  /\ window.gen = seat.gen

(* The conversation on the phone ends as the transcript does: once the feed is settled the newest
   entries of the window are the newest entries of the source, tool results and edits included,
   whatever was written while a page was being read.  The exceptions are named: a history page
   that is not what the feed sent last, until the next reset, a Claude child that appears after its
   link, and a Devin step whose text is rewritten. *)
ConvoFollows ==
  ConvoQuiet /\ doom.why = {} =>
    \E page \in {PageOf(seat.session)} : Newest(window.entries) = page.entries
=============================================================================
