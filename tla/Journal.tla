------------------------------- MODULE Journal -------------------------------
(***************************************************************************)
(* What the relay writes down of its work: the activity journal a phone    *)
(* reads (actions/activity.rs), a ring in memory kept equal to a file with *)
(* a write-ahead list of doomed rows, and the audit log of remote writes   *)
(* (lerdr-core audit.rs), a file with rotations.  Rows are committed by    *)
(* tasks of their own, published after the lock is given back, discarded   *)
(* when they went stale; the phone clears the journal, asks for it and     *)
(* follows its events.  Any write to a file may fail, before or after it   *)
(* took effect, and the relay may be stopped between any two steps.        *)
(***************************************************************************)
EXTENDS Naturals, Sequences, FiniteSets, SequencesExt

CONSTANTS
  MaxRows,       \* rows of the activity journal
  ActionRows,    \* the rows that are of actions; the others are of transitions
  JournalItems,  \* MAX_ITEMS
  EventBacklog,  \* capacity of the journal's broadcast channel
  Rotations,     \* MAX_ROTATIONS of the audit log
  MaxBreaks      \* bound on failing writes, stops and requests of the phone

VARIABLES
  ring,     \* the journal in memory: its rows, whether it has a file, whether the relay runs
  shelf,    \* the files: lines of the journal, tombstones, the audit log and its rotations
  tale,     \* the rows: what each is of and how far it got
  sweep,    \* the clear of the journal
  air,      \* events of the journal and an answer on the way to the phone
  list,     \* the rows the phone shows
  breaks    \* how much of MaxBreaks is used, what excuses a property, what was told

vars == <<ring, shelf, tale, sweep, air, list, breaks>>

Rows == 1 .. MaxRows
Torn == 0                   \* a line that was cut off: no newline yet
Corrupt == 2 * MaxRows + 1  \* a line that does not parse
AuditFileRows == 1          \* rows of MAX_AUDIT_BYTES
Volumes == 0 .. Rotations   \* the audit log and its rotations

-----------------------------------------------------------------------------
(* Files. *)

(* How a write ends: done, failed with nothing changed, failed after it took effect (a file renamed
   whose directory could not be synced, a line written that could not be). *)
Ends == {"ok", "none", "unsynced"}
Applied(end) == end # "none"
Price(end) == IF end = "ok" THEN 0 ELSE 1

Costs(n, why) ==
  /\ breaks.spent + n <= MaxBreaks
  /\ breaks' = [breaks EXCEPT !.spent = @ + n, !.why = @ \cup why]

(* One more line at the end; it completes a line that was cut off instead (append_line). *)
append_line(lines, line) ==
  IF lines # <<>> /\ Last(lines) = Torn THEN [lines EXCEPT ![Len(lines)] = Corrupt]
  ELSE Append(lines, line)

(* The newest that fit (retain_within_limits). *)
retain_within_limits(rows) == SubSeq(rows, 1 + (IF Len(rows) > JournalItems THEN Len(rows) - JournalItems ELSE 0),
                                     Len(rows))

(* The rows a start finds in the file: lines that parse and are not doomed (load). *)
Replayed(files) ==
  retain_within_limits(SelectSeq(files.lines, LAMBDA l : l \in Rows \ files.doom))

Rewritten(files, rows, end) == IF Applied(end) THEN [files EXCEPT !.lines = rows] ELSE files
write_tombstones(files, doom, end) == IF Applied(end) THEN [files EXCEPT !.doom = doom] ELSE files

Init ==
  /\ ring = [rows |-> <<>>, durable |-> TRUE, up |-> TRUE]
  /\ shelf = [lines |-> <<>>, doom |-> {}, audit |-> [f \in Volumes |-> <<>>]]
  /\ tale = [i \in Rows |-> [kind |-> IF i \in ActionRows THEN "action" ELSE "transition", stage |-> "idle"]]
  /\ sweep = [stage |-> "idle", buried |-> {}, told |-> ""]
  /\ air = [events |-> <<>>, answer |-> <<>>, asked |-> FALSE]
  /\ list = {}
  /\ breaks = [spent |-> 0, why |-> {}, audited |-> <<>>]

-----------------------------------------------------------------------------
(* The audit log. *)

(* The chain of renames, oldest first, done down to the one onto rotation m: m = 1 is all of it,
   m = Rotations + 1 only the removal of the oldest (rotate_if_needed). *)
rotate_if_needed(files, m) ==
  [f \in Volumes |-> IF f >= m THEN files[f - 1] ELSE IF f = m - 1 THEN <<>> ELSE files[f]]

(* Mutation: the chain starts at the newest, so that every rename overwrites the next. *)
Rotated_newest_first(files) == [f \in Volumes |-> IF f = 0 THEN <<>> ELSE files[0]]
Rotated(files) == rotate_if_needed(files, 1)

(* The two records of an action, told apart by number alone. *)
attempt_record(i) == 2 * i - 1
result_record(i) == 2 * i

Due(files) == Len(files[0]) + 1 > AuditFileRows

(* A record is written, behind a rotation when the file is full; what fails is only logged. *)
AuditAppend(entry) ==
  \/ /\ shelf' = [shelf EXCEPT !.audit =
                    [(IF Due(@) THEN Rotated(@) ELSE @) EXCEPT ![0] = append_line(@, entry)]]
     /\ breaks' = [breaks EXCEPT !.audited = Append(@, entry)]
  \/ /\ Due(shelf.audit)
     /\ \E m \in 1 .. Rotations + 1 : shelf' = [shelf EXCEPT !.audit = rotate_if_needed(@, m)]
     /\ Costs(1, {"unrotated"})
  \/ /\ ~Due(shelf.audit)
     /\ \E line \in {Torn, entry} : shelf' = [shelf EXCEPT !.audit[0] = append_line(@, line)]
     /\ Costs(1, {"unaudited"})

Begins(i) == ring.up /\ tale[i].stage = "idle" /\ (i > 1 => tale[i - 1].stage # "idle")

(* Admission of an audited write: its attempt is logged before it is routed (dispatch). *)
Attempts(i) ==
  /\ Begins(i) /\ tale[i].kind = "action"
  /\ AuditAppend(attempt_record(i))
  /\ tale' = [tale EXCEPT ![i].stage = "running"]
  /\ UNCHANGED <<ring, sweep, air, list>>

(* Its result is logged when the handler is done (spawn_action!). *)
AuditsResult(i) ==
  /\ ring.up /\ tale[i].stage = "recorded"
  /\ AuditAppend(result_record(i))
  /\ tale' = [tale EXCEPT ![i].stage = "done"]
  /\ UNCHANGED <<ring, sweep, air, list>>

-----------------------------------------------------------------------------
(* The journal. *)

(* A transition of an agent wants its row, which is checked to be current first. *)
TransitionStarts(i) ==
  /\ Begins(i) /\ tale[i].kind = "transition"
  /\ tale' = [tale EXCEPT ![i].stage = "running"]
  /\ UNCHANGED <<ring, shelf, sweep, air, list, breaks>>

Full == Len(ring.rows) >= JournalItems
With(i) == retain_within_limits(Append(ring.rows, i))

(* What is in the file after the write of a row ended so: one line more, or all of it again. *)
AppendedFile(i, end) ==
  IF Full THEN Rewritten(shelf, With(i), end)
  ELSE CASE end = "none" -> shelf
         [] end = "torn" -> [shelf EXCEPT !.lines = append_line(@, Torn)]
         [] OTHER -> [shelf EXCEPT !.lines = append_line(@, i)]

(* The line was added to one that was cut off. *)
Glued == ~Full /\ shelf.lines # <<>> /\ Last(shelf.lines) = Torn

(* Mutation: the ring is changed first. *)
RingAfter_any(i, end) == With(i)
(* The ring changes only after the file did: a row that could not be written is dropped. *)
RingAfter(i, end) == IF end = "ok" THEN With(i) ELSE ring.rows

(* An action goes on to its result whatever became of its row (record_activity). *)
AfterRow(i) == IF tale[i].kind = "action" THEN "recorded" ELSE "done"

OutOfOrder(i) == IF \E j \in Range(ring.rows) : j > i THEN {"unordered"} ELSE {}

(* Under the lock (append_locked, append_durable); without a file the ring is all there is. *)
Commits(i) ==
  /\ ring.up /\ tale[i].stage = "running"
  /\ \E end \in Ends \cup {"torn"} :
       /\ end = "torn" => ~Full
       /\ end # "ok" => ring.durable
       /\ shelf' = IF ring.durable THEN AppendedFile(i, end) ELSE shelf
       /\ ring' = [ring EXCEPT !.rows = RingAfter(i, end)]
       /\ Costs(Price(end), (IF end = "unsynced" THEN {"half"} ELSE {})
                            \cup (IF ring.durable /\ Glued THEN {"half"} ELSE {}) \cup OutOfOrder(i))
       /\ tale' = [tale EXCEPT ![i].stage = IF end = "ok" THEN "committed" ELSE AfterRow(i)]
  /\ UNCHANGED <<sweep, air, list>>

(* The newest events that the channel holds; a slower reader misses the others (Lagged). *)
Sent(events, event) ==
  IF Len(events) < EventBacklog THEN Append(events, event) ELSE Append(Tail(events), event)
Lagging == IF Len(air.events) >= EventBacklog THEN {"lagged"} ELSE {}
ClearedEvent == 0

(* After the lock is given back the row is broadcast (publish), if still current when it is a
   transition's; by then the journal may have been cleared. *)
Publishes(i) ==
  /\ ring.up /\ tale[i].stage = "committed"
  /\ air' = [air EXCEPT !.events = Sent(@, i)]
  /\ Costs(0, Lagging \cup IF i \in Range(ring.rows) THEN {} ELSE {"overtaken"})
  /\ tale' = [tale EXCEPT ![i].stage = AfterRow(i)]
  /\ UNCHANGED <<ring, shelf, sweep, list>>

GoesDown ==
  /\ Costs(1, {"restarted"})
  /\ ring' = [ring EXCEPT !.rows = <<>>, !.up = FALSE]
  /\ tale' = [i \in Rows |-> IF tale[i].stage = "idle" THEN tale[i] ELSE [tale[i] EXCEPT !.stage = "done"]]
  /\ air' = [events |-> <<>>, answer |-> <<>>, asked |-> FALSE]
  /\ UNCHANGED list

(* Rows are taken out: their ids are written to the tombstones first, the file is rewritten without
   them, the tombstones are put back (discard, try_clear).  t, c and r are the ends of the three. *)
Without(gone, t, c, r) ==
  IF t # "ok" THEN write_tombstones(shelf, shelf.doom \cup gone, t)
  ELSE write_tombstones(
         Rewritten(write_tombstones(shelf, shelf.doom \cup gone, t),
                   SelectSeq(ring.rows, LAMBDA l : l \notin gone), c),
         shelf.doom, r)

TakenOut(gone, unpublished) ==
  \E t, c, r \in Ends :
    /\ t # "ok" => c = "ok" /\ r = "ok"
    /\ ~ring.durable => t = "ok" /\ c = "ok" /\ r = "ok"
    /\ shelf' = IF ring.durable THEN Without(gone, t, c, r) ELSE shelf
    /\ ring' = IF t = "ok" /\ c = "ok"
               THEN [ring EXCEPT !.rows = SelectSeq(@, LAMBDA l : l \notin gone)] ELSE ring
    /\ Costs(Price(t) + Price(c) + Price(r),
             (IF t = "unsynced" \/ c = "unsynced" \/ (c # "ok" /\ r = "none") THEN {"half"} ELSE {})
             \cup (IF t # "ok" \/ c # "ok" \/ Full \/ gone \cap (list \cup Range(air.answer)) # {}
                   THEN unpublished ELSE {}))

(* The relay is stopped on the way: behind the tombstones, or behind the file as well.  From the
   first of them on the rows are gone. *)
DiesTakingOut(gone) ==
  /\ ring.durable
  /\ \E c \in {"ok", "none"} : shelf' = Rewritten(write_tombstones(shelf, shelf.doom \cup gone, "ok"),
                                                SelectSeq(ring.rows, LAMBDA l : l \notin gone), c)
  /\ GoesDown
  /\ sweep' = [sweep EXCEPT !.stage = "done", !.buried = @ \cup gone]

(* A transition that went stale before its row was published. *)
Discards(i) ==
  /\ ring.up /\ tale[i].stage = "committed" /\ tale[i].kind = "transition"
  /\ IF i \in Range(ring.rows)
     THEN /\ TakenOut({i}, {"unpublished"})
          /\ sweep' = IF i \in Range(ring'.rows) THEN sweep ELSE [sweep EXCEPT !.buried = @ \cup {i}]
     ELSE UNCHANGED <<ring, shelf, sweep, breaks>>
  /\ tale' = [tale EXCEPT ![i].stage = "done"]
  /\ UNCHANGED <<air, list>>

DiesDiscarding(i) ==
  /\ ring.up /\ tale[i].stage = "committed" /\ tale[i].kind = "transition" /\ i \in Range(ring.rows)
  /\ DiesTakingOut({i})

(* The phone clears the journal; everybody is told once the lock is given back (clear_activities). *)
Clears ==
  /\ ring.up /\ sweep.stage = "idle"
  /\ \E gone \in {Range(ring.rows)} :
       /\ TakenOut(gone, {})
       /\ sweep' = IF ring'.rows = <<>>
                   THEN [sweep EXCEPT !.stage = "drained", !.buried = @ \cup gone]
                   ELSE [sweep EXCEPT !.stage = "done", !.told = "failed"]
  /\ UNCHANGED <<tale, air, list>>

DiesClearing ==
  /\ ring.up /\ sweep.stage = "idle" /\ ring.rows # <<>>
  /\ DiesTakingOut(Range(ring.rows))

TellsCleared ==
  /\ ring.up /\ sweep.stage = "drained"
  /\ air' = [air EXCEPT !.events = Sent(@, ClearedEvent)]
  /\ Costs(0, Lagging \cup IF ring.rows = <<>> THEN {} ELSE {"overtaken"})
  /\ sweep' = [sweep EXCEPT !.stage = "done", !.told = "completed"]
  /\ UNCHANGED <<ring, shelf, tale, list>>

-----------------------------------------------------------------------------
(* Stopping and starting. *)

Stops ==
  /\ ring.up
  /\ GoesDown
  /\ sweep' = [sweep EXCEPT !.stage = IF @ = "drained" THEN "done" ELSE @]
  /\ UNCHANGED shelf

(* The file is read back, rewritten if it is not what was read, and the tombstones are removed; if
   one of them fails, the journal goes on without a file (Journal::open, load). *)
Starts ==
  /\ ~ring.up
  /\ \E c, r \in Ends, rows \in {Replayed(shelf)} :
       /\ c # "ok" => (rows # shelf.lines \/ shelf.doom # {}) /\ r = "ok"
       /\ r # "ok" => shelf.doom # {}
       /\ shelf' = IF c # "ok" THEN Rewritten(shelf, rows, c)
                   ELSE write_tombstones(Rewritten(shelf, rows, c), {}, r)
       /\ ring' = [rows |-> IF c = "ok" /\ r = "ok" THEN rows ELSE <<>>,
                   durable |-> c = "ok" /\ r = "ok", up |-> TRUE]
       /\ breaks' = [breaks EXCEPT !.spent = @ + Price(c) + Price(r), !.why = @ \ {"half"}]
       /\ breaks'.spent <= MaxBreaks
  /\ UNCHANGED <<tale, sweep, air, list>>

-----------------------------------------------------------------------------
(* The phone. *)

(* It asks for the journal; the answer is of the moment it is read (get_activity, recent). *)
Asks ==
  /\ ring.up /\ ~air.asked
  /\ Costs(1, {})
  /\ air' = [air EXCEPT !.asked = TRUE, !.answer = ring.rows]
  /\ UNCHANGED <<ring, shelf, tale, sweep, list>>

Shortened(ids) == {i \in ids : Cardinality({j \in ids : j > i}) < JournalItems}

(* It takes the place of what was shown (mergeActivityHistory). *)
TakesAnswer ==
  /\ air.asked
  /\ list' = Range(air.answer)
  /\ air' = [air EXCEPT !.asked = FALSE, !.answer = <<>>]
  /\ Costs(0, IF air.answer = ring.rows THEN {} ELSE {"overtaken"})
  /\ UNCHANGED <<ring, shelf, tale, sweep>>

(* The newest of its rows, by their time (upsertActivity); none after a clear. *)
TakesEvent ==
  /\ air.events # <<>>
  /\ list' = IF Head(air.events) = ClearedEvent THEN {} ELSE Shortened(list \cup {Head(air.events)})
  /\ air' = [air EXCEPT !.events = Tail(@)]
  /\ UNCHANGED <<ring, shelf, tale, sweep, breaks>>

Next ==
  \/ \E i \in Rows : Attempts(i) \/ TransitionStarts(i) \/ Commits(i) \/ Publishes(i) \/ Discards(i)
                     \/ DiesDiscarding(i) \/ AuditsResult(i)
  \/ Clears \/ DiesClearing \/ TellsCleared \/ Stops \/ Starts \/ Asks \/ TakesAnswer \/ TakesEvent

-----------------------------------------------------------------------------
(* Properties *)

(* What a start would find in the file is what the ring holds, whatever failed and wherever the
   relay is stopped, until a write fails after it took effect or is added to one that was cut off
   (append_durable, discard, try_clear, load). *)
FileIsRing ==
  ring.up /\ ring.durable /\ "half" \notin breaks.why => Replayed(shelf) = ring.rows

(* A row that was discarded, or cleared with success, never is shown by the journal again, after no
   restart either (discard, try_clear). *)
BuriedStays == sweep.buried \cap (Range(ring.rows) \cup Range(Replayed(shelf))) = {}

Quiet == /\ ring.up /\ air.events = <<>> /\ ~air.asked /\ sweep.stage # "drained"
         /\ \A i \in Rows : tale[i].stage \notin {"running", "committed"}

(* With nothing on the way the phone shows the rows of the journal, but for rows and clears that
   overtook each other, a channel that lagged, rows committed out of order, a stale row that could not
   be taken out, had pushed the oldest out or been asked for first, and a restart (publish, discard, try_clear, upsertActivity, mergeActivityHistory). *)
FeedConverges ==
  Quiet /\ breaks.why \cap {"overtaken", "lagged", "unordered", "unpublished", "restarted"} = {}
    => list = Range(ring.rows)

(* The records of the audit log, oldest file first, that were written without an error. *)
AuditRows ==
  SelectSeq(FlattenSeq([f \in 1 .. Rotations + 1 |-> shelf.audit[Rotations + 1 - f]]),
            LAMBDA l : l \in Range(breaks.audited))

(* The log keeps the newest of its records in their order and without a gap, as many as its files
   hold, unless a rotation failed half way or a record was cut off (append, rotate_if_needed). *)
AuditKept ==
  "unaudited" \notin breaks.why =>
    /\ IsSuffix(AuditRows, breaks.audited)
    /\ Len(AuditRows) < (Rotations + 1) * AuditFileRows /\ Len(AuditRows) < Len(breaks.audited)
         => "unrotated" \in breaks.why
=============================================================================
