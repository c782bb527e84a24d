------------------------------ MODULE Uploads ------------------------------
(***************************************************************************)
(* Attachment uploads.  A phone sends, for each pane, a batch of files:     *)
(* begin, chunks one at a time, finish, with a cancel at any point.  Every  *)
(* request runs in a task of its own on the relay, so what was sent in      *)
(* order can run and be answered in any order.  Binary chunks carry no      *)
(* request id: the phone gives an answer to the oldest chunk it has under   *)
(* way on that relay when file index and next sequence fit.  The relay      *)
(* stages a session in memory and on disk and publishes the finished files  *)
(* with a durable index.                                                    *)
(* A file is ChunksPerFile chunks; a chunk's bytes and digests are its      *)
(* batch, run and position.  Times are choices: a session, an attachment or *)
(* an orphaned object is past its lifetime or not.                          *)
(***************************************************************************)
EXTENDS Naturals, Sequences, FiniteSets, SequencesExt

CONSTANTS
  Batches,         \* panes with a batch, all of one phone
  Files,           \* files of a batch
  ChunksPerFile,
  MaxRuns,         \* bound on upload runs
  MaxStaged,       \* MAX_SESSIONS_PER_OWNER
  MaxUploadOdds    \* bound on cancels, expiries, failed writes, lost answers, crashes

VARIABLES
  upl,      \* the manager's sessions, tombstones and attachments
  store,    \* its directory: staged sessions, objects, the index
  jobs,     \* tasks of requests that have not run
  answers,  \* results on their way to the phone
  batch,    \* the phone's batches
  fifo,     \* the phone's pending binary chunks, in the order of sending
  row,      \* the generation of each pane's target
  mishap    \* counters of the bounds, and what excuses a staged session

uplVars == <<upl, store, jobs, answers, batch, fifo, row, mishap>>

NoId == 0
Total == Files * ChunksPerFile
FileOf(n) == n \div ChunksPerFile

Odd == mishap.odds < MaxUploadOdds
Costs == mishap' = [mishap EXCEPT !.odds = @ + 1]
Excused(ids) == mishap' = [mishap EXCEPT !.odds = @ + 1, !.excused = @ \cup ids]

Ids == DOMAIN upl.sessions
Without(f, id) == [i \in DOMAIN f \ {id} |-> f[i]]
With(f, id, value) == [i \in DOMAIN f \cup {id} |-> IF i = id THEN value ELSE f[i]]

-----------------------------------------------------------------------------
(* Contents: what the validators of each kind of file refuse. *)

Kinds == {"image", "text", "json", "document"}
valid_text_content(defect) == defect \notin {"utf8", "nul"}
valid_json_content(defect) == defect # "syntax"
valid_document_container(defect) == defect \notin {"directory", "entry", "expanded"}
validate_content(kind, defect) ==
  CASE kind = "image" -> defect # "magic"
    [] kind = "text" -> valid_text_content(defect)
    [] kind = "json" -> valid_text_content(defect) /\ valid_json_content(defect)
    [] kind = "document" -> valid_document_container(defect)

(* normalize_spec: a name, a size, a type and its extension. *)
normalize_spec(kind) == kind \in Kinds

-----------------------------------------------------------------------------
(* The session store; every operation runs under one mutex. *)

(* A session with its staging directory gone. *)
Dropped(u, id) == [u EXCEPT !.sessions = Without(@, id)]
Unstaged(id) == store' = [store EXCEPT !.staged = @ \ {id}]

discard_locked(u, id) ==
  IF id \notin DOMAIN u.sessions THEN u
    ELSE [Dropped(u, id) EXCEPT !.tombs = With(@, id, u.sessions[id].target)]

(* lock_session: absent, expired, of another target, or usable. *)
lock_session(id, target) ==
  IF id \notin Ids THEN "not_found"
    ELSE IF upl.sessions[id].late THEN "expired"
    ELSE IF upl.sessions[id].target # target THEN "mismatch"
    ELSE "ok"

(* chunk_locked: exactly the next chunk of the current file. *)
InOrder(s, n) == s.current < Files /\ n = s.sequence
Stored(s, chunk) ==
  [s EXCEPT !.sequence = @ + 1, !.body = Append(@, chunk),
            !.current = IF (s.sequence + 1) % ChunksPerFile = 0 THEN @ + 1 ELSE @]

(* cancel: repeated ones are answered like the first, unless the upload was  *)
(* another pane's.                                                           *)
CancelOutcome(id, target) ==
  IF id \in Ids
    THEN IF upl.sessions[id].target = target THEN "ok" ELSE "mismatch"
    ELSE IF id \in DOMAIN upl.tombs /\ upl.tombs[id] # target THEN "mismatch" ELSE "ok"

cancel(id, target) ==
  IF CancelOutcome(id, target) = "ok"
    THEN upl' = discard_locked(upl, id) /\ Unstaged(id)
    ELSE UNCHANGED <<upl, store>>

(* cleanup: what is past its lifetime leaves memory and disk. *)
Expired == {id \in Ids : upl.sessions[id].late}
ExpiredFiles == {r \in upl.recs : r \in mishap.over}
cleanup ==
  LET recs == upl.recs \ ExpiredFiles
      lost == {o \in store.objects : o \notin recs /\ o \in mishap.over}
  IN  /\ upl' = [upl EXCEPT !.sessions = [i \in Ids \ Expired |-> upl.sessions[i]], !.recs = recs]
      /\ \E wrote \in BOOLEAN :
           store' = [staged |-> store.staged \ Expired, objects |-> (store.objects \ ExpiredFiles) \ lost,
                     index |-> IF ExpiredFiles # {} /\ wrote THEN recs ELSE store.index]

-----------------------------------------------------------------------------
(* Tasks of the relay *)

Job(b, kind, id, n) ==
  [b |-> b, kind |-> kind, id |-> id, n |-> n, target |-> <<b, row[b]>>, run |-> batch[b].run,
   at |-> "sent", seen |-> 0]
Answer(j, ok, id, next) ==
  [b |-> j.b, kind |-> j.kind, ok |-> ok, id |-> id, n |-> next, run |-> j.run, of |-> j.n]
Reply(j, ok, id, next) ==
  /\ jobs' = jobs \ {j}
  /\ \/ answers' = answers \cup {Answer(j, ok, id, next)} /\ UNCHANGED mishap
     \/ Odd /\ answers' = answers /\ Excused({id, j.id})

(* The router borrows the topology and spawns the request's task. *)
Route(j) ==
  /\ j.at = "sent"
  /\ jobs' = (jobs \ {j}) \cup {[j EXCEPT !.at = "start", !.seen = row[j.b]]}
  /\ UNCHANGED <<upl, store, answers, mishap>>

(* A request is for the pane's current target, or refused. *)
validate_upload_target(j, target) == target = <<j.b, j.seen>>

(* A client may stage MAX_SESSIONS_PER_OWNER sessions. *)
(* Mutation: off by one. *)
full_beyond == Cardinality(Ids \ Expired) > MaxStaged
Full == Cardinality(Ids \ Expired) >= MaxStaged

upload_begin(j) ==
  /\ j.kind = "begin" /\ j.at = "start"
  /\ LET id == mishap.ids + 1
         s == [target |-> j.target, sequence |-> 0, current |-> 0, body |-> <<>>, late |-> FALSE]
     IN  /\ jobs' = jobs \ {j}
         /\ IF ~validate_upload_target(j, j.target) \/ Full \/ ~normalize_spec("text")
              THEN /\ UNCHANGED <<upl, store>>
                   /\ answers' = answers \cup {Answer(j, FALSE, NoId, 0)}
                   /\ UNCHANGED mishap
              ELSE /\ upl' = [upl EXCEPT !.sessions = With([i \in Ids \ Expired |-> upl.sessions[i]], id, s)]
                   /\ store' = [store EXCEPT !.staged = (@ \ Expired) \cup {id}]
                   /\ \/ /\ answers' = answers \cup {Answer(j, TRUE, id, 0)}
                         /\ mishap' = [mishap EXCEPT !.ids = id]
                      \/ /\ Odd /\ UNCHANGED answers
                         /\ mishap' = [mishap EXCEPT !.ids = id, !.odds = @ + 1, !.excused = @ \cup {id}]

(* upload_chunk_binary: the target is the staged session's own. *)
staged_target(j) ==
  /\ j.kind = "chunk" /\ j.at = "start"
  /\ IF j.id \in Ids /\ ~upl.sessions[j.id].late
       THEN /\ jobs' = (jobs \ {j}) \cup {[j EXCEPT !.at = "staged"]}
            /\ UNCHANGED <<upl, store, answers, mishap>>
       ELSE /\ upl' = Dropped(upl, j.id)
            /\ Unstaged(j.id)
            /\ Reply(j, FALSE, NoId, 0)

(* A session that refused a chunk is not resumable. *)
refused(id) == upl' = discard_locked(upl, id) /\ Unstaged(id)

chunk_binary(j) ==
  /\ j.kind = "chunk" /\ j.at = "staged"
  /\ IF j.id \notin Ids THEN Reply(j, FALSE, NoId, 0) /\ UNCHANGED <<upl, store>>
     ELSE IF ~validate_upload_target(j, upl.sessions[j.id].target)
       THEN cancel(j.id, upl.sessions[j.id].target) /\ Reply(j, FALSE, NoId, 0)
     ELSE IF upl.sessions[j.id].late
       THEN upl' = Dropped(upl, j.id) /\ Unstaged(j.id) /\ Reply(j, FALSE, NoId, 0)
     ELSE IF ~InOrder(upl.sessions[j.id], j.n)
       THEN refused(j.id) /\ Reply(j, FALSE, NoId, 0)
     ELSE LET s == Stored(upl.sessions[j.id], <<j.b, j.run, j.n>>)
          IN  /\ upl' = [upl EXCEPT !.sessions[j.id] = s]
              /\ UNCHANGED store
              /\ Reply(j, TRUE, NoId, s.sequence)

(* publish: objects are renamed into place, the records enter memory, the    *)
(* index is written.  Either write can fail; a failure after the rename of   *)
(* the index keeps what was published and still answers with an error.       *)
Refs(id) == {<<id, f>> : f \in 0..Files - 1}
(* Mutation: the answer does not wait for the index. *)
publish_unwritten(id) == {"ok", "unwritten"}
publish(id) == IF Odd THEN {"ok", "failed", "unsynced"} ELSE {"ok"}

verify_session(s, b, run, defect) ==
  /\ s.current = Files
  /\ s.body = [i \in 1..Total |-> <<b, run, i - 1>>]
  /\ \A kind \in Kinds : validate_content(kind, defect)

upload_finish(j) ==
  /\ j.kind = "finish" /\ j.at = "start"
  /\ LET lock == lock_session(j.id, j.target) IN
     IF ~validate_upload_target(j, j.target)
       THEN cancel(j.id, j.target) /\ Reply(j, FALSE, NoId, 0)
     ELSE IF lock # "ok"
       THEN /\ IF lock = "expired" THEN upl' = Dropped(upl, j.id) /\ Unstaged(j.id)
                 ELSE UNCHANGED <<upl, store>>
            /\ Reply(j, FALSE, NoId, 0)
     ELSE \E defect \in IF Odd THEN {"none", "magic", "utf8", "syntax", "entry"} ELSE {"none"} :
       IF ~verify_session(upl.sessions[j.id], j.b, j.run, defect)
         THEN refused(j.id) /\ jobs' = jobs \ {j} /\ answers' = answers \cup {Answer(j, FALSE, NoId, 0)}
                /\ (IF defect = "none" THEN UNCHANGED mishap ELSE Costs)
         ELSE \E outcome \in publish(j.id) :
           LET kept == outcome \in {"ok", "unsynced", "unwritten"} IN
           /\ upl' = [discard_locked(upl, j.id) EXCEPT !.recs = IF kept THEN @ \cup Refs(j.id) ELSE @]
           /\ store' = [staged |-> store.staged \ {j.id},
                        objects |-> IF kept THEN store.objects \cup Refs(j.id) ELSE store.objects,
                        index |-> IF outcome \in {"ok", "unsynced"} THEN upl.recs \cup Refs(j.id) ELSE store.index]
           /\ jobs' = jobs \ {j}
           /\ answers' = answers \cup {Answer(j, outcome \in {"ok", "unwritten"}, j.id, 0)}
           /\ IF outcome = "ok" THEN UNCHANGED mishap ELSE Costs

upload_cancel(j) ==
  /\ j.kind = "cancel" /\ j.at = "start"
  /\ cancel(j.id, j.target)
  /\ Reply(j, CancelOutcome(j.id, j.target) = "ok", NoId, 0)

Run(j) ==
  /\ Route(j) \/ upload_begin(j) \/ staged_target(j) \/ chunk_binary(j) \/ upload_finish(j) \/ upload_cancel(j)
  /\ UNCHANGED <<batch, fifo, row>>

(* Time passes for a session, an attachment or an object. *)
Lapses ==
  /\ Odd
  /\ \/ \E id \in Ids : /\ ~upl.sessions[id].late
                        /\ upl' = [upl EXCEPT !.sessions[id].late = TRUE]
                        /\ Excused({id})
     \/ \E o \in store.objects \ mishap.over :
          /\ mishap' = [mishap EXCEPT !.odds = @ + 1, !.over = @ \cup {o}]
          /\ UNCHANGED upl
  /\ UNCHANGED <<store, jobs, answers, batch, fifo, row>>

Cleans ==
  /\ Expired # {} \/ store.objects \cap mishap.over # {}
  /\ cleanup
  /\ UNCHANGED <<jobs, answers, batch, fifo, row, mishap>>

(* The process ends, possibly with objects renamed for an index that was not *)
(* written, and starts again: staging is cleared and the index is loaded, a  *)
(* record whose object is missing or whose lifetime is over being dropped.   *)
NoBatch == [at |-> "idle", id |-> NoId, n |-> 0, run |-> 0, dismissed |-> FALSE]
Interrupted(f) == [b \in Batches |-> IF f[b].at = "idle" THEN f[b] ELSE [f[b] EXCEPT !.at = "interrupted"]]

load_attachments(objects) == {r \in store.index : r \in objects /\ r \notin mishap.over}

Restart ==
  /\ Odd
  /\ \E orphans \in {{}} \cup {Refs(j.id) : j \in {k \in jobs : k.kind = "finish" /\ k.id \in Ids}} :
       LET objects == store.objects \cup orphans
           recs == load_attachments(objects)
       IN  /\ upl' = [sessions |-> [i \in {} |-> NoId], tombs |-> [i \in {} |-> NoId], recs |-> recs]
           /\ store' = [staged |-> {}, objects |-> objects \ (mishap.over \ recs), index |-> recs]
  /\ Excused({batch[b].id : b \in Batches})
  /\ jobs' = {} /\ answers' = {} /\ fifo' = <<>>
  /\ batch' = Interrupted(batch)
  /\ UNCHANGED row

(* The pane's agent is replaced: a new generation. *)
TargetMoves ==
  /\ Odd
  /\ \E b \in Batches : row' = [row EXCEPT ![b] = @ + 1] /\ Costs
  /\ UNCHANGED <<upl, store, jobs, answers, batch, fifo>>

-----------------------------------------------------------------------------
(* The phone *)

(* upload and restart: a staged session of an interrupted run is cancelled   *)
(* first.                                                                    *)
upload(b) ==
  LET stale == batch[b].id
      fresh == [NoBatch EXCEPT !.at = "begin", !.run = mishap.runs + 1]
  IN  /\ batch[b].at \in {"idle", "interrupted"} /\ mishap.runs < MaxRuns
      /\ batch[b].at = "idle" => stale = NoId
      /\ batch' = [batch EXCEPT ![b] = IF stale = NoId THEN fresh
                     ELSE [@ EXCEPT !.at = "restart"]]
      /\ jobs' = jobs \cup {IF stale = NoId
                              THEN [Job(b, "begin", NoId, 0) EXCEPT !.run = mishap.runs + 1]
                              ELSE Job(b, "cancel", stale, 0)}
      /\ mishap' = [mishap EXCEPT !.runs = IF stale = NoId THEN @ + 1 ELSE @]
      /\ UNCHANGED <<upl, store, answers, fifo, row>>

(* One chunk at a time; the pending entry is queued before it is sent. *)
uploadBinaryChunk(b) ==
  /\ batch[b].at = "send" /\ batch[b].n < Total
  /\ batch' = [batch EXCEPT ![b].at = "chunk"]
  /\ fifo' = Append(fifo, [b |-> b, file |-> FileOf(batch[b].n), next |-> batch[b].n + 1, n |-> batch[b].n,
                           run |-> batch[b].run])
  /\ jobs' = jobs \cup {Job(b, "chunk", batch[b].id, batch[b].n)}
  /\ UNCHANGED <<upl, store, answers, row, mishap>>

uploadFinish(b) ==
  /\ batch[b].at = "send" /\ batch[b].n = Total
  /\ batch' = [batch EXCEPT ![b].at = "finish"]
  /\ jobs' = jobs \cup {Job(b, "finish", batch[b].id, 0)}
  /\ UNCHANGED <<upl, store, answers, fifo, row, mishap>>

(* A batch that no longer waits for its chunk takes it out of the queue. *)
removeBinaryPending(b) ==
  LET at == {i \in DOMAIN fifo : fifo[i].b = b} IN
  IF at = {} THEN fifo ELSE RemoveAt(fifo, CHOOSE i \in at : TRUE)

(* cancel: the batch is cleared; a begin that is still out is cancelled when *)
(* its id arrives.                                                           *)
dismiss(b) ==
  /\ Odd
  /\ batch[b].at # "idle"
  /\ batch' = [batch EXCEPT ![b] =
       IF batch[b].at = "begin" THEN [@ EXCEPT !.dismissed = TRUE] ELSE [NoBatch EXCEPT !.run = batch[b].run]]
  /\ jobs' = IF batch[b].id = NoId THEN jobs ELSE jobs \cup {Job(b, "cancel", batch[b].id, 0)}
  /\ fifo' = removeBinaryPending(b)
  /\ Costs
  /\ UNCHANGED <<upl, store, answers, row>>

(* The begin of a dismissed batch is cancelled once its id is known. *)
(* Mutation: it is only forgotten. *)
LateBegin_forgotten(b, a, dismissed) == jobs
LateBegin(b, a, dismissed) == IF dismissed /\ a.ok THEN jobs \cup {Job(b, "cancel", a.id, 0)} ELSE jobs

(* Results with a request id reach the run that asked. *)
resolveUpload(a) ==
  /\ a.kind # "chunk"
  /\ answers' = answers \ {a}
  /\ LET s == batch[a.b] IN
     IF a.run # s.run THEN UNCHANGED <<batch, jobs>>
     ELSE CASE a.kind = "begin" /\ s.at = "begin" ->
                 /\ batch' = [batch EXCEPT ![a.b] =
                      IF s.dismissed THEN [NoBatch EXCEPT !.run = s.run]
                      ELSE IF a.ok THEN [s EXCEPT !.at = "send", !.id = a.id]
                      ELSE [s EXCEPT !.at = "interrupted"]]
                 /\ jobs' = LateBegin(a.b, a, s.dismissed)
            [] a.kind = "cancel" /\ s.at = "restart" ->
                 /\ batch' = [batch EXCEPT ![a.b].at = "interrupted", ![a.b].id = NoId]
                 /\ UNCHANGED jobs
            [] a.kind = "finish" /\ s.at = "finish" ->
                 /\ batch' = [batch EXCEPT ![a.b] = IF a.ok THEN [NoBatch EXCEPT !.run = s.run]
                                                    ELSE [s EXCEPT !.at = "interrupted"]]
                 /\ UNCHANGED jobs
            [] OTHER -> UNCHANGED <<batch, jobs>>
  /\ mishap' = IF a.kind = "finish" /\ a.ok THEN [mishap EXCEPT !.told = @ \cup Refs(a.id)] ELSE mishap
  /\ UNCHANGED <<upl, store, fifo, row>>

(* resolveBinaryChunkResult: the oldest pending chunk takes an error, or an  *)
(* answer with its file index and next sequence; other answers are dropped.  *)
Fits(p, a) == ~a.ok \/ (p.next = a.n /\ p.file = FileOf(a.n - 1))

resolveBinaryChunkResult(a) ==
  /\ a.kind = "chunk"
  /\ answers' = answers \ {a}
  /\ IF fifo = <<>> \/ ~Fits(Head(fifo), a) THEN UNCHANGED <<batch, fifo, mishap>>
       ELSE LET p == Head(fifo) IN
            /\ fifo' = Tail(fifo)
            /\ batch' = [batch EXCEPT ![p.b] = IF a.ok THEN [@ EXCEPT !.at = "send", !.n = p.next]
                                                ELSE [@ EXCEPT !.at = "interrupted"]]
            /\ mishap' = [mishap EXCEPT !.crossed = @ \/ a.b # p.b \/ a.run # p.run]
  /\ UNCHANGED <<upl, store, jobs, row>>

(* UPLOAD_TIMEOUT_MS, or the answer went to another pending chunk. *)
TimesOut(b) ==
  /\ batch[b].at \in {"begin", "chunk", "finish", "restart"}
  /\ ~\E j \in jobs : j.b = b
  /\ ~\E a \in answers : a.b = b
  /\ batch' = [batch EXCEPT ![b] = IF @.dismissed THEN [NoBatch EXCEPT !.run = batch[b].run]
                                     ELSE [@ EXCEPT !.at = "interrupted"]]
  /\ fifo' = removeBinaryPending(b)
  /\ UNCHANGED <<upl, store, jobs, answers, row, mishap>>

Phone ==
  \/ \E b \in Batches : upload(b) \/ uploadBinaryChunk(b) \/ uploadFinish(b) \/ dismiss(b) \/ TimesOut(b)
  \/ \E a \in answers : resolveUpload(a) \/ resolveBinaryChunkResult(a)

Init ==
  /\ upl = [sessions |-> [i \in {} |-> NoId], tombs |-> [i \in {} |-> NoId], recs |-> {}]
  /\ store = [staged |-> {}, objects |-> {}, index |-> {}]
  /\ jobs = {} /\ answers = {} /\ fifo = <<>>
  /\ batch = [b \in Batches |-> NoBatch]
  /\ row = [b \in Batches |-> 0]
  /\ mishap = [odds |-> 0, ids |-> NoId, runs |-> 0, excused |-> {}, over |-> {}, told |-> {},
               crossed |-> FALSE]

Next == Phone \/ (\E j \in jobs : Run(j)) \/ Lapses \/ Cleans \/ Restart \/ TargetMoves

Spec == Init /\ [][Next]_uplVars

-----------------------------------------------------------------------------
(* Properties *)

TypeOK ==
  /\ Cardinality(Ids) <= MaxStaged
  /\ store.staged = Ids
  /\ upl.recs \subseteq store.objects
  /\ \A id \in Ids : upl.sessions[id].sequence <= Total
  /\ \A b \in Batches : batch[b].at = "send" => batch[b].id # NoId

(* Whatever was cancelled, refused or overtaken, once every request has run  *)
(* and been answered each staged session is one its batch still knows, so    *)
(* that a later cancel or restart can discard it; but for lost answers,      *)
(* moved targets, expiry and restarts of the relay.                          *)
StagedIsKnown ==
  jobs = {} /\ answers = {} =>
    \A id \in Ids \ mishap.excused :
      upl.sessions[id].target \in {<<b, row[b]>> : b \in Batches} => \E b \in Batches : batch[b].id = id

(* An attachment the phone was told of resolves until its lifetime is over,  *)
(* across failed writes, clean-ups and restarts.                             *)
ToldResolves ==
  \A r \in mishap.told \ mishap.over : r \in upl.recs /\ r \in store.objects /\ r \in store.index

(* What uploadbinary.rs says of the answers of binary chunks: next_sequence  *)
(* correlates them.  No answer settles a chunk of another batch or run.      *)
AckIsOwn == ~mishap.crossed
=============================================================================
