----------------------------- MODULE Questions ------------------------------
(***************************************************************************)
(* The question and approval actions: the ledger that admits a request once, *)
(* the lock of a pane, the check of the screen before the keys go out one by *)
(* one, and the watch that says what became of them.  The agent reads its    *)
(* keys when it gets to them; the topology learns of it later still.  How a  *)
(* form is parsed and its keys planned is AnswerForm's; here a prompt has    *)
(* two options and a cursor.                                                 *)
(***************************************************************************)
EXTENDS Naturals, Sequences, FiniteSets, SequencesExt, FiniteSetsExt

CONSTANTS
  AskKinds,          \* what phones ask: "answer", "next", "previous", "clarify", "approval"
  MaxOps,            \* bound on the requests that arrive, retries included
  MaxLedgerEntries,  \* finished entries beyond it are dropped, the oldest first
  MaxAskOdds         \* bound on failures, rebinds and hands at the desk

VARIABLES
  term,    \* the agent's terminal: prompt, cursor, keys not read yet
  known,   \* the pane's token and status as the topology has them
  entries, \* the ledger's, one a key
  pane,    \* the lock of the pane and the approval that was verified
  ops,     \* the requests, in the order they arrived
  askOdds  \* the odds taken, and what they excuse

askVars == <<term, known, entries, pane, ops, askOdds>>

Prompts == 1..2
Over == 3        \* no prompt is left
Absent == 0      \* the token of a pane that is not there
NoOp == 0
Nothing == "nothing"
NoPending == [event |-> 0, look |-> 0, token |-> Absent]

-----------------------------------------------------------------------------
(* The terminal *)

Flows == IF "approval" \in AskKinds THEN {"question", "approval"} ELSE {"question"}

(* Two dialogs may be of the same command: then they look the same. *)
Ident(p) == IF term.flow = "approval" /\ term.alike /\ p # Over THEN 1 ELSE p

Fresh(t) == [t EXCEPT !.at = 1, !.cursor = 1, !.busy = FALSE, !.inbox = <<>>]
Shown == IF term.busy \/ term.at = Over THEN Over ELSE term.at
Status == IF term.busy THEN "working" ELSE IF term.at = Over THEN "done" ELSE "blocked"

Goes(t, to) == [t EXCEPT !.at = to, !.cursor = 1, !.busy = TRUE]
Handled(t, k) ==
  IF t.at = Over THEN t ELSE
  CASE k.key = "Down" -> [t EXCEPT !.cursor = 2]
    [] k.key = "Up" -> [t EXCEPT !.cursor = 1]
    [] k.key = "Next" -> Goes(t, IF t.at = 1 THEN 2 ELSE t.at)
    [] k.key = "Previous" -> Goes(t, 1)
    [] k.key = "Chat" -> Goes(t, Over)
    [] OTHER -> Goes([t EXCEPT !.landed = @ \cup {k.op}], t.at + 1)

(* A key of a request that had the pane to itself, and yet not its prompt or *)
(* its option.                                                               *)
Astray(t, k) ==
  /\ k.op # NoOp
  /\ ops[k.op].clean
  /\ \/ t.at = Over
     \/ Ident(t.at) # Ident(ops[k.op].target)
     \/ k.key = "Enter" /\ t.cursor # ops[k.op].opt

Odd == askOdds.n < MaxAskOdds
Cost == askOdds' = [askOdds EXCEPT !.n = @ + 1]

AgentReads ==
  /\ ~term.busy /\ term.inbox # <<>>
  /\ LET k == Head(term.inbox) IN
     term' = [Handled([term EXCEPT !.inbox = Tail(@)], k) EXCEPT !.astray = @ \/ Astray(term, k)]
  /\ UNCHANGED <<known, entries, pane, ops, askOdds>>

AgentPaints ==
  /\ term.busy
  /\ term' = [term EXCEPT !.busy = FALSE]
  /\ UNCHANGED <<known, entries, pane, ops, askOdds>>

(* Whoever answers by now no longer has the pane to himself. *)
Stained == [i \in DOMAIN ops |-> [ops[i] EXCEPT !.clean = FALSE]]

(* Somebody at the desk answers; the session is bound anew to the same       *)
(* terminal; the pane starts another agent; the pane is closed.              *)
Hand ==
  /\ Odd /\ Shown # Over /\ Cost
  /\ term' = Handled(term, [key |-> "Enter", op |-> NoOp])
  /\ ops' = Stained
  /\ UNCHANGED <<known, entries, pane>>
Rebind ==
  /\ Odd /\ term.token # Absent /\ Cost
  /\ term' = [term EXCEPT !.token = @ + 1]
  /\ UNCHANGED <<known, entries, pane, ops>>
Replace ==
  /\ Odd /\ term.token # Absent /\ Cost
  /\ term' = [Fresh(term) EXCEPT !.token = @ + 1]
  /\ ops' = Stained
  /\ UNCHANGED <<known, entries, pane>>
Close ==
  /\ Odd /\ term.token # Absent /\ Cost
  /\ term' = [Fresh(term) EXCEPT !.token = Absent, !.at = Over]
  /\ ops' = Stained
  /\ UNCHANGED <<known, entries, pane>>

(* A commit of the topology; with the pane goes what was verified of it. *)
forget_pane == pane' = IF term.token = Absent THEN [pane EXCEPT !.pending = NoPending] ELSE pane
Publish ==
  /\ known # [token |-> term.token, status |-> Status]
  /\ known' = [token |-> term.token, status |-> Status]
  /\ forget_pane
  /\ UNCHANGED <<term, entries, ops, askOdds>>

-----------------------------------------------------------------------------
(* The ledger *)

question_ledger_key(op) ==
  IF op.kind = "approval" THEN <<"approval", op.target, 0>> ELSE <<op.kind, op.target, op.rid>>
hash_payload(op) == <<op.kind, op.target, op.opt>>

Entry(l, i) ==
  [key |-> question_ledger_key(ops[i]), hash |-> hash_payload(ops[i]), token |-> ops[i].token,
   owner |-> i, result |-> Nothing, done |-> FALSE, waiters |-> {}, created_at |-> 1 + Max({0} \cup {e.created_at : e \in l})]

Has(l, key) == \E e \in l : e.key = key
Find(l, key) == CHOOSE e \in l : e.key = key
Without(l, key) == {e \in l : e.key # key}

(* pruneLocked, the bound on finished entries: the oldest of them go.  A day *)
(* is longer than a run.                                                     *)
prune_locked(l) ==
  LET Older(e) == {d \in l : d.done /\ d.created_at < e.created_at} IN
  {e \in l : e.done => Cardinality(Older(e)) + MaxLedgerEntries >= Cardinality(l)}

(* What an entry says of a request: nothing at all, or of another lifetime   *)
(* of the pane and then it goes; another payload; a result; or wait for it.  *)
Lookup(l, i) ==
  LET key == question_ledger_key(ops[i])
      e == Find(l, key)
  IN IF ~Has(l, key) THEN "miss"
     ELSE IF e.token # ops[i].token THEN "stale"
     ELSE IF e.hash # hash_payload(ops[i]) THEN "conflict"
     ELSE IF e.result # Nothing THEN "replay" ELSE "attach"

(* The senders of an entry that is removed are gone: its waiters are told    *)
(* that nothing was sent.                                                    *)
Closed(os, e) == [i \in DOMAIN os |-> IF i \in e.waiters THEN [os[i] EXCEPT !.pc = "told", !.told = "closed"] ELSE os[i]]
Answered(os, e, phase) == [i \in DOMAIN os |-> IF i \in e.waiters THEN [os[i] EXCEPT !.pc = "told", !.told = phase] ELSE os[i]]

(* The entry of a request that still runs is lost. *)
Evicts(old, new) ==
  [askOdds EXCEPT !.evicted = @ \cup {e.key : e \in {o \in old : \A n \in new : n.owner # o.owner}}]

Tell(i, phase) == [ops EXCEPT ![i].pc = "told", ![i].told = phase]

(* The part of replay and schedule that they share: found is what is told,   *)
(* and only a miss goes on.                                                  *)
Admit(i, l, next) ==
  LET e == Find(l, question_ledger_key(ops[i])) IN
  CASE Lookup(l, i) = "conflict" -> entries' = l /\ ops' = Tell(i, "conflict")
    [] Lookup(l, i) = "replay" -> entries' = l /\ ops' = [Tell(i, e.result) EXCEPT ![i].via = e.owner]
    [] Lookup(l, i) = "attach" -> /\ entries' = (l \ {e}) \cup {[e EXCEPT !.waiters = @ \cup {i}]}
                                  /\ ops' = [ops EXCEPT ![i].pc = "attached", ![i].via = e.owner]
    [] Lookup(l, i) = "stale" -> entries' = Without(l, e.key) /\ ops' = Closed([ops EXCEPT ![i].pc = next], e)
    [] OTHER -> entries' = l /\ ops' = [ops EXCEPT ![i].pc = next]

-----------------------------------------------------------------------------
(* A request *)

NewOp(rid, kind, target, opt) ==
  [rid |-> rid, kind |-> kind, target |-> target, opt |-> opt, token |-> known.token, status |-> known.status,
   pc |-> "replay", keys |-> <<>>, sent |-> 0, clean |-> FALSE, told |-> Nothing, via |-> NoOp]

(* The phone answers a prompt that it was shown, perhaps one that is gone by *)
(* now, or sends again what it was not told the end of.                      *)
Request(kind, opt) ==
  /\ Len(ops) < MaxOps
  /\ (kind = "approval") = (term.flow = "approval")
  /\ \E p \in Prompts :
       /\ p < term.at \/ p = Shown
       /\ kind = "next" => p = 1
       /\ kind = "previous" => p = 2
       /\ kind \notin {"answer", "approval"} => opt = 1
       /\ ops' = Append(ops, NewOp(Len(ops) + 1, kind, p, opt))
  /\ UNCHANGED <<term, known, entries, pane, askOdds>>
Retry(i) ==
  /\ Len(ops) < MaxOps /\ ops[i].rid = i
  /\ ops' = Append(ops, NewOp(i, ops[i].kind, ops[i].target, ops[i].opt))
  /\ UNCHANGED <<term, known, entries, pane, askOdds>>

pending_approval(token) == IF pane.pending.token = token THEN pane.pending ELSE [pane.pending EXCEPT !.event = 0]

(* An approval that was verified must be this one. *)
Current(i) ==
  LET pending == pending_approval(ops[i].token) IN
  ops[i].kind = "approval" /\ ops[i].status = "blocked" /\ pending.event # 0 =>
    pending.event = ops[i].target /\ pending.look = Ident(ops[i].target)

replay(i) ==
  /\ ops[i].pc = "replay"
  /\ IF ~Current(i) THEN ops' = Tell(i, "failed") /\ UNCHANGED <<entries, askOdds>>
       ELSE LET l == prune_locked(entries) IN
            /\ Admit(i, l, "schedule")
            /\ askOdds' = Evicts(entries, entries')
  /\ UNCHANGED <<term, known, pane>>

Waiting(op, status) == status = "blocked" \/ (op.kind # "approval" /\ status = "done")

schedule(i) ==
  /\ ops[i].pc = "schedule"
  /\ IF ~Waiting(ops[i], ops[i].status) THEN ops' = Tell(i, "failed") /\ UNCHANGED <<entries, askOdds>>
       ELSE LET l == prune_locked(entries) IN
            IF Lookup(l, i) = "miss"
            THEN /\ entries' = l \cup {Entry(l, i)}
                 /\ ops' = [ops EXCEPT ![i].pc = "locking"]
                 /\ askOdds' = Evicts(entries, entries')
            ELSE IF Lookup(l, i) = "stale"
            THEN LET e == Find(l, question_ledger_key(ops[i])) IN
                 /\ entries' = Without(l, e.key) \cup {Entry(l, i)}
                 /\ ops' = Closed([ops EXCEPT ![i].pc = "locking"], e)
                 /\ askOdds' = Evicts(entries, entries')
            ELSE Admit(i, l, "locking") /\ askOdds' = Evicts(entries, entries')
  /\ UNCHANGED <<term, known, pane>>

(* Flight: the slot in the ledger is this request's as long as the token is. *)
Slot(i) == Find(entries, question_ledger_key(ops[i]))
Mine(i) == Has(entries, question_ledger_key(ops[i])) /\ Slot(i).token = ops[i].token

(* The slot has a result, and those who wait for it are told it. *)
Settles(i, slot, os) ==
  IF ~Mine(i) THEN entries' = entries /\ ops' = os
    ELSE /\ entries' = (entries \ {Slot(i)}) \cup {[slot EXCEPT !.waiters = {}]}
         /\ ops' = Answered(os, Slot(i), slot.result)
finish(i, phase) == Settles(i, [Slot(i) EXCEPT !.done = TRUE, !.result = phase], Tell(i, phase))
mark_accepted(i, os) == Settles(i, [Slot(i) EXCEPT !.result = "accepted"], os)

(* Drop: the entry under this key goes, whoever made it. *)
dropped(i) ==
  LET key == question_ledger_key(ops[i]) IN
  /\ entries' = Without(entries, key)
  /\ ops' = IF Has(entries, key) THEN Closed(Tell(i, "accepted"), Slot(i)) ELSE Tell(i, "accepted")
  /\ askOdds' = IF Has(entries, key) /\ Slot(i).owner # i THEN [askOdds EXCEPT !.evicted = @ \cup {key}] ELSE askOdds

Fails(i, phase) == finish(i, phase) /\ pane' = [pane EXCEPT !.lock = NoOp]

(* Mutation: an effect does not wait for the one before it. *)
pane_lock_free(i) == TRUE
pane_lock(i) == pane.lock = NoOp

(* With the lock, the topology must still show the pane waiting. *)
Locks(i) ==
  LET pending == pending_approval(ops[i].token) IN
  /\ ops[i].pc = "locking" /\ pane_lock(i)
  /\ IF /\ known.token # Absent /\ Waiting(ops[i], known.status)
        /\ ops[i].kind = "approval" /\ pending.event # 0 => pending.event = ops[i].target
       THEN ops' = [ops EXCEPT ![i].pc = "reading"] /\ pane' = [pane EXCEPT !.lock = i] /\ UNCHANGED entries
       ELSE Fails(i, "failed")
  /\ UNCHANGED <<term, known, askOdds>>

token_current(i) == known.token # Absent /\ known.token = ops[i].token

plan_input(op) ==
  CASE op.kind = "next" -> <<"Next">>
    [] op.kind = "previous" -> <<"Previous">>
    [] op.kind = "clarify" -> <<"Chat">>
    [] OTHER -> IF op.opt = term.cursor THEN <<"Enter">> ELSE <<IF op.opt = 2 THEN "Down" ELSE "Up", "Enter">>

(* The screen must show the prompt that was answered. *)
Matches(i) == Shown # Over /\ Ident(Shown) = Ident(ops[i].target)

(* The dialog is there and the topology says that the agent works: so the    *)
(* watch will take the dialog for gone.                                      *)
Lags(i) ==
  IF ops[i].kind = "approval" /\ known.status # "blocked" THEN [askOdds EXCEPT !.lagged = @ \cup {i}] ELSE askOdds

Reads(i) ==
  /\ ops[i].pc = "reading"
  /\ IF term.token # Absent /\ Matches(i) /\ token_current(i)
       THEN /\ ops' = [ops EXCEPT ![i].pc = "sending", ![i].keys = plan_input(ops[i]),
                                  ![i].clean = term.inbox = <<>> /\ term.token = ops[i].token]
            /\ askOdds' = Lags(i)
            /\ UNCHANGED <<entries, pane>>
       ELSE Fails(i, "failed") /\ UNCHANGED askOdds
  /\ UNCHANGED <<term, known>>

ReadFails(i) ==
  /\ ops[i].pc = "reading" /\ Odd /\ Cost
  /\ \E phase \in {"not_started", "dispatched_unknown"} : Fails(i, phase)
  /\ UNCHANGED <<term, known>>

(* Keys go out one call each, those of an approval in one. *)
Batch(op) == IF op.kind = "approval" THEN op.keys ELSE <<Head(op.keys)>>
Sends(i, keys) ==
  term' = [term EXCEPT !.inbox = IF term.token = Absent THEN @ ELSE @ \o [j \in DOMAIN keys |-> [key |-> keys[j], op |-> i]]]

SendStep(i) ==
  /\ ops[i].pc = "sending" /\ ops[i].keys # <<>>
  /\ IF ops[i].kind # "approval" /\ ~token_current(i)
       THEN Fails(i, IF ops[i].sent > 0 THEN "dispatched_unknown" ELSE "failed") /\ UNCHANGED term
     ELSE IF term.token = Absent
       THEN Fails(i, IF ops[i].sent > 0 THEN "dispatched_unknown" ELSE "not_started") /\ UNCHANGED term
     ELSE LET b == Batch(ops[i]) IN
          /\ Sends(i, b)
          /\ ops' = [ops EXCEPT ![i].sent = @ + Len(b), ![i].keys = SubSeq(@, Len(b) + 1, Len(@))]
          /\ UNCHANGED <<entries, pane>>
  /\ UNCHANGED <<known, askOdds>>

(* A call fails: Herdr said no, or it is not known whether it did it. *)
SendFails(i) ==
  /\ ops[i].pc = "sending" /\ ops[i].keys # <<>> /\ term.token # Absent
  /\ ops[i].kind # "approval" => token_current(i)
  /\ Odd /\ Cost
  /\ \E phase \in {"not_started", "dispatched_unknown"}, applied \in BOOLEAN :
       /\ applied => phase = "dispatched_unknown"
       /\ IF applied THEN Sends(i, Batch(ops[i])) ELSE UNCHANGED term
       /\ Fails(i, IF ops[i].sent > 0 THEN "dispatched_unknown" ELSE phase)
  /\ UNCHANGED known

(* The effect is done: the lock is given back before the agent has read it.  *)
Accepts(i) ==
  /\ ops[i].pc = "sending" /\ ops[i].keys = <<>>
  /\ mark_accepted(i, [ops EXCEPT ![i].pc = "watching"])
  /\ pane' = [lock |-> NoOp,
              pending |-> IF ops[i].kind = "approval"
                            THEN [event |-> ops[i].target, look |-> Ident(ops[i].target), token |-> ops[i].token]
                            ELSE pane.pending]
  /\ UNCHANGED <<term, known, askOdds>>

-----------------------------------------------------------------------------
(* The watch *)

clear_pending_approval(i) ==
  pane' = [pane EXCEPT !.pending = IF ops[i].kind = "approval" /\ Mine(i) /\ @.look = Ident(ops[i].target) THEN NoPending ELSE @]

Ends(i, phase) ==
  IF ~Mine(i) THEN entries' = entries /\ ops' = Tell(i, "accepted") /\ pane' = pane
    ELSE finish(i, phase) /\ clear_pending_approval(i)

finish_question_watch(op, now) ==
  CASE op.kind \in {"next", "previous"} ->
         IF now # Over /\ now = (IF op.kind = "next" THEN op.target + 1 ELSE op.target - 1) THEN "navigated" ELSE "unexpected"
    [] op.kind = "answer" /\ now # Over -> IF now = op.target + 1 THEN "advanced" ELSE "unexpected"
    [] OTHER -> "confirmed"

expects_question(op) == op.kind \in {"next", "previous"} \/ (op.kind = "answer" /\ op.target = 1)

(* The pane's identity moved: the update is dropped, and the flight with it. *)
WatchAborts(i) ==
  /\ ops[i].pc = "watching" /\ known.token # Absent /\ known.token # ops[i].token
  /\ dropped(i)
  /\ UNCHANGED <<term, known, pane>>

watch_question(i) ==
  LET now == Shown IN
  /\ ops[i].pc = "watching" /\ ops[i].kind # "approval" /\ known.token \in {Absent, ops[i].token}
  /\ IF known.token = Absent THEN Ends(i, finish_question_watch(ops[i], Over))
       ELSE /\ now # ops[i].target
            /\ now = Over /\ expects_question(ops[i]) => known.status # "blocked"
            /\ Ends(i, finish_question_watch(ops[i], now))
  /\ UNCHANGED <<term, known, askOdds>>

watch_approval(i) ==
  LET pending == pending_approval(ops[i].token) IN
  /\ ops[i].pc = "watching" /\ ops[i].kind = "approval" /\ known.token \in {Absent, ops[i].token}
  /\ \/ known.token = Absent
     \/ known.status # "blocked"
     \/ pending.event # ops[i].target
     \/ Shown = Over
     \/ Ident(Shown) # Ident(ops[i].target)
  /\ Ends(i, "confirmed")
  /\ UNCHANGED <<term, known, askOdds>>

WatchTimesOut(i) ==
  /\ ops[i].pc = "watching" /\ known.token = ops[i].token
  /\ IF Shown # Over \/ ops[i].kind = "approval" THEN Ends(i, "unconfirmed")
       ELSE Ends(i, finish_question_watch(ops[i], Over))
  /\ UNCHANGED <<term, known, askOdds>>

-----------------------------------------------------------------------------
Init ==
  /\ \E flow \in Flows, alike \in BOOLEAN :
       /\ alike => flow = "approval"
       /\ term = [flow |-> flow, alike |-> alike, token |-> 1, at |-> 1, cursor |-> 1, busy |-> FALSE,
                  inbox |-> <<>>, landed |-> {}, astray |-> FALSE]
  /\ known = [token |-> 1, status |-> "blocked"]
  /\ entries = {}
  /\ pane = [lock |-> NoOp, pending |-> NoPending]
  /\ ops = <<>>
  /\ askOdds = [n |-> 0, evicted |-> {}, lagged |-> {}]

Op(i) ==
  \/ replay(i) \/ schedule(i) \/ Locks(i) \/ Reads(i) \/ ReadFails(i)
  \/ SendStep(i) \/ SendFails(i) \/ Accepts(i)
  \/ WatchAborts(i) \/ watch_question(i) \/ watch_approval(i) \/ WatchTimesOut(i)

Next ==
  \/ AgentReads \/ AgentPaints \/ Hand \/ Rebind \/ Replace \/ Close \/ Publish
  \/ \E kind \in AskKinds, opt \in 1..2 : Request(kind, opt)
  \/ \E i \in DOMAIN ops : Retry(i) \/ Op(i)

Spec == Init /\ [][Next]_askVars

-----------------------------------------------------------------------------
TypeOK ==
  /\ term.at \in 1..Over /\ term.cursor \in 1..2 /\ term.token \in Nat
  /\ known.status \in {"working", "blocked", "done"}
  /\ pane.lock \in 0..Len(ops)
  /\ \A i \in DOMAIN ops : ops[i].via \in 0..Len(ops)
  /\ \A e \in entries : e.owner \in DOMAIN ops

Same(i, j) == question_ledger_key(ops[i]) = question_ledger_key(ops[j]) /\ ops[i].token = ops[j].token

(* The keys of a request are sent once however often it is retried, and by   *)
(* whoever, within one lifetime of the pane (replay, schedule, finish), but  *)
(* for an entry that was dropped while it was still to be found.             *)
KeysSentOnce ==
  \A i, j \in DOMAIN ops : i < j /\ Same(i, j) /\ ops[i].sent > 0 /\ ops[j].sent > 0 =>
    question_ledger_key(ops[i]) \in askOdds.evicted

(* The keys of a request that read the screen when none were under way to it *)
(* reach the prompt it answers and choose its option (pane_lock,             *)
(* question_effect, approval_effect), unless somebody else touches the pane. *)
LandsAsMeant == ~term.astray

(* A phone that is told that nothing was sent can rely on it, for its own    *)
(* request and for the one that it was attached to; one that is told of      *)
(* success had its own keys answer the prompt (step_failure, finish,         *)
(* finish_question_watch), but for a topology that lags behind the dialog.   *)
ToldIsTrue ==
  \A i \in DOMAIN ops :
    LET owner == IF ops[i].via = NoOp THEN i ELSE ops[i].via IN
    /\ ops[i].told \in {"failed", "not_started", "closed"} =>
         ops[owner].sent = 0 \/ question_ledger_key(ops[i]) \in askOdds.evicted
    /\ /\ ops[i].told \in {"confirmed", "advanced"} /\ ops[i].via = NoOp
       /\ ops[i].kind \in {"answer", "approval"} /\ ops[i].clean /\ ~term.alike
       /\ question_ledger_key(ops[i]) \notin askOdds.evicted /\ i \notin askOdds.lagged
       => i \in term.landed
=============================================================================
