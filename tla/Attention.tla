----------------------------- MODULE Attention -----------------------------
(***************************************************************************)
(* One pane's attention cycle: the commits of the topology actor, the       *)
(* shared ledger cell they move, and the projector's transition tasks that  *)
(* classify a blocked screen, announce it, and announce a completion once.  *)
(* The ledger is shared with every published topology, so a task can meet   *)
(* a cell that is newer than the snapshot it reads next to it.  A classified *)
(* screen is one of a few contents; "approval2" is a second approval.  What *)
(* a client has seen (unseen_done, ack_done) is left out.                   *)
(***************************************************************************)
EXTENDS Naturals, Sequences, FiniteSets

CONSTANTS
  MaxEpoch,      \* bound on the actor's commits
  Readings,      \* the screen contents a read can return
  Statuses,      \* the agent statuses Herdr reports
  Terminals,     \* terminal identities the pane takes
  MaxTimeouts    \* bound on transition tasks cut off by TRANSITION_TIMEOUT

VARIABLES
  act,     \* the actor's private row of the pane
  pub,     \* the published row
  dirty,   \* a commit the actor has not published, with its transitions
  cell,    \* the pane's AttentionCell
  inbox,   \* transitions forwarded to the projector
  tasks,   \* running handle_transition tasks
  pushes,  \* queued push keys of the pane
  claims,  \* completions claimed by a task: history
  told,    \* completions journalled as finished: history
  timeouts \* tasks cut off so far

attVars == <<act, pub, dirty, cell, inbox, tasks, pushes, claims, told, timeouts>>

None == 0
NoBlocked == [screen |-> "none", event |-> None]
Kind(screen) == IF screen = "approval2" THEN "approval" ELSE screen

(* What armed a completion, at which contents of which session: history. *)
NotArmed == [by |-> "none", at |-> 0, gen |-> 0]
ArmedBy(by, content_rev) == [by |-> by, at |-> content_rev, gen |-> act.gen]

DefaultCell ==
  [blocked |-> NoBlocked, state_rev |-> 0, content_rev |-> 0, attention_rev |-> 0,
   completion_rev |-> None, armed |-> NotArmed, prev_status |-> "none",
   finished_notif |-> FALSE]

is_attention_status(s) == s \in {"working", "blocked"}
is_done_status(s) == s = "done"

-----------------------------------------------------------------------------
(* AttentionCell *)

reset_on_replacement(c) ==
  [c EXCEPT !.blocked = NoBlocked, !.prev_status = "none", !.finished_notif = FALSE,
            !.completion_rev = None]

(* Leaving blocked ends the cycle; entering it starts one with a fresh id. *)
sync_cycle(c, status, id) ==
  IF status # "blocked"
    THEN [c EXCEPT !.blocked = NoBlocked]
    ELSE [c EXCEPT !.blocked.screen = IF @ = "none" THEN "unknown" ELSE @,
                   !.blocked.event = IF @ = None THEN id ELSE @]

apply_classification(c, screen) == [c EXCEPT !.blocked.screen = screen]

(* Entering chat arms a completion, leaving it drops it. *)
sync_attention_completion(c, previous, rev) ==
  LET chat == Kind(c.blocked.screen) = "chat" IN
  IF chat = (previous = "chat") THEN c
    ELSE [c EXCEPT !.finished_notif = FALSE,
                   !.armed = IF chat THEN ArmedBy("chat", c.content_rev) ELSE NotArmed,
                   !.completion_rev = IF chat THEN rev ELSE None]

preserves_chat_completion(prev, status, previous) ==
  prev = "blocked" /\ status = "idle" /\ previous = "chat"

(* Mutation: a chat cycle that ends in idle arms a second completion. *)
completes_rearming(prev, status, previous) ==
  is_attention_status(prev) /\ ~is_attention_status(status)

(* Whether the step from prev to status is a transition to handle, and the    *)
(* cell with the completion it arms or disarms.                              *)
Completes(prev, status, previous) ==
  /\ is_attention_status(prev)
  /\ is_done_status(status) \/ (status = "idle" /\ ~preserves_chat_completion(prev, status, previous))

register_transition(c, prev, status, previous, rev) ==
  CASE is_attention_status(status) /\ prev # status ->
         [c EXCEPT !.finished_notif = FALSE, !.completion_rev = None]
    [] Completes(prev, status, previous) ->
         [c EXCEPT !.completion_rev = rev, !.armed = ArmedBy("turn", c.content_rev)]
    [] OTHER -> c

Fires(prev, status, previous) ==
  (is_attention_status(status) /\ prev # status) \/ Completes(prev, status, previous)

(* The part of a commit that both accept_enriched and commit_agent_status     *)
(* run on the cell: c is the cell after sync_cycle and enrichment, prior the *)
(* one before.                                                               *)
Committed(prior, c, status, touched, rev) ==
  LET moved == c.blocked # prior.blocked
      previous == Kind(prior.blocked.screen)
      stamped == [c EXCEPT !.content_rev = IF touched \/ moved THEN @ + 1 ELSE @,
                           !.attention_rev = IF moved THEN @ + 1 ELSE @,
                           !.state_rev = rev, !.prev_status = status]
      armed == register_transition(stamped, prior.prev_status, status, previous, rev)
  IN  IF preserves_chat_completion(prior.prev_status, status, previous) THEN armed
        ELSE sync_attention_completion(armed, previous, rev)

(* A blocked pane whose classification moved is handled again. *)
Refires(prior, c, status) ==
  /\ prior.prev_status = "blocked" /\ status = "blocked"
  /\ \/ Kind(prior.blocked.screen) # Kind(c.blocked.screen)
     \/ prior.blocked # c.blocked /\ Kind(c.blocked.screen) = "approval"

Transitions(prior, c, status, rev) ==
  IF \/ Fires(prior.prev_status, status, Kind(prior.blocked.screen))
     \/ Refires(prior, c, status)
    THEN <<[status |-> status, rev |-> rev]>> ELSE <<>>

-----------------------------------------------------------------------------
(* The topology actor *)

Idle == dirty = <<>> /\ act.rev < MaxEpoch
Epoch == act.rev + 1
Commit(transitions) ==
  /\ dirty' = <<transitions>>
  /\ UNCHANGED <<pub, inbox, tasks, pushes, claims, told, timeouts>>

(* A snapshot shows the pane.  An event snapshot keeps the committed status   *)
(* and classification of a pane it does not replace.                         *)
accept_enriched(poll, incoming, screen, touched) ==
  LET replaced == act.live /\ incoming.term # act.term
      fresh == ~act.live \/ replaced
      reappears == ~act.live /\ act.accepted /\ act.gen > 0
      status == IF poll \/ fresh THEN incoming.status ELSE act.status
      prior == IF replaced THEN reset_on_replacement(cell) ELSE cell
      cycled == sync_cycle(prior, status, Epoch)
      c == IF status = "blocked" /\ (poll \/ fresh)
             THEN apply_classification(cycled, screen) ELSE cycled
  IN  /\ Idle
      /\ act' = [live |-> TRUE, status |-> status, term |-> incoming.term,
                 gen |-> IF replaced \/ reappears THEN act.gen + 1 ELSE act.gen,
                 rev |-> Epoch, accepted |-> TRUE]
      /\ cell' = Committed(prior, c, status, fresh \/ touched \/ status # act.status, Epoch)
      /\ Commit(Transitions(prior, c, status, Epoch))

(* A snapshot without the pane ends its generation. *)
Removed ==
  /\ Idle
  /\ act.live
  /\ act' = [act EXCEPT !.live = FALSE, !.gen = @ + 1, !.rev = Epoch]
  /\ cell' = DefaultCell
  /\ Commit(<<>>)

(* A status event, committed without a snapshot; duplicates are dropped. *)
commit_agent_status(status) ==
  LET c == sync_cycle(cell, status, Epoch) IN
  /\ Idle
  /\ act.live /\ status # act.status
  /\ act' = [act EXCEPT !.status = status, !.rev = Epoch]
  /\ cell' = Committed(cell, c, status, status # cell.prev_status, Epoch)
  /\ Commit(Transitions(cell, c, status, Epoch))

(* agent_stop, agent_clear or agent_restart ended the pane's session. *)
bump_generation ==
  /\ Idle
  /\ act.live
  /\ act' = [act EXCEPT !.gen = @ + 1, !.rev = Epoch]
  /\ UNCHANGED cell
  /\ Commit(<<>>)

(* The watch slot is replaced, then the transitions are forwarded. *)
Publish ==
  /\ dirty # <<>>
  /\ pub' = act
  /\ inbox' = inbox \o Head(dirty)
  /\ dirty' = <<>>
  /\ UNCHANGED <<act, cell, tasks, pushes, claims, told, timeouts>>

Actor ==
  \/ \E poll, touched \in BOOLEAN, s \in Statuses, t \in Terminals, screen \in Readings :
       accept_enriched(poll, [status |-> s, term |-> t], screen, touched)
  \/ Removed
  \/ \E s \in Statuses : commit_agent_status(s)
  \/ bump_generation
  \/ Publish

-----------------------------------------------------------------------------
(* Fences: the published row next to the shared cell *)

blocked_transition_current(event, gen) ==
  pub.live /\ pub.status = "blocked" /\ pub.gen = gen /\ cell.blocked.event = event

attention_transition_current(t) ==
  /\ blocked_transition_current(t.event, t.gen)
  /\ Kind(cell.blocked.screen) = Kind(t.screen)
  /\ cell.attention_rev = t.attention_rev

PastAttention ==
  ~is_attention_status(pub.status)
    \/ (pub.status = "blocked" /\ Kind(cell.blocked.screen) = "chat")

completion_current(rev) == pub.live /\ PastAttention /\ cell.completion_rev = rev

(* Mutation: the slot is not looked at. *)
claimable_again(rev) == completion_current(rev)

(* register_finished_notification: the slot of a completion is taken once. *)
Claimable(rev) == completion_current(rev) /\ ~cell.finished_notif

(* commit_attention: only into the cycle and the content it was read from. *)
Commits(t) ==
  blocked_transition_current(t.event, t.gen) /\ cell.content_rev = t.content_rev

-----------------------------------------------------------------------------
(* handle_transition; each step does its effects and ends with the fence of  *)
(* the next, so that others run between a fence and the effect it guards.    *)

Spawn ==
  /\ inbox # <<>>
  /\ LET tr == Head(inbox) IN
     tasks' = tasks \cup
       {[status |-> tr.status, rev |-> tr.rev, at |-> "start", event |-> None, gen |-> 0,
         content_rev |-> 0, attention_rev |-> 0, screen |-> "none", term |-> None]}
  /\ inbox' = Tail(inbox)
  /\ UNCHANGED <<act, pub, dirty, cell, pushes, claims, told, timeouts>>

Step(t, next) == tasks' = (tasks \ {t}) \cup next
Quits(t) == Step(t, {}) /\ UNCHANGED <<cell, pushes, claims, told>>

(* working retracts every push of the pane. *)
HandleWorking(t) ==
  /\ t.at = "start" /\ t.status = "working"
  /\ Step(t, {})
  /\ pushes' = {}
  /\ UNCHANGED <<cell, claims, told>>

(* blocked notes the cycle it found and reads the screen. *)
HandleBlocked(t) ==
  /\ t.at = "start" /\ t.status = "blocked"
  /\ IF ~pub.live \/ cell.blocked.event = None
        \/ ~blocked_transition_current(cell.blocked.event, pub.gen)
       THEN Quits(t)
       ELSE /\ Step(t, {[t EXCEPT !.at = "read", !.event = cell.blocked.event,
                                  !.gen = pub.gen, !.content_rev = cell.content_rev]})
            /\ UNCHANGED <<cell, pushes, claims, told>>

(* enrich_blocked returned: commit_attention. *)
CommitAttention(t, screen) ==
  /\ t.at = "read" /\ t.status = "blocked"
  /\ IF ~Commits(t) THEN Quits(t)
       ELSE LET previous == Kind(cell.blocked.screen)
                c == apply_classification(cell, screen)
                moved == c.blocked # cell.blocked
                bumped == [c EXCEPT !.state_rev = @ + 1, !.content_rev = @ + 1,
                                    !.attention_rev = @ + 1]
                done == IF moved THEN sync_attention_completion(bumped, previous, bumped.state_rev)
                          ELSE cell
            IN  /\ cell' = done
                /\ Step(t, {[t EXCEPT !.at = IF Kind(screen) = "chat" THEN "chat" ELSE "journal",
                                      !.screen = screen, !.rev = done.state_rev,
                                      !.attention_rev = done.attention_rev]})
                /\ UNCHANGED <<pushes, claims, told>>

(* The attention row; a row that went stale while it was written is          *)
(* discarded.                                                                *)
JournalAttention(t) ==
  /\ t.at = "journal"
  /\ Step(t, IF attention_transition_current(t) THEN {[t EXCEPT !.at = "push"]} ELSE {})
  /\ UNCHANGED <<cell, pushes, claims, told>>

(* publish_agent_push replaces the pane's other keys. *)
PushAttention(t) ==
  /\ t.at = "push"
  /\ Step(t, {})
  /\ pushes' = {[category |-> "attention", event |-> t.event, gen |-> t.gen]}
  /\ UNCHANGED <<cell, claims, told>>

(* done or idle, and the chat branch of blocked: take the completion's slot. *)
Claim(t) ==
  /\ \/ t.at = "start" /\ ~is_attention_status(t.status)
     \/ t.at = "chat"
  /\ IF ~Claimable(t.rev) THEN Quits(t)
       ELSE /\ cell' = [cell EXCEPT !.finished_notif = TRUE]
            /\ claims' = Append(claims, <<t.rev, cell.blocked.event, cell.armed>>)
            /\ Step(t, {[t EXCEPT !.at = "capture", !.term = pub.term]})
            /\ UNCHANGED <<pushes, told>>

(* The response was captured: the finished row, unless the completion or the *)
(* pane's session moved.                                                     *)
JournalFinished(t) ==
  /\ t.at = "capture"
  /\ IF ~completion_current(t.rev) \/ (t.status # "blocked" /\ pub.term # t.term)
       THEN Quits(t)
       ELSE /\ told' = told \cup {t.rev}
            /\ Step(t, {[t EXCEPT !.at = "finish"]})
            /\ UNCHANGED <<cell, pushes, claims>>

PushFinished(t) ==
  /\ t.at = "finish"
  /\ IF ~completion_current(t.rev) THEN Quits(t)
       ELSE /\ pushes' = {[category |-> "finished", event |-> t.rev, gen |-> pub.gen]}
            /\ Step(t, {})
            /\ UNCHANGED <<cell, claims, told>>

Handle(t) ==
  /\ \/ HandleWorking(t) \/ HandleBlocked(t) \/ (\E s \in Readings : CommitAttention(t, s))
     \/ JournalAttention(t) \/ PushAttention(t)
     \/ Claim(t) \/ JournalFinished(t) \/ PushFinished(t)
  /\ UNCHANGED <<act, pub, dirty, inbox, timeouts>>

(* TRANSITION_TIMEOUT drops a task that waits for Herdr. *)
TaskTimesOut(t) ==
  /\ t.at \in {"read", "capture"}
  /\ timeouts < MaxTimeouts
  /\ timeouts' = timeouts + 1
  /\ tasks' = tasks \ {t}
  /\ UNCHANGED <<act, pub, dirty, cell, inbox, pushes, claims, told>>

Init ==
  /\ act = [live |-> FALSE, status |-> "none", term |-> None, gen |-> 0, rev |-> 0,
            accepted |-> FALSE]
  /\ pub = act
  /\ dirty = <<>>
  /\ cell = DefaultCell
  /\ inbox = <<>>
  /\ tasks = {}
  /\ pushes = {}
  /\ claims = <<>>
  /\ told = {}
  /\ timeouts = 0

Next == Actor \/ Spawn \/ \E t \in tasks : Handle(t) \/ TaskTimesOut(t)

Spec == Init /\ [][Next]_attVars

-----------------------------------------------------------------------------
(* Properties *)

TypeOK ==
  /\ act.rev \in 0..MaxEpoch /\ pub.rev <= act.rev
  /\ act.status \in Statuses \cup {"none"} /\ act.term \in Terminals \cup {None}
  /\ Len(dirty) <= 1
  /\ cell.blocked.screen \in Readings \cup {"none", "unknown"}
  /\ cell.attention_rev <= cell.content_rev
  /\ Cardinality(pushes) <= 1
  /\ timeouts \in 0..MaxTimeouts

(* A completion, told apart by its revision, its blocked cycle and the        *)
(* commit that armed it, is claimed by one task at most: announced once.     *)
ClaimedOnce == \A i, j \in 1..Len(claims) : claims[i] = claims[j] => i = j

Quiet == dirty = <<>> /\ inbox = <<>> /\ tasks = {}

Armed(by) == cell.completion_rev # None /\ cell.armed.by = by

(* A completion armed by an agent's turn, unlike one armed by a screen that   *)
(* reads as chat, is told even when commits and tasks overtake each other:   *)
(* once everything has run, a pane past attention has its finished row.      *)
TurnCompletionTold ==
  Quiet /\ timeouts = 0 /\ pub.live /\ PastAttention /\ Armed("turn") =>
    cell.completion_rev \in told

(* What register_transition's comment takes for granted: a blocked screen    *)
(* that read as chat has fired its finished notification when it leaves for  *)
(* idle, so nothing need re-arm one.                                         *)
ChatCompletionTold ==
  Quiet /\ timeouts = 0 /\ pub.live /\ pub.status = "idle" /\ Armed("chat") =>
    cell.completion_rev \in told

(* What the projector's header says: a stale transition never pushes.  When  *)
(* everything has run, no attention push is left for a cycle that is over.   *)
NoStalePush ==
  Quiet => \A p \in pushes :
    p.category = "attention" => blocked_transition_current(p.event, p.gen)
=============================================================================
