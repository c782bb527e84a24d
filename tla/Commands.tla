------------------------------ MODULE Commands ------------------------------
(***************************************************************************)
(* What the relay does of a phone's commands on Herdr (actions/mod.rs and  *)
(* its handlers): typing and prompting, stopping, starting and clearing    *)
(* agents, the workspace and worktree calls, fenced reads of a pane.       *)
(* Every command is a task of its own: it is admitted against the topology *)
(* of the moment, runs against Herdr one call at a time and answers with   *)
(* one result.  A call may be refused, not be sent, or be dispatched with  *)
(* its answer lost, applied or not.                                        *)
(***************************************************************************)
EXTENDS Naturals, FiniteSets

CONSTANTS
  CommandMenus,   \* sets of commands that a phone sends beside each other
  MaxFaults       \* bound on failed calls and on what Herdr does by itself

VARIABLES
  estate,      \* Herdr: its panes, workspaces, what a pane shows
  table,       \* the committed topology of the relay
  remembered,  \* the panes whose profile the resolver remembers
  errand,      \* the commands
  mischief     \* how much of MaxFaults is used, what excuses a property, the menu

vars == <<estate, table, remembered, errand, mischief>>

Panes == 1 .. 3          \* an agent at work in pane 1, room for two more
Errands == 1 .. 2
Primary == 1             \* the workspaces of one repository: its primary ...
Linked == {2, 3}         \* ... and its linked worktrees
NoWorkspace == 0         \* a workspace outside the repository, or none

-----------------------------------------------------------------------------
(* Herdr, as its answers show it. *)

NoPane == [term |-> 0, ws |-> NoWorkspace, runs |-> FALSE, name |-> "", known |-> FALSE]

Opened(e, p, ws) ==
  [e EXCEPT !.terms = @ + 1, !.panes[p] = [NoPane EXCEPT !.term = e.terms + 1, !.ws = ws]]
Running(e, p) == [e EXCEPT !.panes[p].runs = TRUE]
(* Herdr knows the agent of p by its name; known: its kind is the profile's. *)
Named(e, p, name, known) ==
  [e EXCEPT !.panes[p].runs = TRUE, !.panes[p].name = name, !.panes[p].known = known]
Closed(e, p) == [e EXCEPT !.panes[p] = NoPane]
WithoutWorkspaces(e, gone) ==
  [e EXCEPT !.ws = @ \ gone,
            !.panes = [p \in Panes |-> IF @[p].ws \in gone THEN NoPane ELSE @[p]]]

Free(e) == {p \in Panes \ {1} : e.panes[p].term = 0}

(* The answers to a call: the second half of them were dispatched and lost. *)
Answers == {"ok", "refused", "busy", "unsent", "lost", "lost applied"}
Applies(answer) == answer \in {"ok", "lost applied"}
phase(answer) ==
  CASE answer \in {"refused", "busy"} -> "refused"
    [] answer = "unsent" -> "not_started"
    [] OTHER -> "dispatched_unknown"

Costs(n, why) ==
  /\ mischief.spent + n <= MaxFaults
  /\ mischief' = [mischief EXCEPT !.spent = @ + n, !.why = @ \cup why]
Price(answer) == IF answer = "ok" THEN 0 ELSE 1

-----------------------------------------------------------------------------
(* Outcomes. *)

(* The outcome of a failed call (dispatch_failure): only a dispatched one may have run. *)
dispatch_failure(ph) == IF ph = "dispatched_unknown" THEN "dispatched_unknown" ELSE "not_started"

(* The same for workspaces and worktrees, where an unlisted refusal is a failure (topology_failure). *)
topology_failure(ph) ==
  CASE ph = "dispatched_unknown" -> {"dispatched_unknown"}
    [] ph = "not_started" -> {"not_started"}
    [] OTHER -> {"not_started", "failed"}

(* Mutation: a refusal after the command was typed keeps its class. *)
after_dispatch_as_is(ph) == dispatch_failure(ph)
(* What fails once the agent's command is typed into the shell is never safe to repeat. *)
after_dispatch(ph) == dispatch_failure("dispatched_unknown")

NoErrand ==
  [kind |-> "none", step |-> "idle", term |-> 0, gen |-> 0, extra |-> FALSE, ws |-> NoWorkspace,
   name |-> "", agreed |-> {}, pane |-> 0, pending |-> "", did |-> {}, gone |-> {}, hit |-> 0, seen |-> 0,
   sure |-> FALSE, fence |-> 0, told |-> 0, of |-> 0, said |-> ""]

Typing == {"text", "keys", "secret", "prompt"}
Tidying == {"focus", "tab", "layout"}
OnPane == Typing \cup Tidying \cup {"qoder", "stop", "clear", "search", "select", "inspect"}
Starts == {"start", "start_argv"}
OnWorkspace == {"close", "open", "remove", "arrange"}

(* The result goes out; the task keeps nothing (Outcome::frames). *)
Done(e, said) ==
  [e EXCEPT !.step = "done", !.said = said, !.pending = "", !.ws = NoWorkspace, !.fence = 0,
            !.pane = 0, !.name = ""]
Did(e, answer, what) == IF Applies(answer) THEN [e EXCEPT !.did = @ \cup {what}] ELSE e
Set(i, e) == errand' = [errand EXCEPT ![i] = e]

Init ==
  /\ \E rev \in {0, 1} :
       table = [terms |-> [p \in Panes |-> IF p = 1 THEN 1 ELSE 0], gens |-> 0, bumps |-> 0,
                ws |-> {1, 2}, rev |-> rev, dir |-> 1]
  /\ estate = [panes |-> [p \in Panes |->
                            IF p = 1 THEN [term |-> 1, ws |-> Primary, runs |-> TRUE, name |-> "",
                                           known |-> TRUE]
                            ELSE NoPane],
               ws |-> {1, 2}, terms |-> 1, rev |-> 1, dir |-> 1, starting |-> {}]
  /\ remembered = {}
  /\ errand = [i \in Errands |-> NoErrand]
  /\ \E menu \in CommandMenus : mischief = [spent |-> 0, why |-> {}, menu |-> menu]

-----------------------------------------------------------------------------
(* Herdr and its user, and the actor that follows them. *)

(* A desktop user restarts what runs in pane 1, or opens a pane that gets its id again. *)
HerdrReplaces ==
  /\ Costs(1, {})
  /\ estate' = [Opened(estate, 1, Primary) EXCEPT !.panes[1].runs = TRUE, !.panes[1].known = TRUE]
  /\ UNCHANGED <<table, remembered, errand>>

HerdrPrints ==
  /\ \E i \in Errands : errand[i].kind \in {"search", "select"} /\ errand[i].step # "done"
  /\ Costs(1, {})
  /\ estate' = [estate EXCEPT !.rev = @ + 1]
  /\ UNCHANGED <<table, remembered, errand>>

HerdrChangesDirectory ==
  /\ \E i \in Errands : errand[i].kind = "inspect" /\ errand[i].step = "inspect"
  /\ Costs(1, {})
  /\ estate' = [estate EXCEPT !.dir = 3 - @]
  /\ UNCHANGED <<table, remembered, errand>>

(* An agent.start whose answer was given up on takes effect after all. *)
HerdrStartsLate ==
  \E p \in estate.starting :
    /\ estate' = IF estate.panes[p].term = 0 THEN [estate EXCEPT !.starting = @ \ {p}]
                 ELSE [Named(estate, p, "n", TRUE) EXCEPT !.starting = @ \ {p}]
    /\ UNCHANGED <<table, remembered, errand, mischief>>

(* The actor reads Herdr again: poked by handle.refresh() or by an event. *)
ActorRefreshes ==
  /\ table' = [table EXCEPT !.terms = [p \in Panes |-> estate.panes[p].term], !.ws = estate.ws,
                            !.dir = estate.dir]
  /\ table' # table
  /\ UNCHANGED <<estate, remembered, errand, mischief>>

(* It takes a queued BumpGeneration; the output counter starts over. *)
ActorBumps ==
  /\ table.bumps > 0
  /\ table' = [table EXCEPT !.bumps = @ - 1, !.gens = @ + 1, !.rev = 0]
  /\ UNCHANGED <<estate, remembered, errand, mischief>>

-----------------------------------------------------------------------------
(* Sending and admitting a command. *)

(* The phone fills in the rows it shows: the exact target, the group it asked its user about. *)
PhoneSends(i) ==
  /\ errand[i].step = "idle" /\ (i = 2 => errand[1].step # "idle")
  /\ \E kind \in mischief.menu, extra \in BOOLEAN :
       /\ kind \in OnPane => table.terms[1] # 0
       /\ extra => kind \in Starts \cup {"close", "focus"}
       /\ \E ws \in IF kind \in OnWorkspace THEN table.ws ELSE {NoWorkspace} :
            /\ kind \in {"open", "arrange"} => ws = Primary
            /\ Set(i, [NoErrand EXCEPT !.kind = kind, !.step = "sent", !.extra = extra, !.ws = ws,
                         !.term = IF kind \in OnPane THEN table.terms[1] ELSE 0,
                         !.gen = IF kind \in OnPane THEN table.gens ELSE 0,
                         !.agreed = IF kind # "close" THEN {} ELSE IF extra THEN table.ws
                                    ELSE {ws}])
  /\ UNCHANGED <<estate, table, remembered, mischief>>

(* Mutation: the terminal is not compared. *)
exact_target_by_generation(e) == table.terms[1] # 0 /\ e.gen = table.gens
(* The row still is the one the phone addressed (validate_exact_pane_target). *)
exact_target(e) == table.terms[1] # 0 /\ e.term = table.terms[1] /\ e.gen = table.gens

(* It is, or the command goes by a tab, a workspace or a session instead (focus_tab and the like). *)
Targeted(e) == e.kind \notin OnPane \/ (e.kind = "focus" /\ e.extra) \/ exact_target(e)

(* The workspace is in the topology, and linked if it is to be removed (workspace_target). *)
workspace_target(e) ==
  /\ e.kind \in {"open", "arrange", "remove"} => e.ws \in table.ws
  /\ e.kind = "remove" => e.ws \in Linked

(* Another command's stop or clear of the same epoch is confirmed and has reached the topology. *)
Retired(i) ==
  /\ \E j \in Errands \ {i} :
       /\ errand[j].kind \in {"stop", "clear"} /\ errand[j].said \in {"completed", "warning"}
       /\ errand[j].gen = errand[i].gen
  /\ table.bumps = 0

Cleared(j) == errand[j].kind = "clear" /\ errand[j].step \notin {"idle", "sent"}

FirstStep(kind) ==
  CASE kind \in Starts \cup {"clear"} -> "reconcile"
    [] kind \in {"search", "select"} -> "attempt"
    [] kind = "close" -> "members"
    [] kind = "inspect" -> "inspect"
    [] OTHER -> "call"

(* A start has the name it asks for.  A clear is named for the first half of the digits of the
   clock: two of them within some four seconds share it (clear_inner). *)
NamesOf(i) ==
  IF errand[i].kind # "clear" THEN {"n"}
  ELSE IF \E j \in Errands \ {i} : Cleared(j) THEN {"clear", "clear later"} ELSE {"clear"}

(* An admitted command runs as a task of its own (dispatch, spawn_action!). *)
Route(i) ==
  /\ errand[i].step = "sent"
  /\ \E e \in {errand[i]} :
       IF ~Targeted(e) \/ ~workspace_target(e)
       THEN /\ Set(i, Done(e, "failed"))
            /\ UNCHANGED mischief
       ELSE \E name \in NamesOf(i) :
            /\ Set(i, [e EXCEPT !.step = FirstStep(e.kind), !.name = name, !.seen = estate.panes[1].term,
                                !.fence = IF e.kind \in {"search", "select"} THEN table.rev ELSE 0,
                                !.sure = table.terms[1] = estate.panes[1].term \/ Retired(i),
                                !.told = IF e.kind = "inspect" THEN table.dir ELSE 0])
            /\ Costs(0, {w \in {"overlap", "twins"} : \E j \in Errands \ {i} :
                            IF w = "overlap" THEN errand[j].step \notin {"idle", "sent", "done"}
                            ELSE e.kind = "clear" /\ name = "clear" /\ Cleared(j)})
  /\ UNCHANGED <<estate, table, remembered>>

-----------------------------------------------------------------------------
(* Commands of one call. *)

Hits(e, answer) == IF Applies(answer) THEN [e EXCEPT !.hit = estate.panes[1].term] ELSE e

(* A call can only be applied to a pane that is there. *)
Possible(answer, p) == Applies(answer) => estate.panes[p].term # 0

At(i, kind) == errand[i].kind = kind /\ errand[i].step = "call"

(* What the phone sent is not valid: nothing goes to Herdr. *)
Declines(i) == Costs(1, {}) /\ Set(i, Done(errand[i], "failed"))

(* The ledger knows that this Herdr lacks the method (method_refuted, capability_gap). *)
capability_gap(i) == Costs(1, {}) /\ Set(i, Done(errand[i], "not_started"))

CallOnPane(i, what) ==
  \E answer \in Answers :
    /\ Possible(answer, 1) /\ Costs(Price(answer), {})
    /\ Set(i, Done(Did(Hits(errand[i], answer), answer, what),
                   IF answer = "ok" THEN "completed" ELSE dispatch_failure(phase(answer))))

(* Attachments are looked up, then pane.send_text. *)
send_text(i) ==
  /\ At(i, "text") /\ (Declines(i) \/ CallOnPane(i, "typed"))
  /\ UNCHANGED <<estate, table, remembered>>

(* Keys by name, alone or with a text. *)
send_keys(i) ==
  /\ At(i, "keys") /\ (Declines(i) \/ CallOnPane(i, "typed"))
  /\ UNCHANGED <<estate, table, remembered>>

(* A secret is typed key by key, with Enter. *)
send_secret(i) ==
  /\ At(i, "secret") /\ (Declines(i) \/ CallOnPane(i, "typed"))
  /\ UNCHANGED <<estate, table, remembered>>

submit_prompt(i) ==
  /\ At(i, "prompt") /\ (Declines(i) \/ CallOnPane(i, "typed"))
  /\ UNCHANGED <<estate, table, remembered>>

(* Focus of the pane, or of a tab, workspace or session by its own id. *)
Focuses(i) ==
  /\ At(i, "focus")
  /\ \/ capability_gap(i)
     \/ ~errand[i].extra /\ CallOnPane(i, "arranged")
     \/ /\ errand[i].extra
        /\ \E answer \in Answers :
             /\ Costs(Price(answer), {})
             /\ Set(i, Done(Did(errand[i], answer, "arranged"),
                            IF answer = "ok" THEN "completed" ELSE dispatch_failure(phase(answer))))
  /\ UNCHANGED <<estate, table, remembered>>

(* The tab of the pane is renamed or moved. *)
tab_reorder(i) ==
  /\ At(i, "tab") /\ (Declines(i) \/ CallOnPane(i, "arranged"))
  /\ UNCHANGED <<estate, table, remembered>>

layout_apply(i) ==
  /\ At(i, "layout") /\ (capability_gap(i) \/ CallOnPane(i, "arranged"))
  /\ UNCHANGED <<estate, table, remembered>>

(* Qoder does not submit a prompt by itself: the text, and then Enter (prompt_inner). *)
TypesText(i) ==
  /\ errand[i].kind = "qoder" /\ errand[i].step = "call"
  /\ \E answer \in Answers :
       /\ Possible(answer, 1) /\ Costs(Price(answer), {})
       /\ \E e \in {Did(Hits(errand[i], answer), answer, "text")} :
            Set(i, IF answer = "ok" THEN [e EXCEPT !.step = "enter"]
                   ELSE Done(e, dispatch_failure(phase(answer))))
  /\ UNCHANGED <<estate, table, remembered>>

PressesEnter(i) ==
  /\ errand[i].kind = "qoder" /\ errand[i].step = "enter"
  /\ \E answer \in Answers :
       /\ Possible(answer, 1) /\ Costs(Price(answer), {})
       /\ Set(i, Done(Did(Hits(errand[i], answer), answer, "typed"),
                      IF answer = "ok" THEN "completed" ELSE "dispatched_unknown"))
  /\ UNCHANGED <<estate, table, remembered>>

(* Mutation: the epoch of a stopped pane is kept. *)
bump_generation_never == table
(* The close ended the pane's session: stale targets must stop validating (bump_generation). *)
bump_generation == [table EXCEPT !.bumps = @ + 1]

(* pane.close, then the epoch, the remembered profile and a refresh (agent_stop). *)
Stops(i) ==
  /\ errand[i].kind = "stop" /\ errand[i].step = "call"
  /\ \E answer \in Answers :
       /\ Possible(answer, 1) /\ Costs(Price(answer), {})
       /\ estate' = IF Applies(answer) THEN Closed(estate, 1) ELSE estate
       /\ Set(i, Done(Did(Hits(errand[i], answer), answer, "closed"),
                      IF answer = "ok" THEN "completed" ELSE dispatch_failure(phase(answer))))
       /\ IF answer = "ok" THEN table' = bump_generation /\ remembered' = remembered \ {1}
          ELSE UNCHANGED <<table, remembered>>

(* The answer of a workspace or worktree call, applied to Herdr as effect. *)
CallOnWorkspace(i, effect, why) ==
  \E answer \in Answers :
    /\ Applies(answer) => errand[i].ws \in estate.ws
    /\ estate' = IF Applies(answer) THEN effect ELSE estate
    /\ Costs(Price(answer), IF Applies(answer) THEN why ELSE {})
    /\ \E said \in IF answer = "ok" THEN {"completed"} ELSE topology_failure(phase(answer)) :
         Set(i, Done(Did(errand[i], answer, "arranged"), said))

(* A workspace is renamed, or it or a block of them moved. *)
workspace_reorder(i) ==
  /\ At(i, "arrange")
  /\ CallOnWorkspace(i, estate, {})
  /\ UNCHANGED <<table, remembered>>

(* A worktree is created or opened: it joins the group of its repository. *)
worktree_open(i) ==
  /\ At(i, "open")
  /\ CallOnWorkspace(i, [estate EXCEPT !.ws = @ \cup {3}],
                      IF \E j \in Errands : errand[j].step = "close" THEN {"joined"} ELSE {})
  /\ UNCHANGED <<table, remembered>>

worktree_remove(i) ==
  /\ At(i, "remove")
  /\ CallOnWorkspace(i, WithoutWorkspaces(estate, {errand[i].ws}), {})
  /\ UNCHANGED <<table, remembered>>

(* A workspace of the phone's own; an answer that does not name its pane leaves it unknown. *)
workspace_create(i) ==
  /\ At(i, "create")
  /\ \E answer \in Answers \cup {"nameless"}, p \in {CHOOSE q \in Free(estate) : TRUE} :
       /\ Costs(Price(answer), {})
       /\ estate' = IF Applies(answer) \/ answer = "nameless" THEN Opened(estate, p, NoWorkspace) ELSE estate
       /\ \E said \in CASE answer = "ok" -> {"completed"}
                        [] answer = "nameless" -> {"dispatched_unknown"}
                        [] OTHER -> topology_failure(phase(answer)) :
            Set(i, Done(IF estate' = estate THEN errand[i] ELSE Did(errand[i], "ok", "arranged"), said))
  /\ UNCHANGED <<table, remembered>>

-----------------------------------------------------------------------------
(* Closing a workspace, or with it the linked worktrees of its repository. *)

(* The members of the group of ws (workspace_group_ids). *)
workspace_group_ids(ws, listed) == IF ws \in {Primary} \cup Linked THEN listed ELSE {ws}

(* Mutation: the group is not compared with the one the user was shown. *)
may_close_any(e, group) == (e.extra => e.ws = Primary) /\ (~e.extra => e.ws # Primary \/ group = {e.ws})
(* The group may be closed by its primary and as the user saw it; a primary alone only if it is
   alone (workspace_close, same_workspace_id_set). *)
may_close(e, group) ==
  /\ e.extra => e.ws = Primary /\ e.agreed = group
  /\ ~e.extra => e.ws # Primary \/ group = {e.ws}

(* workspace.list: who is in the group now. *)
ListsMembers(i) ==
  /\ errand[i].step = "members"
  /\ \E answer \in {"ok", "unsent"} :
       /\ Costs(Price(answer), {})
       /\ Set(i, IF answer = "ok" /\ errand[i].ws \in estate.ws
                    /\ may_close(errand[i], workspace_group_ids(errand[i].ws, estate.ws))
                 THEN [errand[i] EXCEPT !.step = "close"]
                 ELSE Done(errand[i], IF answer = "ok" /\ ~errand[i].extra /\ errand[i].ws \notin estate.ws
                                      THEN "failed" ELSE "not_started"))
  /\ UNCHANGED <<estate, table, remembered>>

ClosesWorkspace(i) ==
  /\ errand[i].step = "close"
  /\ \E answer \in Answers, gone \in {IF errand[i].extra THEN estate.ws ELSE {errand[i].ws}} :
       /\ Applies(answer) => errand[i].ws \in estate.ws
       /\ Costs(Price(answer), {})
       /\ estate' = IF Applies(answer) THEN WithoutWorkspaces(estate, gone) ELSE estate
       /\ \E e \in {Did(errand[i], answer, "closed")},
             said \in IF answer = "ok" THEN {"completed"} ELSE topology_failure(phase(answer)) :
            Set(i, Done([e EXCEPT !.gone = IF Applies(answer) THEN gone ELSE {}], said))
  /\ UNCHANGED <<table, remembered>>

-----------------------------------------------------------------------------
(* Reads of a pane that are fenced by its content revision, and of its directory. *)

(* The revision read without a fence, and noted (probe_content_revision). *)
Probes(i) ==
  /\ \/ errand[i].step = "reprobe"
     \/ errand[i].kind = "search" /\ errand[i].step = "attempt" /\ errand[i].fence = 0
  /\ \E answer \in {"ok", "unsent"} :
       /\ Possible(answer, 1) /\ Costs(Price(answer), {})
       /\ IF answer = "ok"
          THEN /\ Set(i, [errand[i] EXCEPT !.fence = estate.rev,
                            !.step = IF @ = "reprobe" THEN "again" ELSE "attempt"])
               /\ table' = [table EXCEPT !.rev = estate.rev]
          ELSE Set(i, Done(errand[i], "not_started")) /\ UNCHANGED table
  /\ UNCHANGED <<estate, remembered>>

(* Mutation: what Herdr has now is told, with the revision asked for. *)
is_stale_never(e) == FALSE
(* Herdr refuses a fence that is not its current revision (is_stale). *)
is_stale(e) == e.fence # 0 /\ e.fence # estate.rev

(* One attempt, and one more with a fresh fence when the first was stale (fenced, fenced_opt). *)
FenceRefused(i) ==
  /\ errand[i].step \in {"attempt", "again"} /\ is_stale(errand[i])
  /\ Set(i, IF errand[i].step = "attempt" THEN [errand[i] EXCEPT !.step = "reprobe"]
            ELSE Done(errand[i], "not_started"))
  /\ UNCHANGED <<estate, table, remembered, mischief>>

Answered(i, answer) ==
  /\ errand[i].step \in {"attempt", "again"} /\ ~is_stale(errand[i])
  /\ Possible(answer, 1) /\ Costs(Price(answer), {})
  /\ Set(i, IF answer = "ok"
            THEN Done([errand[i] EXCEPT !.of = estate.rev, !.told = errand[i].fence], "completed")
            ELSE Done(errand[i], dispatch_failure(phase(answer))))

(* The matches come with the revision they were found in, which is noted. *)
pane_search(i) ==
  /\ errand[i].kind = "search" /\ errand[i].fence # 0
  /\ \E answer \in {"ok", "refused"} :
       /\ Answered(i, answer)
       /\ table' = IF answer = "ok" THEN [table EXCEPT !.rev = estate.rev] ELSE table
  /\ UNCHANGED <<estate, remembered>>

(* A selection, or a link: without a revision to go by it is read as it is. *)
pane_selection_read(i) ==
  /\ errand[i].kind = "select"
  /\ \E answer \in {"ok", "refused"} : Answered(i, answer)
  /\ UNCHANGED <<estate, table, remembered>>

(* Files, changes and slash commands are read below the directory the row showed, and thrown
   away when the row shows another by then (inspect, slash_commands). *)
Inspects(i) ==
  /\ errand[i].step = "inspect"
  /\ Set(i, IF table.terms[1] # 0 /\ table.dir = errand[i].told
            THEN Done([errand[i] EXCEPT !.of = table.dir], "completed")
            ELSE Done([errand[i] EXCEPT !.told = 0], "failed"))
  /\ UNCHANGED <<estate, table, remembered, mischief>>

-----------------------------------------------------------------------------
(* Starting an agent (lifecycle_start); a clear starts one under a name of its own first. *)

Argv(e) == e.kind = "start_argv"

(* An agent of that name in that directory whose profile is the one asked for. *)
reconcile_existing(e) ==
  {p \in Panes : /\ estate.panes[p].runs /\ estate.panes[p].name = e.name
                 /\ p \in remembered \/ (estate.panes[p].known /\ ~Argv(e))
                 /\ e.extra => estate.panes[p].ws = Primary}

(* The workspace of the agents at work in that directory (select_workspace_for_cwd). *)
select_workspace_for_cwd == IF estate.panes[1].runs THEN estate.panes[1].ws ELSE NoWorkspace

(* What comes after a start that succeeded: the prompt, or the old pane of a clear. *)
AfterStart(e, p) ==
  IF e.kind = "clear" THEN [e EXCEPT !.step = "retire", !.pane = p]
  ELSE [e EXCEPT !.step = "prompt", !.pane = p]

(* agent.list; when it cannot be read, no agent is taken to be there. *)
Reconciles(i) ==
  /\ errand[i].step = "reconcile"
  /\ \/ /\ Costs(1, {"blind"})
        /\ Set(i, [errand[i] EXCEPT !.step = "inventory"])
        /\ UNCHANGED remembered
     \/ /\ UNCHANGED mischief
        /\ \E found \in {reconcile_existing(errand[i])} :
             IF found = {} THEN Set(i, [errand[i] EXCEPT !.step = "inventory"]) /\ UNCHANGED remembered
             ELSE \E p \in found :
                    /\ Set(i, AfterStart([errand[i] EXCEPT !.did = @ \cup {"found"}], p))
                    /\ remembered' = remembered \cup {p}
  /\ UNCHANGED <<estate, table>>

(* agent.list and workspace.list; the workspace asked for must exist. *)
TakesInventory(i) ==
  /\ errand[i].step = "inventory"
  /\ \E answer \in {"ok", "unsent", "lost"} :
       /\ Costs(Price(answer), {})
       /\ Set(i, IF answer # "ok" THEN Done(errand[i], dispatch_failure(phase(answer)))
                 ELSE IF errand[i].extra /\ Primary \notin estate.ws THEN Done(errand[i], "not_started")
                 ELSE [errand[i] EXCEPT !.step = "target",
                         !.ws = IF errand[i].extra THEN Primary ELSE select_workspace_for_cwd])
  /\ UNCHANGED <<estate, table, remembered>>

(* tab.create in the workspace, or workspace.create; its answer names the pane, or does not
   (create_target, created_target). *)
CreatesTarget(i) ==
  /\ errand[i].step = "target"
  /\ \E answer \in Answers \cup {"nameless"}, p \in {CHOOSE q \in Free(estate) : TRUE} :
       \E made \in {Applies(answer) \/ answer = "nameless"} :
       /\ made /\ errand[i].ws # NoWorkspace => errand[i].ws \in estate.ws
       /\ Costs(Price(answer), {})
       /\ estate' = IF made THEN Opened(estate, p, errand[i].ws) ELSE estate
       /\ \E e \in {IF made THEN [errand[i] EXCEPT !.did = @ \cup {"target"}] ELSE errand[i]} :
            Set(i, CASE answer = "ok" -> [e EXCEPT !.pane = p, !.step =
                                            IF e.ws = NoWorkspace THEN "label" ELSE "launch"]
                     [] answer = "nameless" -> Done(e, "dispatched_unknown")
                     [] OTHER -> Done(e, dispatch_failure(phase(answer))))
  /\ UNCHANGED <<table, remembered>>

(* A workspace of its own gets the agent's name; if it does not, it is closed again. *)
LabelsTarget(i) ==
  /\ errand[i].step = "label"
  /\ \E answer \in Answers :
       /\ Possible(answer, errand[i].pane) /\ Costs(Price(answer), {})
       /\ Set(i, IF answer = "ok" THEN [errand[i] EXCEPT !.step = "launch"]
                 ELSE [errand[i] EXCEPT !.step = "undo", !.pending = phase(answer)])
  /\ UNCHANGED <<estate, table, remembered>>

UndoesTarget(i) ==
  /\ errand[i].step = "undo"
  /\ \E answer \in Answers :
       /\ Possible(answer, errand[i].pane) /\ Costs(Price(answer), {})
       /\ estate' = IF Applies(answer) THEN Closed(estate, errand[i].pane) ELSE estate
       /\ Set(i, Done(IF Applies(answer) THEN [errand[i] EXCEPT !.did = @ \ {"target"}] ELSE errand[i],
                      dispatch_failure(errand[i].pending)))
  /\ UNCHANGED <<table, remembered>>

(* agent.start, tried again while the fresh pane is busy (start_kind_agent). *)
StartsKind(i) ==
  /\ errand[i].step = "launch" /\ ~Argv(errand[i])
  /\ \E answer \in Answers \cup {"lost late"}, p \in {errand[i].pane} :
       /\ Possible(answer, p) /\ Costs(Price(answer), IF answer = "lost late" THEN {"late"} ELSE {})
       /\ estate' = IF Applies(answer) THEN Named(estate, p, errand[i].name, TRUE)
                    ELSE IF answer = "lost late" /\ errand[i].name = "n"
                    THEN [estate EXCEPT !.starting = @ \cup {p}] ELSE estate
       /\ \E e \in {Did(errand[i], answer, "agent")} :
            \/ /\ answer = "ok"
               /\ Set(i, AfterStart(e, p))
               /\ remembered' = remembered \cup {p}
            \/ /\ answer # "ok"
               /\ Set(i, Done(IF answer = "lost late" THEN [e EXCEPT !.did = @ \cup {"agent"}] ELSE e,
                              dispatch_failure(phase(answer))))
               /\ UNCHANGED remembered
            \/ /\ answer = "busy"
               /\ Set(i, e)
               /\ UNCHANGED remembered
  /\ UNCHANGED table

(* A profile Herdr has no kind for: its command is typed into the shell (start_in_target). *)
RunsArgv(i) ==
  /\ errand[i].step = "launch" /\ Argv(errand[i])
  /\ \E answer \in Answers, p \in {errand[i].pane} :
       /\ Possible(answer, p) /\ Costs(Price(answer), IF Price(answer) = 1 THEN {"unclaimed"} ELSE {})
       /\ estate' = IF Applies(answer) THEN Running(estate, p) ELSE estate
       /\ \E e \in {Did(errand[i], answer, "agent")} :
            Set(i, IF answer = "ok" THEN [e EXCEPT !.step = "detect"]
                   ELSE Done(e, dispatch_failure(phase(answer))))
  /\ UNCHANGED <<table, remembered>>

(* agent.get is asked until Herdr detects the agent or the deadline passes. *)
Detects(i) ==
  /\ errand[i].step = "detect"
  /\ \/ /\ Costs(0, {})
        /\ Set(i, [errand[i] EXCEPT !.step = "rename"])
     \/ /\ Costs(1, {"unclaimed"})
        /\ Set(i, Done(errand[i], after_dispatch("refused")))
     \/ /\ Costs(0, {})
        /\ Set(i, [errand[i] EXCEPT !.step = "claim"])
  /\ UNCHANGED <<estate, table, remembered>>

(* An agent Herdr never detects is claimed by the relay (claim_custom_agent). *)
Claims(i) ==
  /\ errand[i].step = "claim"
  /\ \E answer \in Answers :
       /\ Possible(answer, errand[i].pane)
       /\ Costs(Price(answer), IF Price(answer) = 1 THEN {"unclaimed"} ELSE {})
       /\ Set(i, IF answer = "ok" THEN [errand[i] EXCEPT !.step = "rename"]
                 ELSE Done(errand[i], "dispatched_unknown"))
  /\ UNCHANGED <<estate, table, remembered>>

(* agent.rename gives it the name that is looked for later. *)
NamesAgent(i) ==
  /\ errand[i].step = "rename"
  /\ \E answer \in Answers, p \in {errand[i].pane} :
       /\ Possible(answer, p) /\ Costs(Price(answer), IF Price(answer) = 1 THEN {"unclaimed"} ELSE {})
       /\ estate' = IF Applies(answer) THEN Named(estate, p, errand[i].name, FALSE) ELSE estate
       /\ IF answer = "ok"
          THEN Set(i, AfterStart(errand[i], p)) /\ remembered' = remembered \cup {p}
          ELSE Set(i, Done(errand[i], after_dispatch(phase(answer)))) /\ UNCHANGED remembered
  /\ UNCHANGED table

(* The prompt that came with the start (every start here has one); one that is not confirmed is a warning (start_inner). *)
PromptsStarted(i) ==
  /\ errand[i].step = "prompt"
  /\ \E answer \in Answers :
       /\ Possible(answer, errand[i].pane) /\ Costs(Price(answer), {})
       /\ Set(i, Done(Did(errand[i], answer, "prompted"), IF answer = "ok" THEN "completed" ELSE "warning"))
  /\ UNCHANGED <<estate, table, remembered>>

(* The pane a clear replaces is closed last, and its epoch ends either way (clear_inner). *)
Retires(i) ==
  /\ errand[i].step = "retire"
  /\ \E answer \in Answers :
       /\ Possible(answer, 1) /\ Costs(Price(answer), {})
       /\ estate' = IF Applies(answer) THEN Closed(estate, 1) ELSE estate
       /\ Set(i, Done(Did(Hits(errand[i], answer), answer, "closed"),
                      IF answer = "ok" THEN "completed" ELSE "warning"))
  /\ table' = bump_generation
  /\ remembered' = remembered \ {1}

Next ==
  \/ HerdrReplaces \/ HerdrPrints \/ HerdrChangesDirectory \/ HerdrStartsLate
  \/ ActorRefreshes \/ ActorBumps
  \/ \E i \in Errands :
       \/ PhoneSends(i) \/ Route(i)
       \/ send_text(i) \/ send_keys(i) \/ send_secret(i) \/ submit_prompt(i)
       \/ TypesText(i) \/ PressesEnter(i) \/ Stops(i)
       \/ Focuses(i) \/ tab_reorder(i) \/ layout_apply(i)
       \/ workspace_reorder(i) \/ worktree_open(i) \/ worktree_remove(i) \/ workspace_create(i)
       \/ ListsMembers(i) \/ ClosesWorkspace(i)
       \/ Probes(i) \/ FenceRefused(i) \/ pane_search(i) \/ pane_selection_read(i) \/ Inspects(i)
       \/ Reconciles(i) \/ TakesInventory(i) \/ CreatesTarget(i) \/ LabelsTarget(i) \/ UndoesTarget(i)
       \/ StartsKind(i) \/ RunsArgv(i) \/ Detects(i) \/ Claims(i) \/ NamesAgent(i)
       \/ PromptsStarted(i) \/ Retires(i)

-----------------------------------------------------------------------------
(* Properties *)

(* What a command that is confirmed promises to have done. *)
Promised(e) ==
  CASE e.kind \in Typing -> e.did = {"typed"}
    [] e.kind = "qoder" -> e.did = {"text", "typed"}
    [] e.kind \in {"stop", "close"} -> e.did = {"closed"}
    [] e.kind \in Tidying \cup {"open", "remove", "arrange", "create"} -> e.did = {"arranged"}
    [] e.kind \in Starts -> "prompted" \in e.did /\ e.did \cap {"agent", "found"} # {}
    [] e.kind = "clear" -> {"agent", "closed"} \subseteq e.did \/ "twins" \in mischief.why
    [] OTHER -> TRUE

(* The result of a command is true of Herdr, whichever of its calls failed: a confirmed one did all
   it promises, one that says it was not sent left nothing but the empty pane of a start, a warning
   is an agent that runs, and a clear never closes the old pane before the new agent runs, but for
   two clears of one name
   (dispatch_failure, topology_failure, start_inner, clear_inner). *)
ToldTrue ==
  \A i \in Errands : \E e \in {errand[i]} :
    /\ e.said = "completed" => Promised(e)
    /\ e.said = "warning" => e.did \cap {"agent", "found"} # {}
    /\ e.said \in {"not_started", "failed"} =>
         e.did \subseteq IF e.kind \in Starts \cup {"clear"} THEN {"target"} ELSE {}
    /\ e.kind = "clear" /\ "closed" \in e.did => "agent" \in e.did \/ "twins" \in mischief.why

(* A start that is sent again after its first run ended, however that ended, starts no second agent
   of the name; but for a first run Herdr completes after it was given up on, one that could not
   name its agent, and an agent list that could not be read (reconcile_existing). *)
StartedOnce ==
  /\ \A i \in Errands : errand[i].kind \in Starts
  /\ errand[1].kind = errand[2].kind /\ errand[1].extra = errand[2].extra
  /\ \A i \in Errands : "agent" \in errand[i].did
  => mischief.why \cap {"overlap", "late", "unclaimed", "blind"} # {}

(* A command acts on the terminal the phone addressed, unless it was replaced after the check or
   the topology had not heard of the replacement; a target from before a confirmed stop or clear of
   the pane not even then (validate_exact_pane_target, bump_generation). *)
ActsOnTarget ==
  \A i \in Errands : \E e \in {errand[i]} :
    e.hit \notin {0, e.term} => e.hit # e.seen \/ ~e.sure

(* Closing a workspace closes no more than its user agreed to, unless a worktree joins while the close is
   on its way (workspace_close). *)
ClosesAsAgreed ==
  \A i \in Errands :
    errand[i].gone \subseteq errand[i].agreed \/ "joined" \in mischief.why

(* What is read of a pane is of the revision it is said to be of, and what is read of a directory
   is of the one the row shows (fenced, fenced_opt, inspect). *)
ReadIsOf ==
  \A i \in Errands :
    errand[i].said = "completed" /\ errand[i].kind \in {"search", "select", "inspect"}
      => errand[i].told \in {0, errand[i].of}
=============================================================================
