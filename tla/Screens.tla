------------------------------ MODULE Screens -------------------------------
(***************************************************************************)
(* What the relay reads off a terminal agent's screen: an approval dialog    *)
(* with its options and focus, a prompt that waits for input, a question     *)
(* for a secret, or nothing.  An agent prints, asks, settles and waits; what *)
(* it no longer means may stay on the screen, above what it means now.       *)
(* A line is what its matchers make of it: a kind, the number and marker of  *)
(* a row, and a word that tells two lines of a kind apart.                   *)
(***************************************************************************)
EXTENDS Integers, Sequences, FiniteSets, SequencesExt, FiniteSetsExt

CONSTANTS
  Agents,    \* the agents of the panes
  Commands,  \* what they ask to run: numbers
  MaxDraws   \* bound on what an agent draws

VARIABLES
  agent,   \* whose pane it is
  screen,  \* its lines
  live,    \* what the agent waits for
  asked    \* dialogs that were read, with their fingerprints: history

screenVars == <<agent, screen, live, asked>>

HeaderWindow == 16
SummaryLines == 12
TailLines == 8
MAX_TRAILING_STATUS_LINES == 6
PANE_READ_LINES == 80

Line(k, w) == [k |-> k, n |-> 0, focus |-> FALSE, w |-> w]
Mark(k) == Line(k, 0)
Blank == Mark("blank")
Texts(n) == [i \in 1..n |-> Mark("text")]

Before(lines, i) == SubSeq(lines, 1, i - 1)
last_line_matching(lines, Matches(_)) == LET s == {i \in DOMAIN lines : Matches(lines[i])} IN IF s = {} THEN 0 ELSE Max(s)
first_line_matching(lines, Matches(_)) == LET s == {i \in DOMAIN lines : Matches(lines[i])} IN IF s = {} THEN 0 ELSE Min(s)

-----------------------------------------------------------------------------
(* The matchers *)

supports(a) == a \in {"claude", "codex", "omp", "opencode", "qoder", "hermes"}

is_chrome(l) == l.k \in {"rule", "top", "close", "footer", "spinner"}
is_prompt_skip(l) == l.k \in {"proceed", "kind", "footer"}
is_turn_duration(l) == l.k = "turn"
response_start(l) == l.k = "response"
command_match(l) == l.k = "command"
menu_match(l) == l.k = "menu"
normal_prompt_match(l) == l.k = "prompt"
hermes_placeholder_match(l) == l.k = "placeholder"
status_footer_match(l) == l.k = "status"
approval_footer_match(l) == l.k = "footer"
approval_continuation(l) == l.k \in {"cont", "footer"}
context_usage_status_match(l) == l.k = "usage"
terminal_rule_match(l) == l.k = "rule"
opencode_input_prompt_match(l) == l.k = "anything"
omp_input_header_match(l) == l.k = "top"
omp_input_footer_match(l) == l.k = "close"
omp_tool_approval_match(l) == l.k = "allow"
omp_plan_menu_match(l) == l.k = "plan"
omp_border_line(l) == l.k \in {"blank", "rule", "top", "close"}
omp_plan_focus_match(l) == l.k = "choice" /\ l.focus
hermes_approval_chrome_line(l) == l.k \in {"warn", "hspinner", "hstatus", "footer"}
hermes_approval_auxiliary(l) == l.w = "full"
qoder_approval_tail_line(l) == l.k = "qtail"

(* The first option grants, the last one refuses. *)
approval_labels(first, last) == first.w = "yes" /\ last.w = "no"

approval_header(a, lines) ==
  LET Has(k) == \E i \in DOMAIN lines : lines[i].k = k IN
  CASE a = "hermes" -> Has("dangerous")
    [] a \in {"codex", "claude"} -> Has("proceed")
    [] a = "qoder" -> Has("permission") /\ Has("tool")
    [] OTHER -> FALSE

latest_completed_turn_line(lines) == last_line_matching(lines, is_turn_duration)

-----------------------------------------------------------------------------
(* The approval dialog *)

(* The rows of a numbered run that starts at s: 1, 2, 3, with nothing else   *)
(* in between but what may continue an option.                               *)
MenuRun(lines, s) ==
  LET menu == {i \in s..Len(lines) : menu_match(lines[i])}
      broken == {i \in s..Len(lines) : ~menu_match(lines[i]) /\ lines[i].k # "blank" /\ ~approval_continuation(lines[i])}
  IN {j \in menu : /\ \A b \in broken : b > j
                   /\ \A m \in {i \in menu : i <= j} : lines[m].n = Cardinality({i \in menu : i <= m})}

(* The last such run of two rows or more that has a focus. *)
latest_approval_menu(lines) ==
  LET runs == {MenuRun(lines, s) : s \in {i \in DOMAIN lines : menu_match(lines[i]) /\ lines[i].n = 1}}
      good == {r \in runs : Cardinality(r) >= 2 /\ \E i \in r : lines[i].focus}
  IN IF good = {} THEN {} ELSE CHOOSE r \in good : \A q \in good : Min(q) <= Min(r)

hermes_approval_rows(lines, rows) ==
  LET kept == {i \in rows : \E j \in rows : j >= i /\ ~hermes_approval_auxiliary(lines[j])} IN
  IF Cardinality(kept) >= 2 /\ approval_labels(lines[Min(kept)], lines[Max(kept)]) THEN kept ELSE {}

(* Within a few lines of the menu, the box that hermes draws closes. *)
hermes_approval_tail_end(lines, last) ==
  LET s == {i \in last + 1..Min({last + TailLines, Len(lines)}) : lines[i].k = "close"} IN
  IF s = {} THEN last ELSE Min(s)

(* Mutation: whatever follows the menu, the dialog is taken for current. *)
newer_output_ignored(lines, last, a) == FALSE
newer_output_after_menu(lines, last, a) ==
  LET tail == IF a = "hermes" THEN hermes_approval_tail_end(lines, last) ELSE last IN
  \E i \in tail + 1..Len(lines) :
    /\ lines[i].k # "blank" /\ ~is_chrome(lines[i]) /\ ~approval_footer_match(lines[i])
    /\ a = "hermes" => ~hermes_approval_chrome_line(lines[i])
    /\ a = "qoder" => ~qoder_approval_tail_line(lines[i])

HeaderStart(lines, first) == Max({latest_completed_turn_line(lines) + 1, first - HeaderWindow, 1})

NoDialog == [options |-> <<>>, focus |-> 0, command |-> Blank]
RowSeq(rows) == SetToSortSeq(rows, <)

(* An option of codex goes on over the indented lines that follow it, the    *)
(* last one's excepted.                                                      *)
Option(lines, rows, j, a) ==
  LET after == rows[j] + 1
      till == IF j = Len(rows) THEN after ELSE rows[j + 1]
      stops == {i \in after..till - 1 : lines[i].k # "cont"}
      end == IF stops = {} THEN till ELSE Min(stops)
  IN <<lines[rows[j]].w>> \o (IF a = "codex" THEN [i \in 1..end - after |-> lines[after + i - 1].w] ELSE <<>>)

FocusOf(lines, rows, a) ==
  LET s == {j \in DOMAIN rows : lines[rows[j]].focus} IN
  IF s = {} THEN 1 ELSE IF a = "hermes" THEN Min(s) ELSE Max(s)

(* The numbered dialogs of claude, codex, qoder and hermes. *)
MenuDialog(lines, a, run, rows) ==
  IF \/ rows = {}
     \/ a # "hermes" /\ ~approval_labels(lines[Min(rows)], lines[Max(rows)])
     \/ Min(rows) <= latest_completed_turn_line(lines)
     \/ ~approval_header(a, SubSeq(lines, HeaderStart(lines, Min(rows)), Min(rows) - 1))
     \/ newer_output_after_menu(lines, Max(run), a)
  THEN NoDialog
  ELSE LET seq == RowSeq(rows)
       IN [options |-> [j \in DOMAIN seq |-> Option(lines, seq, j, a)],
           focus |-> FocusOf(lines, RowSeq(IF a = "hermes" THEN run ELSE rows), a),
           command |-> Blank]

MenuRows(lines, a, run) == IF a = "hermes" /\ run # {} THEN hermes_approval_rows(lines, run) ELSE run

menu_approval_details(lines, a) ==
  LET Of(run) == MenuDialog(lines, a, run, MenuRows(lines, a, run)) IN Of(latest_approval_menu(lines))

omp_dialog_content_row(l) == ~omp_border_line(l) /\ ~approval_footer_match(l)

(* The rows around i that hold content, not before lo. *)
Block(rows, i, lo) == {j \in lo..Len(rows) : \A m \in Min({i, j})..Max({i, j}) : omp_dialog_content_row(rows[m])}

(* A dialog that names no command: its details, as one line. *)
Joined(lines) == Line("text", IF lines = <<>> THEN 0 ELSE Head(lines).w)

(* The dialog between header and close, its command, its block of options. *)
OmpDialog(rows, cmd, block, opts) ==
  IF \/ Min(block) > 1 /\ ~omp_border_line(rows[Min(block) - 1])
     \/ Cardinality(block) < 2
     \/ ~approval_labels(rows[Min(block)], rows[Max(block)])
  THEN NoDialog
  ELSE [options |-> [j \in DOMAIN opts |-> <<rows[opts[j]].w>>],
        focus |-> Max({j \in DOMAIN opts : rows[opts[j]].focus}),
        command |-> IF cmd # 0 THEN rows[cmd] ELSE Joined(SelectSeq(Before(rows, Min(block)), omp_dialog_content_row))]

CommandEnd(rows, cmd) ==
  LET ended == {j \in cmd + 1..Len(rows) : ~omp_dialog_content_row(rows[j]) \/ omp_plan_focus_match(rows[j])} IN
  IF cmd = 0 THEN 0 ELSE IF ended = {} THEN Len(rows) ELSE Min(ended) - 1

OmpRows(rows, cmd) ==
  LET markers == {j \in DOMAIN rows : omp_plan_focus_match(rows[j])}
      Of(block) == OmpDialog(rows, cmd, block, RowSeq(block))
  IN IF markers = {} THEN NoDialog ELSE Of(Block(rows, Max(markers), CommandEnd(rows, cmd) + 1))

OmpClosed(lines, header, ends) ==
  LET end == Min(ends)
      Of(rows) == OmpRows(rows, first_line_matching(rows, command_match))
  IN IF \/ header = 0 \/ ends = {}
        \/ latest_completed_turn_line(lines) > end
        \/ Cardinality({i \in end + 1..Len(lines) : lines[i].k # "blank"}) > MAX_TRAILING_STATUS_LINES
     THEN NoDialog ELSE Of(SubSeq(lines, header + 1, end - 1))

omp_tool_approval_details(lines) ==
  LET Of(header) == OmpClosed(lines, header, {i \in header + 1..Len(lines) : lines[i].k = "close"})
  IN Of(last_line_matching(lines, omp_tool_approval_match))

omp_plan_approval_details(lines) ==
  LET header == last_line_matching(lines, omp_plan_menu_match)
      ends == {i \in header + 1..Len(lines) : omp_border_line(lines[i])}
      end == IF header = 0 \/ ends = {} THEN 0 ELSE Min(ends)
      opts == RowSeq({i \in header + 1..end - 1 : lines[i].k # "continue"})
      focused == {j \in DOMAIN opts : omp_plan_focus_match(lines[opts[j]])}
  IN IF \/ end = 0 \/ Len(opts) < 2
        \/ \E i \in end..Len(lines) : ~omp_border_line(lines[i]) /\ lines[i].k \notin {"footer", "usage"}
     THEN NoDialog
     ELSE [options |-> [j \in DOMAIN opts |-> <<lines[opts[j]].w>>],
           focus |-> IF focused = {} THEN 1 ELSE Max(focused),
           command |-> Blank]

OrElse(details, others) == IF details.options # <<>> THEN details ELSE others

live_approval_details(lines, a) ==
  IF a = "opencode" THEN NoDialog
  ELSE IF a # "omp" THEN menu_approval_details(lines, a)
  ELSE OrElse(omp_tool_approval_details(lines), omp_plan_approval_details(lines))

(* What the fingerprint is taken of: the dialog, without the focus marker. *)
stable_approval_source(lines) == [i \in DOMAIN lines |-> [lines[i] EXCEPT !.focus = FALSE]]

approval_dialog_source(lines, a) ==
  LET run == latest_approval_menu(lines)
      rows == IF a = "hermes" THEN hermes_approval_rows(lines, run) ELSE run
      tool == last_line_matching(lines, omp_tool_approval_match)
      closes == {i \in tool + 1..Len(lines) : lines[i].k = "close"}
      plan == last_line_matching(lines, omp_plan_menu_match)
      borders == {i \in plan + 1..Len(lines) : omp_border_line(lines[i])}
  IN CASE a = "opencode" -> <<>>
       [] a = "omp" /\ tool # 0 /\ closes # {} -> SubSeq(lines, tool, Min(closes))
       [] a = "omp" -> IF plan = 0 \/ borders = {} THEN <<>> ELSE SubSeq(lines, plan, Min(borders) - 1)
       [] rows = {} -> <<>>
       [] OTHER -> SubSeq(lines, HeaderStart(lines, Min(rows)), Max(rows))

-----------------------------------------------------------------------------
(* The summary, the command, the response *)

LastLines(lines, n) == SubSeq(lines, Max({1, Len(lines) - n + 1}), Len(lines))

pane_summary_lines(lines) ==
  LET Keeps(l) == l.k # "blank" /\ ~is_chrome(l) /\ ~is_prompt_skip(l) IN
  LastLines(SelectSeq(lines, Keeps), SummaryLines)

approval_summary_lines(lines, a) ==
  IF a # "hermes" THEN pane_summary_lines(lines)
    ELSE LET Keeps(l) == /\ l.k # "blank" /\ ~is_chrome(l) /\ ~is_prompt_skip(l) /\ ~hermes_approval_chrome_line(l)
                         /\ menu_match(l) => ~hermes_approval_auxiliary(l)
         IN LastLines(stable_approval_source(SelectSeq(lines, Keeps)), SummaryLines)

approval_command(summary) ==
  LET own == {i \in DOMAIN summary : command_match(summary[i])}
      rest == {i \in DOMAIN summary : ~menu_match(summary[i]) /\ ~is_chrome(summary[i]) /\ ~is_prompt_skip(summary[i])}
  IN IF own # {} THEN summary[Max(own)] ELSE IF rest # {} THEN summary[Max(rest)] ELSE Blank

latest_completed_response(lines) ==
  LET end == latest_completed_turn_line(lines)
      start == last_line_matching(Before(lines, end), response_start)
      turn == last_line_matching(Before(lines, end), is_turn_duration)
  IN IF end = 0 \/ start = 0 \/ turn > start THEN <<>> ELSE SubSeq(lines, start, end - 1)

-----------------------------------------------------------------------------
(* The prompt that waits for input *)

rule_framed_status_prompt(lines) ==
  LET full == {i \in DOMAIN lines : lines[i].k # "blank"}
      last == IF full = {} THEN 0 ELSE Max(full)
  IN /\ last >= 2 /\ context_usage_status_match(lines[last])
     /\ Cardinality({i \in Max({1, last - 6})..last - 1 : terminal_rule_match(lines[i])}) >= 2

opencode_input_prompt(lines) == \E i \in Max({1, Len(lines) - 11})..Len(lines) : opencode_input_prompt_match(lines[i])

(* The last line before i that is not blank. *)
Above(lines, i) == LET s == {j \in 1..i - 1 : lines[j].k # "blank"} IN IF s = {} THEN 0 ELSE Max(s)
kimi_input_frame_prompt(lines) ==
  \E f \in Max({3, Len(lines) - 11})..Len(lines) :
    /\ omp_input_footer_match(lines[f])
    /\ LET p == Above(lines, f) IN
       /\ p >= 2 /\ normal_prompt_match(lines[p])
       /\ LET h == Above(lines, p) IN h >= 1 /\ omp_input_header_match(lines[h])

normal_input_prompt(lines, a) ==
  \/ a = "omp" /\ rule_framed_status_prompt(lines)
  \/ a = "opencode" /\ opencode_input_prompt(lines)
  \/ a = "kimi" /\ kimi_input_frame_prompt(lines)
  \/ /\ supports(a) \/ a = "kimi"
     /\ \E i \in Max({1, Len(lines) - 9})..Len(lines) :
          /\ normal_prompt_match(lines[i]) \/ (a = "hermes" /\ hermes_placeholder_match(lines[i]))
          /\ \A j \in i + 1..Len(lines) : lines[j].k = "blank" \/ is_chrome(lines[j]) \/ status_footer_match(lines[j])

-----------------------------------------------------------------------------
Unknown == [kind |-> "unknown", options |-> <<>>, focus |-> 0, command |-> Blank, prompt |-> <<>>, source |-> <<>>]

(* A form is one line here; AnswerForm is about how it is read. *)
IsForm(l) == l.k = "question"
parse_question(lines) ==
  LET q == last_line_matching(lines, IsForm) IN
  q # 0 /\ \A i \in q + 1..Len(lines) : lines[i].k \in {"blank", "rule"}

Approval(details, summary, source) ==
  [kind |-> "approval", options |-> details.options, focus |-> details.focus,
   command |-> IF details.command = Blank THEN approval_command(summary) ELSE details.command,
   prompt |-> summary, source |-> source]

Chat(response, summary) == [Unknown EXCEPT !.kind = "chat", !.prompt = IF response = <<>> THEN summary ELSE response]

Classified(lines, a, details) ==
  CASE supports(a) /\ parse_question(lines) -> [Unknown EXCEPT !.kind = "question"]
    [] supports(a) /\ details.options # <<>> ->
         Approval(details, approval_summary_lines(lines, a), approval_dialog_source(lines, a))
    [] normal_input_prompt(lines, a) -> Chat(latest_completed_response(lines), pane_summary_lines(lines))
    [] OTHER -> [Unknown EXCEPT !.prompt = pane_summary_lines(lines)]

classify(lines, a) == Classified(lines, a, live_approval_details(lines, a))

approval_fingerprint(c) ==
  IF c.kind # "approval" \/ Len(c.options) < 2 THEN <<>>
    ELSE <<stable_approval_source(c.source), c.prompt, c.command, c.options>>

(* A question for a password is the last line that is not blank; a line that *)
(* only speaks of passwords is rejected.                                     *)
rejected(l) == l.k = "policy"
prompt_match(l) == l.k \in {"secret", "policy"}
last_non_empty_line(lines) == LET i == Above(lines, Len(lines) + 1) IN IF i = 0 THEN Blank ELSE lines[i]
match_prompt(lines) == LET l == last_non_empty_line(lines) IN prompt_match(l) /\ ~rejected(l)

-----------------------------------------------------------------------------
(* The agent *)

Rows(k, ws, focus) == [j \in DOMAIN ws |-> [k |-> k, n |-> j, focus |-> j = focus, w |-> ws[j]]]

Labels(a) ==
  CASE a = "qoder" -> <<"yes", "no">>
    [] a = "hermes" -> <<"yes", "session", "no", "full">>
    [] OTHER -> <<"yes", "always", "no">>

(* The dialog about a command c; a long command goes on for more lines than  *)
(* the window above a menu.                                                  *)
Dialog(a, d) ==
  LET long == Texts(IF d.long THEN HeaderWindow + 1 ELSE 0)
      menu == Rows("menu", Labels(a), d.focus)
      cmd == Line("text", d.c)
  IN CASE a = "claude" -> <<Mark("rule"), Mark("kind"), cmd>> \o long \o <<Mark("proceed")>> \o menu \o <<Mark("footer")>>
       [] a = "codex" -> <<Mark("proceed"), Blank, Line("command", d.c)>> \o long \o <<Blank, menu[1], menu[2], Line("cont", 1), menu[3], Blank, Mark("footer")>>
       [] a = "qoder" -> <<Mark("permission"), Mark("tool"), cmd>> \o long \o menu \o <<Mark("qtail")>>
       [] a = "hermes" -> <<Mark("top"), Mark("dangerous"), cmd>> \o long \o menu \o <<Mark("text"), Mark("close"), Mark("warn"), Mark("hstatus")>>
       [] d.plan -> <<Mark("plan")>> \o Rows("choice", <<"approve", "refine">>, d.focus) \o <<Mark("continue"), Blank, Mark("footer")>>
       [] OTHER -> <<Mark("allow"), IF d.c = 1 THEN Line("command", d.c) ELSE cmd>> \o long \o <<Blank>>
                     \o Rows("choice", Labels(a), d.focus) \o <<Mark("footer"), Mark("close")>>

Offered(a, d) == IF d.plan THEN <<"approve", "refine">> ELSE IF a = "hermes" THEN Front(Labels(a)) ELSE Labels(a)
Options(a, d) ==
  LET ws == Offered(a, d) IN [j \in DOMAIN ws |-> IF a = "codex" /\ j = 2 THEN <<ws[j], 1>> ELSE <<ws[j]>>]

Frame(a) ==
  CASE a = "codex" -> <<Blank, Mark("prompt"), Blank, Mark("status")>>
    [] a = "hermes" -> <<Mark("rule"), Mark("placeholder"), Mark("rule"), Mark("status")>>
    [] a = "omp" -> <<Mark("rule"), Mark("text"), Mark("rule"), Mark("usage")>>
    [] a = "opencode" -> <<Mark("anything"), Blank, Mark("status")>>
    [] a = "kimi" -> <<Mark("top"), Mark("prompt"), Mark("close"), Mark("status")>>
    [] OTHER -> <<Mark("rule"), Mark("prompt"), Mark("rule"), Mark("status")>>

Read(s) == LastLines(s, PANE_READ_LINES)

NoDialogLive == [c |-> 0, long |-> FALSE, plan |-> FALSE, focus |-> 1]
Live(k, d, at) == [k |-> k, d |-> d, at |-> at, quiet |-> FALSE, n |-> live.n + 1]

Draws(lines, k, d) ==
  /\ live.k = "none" /\ live.n < MaxDraws
  /\ screen' = screen \o lines
  /\ live' = Live(k, d, Len(screen))
  /\ UNCHANGED agent

Prints ==
  /\ \/ \E n \in {1, MAX_TRAILING_STATUS_LINES + 1, SummaryLines} : Draws(Texts(n), "none", NoDialogLive)
     \/ Draws(Rows("menu", <<"yes", "no">>, 0), "none", NoDialogLive)
     \/ Draws(<<Mark("policy")>>, "none", NoDialogLive)
     \/ Draws(<<Mark("response"), Mark("text"), Mark("turn")>>, "none", NoDialogLive)
  /\ UNCHANGED asked

Waits ==
  /\ agent # "shell"
  /\ Draws(Frame(agent), "chat", NoDialogLive)
  /\ UNCHANGED asked

AsksSecret == Draws(<<Mark("secret")>>, "secret", NoDialogLive) /\ UNCHANGED asked

AsksQuestion ==
  /\ supports(agent) /\ Draws(<<Mark("question"), Mark("rule")>>, "question", NoDialogLive)
  /\ UNCHANGED asked

(* The relay reads a dialog when it comes up and after each move of the      *)
(* marker.                                                                   *)
Reading(s, d, id) == [fp |-> approval_fingerprint(classify(Read(s), agent)), c |-> d.c, long |-> d.long, id |-> id]

Asks(d) ==
  /\ supports(agent) /\ agent # "opencode"
  /\ d.plan => agent = "omp" /\ d.c = 1 /\ ~d.long
  /\ Draws(Dialog(agent, d), "approval", d)
  /\ asked' = asked \cup {Reading(screen', d, Len(screen))}

Moves(to) ==
  LET d == [live.d EXCEPT !.focus = to] IN
  /\ live.k = "approval" /\ live.n < MaxDraws /\ to # live.d.focus
  /\ to <= Len(IF agent = "hermes" THEN Labels(agent) ELSE Offered(agent, live.d))
  /\ screen' = SubSeq(screen, 1, live.at) \o Dialog(agent, d)
  /\ live' = [live EXCEPT !.d = d, !.n = @ + 1]
  /\ asked' = asked \cup {Reading(screen', d, live.at)}
  /\ UNCHANGED agent

(* It has its answer: what it drew goes, or stays and is only history; a     *)
(* prompt may leave a line that begins like one.  Opencode and kimi draw the *)
(* whole screen anew and leave no prompt.                                    *)
Settles ==
  /\ live.k # "none"
  /\ \E left \in {SubSeq(screen, 1, live.at), screen, SubSeq(screen, 1, live.at) \o <<Mark("prompt")>>} :
       /\ left \in {SubSeq(screen, 1, live.at), screen} \/ live.k = "chat"
       /\ live.k = "chat" /\ agent \in {"opencode", "kimi"} => left = SubSeq(screen, 1, live.at)
       /\ screen' = left
  /\ live' = [live EXCEPT !.k = "none", !.quiet = TRUE]
  /\ UNCHANGED <<agent, asked>>

Init ==
  /\ agent \in Agents
  /\ screen = <<>>
  /\ live = [k |-> "none", d |-> NoDialogLive, at |-> 0, quiet |-> TRUE, n |-> 0]
  /\ asked = {}

Next ==
  \/ Prints \/ Waits \/ AsksSecret \/ AsksQuestion \/ Settles
  \/ \E c \in Commands, long, plan \in BOOLEAN : Asks([c |-> c, long |-> long, plan |-> plan, focus |-> 1])
  \/ \E to \in 1..4 : Moves(to)

Spec == Init /\ [][Next]_screenVars

-----------------------------------------------------------------------------
TypeOK ==
  /\ agent \in Agents /\ live.k \in {"none", "approval", "question", "chat", "secret"}
  /\ live.at <= Len(screen) /\ live.n \in 0..MaxDraws

(* The header of the dialog is above the window of the menu, or off screen.  *)
FarHeader == live.d.long /\ agent \in {"codex", "qoder", "hermes"}

(* What is written below the menu is taken for the command. *)
BelowMenu == agent \in {"qoder", "hermes"}

(* A tool dialog of omp counts as current until enough follows it, or a      *)
(* turn ends.                                                                *)
OmpLeftover ==
  LET lines == Read(screen) IN 
    /\ agent = "omp" /\ (live.k # "approval" \/ live.d.plan)
    /\ omp_tool_approval_details(lines).options # <<>>

(* What the relay made of the screen, c, is what the agent waits for. *)
ReadAs(c) ==
  /\ live.k = "approval" /\ ~FarHeader /\ ~OmpLeftover =>
       /\ c.kind = "approval" /\ c.options = Options(agent, live.d) /\ c.focus = live.d.focus
       /\ ~live.d.long /\ ~live.d.plan /\ ~BelowMenu => c.command.w = live.d.c
  /\ live.k = "approval" /\ FarHeader => c.kind = "unknown"
  /\ live.k = "question" => c.kind = "question"
  /\ live.k = "chat" /\ ~OmpLeftover =>
       /\ c.kind = "chat"
       /\ live.at > 0 /\ screen[live.at].k = "turn" => c.prompt = <<Mark("response"), Mark("text")>>
  /\ live.k \in {"none", "secret"} /\ ~live.quiet /\ ~OmpLeftover => c.kind = "unknown"
  /\ live.k = "secret" \/ ~live.quiet => (match_prompt(Read(screen)) <=> live.k = "secret")

(* What the relay makes of the screen is what the agent waits for, with the  *)
(* options and the focus of the dialog, and not what is left of an earlier   *)
(* one once the agent goes on (classify, live_approval_details,              *)
(* normal_input_prompt, match_prompt), but for a header out of the window    *)
(* and a dialog that omp leaves.                                             *)
ReadsAsIs == ReadAs(classify(Read(screen), agent))

(* Two dialogs with the same fingerprint ask for the same command, unless    *)
(* neither shows all of its command; of hermes, moving the marker does not   *)
(* make another dialog (approval_fingerprint, approval_summary_lines).       *)
FingerprintTells ==
  \A x, y \in asked :
    /\ x.fp = y.fp /\ x.fp # <<>> => x.c = y.c \/ (x.long /\ y.long)
    /\ x.id = y.id /\ x.c = y.c /\ agent = "hermes" /\ ~x.long /\ ~y.long => x.fp = y.fp
=============================================================================
