----------------------------- MODULE AnswerForm -----------------------------
(***************************************************************************)
(* Answering a question from the phone: the form that an agent's terminal    *)
(* shows, the parsers that read it off the screen, the check of the phone's  *)
(* answer, and the planners that turn it into keys.  A screen is a sequence  *)
(* of lines, each already told apart by the matchers; a parser finds the     *)
(* live form among them.  The forms themselves are the agents', modelled     *)
(* from the fixtures of the parsers and from what the planners take them     *)
(* to do.                                                                    *)
(***************************************************************************)
EXTENDS Naturals, Sequences, FiniteSets, SequencesExt, FiniteSetsExt

CONSTANTS
  FormOptions,  \* options of a question, Other not counted
  MaxHand       \* bound on the keys pressed at the desk meanwhile

VARIABLES
  form,   \* the form on the terminal
  frame,  \* what is on the screen above and below it, whose pane it is, hand
  reply   \* what the phone saw, what it answered

formVars == <<form, frame, reply>>

Labels == <<"a", "b", "c", "d">>
Texts == {"t1", "t2"}
NoText == ""

-----------------------------------------------------------------------------
(* The form of an agent *)

Families == {"claude", "codex", "qoder", "opencode", "omp"}

(* at counts rows from the top, as the cursor does. *)
Form(fam, kind, space, hidden, pos) ==
  [fam |-> fam, kind |-> kind, space |-> space, hidden |-> hidden, pos |-> pos,
   sel |-> {}, on |-> FALSE, text |-> NoText, at |-> 0, edit |-> FALSE, done |-> "no", stray |-> FALSE]

Legacy(f) == f.fam = "omp" /\ f.kind = "multi" /\ ~f.space
N(f) == IF f.kind # "review" THEN FormOptions ELSE IF f.fam \in {"claude", "qoder"} THEN 2 ELSE 1
OtherAt(f) == IF f.fam = "qoder" /\ f.kind = "multi" THEN N(f) + 1 ELSE N(f)
SubmitAt(f) == IF f.fam = "claude" THEN N(f) + 1 ELSE N(f)
ChatAt(f) == IF f.kind = "multi" THEN N(f) + 2 ELSE N(f) + 1
LastAt(f) ==
  CASE f.kind = "review" -> N(f) - 1
    [] f.fam = "claude" -> ChatAt(f)
    [] Legacy(f) -> IF f.sel = {} THEN N(f) - 1 ELSE N(f)
    [] OTHER -> OtherAt(f)

Submits(f, sel, on) == [f EXCEPT !.sel = sel, !.on = on, !.done = "answered"]
Toggled(f) == [f EXCEPT !.sel = IF f.at \in @ THEN @ \ {f.at} ELSE @ \cup {f.at}]

(* Enter in the line editor of a form. *)
EnterText(f) ==
  CASE f.fam = "codex" -> Submits(f, {}, TRUE)
    [] f.kind = "single" /\ f.fam = "omp" -> Submits(f, {}, TRUE)
    [] f.kind = "single" /\ f.fam = "qoder" /\ f.text # NoText -> Submits(f, {}, TRUE)
    [] f.kind = "single" /\ f.fam = "qoder" -> [f EXCEPT !.edit = FALSE]
    [] f.fam = "omp" -> [f EXCEPT !.edit = FALSE, !.on = f.text # NoText]
    [] OTHER -> [f EXCEPT !.edit = FALSE, !.on = TRUE]

EnterOther(f) ==
  CASE f.fam = "codex" -> Submits(f, {}, TRUE)
    [] f.fam = "claude" -> IF f.kind = "single" THEN Submits(f, {}, TRUE) ELSE [f EXCEPT !.on = ~@]
    [] f.fam = "opencode" /\ f.kind = "single" /\ f.on -> Submits(f, {}, TRUE)
    [] f.fam \in {"opencode", "qoder"} /\ f.on -> [f EXCEPT !.on = FALSE]
    [] OTHER -> [f EXCEPT !.edit = TRUE]

Enter(f) ==
  CASE f.edit -> EnterText(f)
    [] f.kind = "review" -> Submits(f, {f.at}, FALSE)
    [] f.at < N(f) /\ f.kind = "single" -> Submits(f, {f.at}, FALSE)
    [] f.at < N(f) /\ f.space -> Submits(f, f.sel, f.on)
    [] f.at < N(f) -> Toggled(f)
    [] f.fam = "claude" /\ f.at = ChatAt(f) -> [f EXCEPT !.done = "chat"]
    [] f.kind = "multi" /\ (f.fam \in {"claude", "qoder"} \/ Legacy(f)) /\ f.at = SubmitAt(f) -> Submits(f, f.sel, f.on)
    [] OTHER -> EnterOther(f)

Types(f, t) ==
  IF f.edit \/ (f.fam = "claude" /\ f.kind # "review" /\ f.at = OtherAt(f))
    THEN [f EXCEPT !.text = IF @ = NoText THEN t ELSE "mixed"]
    ELSE [f EXCEPT !.stray = TRUE]

(* The notes of codex belong to a row; leaving the row closes them. *)
Moves(f, to) ==
  CASE f.edit /\ f.fam # "codex" -> f
    [] OTHER -> [f EXCEPT !.at = to, !.edit = FALSE, !.text = IF f.edit /\ to # f.at THEN NoText ELSE @]

Key(f, k) ==
  CASE f.done # "no" -> [f EXCEPT !.stray = TRUE]
    [] k = "Enter" -> Enter(f)
    [] k = "Down" -> Moves(f, IF f.at < LastAt(f) THEN f.at + 1 ELSE f.at)
    [] k = "Up" -> Moves(f, IF f.at > 0 THEN f.at - 1 ELSE 0)
    [] k = "Ctrl+U" -> IF f.edit \/ (f.fam = "claude" /\ f.at = OtherAt(f)) THEN [f EXCEPT !.text = NoText] ELSE f
    [] k = "Escape" -> [f EXCEPT !.edit = FALSE, !.text = NoText]
    [] k = "Space" -> IF f.at < N(f) THEN Toggled(f) ELSE f
    [] k = "Tab" /\ f.fam = "codex" -> [f EXCEPT !.edit = TRUE]
    [] k = "Tab" /\ f.kind = "multi" -> Submits(f, f.sel, f.on)
    [] k = "Right" /\ Legacy(f) -> Submits(f, f.sel, f.on)
    [] k \in {"Left", "Right", "Tab", "Shift+Tab"} -> [f EXCEPT !.done = k]
    [] OTHER -> Types(f, k)

-----------------------------------------------------------------------------
(* The screen *)

Row(k, n, focus, mark, label) == [k |-> k, n |-> n, focus |-> focus, mark |-> mark, label |-> label, pos |-> <<0, 0>>]
Plain(k, label) == Row(k, 0, FALSE, FALSE, label)
Placed(k, label, pos) == [Plain(k, label) EXCEPT !.pos = pos]
Options(f, k) == [i \in 1..N(f) |-> Row(k, IF k = "omp" THEN 0 ELSE i, f.at = i - 1, i - 1 \in f.sel, Labels[i])]
OtherRow(f, k, n) == Row(k, n, f.at = OtherAt(f), f.on, "Other")
If(c, s) == IF c THEN s ELSE <<>>
Tabs(f) == If(f.pos[2] > 1, <<Placed("tabs", f.fam, f.pos)>>)
Footer(f, mark) == Row("footer", 0, FALSE, mark, f.fam)
Typed(f) == If(f.text # NoText, <<Plain("text", f.text)>>)
Question == Plain("text", "question")
Reviews(f, k) == <<Row(k, 1, f.at = 0, FALSE, "Submit answers"), Row(k, 2, f.at = 1, FALSE, "Cancel")>>

ClaudeLines(f) ==
  Tabs(f) \o
  CASE f.kind = "review" -> <<Plain("reviewhead", "claude"), Question>> \o Reviews(f, "review")
    [] f.kind = "single" ->
        <<Question>> \o Options(f, "menu") \o <<[OtherRow(f, "menu", N(f) + 1) EXCEPT !.label = IF f.text = NoText THEN @ ELSE f.text]>>
        \o <<Row("chat", N(f) + 2, f.at = ChatAt(f), FALSE, "chat"), Plain("hint", "")>>
    [] OTHER ->
        <<Question>> \o Options(f, "checkbox") \o <<[OtherRow(f, "checkbox", N(f) + 1) EXCEPT !.label = IF f.text = NoText THEN @ ELSE f.text]>>
        \o <<Row("submit", 0, f.at = SubmitAt(f), FALSE, "submit"), Row("chat", N(f) + 2, f.at = ChatAt(f), FALSE, "chat"), Plain("hint", "")>>

(* An answered question of codex is shown without its colour. *)
CodexLines(f) ==
  <<Placed("header", "codex", f.pos), [Question EXCEPT !.mark = f.sel # {} \/ f.on]>>
  \o [i \in 1..N(f) |-> Row("menu", i, f.at = i - 1, FALSE, Labels[i])] \o <<Row("menu", N(f) + 1, f.at = N(f), FALSE, "Other")>>
  \o If(f.edit, Typed(f)) \o <<Footer(f, f.edit)>>

QoderLines(f) ==
  <<Placed("header", "qoder", IF f.kind = "review" THEN <<0, f.pos[2]>> ELSE f.pos)>> \o
  (CASE f.kind = "review" -> <<Plain("reviewhead", "qoder"), Question>> \o Reviews(f, "qreview")
     [] f.kind = "single" -> <<Question>> \o Options(f, "menu") \o <<[OtherRow(f, "menu", N(f) + 1) EXCEPT !.mark = FALSE]>>
     [] OTHER -> <<Question>> \o Options(f, "checkbox") \o <<Row("menu", N(f) + 1, f.at = SubmitAt(f), FALSE, "Next")>>
                 \o <<[OtherRow(f, "menu", N(f) + 2) EXCEPT !.mark = FALSE]>>)
  \o If(f.edit, Typed(f)) \o <<Footer(f, f.edit)>>

OpencodeLines(f) ==
  Tabs(f) \o
  (IF f.kind = "review" THEN <<Plain("reviewhead", "opencode"), Plain("summary", "")>>
   ELSE LET k == IF f.kind = "multi" THEN "checkbox" ELSE "menu" IN
        <<Question>> \o Options(f, k) \o <<OtherRow(f, k, N(f) + 1)>> \o Typed(f))
  \o <<Footer(f, FALSE)>>

OmpLines(f) ==
  <<Plain("header", "omp")>> \o Tabs(f) \o
  (IF f.kind = "review" THEN <<Plain("reviewhead", "omp"), Plain("summary", ""), Plain("rsubmit", "")>>
   ELSE LET Marked(s) == [i \in DOMAIN s |-> [s[i] EXCEPT !.n = IF f.kind = "multi" THEN 1 ELSE 0]] IN
        <<Question>> \o Marked(Options(f, "omp") \o If(Legacy(f) /\ f.sel # {}, <<Row("omp", 0, f.at = N(f), FALSE, "Done")>>)
                               \o If(~f.hidden, <<OtherRow(f, "omp", 0)>>))
        \o If(~f.hidden, Typed(f)))
  \o <<Footer(f, f.space)>>

FormLines(f) ==
  CASE f.fam = "claude" -> ClaudeLines(f)
    [] f.fam = "codex" -> CodexLines(f)
    [] f.fam = "qoder" -> QoderLines(f)
    [] f.fam = "opencode" -> OpencodeLines(f)
    [] OTHER -> OmpLines(f)

(* Above a form may stand a list that the agent wrote or the form before it, *)
(* below it what came later.                                                 *)
Aboves == {"nothing", "list", "tasks", "form"}
Before(f) == [Form(f.fam, IF f.kind = "review" THEN "single" ELSE f.kind, f.space, f.hidden, <<1, f.pos[2]>>) EXCEPT !.at = 1, !.sel = IF f.kind = "multi" THEN {1} ELSE {}]
Above(f, a) ==
  CASE a = "nothing" -> <<>>
    [] a = "list" -> [i \in 1..3 |-> Row("menu", i, FALSE, FALSE, "item")]
    [] a = "tasks" -> [i \in 1..2 |-> Row("checkbox", i, FALSE, FALSE, "item")]
    [] a = "form" -> FormLines(Before(f)) \o <<Plain("text", "output")>>
Screen ==
  Above(form, frame.above) \o If(form.done = "no", FormLines(form))
  \o <<Plain("blank", "")>> \o If(frame.below, <<Plain("text", "output")>>)

-----------------------------------------------------------------------------
(* The matchers, on lines that are told apart *)

menu_match(l) == l.k \in {"menu", "checkbox", "chat", "review"} /\ l.n > 0
checkbox_match(l) == l.k = "checkbox"
submit_match(l) == l.k = "submit"
chat_match(l) == l.k = "chat"
is_other_label(label) == label = "Other"
claude_review_match(l) == l.k = "review"
qoder_review_match(l) == l.k = "qreview"
codex_header_match(l) == l.k = "header" /\ l.label = "codex"
codex_footer(l) == l.k = "footer" /\ l.label = "codex"
qoder_header(l) == l.k = "header" /\ l.label = "qoder"
qoder_footer(l) == l.k = "footer" /\ l.label = "qoder"
opencode_footer(l) == l.k = "footer" /\ l.label = "opencode"
omp_ask_header(l) == l.k = "header" /\ l.label = "omp"
omp_footer_match(l) == l.k = "footer" /\ l.label = "omp"
omp_option_match(l) == l.k = "omp"
omp_border_line(l) == l.k = "blank"

(* The lines that match, by their place; 0 is none. *)
Where(lines, Match(_)) == {i \in DOMAIN lines : Match(lines[i])}
LastOf(s) == Max(s \cup {0})
FirstOf(s) == IF s = {} THEN 0 ELSE Min(s)
From(lines, i) == SubSeq(lines, i + 1, Len(lines))
AllBlank(lines) == \A i \in DOMAIN lines : lines[i].k = "blank"

opencode_layout_hint(lines) ==
  LET footer == LastOf(Where(lines, opencode_footer)) IN
  footer > 0 /\ AllBlank(From(lines, footer))

omp_layout_hint(lines) ==
  LET start == LastOf(Where(lines, omp_ask_header))
      after == From(lines, start)
      footer == LastOf(Where(after, omp_footer_match))
  IN /\ start > 0 /\ footer > 0
     /\ \/ Cardinality(Where(after, omp_option_match)) >= 2
        \/ \E i, j \in DOMAIN after : i < j /\ after[i].k = "reviewhead" /\ after[j].k = "rsubmit"
     /\ AllBlank(From(after, footer))

no_newer_output(lines, control) == AllBlank(From(lines, control))

layout_hint(lines) ==
  LET Has(Match(_)) == Where(lines, Match) # {}
      Heading(l) == l.k = "reviewhead" /\ l.label \in {"claude", "qoder"}
      ReviewRow(i) == (claude_review_match(lines[i]) \/ qoder_review_match(lines[i])) /\ \E j \in 1..i : Heading(lines[j])
      control == LastOf({i \in DOMAIN lines : LET l == lines[i] IN
                           \/ submit_match(l) \/ chat_match(l) \/ codex_footer(l) \/ qoder_footer(l)
                           \/ l.k = "hint" \/ Heading(l) \/ ReviewRow(i)})
  IN \/ opencode_layout_hint(lines) \/ omp_layout_hint(lines)
     \/ /\ \/ Has(checkbox_match) /\ Has(submit_match)
           \/ Has(chat_match) \/ Has(Heading)
           \/ Has(codex_header_match) /\ Has(codex_footer)
           \/ Has(qoder_header) /\ Has(qoder_footer)
        /\ control > 0 /\ no_newer_output(lines, control)

-----------------------------------------------------------------------------
(* The parsers *)

Focus(kind, index) == [kind |-> kind, index |-> index]
FocusOf(rows) == LET i == LastOf({j \in DOMAIN rows : rows[j].focus}) IN Focus("option", IF i = 0 THEN 0 ELSE i - 1)
SelectedOf(rows) == {i - 1 : i \in {j \in DOMAIN rows : rows[j].mark}}
LabelsOf(rows) == [i \in DOMAIN rows |-> rows[i].label]

Interaction(agent, kind, options, other, focus, pos) ==
  [agent |-> agent, kind |-> kind, options |-> LabelsOf(options), selected |-> SelectedOf(options),
   other |-> other, focus |-> focus, all |-> Len(options) + (IF other.hidden THEN 0 ELSE 1),
   notes |-> FALSE, space |-> FALSE, chat |-> FALSE, pos |-> pos]
Other(on, text) == [on |-> on, text |-> text, hidden |-> FALSE, allow_empty |-> FALSE]
HiddenOther == [Other(FALSE, NoText) EXCEPT !.hidden = TRUE]
NoInteraction == Interaction("none", "none", <<>>, HiddenOther, Focus("option", 0), <<0, 0>>)

(* interactionID: neither the selection nor the focus is part of it. *)
interaction_id(i) == <<i.kind, i.options, i.pos>>

(* Rows numbered in order: a list that starts anew replaces what was found. *)
Restarting(rows, l) ==
  CASE ~menu_match(l) -> rows
    [] l.n = 1 -> <<l>>
    [] l.n = Len(rows) + 1 -> Append(rows, l)
    [] OTHER -> rows
InOrder(rows, l) == IF menu_match(l) /\ l.n = Len(rows) + 1 THEN Append(rows, l) ELSE rows
Numbered(Step(_, _), lines) == FoldLeft(Step, <<>>, lines)

claude_position(lines) ==
  LET i == FirstOf({j \in DOMAIN lines : lines[j].k = "tabs"}) IN IF i = 0 THEN <<0, 0>> ELSE lines[i].pos

parse_claude_review(lines) ==
  LET head == LastOf({i \in DOMAIN lines : lines[i].k = "reviewhead" /\ lines[i].label = "claude"})
      rows == SelectSeq(From(lines, head), claude_review_match)
  IN IF head = 0 \/ Len(rows) # 2 THEN NoInteraction
     ELSE Interaction("claude", "single_select", rows, HiddenOther, FocusOf(rows), claude_position(lines))

ClaudeText(row) == IF is_other_label(row.label) THEN NoText ELSE row.label

parse_claude(lines) ==
  LET boxes == SelectSeq(lines, checkbox_match)
      submit == LastOf(Where(lines, submit_match))
      chat == LastOf(Where(lines, chat_match))
      focus(rows) ==
        CASE chat > 0 /\ lines[chat].focus -> Focus("chat", 0)
          [] submit > 0 /\ lines[submit].focus -> Focus("submit", 0)
          [] OTHER -> FocusOf(rows)
      menu == Numbered(Restarting, SubSeq(lines, 1, chat - 1))
      Made(kind, rows) ==
        [Interaction("claude", kind, Front(rows), Other(Last(rows).mark, ClaudeText(Last(rows))), focus(rows), claude_position(lines))
         EXCEPT !.chat = chat > 0]
      single == Made("single_select", menu)
      \* a text that is the answer carries no mark of its own
      answered == single.other.text # NoText /\ single.selected = {}
  IN CASE Len(boxes) >= 2 /\ submit > 0 -> Made("multi_select", boxes)
       [] chat = 0 -> parse_claude_review(lines)
       [] Len(menu) < 3 -> NoInteraction
       [] OTHER -> [single EXCEPT !.other.on = @ \/ answered]

parse_codex(lines) ==
  LET head == LastOf(Where(lines, codex_header_match))
      foot == FirstOf({i \in Where(lines, codex_footer) : i > head})
      body == SubSeq(lines, head + 1, foot - 1)
      rows == Numbered(InOrder, body)
      notes == lines[foot].mark
      options == Front(rows)
      last == FirstOf({i \in DOMAIN body : body[i].k = "menu" /\ is_other_label(body[i].label)})
      text == IF notes /\ last < Len(body) THEN body[last + 1].label ELSE NoText
      focus == IF notes THEN Focus("option", Len(options)) ELSE FocusOf(rows)
      answered == body[1].mark
  IN IF head = 0 \/ foot = 0 THEN NoInteraction
     ELSE IF Len(rows) < 3 \/ ~is_other_label(Last(rows).label) THEN NoInteraction
     ELSE [Interaction("codex", "single_select", options,
                       [Other(notes \/ (answered /\ focus.index = Len(options)), text) EXCEPT !.allow_empty = TRUE],
                       focus, lines[head].pos)
           EXCEPT !.notes = notes, !.selected = IF answered THEN {focus.index} \ {Len(options)} ELSE {}]

parse_qoder_review(body, total) ==
  LET rows == SelectSeq(body, qoder_review_match) IN
  IF Len(rows) # 2 \/ ~\E i \in DOMAIN body : body[i].k = "reviewhead" THEN NoInteraction
    ELSE Interaction("qoder", "single_select", rows, HiddenOther, FocusOf(rows), <<total + 1, total + 1>>)

parse_qoder(lines) ==
  LET head == LastOf(Where(lines, qoder_header))
      foot == LastOf(Where(lines, qoder_footer))
      body == SubSeq(lines, head + 1, foot - 1)
      rows == Numbered(InOrder, body)
      boxes == SelectSeq(rows, checkbox_match)
      Menu(l) == ~checkbox_match(l)
      menus == SelectSeq(rows, Menu)
      multi == Len(boxes) >= 2
      others == {i \in DOMAIN menus : is_other_label(menus[i].label)}
      submits == {i \in DOMAIN menus : menus[i].label = "Next"}
      other == menus[LastOf(others)]
      options == IF multi THEN boxes ELSE Front(menus)
      notes == other.focus /\ lines[foot].mark
      below == {i \in DOMAIN body : body[i].k = "text" /\ \E j \in 1..i : body[j] = other}
      text == IF notes /\ below # {} THEN body[Max(below)].label ELSE NoText
      focus == CASE other.focus -> Focus("other", 0)
                 [] multi /\ menus[LastOf(submits)].focus -> Focus("submit", 0)
                 [] OTHER -> FocusOf(options)
  IN IF head = 0 \/ foot <= head THEN NoInteraction
     ELSE IF lines[head].pos[1] = 0 THEN parse_qoder_review(body, lines[head].pos[2])
     ELSE IF others = {} \/ (multi /\ submits = {}) \/ (~multi /\ Len(menus) < 2) THEN NoInteraction
     ELSE [Interaction("qoder", IF multi THEN "multi_select" ELSE "single_select", options, Other(notes, text), focus, lines[head].pos)
           EXCEPT !.notes = notes]

(* The rows of opencode: the last run of numbered lines before the footer. *)
OpencodeRun(runs, l) ==
  LET Kept == IF runs.cur = <<>> THEN runs.last ELSE runs.cur IN
  CASE ~menu_match(l) -> runs
    [] l.n = 1 -> [last |-> Kept, cur |-> <<l>>]
    [] l.n = Len(runs.cur) + 1 -> [runs EXCEPT !.cur = Append(@, l)]
    [] OTHER -> [last |-> Kept, cur |-> <<>>]

opencode_position(lines) ==
  LET i == LastOf({j \in DOMAIN lines : lines[j].k = "tabs"}) IN IF i = 0 THEN <<1, 1>> ELSE lines[i].pos

parse_opencode(lines) ==
  LET foot == LastOf(Where(lines, opencode_footer))
      body == SubSeq(lines, 1, foot - 1)
      runs == FoldLeft(OpencodeRun, [last |-> <<>>, cur |-> <<>>], body)
      rows == IF runs.cur = <<>> THEN runs.last ELSE runs.cur
      review == \E i \in DOMAIN body : body[i].k = "reviewhead" /\ \E j \in i..Len(body) : body[j].k = "summary"
      other == Last(rows)
      focus == FocusOf(rows)
      notes == focus.index = Len(rows) - 1 /\ ~other.mark
      text == IF body[Len(body)].k = "text" THEN body[Len(body)].label ELSE NoText
  IN IF foot = 0 THEN NoInteraction
     ELSE IF ~AllBlank(From(lines, foot)) THEN NoInteraction
     ELSE IF review THEN Interaction("opencode", "single_select", <<Plain("row", "Submit answers")>>, HiddenOther, Focus("option", 0), opencode_position(body))
     ELSE IF Len(rows) < 2 THEN NoInteraction
     ELSE IF ~is_other_label(other.label) THEN NoInteraction
     ELSE [Interaction("opencode", IF checkbox_match(rows[1]) THEN "multi_select" ELSE "single_select", Front(rows),
                       Other(other.mark, text), IF notes THEN Focus("other", 0) ELSE focus, opencode_position(body))
           EXCEPT !.notes = notes]

omp_position(lines) ==
  LET i == LastOf({j \in DOMAIN lines : lines[j].k = "tabs"}) IN IF i = 0 THEN <<1, 1>> ELSE lines[i].pos

parse_omp_review(body) ==
  IF \E i \in DOMAIN body : body[i].k = "reviewhead" /\ \E j \in i..Len(body) : body[j].k = "rsubmit"
    THEN Interaction("omp", "single_select", <<[Plain("row", "Submit answers") EXCEPT !.mark = TRUE]>>, HiddenOther, Focus("option", 0), omp_position(body))
    ELSE NoInteraction

parse_omp(lines) ==
  LET start == LastOf(Where(lines, omp_ask_header))
      foot == FirstOf({i \in Where(lines, omp_footer_match) : i > start})
      body == SubSeq(lines, start + 1, IF foot = 0 THEN Len(lines) ELSE foot - 1)
      rows == SelectSeq(body, omp_option_match)
      Option(l) == l.label # "Done" /\ ~is_other_label(l.label)
      options == SelectSeq(rows, Option)
      others == {i \in DOMAIN rows : is_other_label(rows[i].label)}
      other == rows[LastOf(others)]
      text == IF body[Len(body)].k = "text" THEN body[Len(body)].label ELSE NoText
      focus == CASE \E i \in DOMAIN rows : rows[i].label = "Done" /\ rows[i].focus -> Focus("submit", 0)
                 [] others # {} /\ other.focus -> Focus("option", Len(options))
                 [] OTHER -> FocusOf(options)
  IN IF start = 0 THEN NoInteraction
     ELSE IF Len(rows) < 2 THEN parse_omp_review(body)
     ELSE IF options = <<>> \/ (others = {} /\ Len(options) < 2) THEN NoInteraction
     ELSE [Interaction("omp", IF rows[1].n = 1 THEN "multi_select" ELSE "single_select", options,
                       IF others = {} THEN HiddenOther ELSE Other(other.mark, text), focus, omp_position(body))
           EXCEPT !.space = foot > 0 /\ lines[foot].mark]

(* An agent that is none of these is read by the first parser that finds     *)
(* something.                                                                *)
OrElse(found, next) == IF found # NoInteraction THEN found ELSE next

parse_question(lines, agent) ==
  LET unnamed == agent \notin Families IN
  CASE ~layout_hint(lines) -> NoInteraction
    [] agent = "omp" -> parse_omp(lines)
    [] agent = "opencode" -> parse_opencode(lines)
    [] OTHER -> OrElse(IF agent = "codex" \/ unnamed THEN parse_codex(lines) ELSE NoInteraction,
                OrElse(IF agent = "claude" \/ unnamed THEN parse_claude(lines) ELSE NoInteraction,
                       IF agent = "qoder" \/ unnamed THEN parse_qoder(lines) ELSE NoInteraction))

-----------------------------------------------------------------------------
(* The phone's answer and its check *)

(* questionSubmitAllowed *)
questionSubmitAllowed(i, p) ==
  LET other == p.on /\ ~i.other.hidden /\ (p.text # NoText \/ i.other.allow_empty) IN
  /\ p.on => other
  /\ IF i.kind = "multi_select" THEN p.selected # {} \/ other
       ELSE Cardinality(p.selected) + (IF p.on THEN 1 ELSE 0) = 1
Payloads(i) ==
  {p \in [selected : SUBSET (0..(Len(i.options) - 1)), on : BOOLEAN, text : Texts \cup {NoText}] :
     (p.text # NoText => p.on) /\ questionSubmitAllowed(i, p)}

validate_question_payload(i, p) ==
  LET choice == p.on /\ (p.text # NoText \/ i.other.allow_empty) IN
  /\ \A x \in p.selected : x < Len(i.options)
  /\ ~(i.other.hidden /\ p.on)
  /\ i.kind = "single_select" => Cardinality(p.selected) + (IF choice THEN 1 ELSE 0) = 1

Directions == {"previous", "next", "clarify"}
validate_navigation(i, d) ==
  CASE d = "previous" -> i.pos[1] > 1
    [] d = "next" -> i.pos[1] > 0 /\ i.pos[1] < i.pos[2]
    [] OTHER -> i.chat /\ i.agent = "claude"

-----------------------------------------------------------------------------
(* The planners *)

Steps(from, to) == IF to >= from THEN [j \in 1..(to - from) |-> "Down"] ELSE [j \in 1..(from - to) |-> "Up"]

Multi(i) == IF i.kind = "multi_select" THEN 1 ELSE 0
position(i, focus) ==
  CASE focus.kind = "option" -> focus.index
    [] focus.kind = "submit" -> IF i.kind = "multi_select" THEN i.all ELSE 0
    [] focus.kind = "chat" -> i.all + Multi(i)
    [] OTHER -> 0
navigation_keys(i, from, to) == Steps(position(i, from), position(i, to))

(* Mutation: the submit row is not counted between the options and Other. *)
qoder_row_at_other(i, focus) == IF focus.kind = "option" THEN focus.index ELSE Len(i.options)
qoder_row(i, focus) ==
  CASE focus.kind = "option" -> focus.index
    [] focus.kind = "submit" -> Len(i.options)
    [] focus.kind = "other" -> Len(i.options) + Multi(i)
    [] OTHER -> 0
qoder_navigation_keys(i, from, to) == Steps(qoder_row(i, from), qoder_row(i, to))

opencode_row(i, focus) == IF focus.kind = "other" THEN Len(i.options) ELSE focus.index
opencode_navigation_keys(i, from, to) == Steps(opencode_row(i, from), opencode_row(i, to))

OptionAt(x) == Focus("option", x)
OtherFocus == Focus("other", 0)
Chosen(p) == OptionAt(Min(p.selected))
Text(p) == If(p.text # NoText, <<p.text>>)

(* Each option that is not as wanted is visited and switched, in order. *)
Switched(i, p, start, Nav(_, _, _), key) ==
  LET Visit(acc, x) == IF (x \in i.selected) = (x \in p.selected) THEN acc
                         ELSE [keys |-> acc.keys \o Nav(i, acc.focus, OptionAt(x)) \o <<key>>, focus |-> OptionAt(x)]
  IN FoldLeft(Visit, [keys |-> <<>>, focus |-> start], [x \in 1..Len(i.options) |-> x - 1])

plan_codex_input(i, p) ==
  LET to == OptionAt(i.all - 1) IN
  CASE p.selected # {} -> navigation_keys(i, i.focus, Chosen(p)) \o <<"Enter">>
    [] p.text = NoText -> navigation_keys(i, i.focus, to) \o <<"Enter">>
    [] OTHER -> (IF i.notes THEN <<"Ctrl+U">> ELSE navigation_keys(i, i.focus, to) \o <<"Tab">>) \o Text(p) \o <<"Enter">>

plan_qoder_multi_input(i, p) ==
  LET edited == If(i.notes, <<"Ctrl+U">> \o If(p.on, Text(p)) \o <<"Enter">>)
      a == Switched(i, p, IF i.notes THEN OtherFocus ELSE i.focus, qoder_navigation_keys, "Enter")
      on == i.notes \/ i.other.on
      to == qoder_navigation_keys(i, a.focus, OtherFocus) \o <<"Enter">>
      other == CASE p.on /\ ~i.notes -> to \o <<"Ctrl+U">> \o Text(p) \o <<"Enter">>
                 [] ~p.on /\ on -> to
                 [] OTHER -> <<>>
      last == IF other = <<>> THEN a.focus ELSE OtherFocus
  IN edited \o a.keys \o other \o qoder_navigation_keys(i, last, Focus("submit", 0)) \o <<"Enter">>

plan_qoder_input(i, p) ==
  CASE i.kind = "multi_select" -> plan_qoder_multi_input(i, p)
    [] i.notes -> <<"Ctrl+U">> \o If(p.on, Text(p)) \o <<"Enter">>
                  \o If(~p.on, qoder_navigation_keys(i, OtherFocus, Chosen(p)) \o <<"Enter">>)
    [] p.selected # {} -> qoder_navigation_keys(i, i.focus, Chosen(p)) \o <<"Enter">>
    [] OTHER -> qoder_navigation_keys(i, i.focus, OtherFocus) \o <<"Enter", "Ctrl+U">> \o Text(p) \o <<"Enter">>

plan_opencode_multi_input(i, p) ==
  LET edited == If(i.notes, IF p.on THEN <<"Ctrl+U">> \o Text(p) \o <<"Enter">> ELSE <<"Escape">>)
      a == Switched(i, p, IF i.notes THEN OtherFocus ELSE i.focus, opencode_navigation_keys, "Enter")
      on == i.other.on \/ (i.notes /\ p.on)
      text == IF i.notes /\ p.on THEN p.text ELSE i.other.text
      to == opencode_navigation_keys(i, a.focus, OtherFocus) \o <<"Enter">>
      other == CASE p.on /\ (~on \/ text # p.text) -> to \o <<"Ctrl+U">> \o Text(p) \o <<"Enter">>
                 [] ~p.on /\ on -> to
                 [] OTHER -> <<>>
  IN edited \o a.keys \o other \o <<"Tab">>

plan_opencode_input(i, p) ==
  CASE i.other.hidden -> <<"Enter">>
    [] i.kind = "multi_select" -> plan_opencode_multi_input(i, p)
    [] i.notes /\ p.on -> <<"Ctrl+U">> \o Text(p) \o <<"Enter", "Enter">>
    [] i.notes -> <<"Escape">> \o opencode_navigation_keys(i, OtherFocus, Chosen(p)) \o <<"Enter">>
    [] p.selected # {} -> opencode_navigation_keys(i, i.focus, Chosen(p)) \o <<"Enter">>
    [] OTHER -> opencode_navigation_keys(i, i.focus, OtherFocus) \o <<"Enter", "Ctrl+U">> \o Text(p) \o <<"Enter", "Enter">>

plan_omp_multi_input(i, p) ==
  LET a == Switched(i, p, i.focus, navigation_keys, IF i.space THEN "Space" ELSE "Enter")
      to == navigation_keys(i, a.focus, OptionAt(i.all - 1))
  IN a.keys \o
     CASE p.on \/ (i.space /\ i.other.on) ->
            to \o <<"Enter", "Ctrl+U">> \o If(p.on, Text(p)) \o <<"Enter">> \o If(i.space, <<"Up", "Enter">>)
       [] i.space -> <<"Enter">>
       [] i.pos[2] > 1 -> <<"Right">>
       [] p.selected = {} -> <<>>
       [] OTHER -> [j \in 1..(Len(i.options) - a.focus.index) |-> "Down"] \o <<"Enter">>

plan_omp_input(i, p) ==
  CASE i.kind = "multi_select" -> plan_omp_multi_input(i, p)
    [] p.selected # {} -> navigation_keys(i, i.focus, Chosen(p)) \o <<"Enter">>
    [] OTHER -> navigation_keys(i, i.focus, OptionAt(i.all - 1)) \o <<"Enter", "Ctrl+U">> \o Text(p) \o <<"Enter">>

plan_claude_multi_input(i, p) ==
  LET a == Switched(i, p, i.focus, navigation_keys, "Enter")
      other == OptionAt(i.all - 1)
      retype == i.other.text # p.text
      b == IF retype THEN other ELSE a.focus
      switch == i.other.on # p.on
      c == IF switch THEN other ELSE b
  IN a.keys \o If(retype, navigation_keys(i, a.focus, other) \o <<"Ctrl+U">> \o Text(p))
     \o If(switch, navigation_keys(i, b, other) \o <<"Enter">>)
     \o navigation_keys(i, c, Focus("submit", 0)) \o <<"Enter">>

plan_claude_input(i, p) ==
  LET other == OptionAt(i.all - 1)
      stale == ~i.other.hidden /\ i.other.text # NoText
  IN CASE i.kind = "multi_select" -> plan_claude_multi_input(i, p)
       [] p.selected # {} ->
            If(stale, navigation_keys(i, i.focus, other) \o <<"Ctrl+U">>)
            \o navigation_keys(i, IF stale THEN other ELSE i.focus, Chosen(p)) \o <<"Enter">>
       [] OTHER -> navigation_keys(i, i.focus, other) \o <<"Ctrl+U">> \o Text(p) \o <<"Enter">>

plan_input(i, p) ==
  CASE i.agent = "codex" -> plan_codex_input(i, p)
    [] i.agent = "qoder" -> plan_qoder_input(i, p)
    [] i.agent = "opencode" -> plan_opencode_input(i, p)
    [] i.agent = "omp" -> plan_omp_input(i, p)
    [] OTHER -> plan_claude_input(i, p)

plan_navigation(i, d) ==
  CASE d = "previous" -> IF i.agent = "opencode" THEN <<"Shift+Tab">> ELSE <<"Left">>
    [] d = "next" -> IF i.agent = "opencode" THEN <<"Tab">> ELSE <<"Right">>
    [] OTHER -> navigation_keys(i, i.focus, Focus("chat", 0)) \o <<"Enter">>

-----------------------------------------------------------------------------
(* Steps *)

NoPayload == [selected |-> {}, on |-> FALSE, text |-> NoText]
Seen == parse_question(Screen, frame.agent)

(* Look: the relay shows the phone what it parsed. *)
Look ==
  /\ reply.at = "looks"
  /\ \E now \in {Seen} :
       reply' = [reply EXCEPT !.at = IF now = NoInteraction THEN "nothing" ELSE "sees", !.seen = now]
  /\ UNCHANGED <<form, frame>>

(* A hand at the desk moves the cursor or switches an option; only where     *)
(* nothing stands above the form, to keep the instance small.                *)
Hand(k) ==
  /\ frame.hand < MaxHand /\ frame.above = "nothing" /\ form.done = "no" /\ ~frame.below /\ ~form.edit
  /\ k = "Enter" => form.kind = "multi" /\ form.at < N(form) /\ ~form.space
  /\ form' = Key(form, k)
  /\ frame' = [frame EXCEPT !.hand = @ + 1]
  /\ UNCHANGED reply

(* The answer is applied to what a fresh parse finds. *)
Same(now) == now # NoInteraction /\ interaction_id(now) = interaction_id(reply.seen)

(* What the planners cannot get right: the Other row of opencode with the    *)
(* cursor on it and no editor open, or with another text; the open notes of  *)
(* codex that are to be emptied; a set of omp that is confirmed as it stands *)
(* with the cursor on its Other row.                                         *)
Misplanned(f, p) ==
  \/ f.fam = "opencode" /\ ~f.edit /\ (f.at = OtherAt(f) \/ (f.on /\ p.on /\ f.text # p.text))
  \/ f.fam = "codex" /\ f.edit /\ f.text # NoText /\ p.on /\ p.text = NoText
  \/ f.space /\ f.at = OtherAt(f) /\ f.sel = p.selected /\ ~f.on /\ ~p.on

Answer(p) ==
  /\ reply.at = "sees"
  /\ \E now \in {Seen} : LET ok == Same(now) /\ validate_question_payload(now, p) IN
       /\ form' = IF ok THEN FoldLeft(Key, form, plan_input(now, p)) ELSE form
       /\ reply' = [reply EXCEPT !.at = IF ok THEN "answered" ELSE "refused", !.payload = p, !.lost = Misplanned(form, p)]
  /\ UNCHANGED frame

Navigate(d) ==
  /\ reply.at = "sees"
  /\ \E now \in {Seen} : LET ok == Same(now) /\ validate_navigation(now, d) IN
       /\ form' = IF ok THEN FoldLeft(Key, form, plan_navigation(now, d)) ELSE form
       /\ reply' = [reply EXCEPT !.at = IF ok THEN d ELSE "refused"]
  /\ UNCHANGED frame

(* The forms that agents show. *)
Shapes ==
  {s \in {Form(fam, kind, space, hidden, pos) : fam \in Families, kind \in {"single", "multi", "review"},
                                               space \in BOOLEAN, hidden \in BOOLEAN, pos \in {<<1, 1>>, <<2, 3>>}} :
     /\ s.space => s.fam = "omp" /\ s.kind = "multi"
     /\ s.hidden = (s.kind = "review" \/ Legacy(s))
     /\ s.fam = "codex" => s.kind = "single"
     /\ s.kind = "review" => s.pos = <<2, 3>>}

Sound(f) ==
  /\ f.kind = "single" => Cardinality(f.sel) <= 1
  /\ f.hidden => ~f.on /\ f.text = NoText /\ ~f.edit
  /\ f.kind = "review" => f.sel = {}
  /\ CASE f.fam = "claude" -> ~f.edit /\ (f.kind = "single" => f.on = (f.text # NoText /\ f.sel = {}))
       [] f.fam = "codex" -> /\ f.sel \subseteq {f.at} /\ (f.on => f.at = N(f)) /\ (f.edit => f.on)
                             /\ (f.text # NoText => f.edit)
       [] f.fam = "qoder" -> f.on = f.edit /\ (f.edit => f.at = OtherAt(f)) /\ (f.text # NoText => f.edit)
                             /\ (f.kind = "single" => f.sel = {})
       [] f.fam = "opencode" -> /\ (f.edit => f.at = OtherAt(f) /\ ~f.on) /\ (f.text # NoText => f.on \/ f.edit)
                                /\ (f.on => f.text # NoText /\ f.kind = "multi")
       [] OTHER -> ~f.edit /\ (f.kind = "single" => ~f.on) /\ f.on = (f.text # NoText)

Init ==
  /\ \E s \in Shapes : \E sel \in SUBSET (0..(N(s) - 1)), on \in BOOLEAN, edit \in BOOLEAN, text \in {NoText, "t1"} :
       LET f == [s EXCEPT !.sel = sel, !.on = on, !.edit = edit, !.text = text] IN
       \E at \in 0..LastAt(f) : form = [f EXCEPT !.at = at] /\ Sound(form)
  /\ frame \in [above : Aboves, below : BOOLEAN, agent : {form.fam, "hermes"}, hand : {0}]
  /\ frame.agent # form.fam => frame.above = "nothing"
  /\ reply = [at |-> "looks", seen |-> NoInteraction, payload |-> NoPayload, lost |-> FALSE]

Next ==
  \/ Look
  \/ \E k \in {"Up", "Down", "Enter"} : Hand(k)
  \/ \E p \in Payloads(reply.seen) : Answer(p)
  \/ \E d \in Directions : Navigate(d)

Spec == Init /\ [][Next]_formVars

-----------------------------------------------------------------------------
TypeOK ==
  /\ form.at \in 0..LastAt(form) /\ form.sel \subseteq 0..(N(form) - 1)
  /\ reply.at \in {"looks", "sees", "nothing", "answered", "refused"} \cup Directions

(* The boxes and the chat row of claude are looked for on the whole screen:  *)
(* numbered check boxes above a form, or an older form above a review, are   *)
(* taken for it.                                                             *)
Mistaken ==
  form.fam = "claude" /\ \/ form.kind = "multi" /\ frame.above = "tasks"
                         \/ form.kind # "single" /\ frame.above = "form"

(* The phone is shown the live form and nothing else: not an older one, not  *)
(* a list, and no form at all once something came below it (parse_question,  *)
(* layout_hint).                                                             *)
ShowsTheForm ==
  frame.hand = 0 /\ ~Mistaken =>
    CASE reply.at = "sees" ->
           /\ ~frame.below
           /\ Len(reply.seen.options) = N(form) /\ reply.seen.focus.index <= N(form)
           /\ form.kind # "review" => reply.seen.options = SubSeq(Labels, 1, N(form)) /\ reply.seen.selected = form.sel
           /\ ~reply.seen.other.hidden => reply.seen.other.on = form.on /\ reply.seen.other.text = form.text
      [] reply.at = "nothing" -> frame.below \/ (frame.agent # form.fam /\ form.fam \in {"opencode", "omp"})
      [] OTHER -> TRUE

(* The keys of an answer leave the form answered as the phone asked, from    *)
(* whatever state the form was in and wherever the cursor stood (plan_input, *)
(* the planners), but for the states that Misplanned names.                  *)
AnswerLands ==
  LET p == reply.payload IN
  /\ reply.at = "answered" /\ ~Mistaken /\ ~reply.lost =>
       /\ form.done = "answered" /\ ~form.stray
       /\ form.sel = p.selected /\ form.on = p.on
       /\ p.on \/ form.fam = "claude" => form.text = p.text
  /\ reply.at \in Directions /\ ~Mistaken => form.done # "no" /\ ~form.stray
  /\ reply.at = "clarify" /\ ~Mistaken => form.done = "chat"
=============================================================================
