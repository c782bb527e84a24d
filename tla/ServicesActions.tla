-------------------------- MODULE ServicesActions ---------------------------
(* The services that act for a phone: the update of the relay, commands,     *)
(* responses to questions, and the forms they are typed into.                *)
EXTENDS Naturals, Services

CONSTANTS
  MaxVersion, MaxUpdateTasks, MaxUpdateOdds,
  CommandMenus, MaxFaults,
  AskKinds, MaxOps, MaxLedgerEntries, MaxAskOdds,
  FormOptions, MaxHand

VARIABLES
  ufile, um, umutex, utask, workers, ulock, host,
  estate, table, remembered, errand, mischief,
  term, known, entries, pane, ops, askOdds,
  form, frame, reply

UPD == INSTANCE Update
CM == INSTANCE Commands
QS == INSTANCE Questions
AF == INSTANCE AnswerForm

-----------------------------------------------------------------------------
(* Every check and install sees a worker that prepares, but for the causes    *)
(* Update names (orphan_candidate); only the release the phone confirmed and *)
(* that passed every check is installed, and the link names a release that   *)
(* is there wherever the installer stops (schedule, activate).               *)
UpdateIsSound == part = "update" => UPD!WorkerVisible /\ UPD!InstallIsSound

(* The result of a command is true of Herdr whichever of its calls failed; a *)
(* start sent again starts no second agent; a command acts on the terminal   *)
(* it addressed, a close on what its user agreed to, and a read is of the    *)
(* revision it names, but for the causes Commands names (dispatch_failure,   *)
(* reconcile_existing, validate_exact_pane_target, workspace_close, fenced). *)
CommandsHold == part = "commands" => CM!ToldTrue /\ CM!StartedOnce /\ CM!ActsOnTarget /\ CM!ClosesAsAgreed /\ CM!ReadIsOf

(* The keys of a response are sent once however often it is retried; they    *)
(* reach the prompt they were meant for; what the phone is told of them is   *)
(* so (replay, schedule, question_effect, finish_question_watch).            *)
AnswersHold == part = "ask" => QS!KeysSentOnce /\ QS!LandsAsMeant /\ QS!ToldIsTrue

(* The form an agent draws is read as it is, and the keys planned for an     *)
(* answer leave exactly that answer in it (parse_question, plan_input).      *)
FormAnswered == part = "form" => AF!ShowsTheForm /\ AF!AnswerLands
=============================================================================
