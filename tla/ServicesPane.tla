---------------------------- MODULE ServicesPane ----------------------------
(* The services that show what a pane holds: its screen, its conversation,   *)
(* and what the screen is taken for.                                         *)
EXTENDS Naturals, Services

CONSTANTS
  Period, MaxOutput, MaxTrouble, CtlQueue,
  ConvoKinds, PageSize, MaxConvoOps,
  Agents, Commands, MaxDraws

(* Some output shows; a screen is never mistaken for the lack of one. *)
ASSUME PeriodAssumption == Period \in Nat \ {0}

VARIABLES
  scr, hist, loop, obs, reader, ctl, upq, downq, surf, odds,
  log, seat, feed, kept, wire, window, demand, doom,
  agent, screen, live, asked

PW == INSTANCE PaneWatch
CV == INSTANCE Convo
SC == INSTANCE Screens

-----------------------------------------------------------------------------
(* A watch that has nothing left to do has shown the phone the screen and    *)
(* its classification, but for the causes PaneWatch names (watch_loop).      *)
NothingMissed == part = "watch" => PW!NothingMissed

(* What a history recovery scrolled past stays out of every frame, but for   *)
(* an emulator that is rendered unasked (read_watch_frame).                  *)
ScrollFenced == part = "watch" => PW!ScrollFenced

(* Once the feed is settled the newest entries of the phone's window are the *)
(* newest entries of the transcript, whatever was written while a page was   *)
(* read, but for the causes Convo names (poll, decide,                       *)
(* applyConversationUpdate).                                                 *)
ConvoFollows == part = "convo" => CV!ConvoFollows

(* What the relay makes of a screen is what the agent waits for and never    *)
(* what is left of an earlier dialog; a fingerprint names one dialog, but    *)
(* for the causes Screens names (classify, approval_fingerprint).            *)
ScreensRead == part = "screens" => SC!ReadsAsIs /\ SC!FingerprintTells
=============================================================================
