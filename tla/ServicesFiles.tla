--------------------------- MODULE ServicesFiles ----------------------------
(* The services that keep files of their own for the phones: read aloud,     *)
(* uploads, push notifications.                                              *)
EXTENDS Naturals, Services

CONSTANTS
  Languages, SystemVoices, Utterances, MaxInFlight, MaxSpeechTasks, MaxSpeechOdds,
  Batches, Files, ChunksPerFile, MaxRuns, MaxStaged, MaxUploadOdds,
  Devices, Endpoints, MaxPublish, MaxOdds, MaxAttempts

(* A batch has files, and a file has chunks. *)
ASSUME BatchAssumption == Files \in Nat \ {0} /\ ChunksPerFile \in Nat \ {0}

VARIABLES
  talk, reqs, vox, rt, facts, luck,
  upl, store, jobs, answers, batch, fifo, row, mishap,
  mgr, disk, pass, shown, env, excuse

SPE == INSTANCE Speech
UP == INSTANCE Uploads
PQ == INSTANCE PushQueue

-----------------------------------------------------------------------------
(* A cancel that was handled before its request's process ended is heeded,   *)
(* whatever order the two tasks run in (register, cancel, finish); once      *)
(* every request is done the topology's speech facts are the languages the   *)
(* relay speaks, but for overlapping changes (change_speech_voice).          *)
SpeechAccounted == part = "speech" => SPE!CancelHeeded /\ SPE!FactsFollowVoices

(* Once every request has run and been answered each staged session is one   *)
(* its batch still knows, so that it can be discarded (runUpload, cancel);   *)
(* an attachment the phone was told of resolves until its lifetime is over,  *)
(* across failed writes, clean-ups and restarts (publish, initialize).       *)
UploadsAccounted == part = "uploads" => UP!StagedIsKnown /\ UP!ToldResolves

(* A published event that is not resolved is shown on an endpoint of its     *)
(* device when the queue has drained, but for the causes PushQueue names     *)
(* (process_group, recover_pruned).                                          *)
OwedIsShown == part = "push" => PQ!OwedIsShown

(* A resolved event has left the phone when the queue has drained, but for a  *)
(* send that was in flight (resolve, process_group).                         *)
ResolvedIsRetracted == part = "push" => PQ!ResolvedIsRetracted
=============================================================================
