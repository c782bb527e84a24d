------------------------------- MODULE Speech -------------------------------
(***************************************************************************)
(* Reading aloud: speech requests with their cancellation, and the voices   *)
(* and the Piper runtime a phone installs or removes.  Requests run in      *)
(* tasks of their own, so that a cancel can run before its request, and two  *)
(* changes can overlap in everything but the engine's own mutex.  A voice    *)
(* is a pair of files, a text its language, audio the number of halvings    *)
(* its size needs to fit a frame.                                            *)
(***************************************************************************)
EXTENDS Naturals, FiniteSets

CONSTANTS
  Languages,       \* OFFERED
  SystemVoices,    \* languages another engine of the host speaks
  Utterances,      \* speech_request_ids of one phone, each used by one request
  MaxInFlight,     \* MAX_IN_FLIGHT
  MaxSpeechTasks,  \* bound on requests
  MaxSpeechOdds    \* bound on failed downloads and writes, slow starts, deadlines

VARIABLES
  talk,    \* tasks of requests
  reqs,    \* SpeechState.requests
  vox,     \* files of each voice
  rt,      \* the runtime directory, its cached probe, the install mutex
  facts,   \* the languages the topology has been told of
  luck     \* counters of the bounds, and history

speechVars == <<talk, reqs, vox, rt, facts, luck>>

Free == 0
Halvings == 2    \* 22050 Hz and 11025 Hz can still be halved
Pair == {"model", "config"}

Unlucky == luck.odds < MaxSpeechOdds
Cost(l) == [l EXCEPT !.odds = @ + 1]

-----------------------------------------------------------------------------
(* The engine *)

(* piper_voices_in: a model counts with its sidecar. *)
piper_voices == {l \in Languages : vox[l] = Pair}

(* runtime_ready: the answer for this binary's stamp; "new" has to be run.   *)
Probed == IF rt.binary = "none" THEN "absent" ELSE rt.probe

languages_in(voices, ready) == (IF ready THEN voices ELSE {}) \cup SystemVoices

(* start_runtime: a binary that was swapped away, or is slow, does not start. *)
Starts(l) == IF rt.binary = "none" THEN {[ready |-> FALSE, luck |-> l]}
  ELSE {[ready |-> TRUE, luck |-> l]}
         \cup (IF Unlucky THEN {[ready |-> FALSE, luck |-> [Cost(l) EXCEPT !.excused = TRUE]]} ELSE {})

(* The probe's outcome is kept for the stamp that was read before it ran. *)
Recorded(ready) == [rt EXCEPT !.probe = IF ready THEN "ready" ELSE "unready"]

-----------------------------------------------------------------------------
(* The requests in flight *)

(* register: a tombstone cancels the request that comes after it. *)
register(u, seq) ==
  reqs' = [k \in DOMAIN reqs \cup {u} |->
             IF k # u THEN reqs[k]
               ELSE [seq |-> seq, cancelled |-> u \in DOMAIN reqs /\ reqs[u].cancelled, live |-> TRUE]]

Cancelled(t) == t.key \in DOMAIN reqs /\ reqs[t.key].cancelled

(* finish: only the entry of this registration. *)
finish(t) ==
  reqs' = [k \in {k \in DOMAIN reqs : k # t.key \/ reqs[k].seq # t.seq} |-> reqs[k]]

Tombstones == {k \in DOMAIN reqs : reqs[k].cancelled /\ ~reqs[k].live}

(* A cancel was handled: early, if the request's process has not ended. *)
Asked(u, dropped) ==
  LET late == \E i \in 1..MaxSpeechTasks : talk[i].key = u /\ talk[i].at \in {"ended", "failed", "done"}
  IN  [luck EXCEPT !.asked = @ \cup {u}, !.early = (@ \ dropped) \cup (IF late THEN {} ELSE {u})]

(* cancel: flags what is in flight, else leaves a tombstone; a full map      *)
(* drops all tombstones first, and the cancel if that is not enough.         *)
(* Mutation: a cancel that finds no request is dropped. *)
cancel_live_only(u) ==
  /\ reqs' = [k \in DOMAIN reqs |-> IF k = u THEN [reqs[k] EXCEPT !.cancelled = TRUE] ELSE reqs[k]]
  /\ luck' = Asked(u, {})
cancel(u) ==
  LET kept == IF Cardinality(DOMAIN reqs) >= MaxInFlight THEN DOMAIN reqs \ Tombstones ELSE DOMAIN reqs
  IN  IF u \in DOMAIN reqs
        THEN /\ reqs' = [reqs EXCEPT ![u].cancelled = TRUE]
             /\ luck' = Asked(u, {})
        ELSE IF Cardinality(kept) >= MaxInFlight
          THEN reqs' = [k \in kept |-> reqs[k]] /\ luck' = [luck EXCEPT !.asked = @ \cup {u}, !.early = @ \cap kept]
          ELSE /\ reqs' = [k \in kept \cup {u} |->
                    IF k \in kept THEN reqs[k] ELSE [seq |-> 0, cancelled |-> TRUE, live |-> FALSE]]
               /\ luck' = Asked(u, DOMAIN reqs \ kept)

-----------------------------------------------------------------------------
(* Tasks *)

Task(kind, key, lang) ==
  [kind |-> kind, key |-> key, lang |-> lang, at |-> "catalog", read |-> {}, voices |-> {}, seq |-> 0, gave |-> "nothing"]
IsChange(t) == t.kind \in {"install", "remove"}
Goes(i, t) == talk' = [talk EXCEPT ![i] = t]
Done(t, gave) == [t EXCEPT !.at = "done", !.gave = gave, !.read = {}, !.voices = {}]

(* missing: what the install command of the host's user has to fetch. *)
missing(l) == vox[l] # Pair \/ rt.binary = "none"

(* A request arrives; a cancel runs at once, a command of the host's user    *)
(* skips the catalog and is not published.                                   *)
Arrives ==
  /\ \E i \in 1..MaxSpeechTasks :
       /\ talk[i].at = "none" /\ \A j \in 1..i - 1 : talk[j].at # "none"
       /\ \/ \E u \in Utterances, l \in Languages :
               /\ \A j \in 1..MaxSpeechTasks : talk[j].key # u
               /\ Goes(i, Task("speak", u, l)) /\ UNCHANGED luck
          \/ \E l \in Languages, kind \in {"install", "remove"} :
               /\ Goes(i, Task(kind, Free, l))
               /\ luck' = [luck EXCEPT !.overlap = @ \/ \E j \in 1..MaxSpeechTasks : j # i /\ IsChange(talk[j]) /\ talk[j].at # "done"]
          \/ \E l \in Languages, kind \in {"cli_install", "cli_remove", "cli_reinstall"} :
               /\ Unlucky /\ (kind = "cli_install" => missing(l))
               /\ Goes(i, [Task(kind, Free, l) EXCEPT !.at = IF kind = "cli_reinstall" THEN "download" ELSE "change"])
               /\ luck' = [Cost(luck) EXCEPT !.excused = TRUE]
  /\ UNCHANGED <<reqs, vox, rt, facts>>

cancel_speech ==
  /\ \E u \in Utterances : u \notin luck.asked /\ cancel(u)
  /\ UNCHANGED <<talk, vox, rt, facts>>

(* speak_text after its catalog, and change_speech_voice after each of its   *)
(* two: the gate of the request, or the publication of the change.           *)
(* Mutation: the catalog of before the change is published. *)
published_before(t, langs) == t.voices
published(t, langs) == langs

AfterCatalog(i, t, langs) ==
  CASE t.kind = "speak" ->
         /\ IF t.lang \in langs
              THEN Goes(i, [t EXCEPT !.at = "engine", !.seq = i, !.voices = {}]) /\ register(t.key, i)
              ELSE Goes(i, Done(t, "refused")) /\ UNCHANGED reqs
         /\ UNCHANGED facts
    [] IsChange(t) /\ t.at \in {"catalog", "probing"} ->
         Goes(i, [t EXCEPT !.at = "change", !.voices = langs]) /\ UNCHANGED <<reqs, facts>>
    [] OTHER -> Goes(i, [t EXCEPT !.at = "publish", !.voices = published(t, langs)]) /\ UNCHANGED <<reqs, facts>>

(* status: the voices are read first, then the runtime is asked. *)
Catalog(i) ==
  LET t == talk[i] IN
  /\ t.at \in {"catalog", "recatalog"}
  /\ IF Probed = "new"
       THEN Goes(i, [t EXCEPT !.at = IF @ = "catalog" THEN "probing" ELSE "reprobing",
                              !.read = piper_voices]) /\ UNCHANGED <<reqs, facts>>
       ELSE AfterCatalog(i, t, languages_in(piper_voices, Probed = "ready"))
  /\ UNCHANGED <<vox, rt, luck>>

Probe(i) ==
  LET t == talk[i] IN
  /\ t.at \in {"probing", "reprobing"}
  /\ \E s \in Starts(luck) :
       /\ rt' = Recorded(s.ready)
       /\ luck' = s.luck
       /\ AfterCatalog(i, t, languages_in(t.read, s.ready))
  /\ UNCHANGED vox

(* synthesize_blocking: an engine is chosen again and its process started. *)
select_engine(l) == l \in languages_in(piper_voices, Probed \in {"ready", "new"})

Synthesize(i) ==
  LET t == talk[i] IN
  /\ t.at = "engine"
  /\ Goes(i, [t EXCEPT !.at = IF select_engine(t.lang) THEN "running" ELSE "failed"])
  /\ UNCHANGED <<reqs, vox, rt, facts, luck>>

(* poll_child: a cancel or the deadline kills the process; nothing looks at  *)
(* the token once it has ended.                                              *)
PollChild(i) ==
  LET t == talk[i] IN
  /\ t.at = "running"
  /\ \/ Cancelled(t) /\ Goes(i, [t EXCEPT !.at = "failed"]) /\ UNCHANGED luck
     \/ ~Cancelled(t) /\ Goes(i, [t EXCEPT !.at = "ended"]) /\ UNCHANGED luck
     \/ Unlucky /\ Goes(i, [t EXCEPT !.at = "failed"]) /\ luck' = Cost(luck)
  /\ UNCHANGED <<reqs, vox, rt, facts>>

(* The output has to be 16-bit mono and, halved as often as its rate allows, *)
(* to fit a frame.                                                           *)
parse_pcm16_mono(clip) == clip.ok
decimate(clip) == clip.size <= Halvings

Answers(i) ==
  LET t == talk[i] IN
  /\ t.at \in {"failed", "ended"}
  /\ \E clip \in [ok : BOOLEAN, size : {0, Halvings, Halvings + 1}] :
       LET audio == t.at = "ended" /\ parse_pcm16_mono(clip) /\ decimate(clip) IN
       /\ Goes(i, Done(t, IF audio THEN "audio" ELSE "error"))
       /\ luck' = [luck EXCEPT !.deaf = @ \/ (audio /\ t.key \in luck.early)]
  /\ finish(t)
  /\ UNCHANGED <<vox, rt, facts>>

(* install_blocking and remove_blocking under install_mu; a command of the   *)
(* host's user is another process and takes no mutex of the relay.           *)
Local(t) == IsChange(t)
Enters(i, t) == rt.mutex = Free \/ ~Local(t)
Holds(i, t, r) == IF Local(t) THEN [r EXCEPT !.mutex = i] ELSE r
Leaves(i, t, r) == IF r.mutex = i THEN [r EXCEPT !.mutex = Free] ELSE r
After(t) == IF Local(t) THEN "recatalog" ELSE "done"

Fails(i, t) ==
  /\ Unlucky
  /\ Goes(i, Done(t, "error"))
  /\ rt' = Leaves(i, t, rt)
  /\ luck' = [Cost(luck) EXCEPT !.excused = TRUE]
  /\ UNCHANGED vox

(* install_runtime: the archive is fetched, unpacked and started beside the  *)
(* installed one, which is moved away before the new one takes its place.    *)
install_runtime(i, t) ==
  \/ /\ t.at = "download"
     /\ Goes(i, [t EXCEPT !.at = "swap"])
     /\ rt' = [rt EXCEPT !.binary = "none"]
  \/ /\ t.at = "swap"
     /\ Goes(i, [t EXCEPT !.at = IF t.kind = "cli_reinstall" THEN "done" ELSE "model"])
     /\ rt' = [rt EXCEPT !.binary = "piper", !.probe = IF Local(t) THEN "new" ELSE @]

(* download: a verified file is renamed into place, or was there before. *)
download(l, file) == vox' = [vox EXCEPT ![l] = @ \cup {file}]

remove_file(l, file) == vox' = [vox EXCEPT ![l] = @ \ {file}]

Change(i) ==
  LET t == talk[i]
      moves(at) == Goes(i, [t EXCEPT !.at = at])
      same == UNCHANGED <<vox, luck>>
      installs == t.kind \in {"install", "cli_install"}
  IN
  /\ \/ /\ t.at = "change" /\ Enters(i, t)
        /\ rt' = Holds(i, t, rt)
        /\ moves(IF ~installs THEN "unmodel"
                   ELSE IF rt.binary # "none" /\ (~Local(t) \/ rt.probe # "unready") THEN "model" ELSE "download")
        /\ same
     \/ install_runtime(i, t) /\ same
     \/ t.at = "model" /\ moves("config") /\ UNCHANGED <<rt, luck>> /\ download(t.lang, "model")
     \/ t.at = "config" /\ moves(After(t)) /\ UNCHANGED luck
          /\ download(t.lang, "config") /\ rt' = Leaves(i, t, rt)
     \/ t.at = "unmodel" /\ moves("unconfig") /\ UNCHANGED <<rt, luck>> /\ remove_file(t.lang, "model")
     \/ t.at = "unconfig" /\ moves(After(t)) /\ UNCHANGED luck
          /\ remove_file(t.lang, "config") /\ rt' = Leaves(i, t, rt)
     \/ t.at \in {"download", "swap", "model", "config", "unmodel", "unconfig"} /\ Fails(i, t)
  /\ UNCHANGED <<reqs, facts>>

(* notices.send and speech_facts. *)
Publish(i) ==
  /\ talk[i].at = "publish"
  /\ facts' = talk[i].voices
  /\ Goes(i, Done(talk[i], "changed"))
  /\ UNCHANGED <<reqs, vox, rt, luck>>

Init ==
  /\ talk = [i \in 1..MaxSpeechTasks |-> [Task("none", Free, Free) EXCEPT !.at = "none"]]
  /\ reqs = [k \in {} |-> Free]
  /\ vox \in [Languages -> {{}, Pair}]
  /\ rt \in [binary : {"none", "piper"}, probe : {"new"}, mutex : {Free}]
  /\ facts = languages_in(piper_voices, rt.binary = "piper")
  /\ luck = [odds |-> 0, asked |-> {}, early |-> {}, deaf |-> FALSE, overlap |-> FALSE, excused |-> FALSE]

Next ==
  \/ Arrives \/ cancel_speech
  \/ \E i \in 1..MaxSpeechTasks :
       Catalog(i) \/ Probe(i) \/ Synthesize(i) \/ PollChild(i) \/ Answers(i) \/ Change(i) \/ Publish(i)

Spec == Init /\ [][Next]_speechVars

-----------------------------------------------------------------------------
(* Properties *)

TypeOK ==
  /\ Cardinality(DOMAIN reqs) <= MaxInFlight + MaxSpeechTasks
  /\ rt.mutex # Free => IsChange(talk[rt.mutex])
  /\ \A k \in DOMAIN reqs : reqs[k].live => talk[reqs[k].seq].key = k
  /\ facts \subseteq Languages

(* A cancel that is handled before the engine's process has ended silences   *)
(* its request, also when it runs before the request is registered; unless   *)
(* the map was full and the cancel or its tombstone dropped.                 *)
CancelHeeded == ~luck.deaf

(* Once all is done the topology has been told of the languages that can be  *)
(* spoken, unless changes overlapped, one failed, the runtime was slow to    *)
(* start or the voices changed outside the relay.                            *)
FactsFollowVoices ==
  (\A i \in 1..MaxSpeechTasks : talk[i].at \in {"none", "done"}) /\ ~luck.overlap /\ ~luck.excused =>
    facts = languages_in(piper_voices, Probed \in {"new", "ready"})

(* What change_speech_voice's comment says: the fresh facts are pushed after *)
(* a change.  Two changes that overlap may push theirs in the wrong order.   *)
FactsFresh ==
  (\A i \in 1..MaxSpeechTasks : talk[i].at \in {"none", "done"}) /\ ~luck.excused =>
    facts = languages_in(piper_voices, Probed \in {"new", "ready"})
=============================================================================
