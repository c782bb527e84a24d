------------------------------- MODULE Update -------------------------------
(***************************************************************************)
(* The managed update: the checks and installs that phones ask of the       *)
(* relay, the worker process that stages, verifies and installs a release,  *)
(* and the state file the two share.  The relay's tasks take turns by a      *)
(* mutex, the worker has a file lock, and nothing orders the two but what    *)
(* the file says, how old it is, and whether the lock can be had.  A release *)
(* is its version and the transports it declares; an archive is the set of   *)
(* its defects.                                                              *)
(***************************************************************************)
EXTENDS Naturals, FiniteSets

CONSTANTS
  MaxVersion,      \* releases, numbered; the relay starts with the first
  MaxUpdateTasks,  \* bound on check_update and install_update requests
  MaxUpdateOdds    \* bound on failed writes, steps and launches, crashes, bad archives

VARIABLES
  ufile,    \* update-state.json
  um,       \* UpdateManager of the running relay
  umutex,   \* the task that holds it
  utask,    \* requests of phones
  workers,  \* update-worker processes, by the task that launched them
  ulock,    \* the worker that holds update.lock
  host      \* the installed and the published release, bounds, history (lost, wrong)

updateVars == <<ufile, um, umutex, utask, workers, ulock, host>>

Nobody == 0
NoVersion == 0
Ids == 1..MaxUpdateTasks
Slip == host.odds < MaxUpdateOdds
Spent(h) == [h EXCEPT !.odds = @ + 1]

(* History: the record of a worker that is still starting is overwritten, or *)
(* is older than the grace, so that the relay takes it for finished.         *)
Starting(w) == workers[w].at = "starting" \/ utask[w].at = "launch"
Loses(h, by) == [h EXCEPT !.lost = @ \/ \E w \in Ids \ {by} : Starting(w)]

(* UpdateState: started is a non-empty started_at, fresh that it is younger  *)
(* than STARTUP_GRACE.                                                       *)
UpdateState(s, target, avail, can) ==
  [state |-> s, target |-> target, avail |-> avail, can |-> can, started |-> FALSE, fresh |-> FALSE]
NoFile == UpdateState("missing", NoVersion, NoVersion, FALSE)

transient_update_state(s) == s \in {"scheduled", "preparing", "installing", "restarting", "recovering"}
valid_state(s) ==
  transient_update_state(s) \/ s \in {"current", "checking", "available", "blocked", "succeeded", "failed", "rolled_back", "unsupported"}
newer_version(a, b) == a > b

-----------------------------------------------------------------------------
(* What the relay makes of the file *)

Reconcilable(f) == transient_update_state(f.state) \/ (f.state = "failed" /\ f.started)

(* load_state, and the candidate it does not offer again once installed. *)
load_state(f, version) ==
  IF ~valid_state(f.state) THEN UpdateState("checking", NoVersion, NoVersion, FALSE)
  ELSE IF Reconcilable(f) /\ f.target = version THEN [f EXCEPT !.can = FALSE]
  ELSE IF f.state \in {"available", "blocked"} /\ ~newer_version(f.avail, version)
    THEN UpdateState("current", NoVersion, NoVersion, FALSE)
  ELSE f

(* orphan_candidate: an update to the running version has succeeded ...      *)
Arrived(f, version) == Reconcilable(f) /\ f.target = version
Settled(f, version) == IF Arrived(f, version) THEN [f EXCEPT !.state = "succeeded", !.can = FALSE] ELSE f

(* ... and one that started long ago may have lost its worker.               *)
(* Mutation: without the grace for a worker that is starting. *)
orphaned_at_once(f, version) == transient_update_state(f.state) /\ f.target # version
Orphaned(f, version) == transient_update_state(f.state) /\ f.target # version /\ ~f.fresh

finish_orphan(f) == [f EXCEPT !.state = "failed"]

(* from_env, at the first request of a relay: the lock is probed in place. *)
from_env(f, version) ==
  IF Orphaned(f, version) /\ ulock = Nobody THEN finish_orphan(f) ELSE Settled(f, version)

-----------------------------------------------------------------------------
(* Requests *)

Request(kind, asked) == [kind |-> kind, at |-> IF kind = "check" THEN "begin" ELSE "schedule", asked |-> asked, cand |-> NoFile, got |-> NoVersion]
NoRequest == [Request("check", NoVersion) EXCEPT !.at = "none"]
Goes(i, t) == utask' = [utask EXCEPT ![i] = t]
Ends(i) == Goes(i, [utask[i] EXCEPT !.at = "done", !.cand = NoFile, !.got = NoVersion]) /\ umutex' = Nobody

(* A phone confirms a version it was shown, a stale one perhaps. *)
Asks ==
  \E i \in Ids :
    /\ utask[i].at = "none" /\ \A j \in 1..i - 1 : utask[j].at # "none"
    /\ \/ Goes(i, Request("check", NoVersion))
       \/ \E v \in 2..host.upstream : Goes(i, Request("install", v))
    /\ UNCHANGED <<ufile, um, umutex, workers, ulock, host>>

(* The mutex is taken; the manager loads at its first use; a check looks for *)
(* an orphan first.                                                          *)
Enter(i) ==
  LET t == utask[i]
      f == IF um.on THEN ufile ELSE from_env(ufile, um.version)
      looks == t.at \in {"begin", "finish"}
      g == IF looks THEN Settled(f, um.version) ELSE f
  IN
  /\ umutex = Nobody /\ t.at \in {"begin", "finish", "schedule"}
  /\ umutex' = i
  /\ ufile' = g
  /\ um' = IF um.on THEN um ELSE [um EXCEPT !.on = TRUE, !.st = load_state(f, um.version)]
  /\ IF looks /\ Orphaned(f, um.version)
       THEN Goes(i, [t EXCEPT !.at = IF @ = "begin" THEN "probe_begin" ELSE "probe_finish", !.cand = f])
       ELSE Goes(i, [t EXCEPT !.at = CASE @ = "begin" -> "check_begin" [] @ = "finish" -> "check_finish" [] OTHER -> "checked"])
  /\ host' = IF g = ufile THEN host ELSE Loses(host, Nobody)
  /\ UNCHANGED <<workers, ulock>>

(* recover_orphan: flock runs and gives the lock back, then the candidate    *)
(* that was read before is written.                                          *)
lock_acquirable(i) ==
  LET t == utask[i]
      free == ulock = Nobody
  IN
  /\ \/ t.at = "probe_begin" /\ Goes(i, [t EXCEPT !.at = IF free THEN "orphan_begin" ELSE "check_begin"])
     \/ t.at = "probe_finish" /\ Goes(i, [t EXCEPT !.at = IF free THEN "orphan_finish" ELSE "check_finish"])
  /\ UNCHANGED <<ufile, um, umutex, workers, ulock, host>>
recover_orphan(i) ==
  LET t == utask[i] IN
  /\ t.at \in {"orphan_begin", "orphan_finish"}
  /\ ufile' = finish_orphan(t.cand)
  /\ Goes(i, [t EXCEPT !.at = IF @ = "orphan_begin" THEN "check_begin" ELSE "check_finish", !.cand = NoFile])
  /\ UNCHANGED <<um, umutex, workers, ulock, host>>

(* check_begin: an update that runs is only reported. *)
check_begin(i) ==
  LET current == load_state(ufile, um.version)
      st == UpdateState("checking", NoVersion, current.avail, current.can)
  IN
  /\ utask[i].at = "check_begin"
  /\ IF transient_update_state(current.state)
       THEN um' = [um EXCEPT !.st = current] /\ Ends(i) /\ UNCHANGED ufile
       ELSE /\ um' = [um EXCEPT !.st = st] /\ ufile' = st
            /\ Goes(i, [utask[i] EXCEPT !.at = "fetch"]) /\ umutex' = Nobody
  /\ UNCHANGED <<workers, ulock, host>>

(* fetch_release: the published release, by the interface or by the pages;   *)
(* got stays NoVersion when neither gives one.                               *)
fetch_release(i) ==
  /\ utask[i].at = "fetch"
  /\ \/ Goes(i, [utask[i] EXCEPT !.at = "finish", !.got = host.upstream]) /\ UNCHANGED host
     \/ Slip /\ host' = Spent(host) /\ Goes(i, [utask[i] EXCEPT !.at = "finish"])
  /\ UNCHANGED <<ufile, um, umutex, workers, ulock>>

(* A write that fails leaves the file as it was; the check goes on. *)
Writes(st) ==
  \/ ufile' = st /\ UNCHANGED host
  \/ Slip /\ host' = Spent(host) /\ UNCHANGED ufile

(* eligibility: a released build, and an executable Herdr to install with. *)
eligibility == host.eligible

Found(v, version) ==
  IF newer_version(v, version) THEN UpdateState(IF eligibility THEN "available" ELSE "blocked", v, v, eligibility)
    ELSE UpdateState("current", NoVersion, NoVersion, FALSE)

check_finish(i) ==
  LET t == utask[i]
      current == load_state(ufile, um.version)
      st == IF t.got = NoVersion THEN [um.st EXCEPT !.state = "failed", !.can = FALSE] ELSE Found(t.got, um.version)
  IN
  /\ t.at = "check_finish"
  /\ IF transient_update_state(current.state)
       THEN um' = [um EXCEPT !.st = current] /\ UNCHANGED <<ufile, host>>
       ELSE /\ um' = [um EXCEPT !.st = st, !.meta = IF t.got = NoVersion THEN @ ELSE t.got]
            /\ Writes(st)
  /\ Ends(i)
  /\ UNCHANGED <<workers, ulock>>

(* schedule: what the phone confirmed has to be what is offered and what the *)
(* manager has fetched, else it fetches again with the mutex held.           *)
(* Mutation: the fetched release is not compared. *)
fetched_unchecked(asked) == TRUE
Fetched(asked) == um.meta = asked

schedule(i) ==
  LET t == utask[i]
      current == load_state(ufile, um.version)
  IN
  /\ t.at = "checked"
  /\ um' = [um EXCEPT !.st = current]
  /\ IF current.state # "available" \/ ~current.can \/ t.asked # current.avail \/ t.asked # current.target
       THEN Ends(i) /\ UNCHANGED ufile
       ELSE /\ Goes(i, [t EXCEPT !.at = IF Fetched(t.asked) THEN "job" ELSE "refetch"])
            /\ UNCHANGED <<ufile, umutex>>
  /\ UNCHANGED <<workers, ulock, host>>

Refetch(i) ==
  LET t == utask[i] IN
  /\ t.at = "refetch"
  /\ IF host.upstream = t.asked
       THEN um' = [um EXCEPT !.meta = t.asked] /\ Goes(i, [t EXCEPT !.at = "job"]) /\ UNCHANGED umutex
       ELSE Ends(i) /\ UNCHANGED um
  /\ UNCHANGED <<ufile, workers, ulock, host>>

(* The job and the scheduled state are written; without them nothing starts. *)
Scheduled(i) ==
  LET st == [um.st EXCEPT !.state = "scheduled", !.can = FALSE, !.started = TRUE, !.fresh = TRUE] IN
  /\ utask[i].at = "job"
  /\ um' = [um EXCEPT !.st = st]
  /\ \/ ufile' = st /\ Goes(i, [utask[i] EXCEPT !.at = "launch"]) /\ UNCHANGED <<umutex, host>>
     \/ Slip /\ host' = Spent(host) /\ Ends(i) /\ UNCHANGED ufile
  /\ UNCHANGED <<workers, ulock>>

launch_worker(i) ==
  /\ utask[i].at = "launch"
  /\ \/ /\ workers' = [workers EXCEPT ![i] = [at |-> "starting", target |-> um.meta, asked |-> utask[i].asked]]
        /\ UNCHANGED <<ufile, um, host>>
     \/ /\ Slip /\ host' = Spent(host)
        /\ um' = [um EXCEPT !.st.state = "failed"] /\ ufile' = [um.st EXCEPT !.state = "failed"]
        /\ UNCHANGED workers
  /\ Ends(i)
  /\ UNCHANGED ulock

-----------------------------------------------------------------------------
(* The release a worker stages *)

(* The transports a release declares; the first one is older than the field. *)
Transports(v) == CASE v = 1 -> {} [] v = 2 -> {"legacy", "next"} [] OTHER -> {"next"}
transport_capabilities(v) == IF Transports(v) = {} THEN {"legacy"} ELSE Transports(v)
transports_intersect(a, b) == a \cap b # {}

validate_upgrade_compatibility(current, target) ==
  /\ Transports(target) # {}
  /\ transports_intersect(Transports(target), transport_capabilities(current))

Defects == {"checksum", "path", "content", "identity"}
checksum_for_archive(archive) == "checksum" \notin archive
extract_release_archive(archive) == "path" \notin archive
verify(archive) == "content" \notin archive
Identity(archive) == "identity" \notin archive

prepare_target_release(archive, current, target) ==
  /\ checksum_for_archive(archive) /\ extract_release_archive(archive)
  /\ verify(archive) /\ Identity(archive)
  /\ validate_upgrade_compatibility(current, target)

-----------------------------------------------------------------------------
(* The worker *)

NoWorker == [at |-> "none", target |-> NoVersion, asked |-> NoVersion]
State(w, s) == [UpdateState(s, workers[w].target, NoVersion, FALSE) EXCEPT !.started = TRUE, !.fresh = TRUE]
At(w, at) == workers' = [workers EXCEPT ![w].at = at]
Gone(w) ==
  /\ workers' = [workers EXCEPT ![w] = NoWorker]
  /\ ulock' = IF ulock = w THEN Nobody ELSE ulock
fail(w, h) == ufile' = State(w, "failed") /\ Gone(w) /\ host' = Loses(h, w)

(* acquire_lock: a worker that finds another one leaves the file alone. *)
acquire_lock(w) ==
  /\ workers[w].at = "starting"
  /\ \/ ulock # Nobody /\ Gone(w) /\ UNCHANGED <<ufile, host>>
     \/ ulock = Nobody /\ ulock' = w /\ ufile' = State(w, "preparing") /\ At(w, "preparing") /\ UNCHANGED host
     \/ Slip /\ fail(w, Spent(host))
  /\ UNCHANGED <<um, umutex, utask>>

Prepare(w) ==
  /\ workers[w].at = "preparing"
  /\ \E archive \in {{}} \cup (IF Slip THEN {{d} : d \in Defects} ELSE {}) :
       LET h == IF archive = {} THEN host ELSE Spent(host) IN
       IF prepare_target_release(archive, host.installed, workers[w].target)
         THEN /\ ufile' = State(w, "installing") /\ At(w, "installing")
              /\ host' = [h EXCEPT !.wrong = @ \/ archive # {}]
              /\ UNCHANGED ulock
         ELSE fail(w, h)
  /\ UNCHANGED <<um, umutex, utask>>

(* install_plugin runs the installer of the plugin: the release is put in a  *)
(* directory of its own and sealed, older ones are pruned, and the link is   *)
(* swapped.  It may fail or be stopped at each step.                         *)
Stopped(w) == Slip /\ fail(w, Spent(host))

Place(w) ==
  /\ workers[w].at = "installing"
  /\ \/ /\ host' = [host EXCEPT !.dirs = @ \cup {workers[w].target}]
        /\ At(w, "placed") /\ UNCHANGED <<ufile, ulock>>
     \/ Stopped(w)
  /\ UNCHANGED <<um, umutex, utask>>

Kept(w) == {workers[w].target, host.installed}

prune_old_releases(w) ==
  /\ workers[w].at = "placed"
  /\ \/ /\ host' = [host EXCEPT !.dirs = @ \cap Kept(w)]
        /\ At(w, "pruned") /\ UNCHANGED <<ufile, ulock>>
     \/ Stopped(w)
  /\ UNCHANGED <<um, umutex, utask>>

(* activate: refused unless the directory verifies; it may be done when the  *)
(* installer is stopped.                                                     *)
activate(w) ==
  LET h == [host EXCEPT !.installed = workers[w].target, !.wrong = @ \/ workers[w].target # workers[w].asked] IN
  /\ workers[w].at = "pruned"
  /\ \/ workers[w].target \in host.dirs /\ host' = h /\ At(w, "installed") /\ UNCHANGED <<ufile, ulock>>
     \/ Slip /\ fail(w, Spent(h))
     \/ Stopped(w)
  /\ UNCHANGED <<um, umutex, utask>>

(* A write of the worker that fails ends it without a word. *)
Restarting(w) ==
  /\ workers[w].at = "installed"
  /\ \/ ufile' = State(w, "restarting") /\ At(w, "restarting") /\ UNCHANGED <<ulock, host>>
     \/ Slip /\ host' = Spent(host) /\ Gone(w) /\ UNCHANGED ufile
  /\ UNCHANGED <<um, umutex, utask>>

(* verify_health: the relay answers with the release's version in time. *)
verify_health(w) ==
  /\ workers[w].at = "restarting"
  /\ \/ um.version = workers[w].target /\ ufile' = State(w, "succeeded") /\ Gone(w) /\ host' = Loses(host, w)
     \/ Slip /\ fail(w, Spent(host))
  /\ UNCHANGED <<um, umutex, utask>>

-----------------------------------------------------------------------------
(* Outside *)

WorkerDies(w) ==
  /\ workers[w] # NoWorker /\ Slip
  /\ Gone(w) /\ host' = Spent(host)
  /\ UNCHANGED <<ufile, um, umutex, utask>>

(* The relay restarts into what is installed; its requests are gone. *)
RelayStarts(version) == [on |-> FALSE, version |-> version, meta |-> NoVersion, st |-> NoFile]
Restarts ==
  /\ \/ host.installed # um.version /\ UNCHANGED host
     \/ Slip /\ host' = Spent(host)
  /\ um' = RelayStarts(host.installed)
  /\ utask' = [i \in Ids |-> IF utask[i].at = "none" THEN utask[i] ELSE [NoRequest EXCEPT !.at = "done"]]
  /\ umutex' = Nobody
  /\ UNCHANGED <<ufile, workers, ulock>>

Publishes ==
  /\ host.upstream < MaxVersion
  /\ host' = [host EXCEPT !.upstream = @ + 1]
  /\ UNCHANGED <<ufile, um, umutex, utask, workers, ulock>>

(* STARTUP_GRACE passes; late for a worker that is still starting. *)
GraceEnds ==
  /\ ufile.fresh
  /\ ufile' = [ufile EXCEPT !.fresh = FALSE]
  /\ host' = Loses(host, Nobody)
  /\ UNCHANGED <<um, umutex, utask, workers, ulock>>

Init ==
  /\ ufile = NoFile /\ um = RelayStarts(1) /\ umutex = Nobody
  /\ utask = [i \in Ids |-> NoRequest]
  /\ workers = [i \in Ids |-> NoWorker] /\ ulock = Nobody
  /\ host \in [installed : {1}, dirs : {{1}}, eligible : BOOLEAN, upstream : {1}, odds : {0}, lost : {FALSE}, wrong : {FALSE}]

Relay ==
  \/ Asks
  \/ \E i \in Ids :
       \/ Enter(i) \/ lock_acquirable(i) \/ recover_orphan(i)
       \/ check_begin(i) \/ fetch_release(i) \/ check_finish(i)
       \/ schedule(i) \/ Refetch(i) \/ Scheduled(i) \/ launch_worker(i)

Worker ==
  \E w \in Ids :
    \/ acquire_lock(w) \/ Prepare(w)
    \/ Place(w) \/ prune_old_releases(w) \/ activate(w) \/ Restarting(w) \/ verify_health(w)
    \/ WorkerDies(w)

Next == Relay \/ Worker \/ Restarts \/ Publishes \/ GraceEnds

Spec == Init /\ [][Next]_updateVars

-----------------------------------------------------------------------------
TypeOK ==
  /\ ufile = NoFile \/ valid_state(ufile.state)
  /\ umutex \in Ids \cup {Nobody} /\ ulock \in Ids \cup {Nobody}
  /\ um.version \in 1..MaxVersion /\ host.installed \in 1..MaxVersion
  /\ \A w \in Ids : workers[w].at \notin {"none", "starting"} => ulock = w

(* Until its installer has put anything in place, a worker is seen by every  *)
(* check and install of a phone: the file says that an update runs, so that  *)
(* nothing is offered beside it.  Not when its record was lost while it was  *)
(* starting (it took longer than the grace, or an earlier worker's verdict   *)
(* came late), and not when what it installs is installed already: the relay *)
(* that restarts into that release takes the update for done.                *)
WorkerVisible ==
  ulock # Nobody /\ workers[ulock].at \in {"preparing", "installing"} =>
    transient_update_state(ufile.state) \/ host.lost \/ host.installed = workers[ulock].target

(* Only a release that the phone confirmed by its version, and that passed   *)
(* every check, is ever installed, across failed writes, restarts and        *)
(* releases published meanwhile; and wherever the installer stops, the link  *)
(* names a release that is there.                                            *)
InstallIsSound == ~host.wrong /\ host.installed \in host.dirs
=============================================================================
