--------------------------- MODULE ServicesActions_proofs ---------------------------
(***************************************************************************)
(* Proofs about the managed update, as the services run it: only what a      *)
(* phone confirmed and every check passed is installed, the link names a     *)
(* release that is there, and a worker that prepares is seen.                *)
(*                                                                          *)
(* The relay's mutex does not bind the workers, and the workers' lock does   *)
(* not bind the relay.  What ties the two is the file: as long as no record  *)
(* was lost, a worker that starts has a fresh one, one that prepares has one *)
(* that names its target, and no other worker is about, but for one that     *)
(* installs what is installed already.                                       *)
(*                                                                           *)
(* Then about the questions and approvals: the keys of a request are sent    *)
(* once, reach the prompt they were planned for, and what a phone is told of *)
(* them is true.  The ledger has one entry a key, and who acts keeps its     *)
(* entry; a request that read an idle screen under the pane's lock has its   *)
(* keys in front of all others, aimed at what the terminal still shows.      *)
(***************************************************************************)
EXTENDS ServicesActions, Integers, Sequences, FiniteSets, TLAPS

-----------------------------------------------------------------------------
(* Types *)

FileStates ==
  {"missing", "scheduled", "preparing", "installing", "restarting", "recovering", "current", "checking",
   "available", "blocked", "succeeded", "failed", "rolled_back", "unsupported"}
Stations ==
  {"none", "begin", "schedule", "probe_begin", "probe_finish", "orphan_begin", "orphan_finish",
   "check_begin", "check_finish", "fetch", "finish", "checked", "refetch", "job", "launch", "done"}
Phases ==
  {"none", "starting", "preparing", "installing", "placed", "pruned", "installed", "restarting"}

UpdateFiles ==
  [state : FileStates, target : Nat, avail : Nat, can : BOOLEAN, started : BOOLEAN, fresh : BOOLEAN]
Managers == [on : BOOLEAN, version : Nat, meta : Nat, st : UpdateFiles]
Requests == [kind : {"check", "install"}, at : Stations, asked : Nat, cand : UpdateFiles, got : Nat]
Workers == [at : Phases, target : Nat, asked : Nat]
Hosts ==
  [installed : Nat, dirs : SUBSET Nat, eligible : BOOLEAN, upstream : Nat, odds : Nat,
   lost : BOOLEAN, wrong : BOOLEAN]

UpdateTypes ==
  /\ ufile \in UpdateFiles /\ um \in Managers
  /\ umutex \in UPD!Ids \cup {UPD!Nobody} /\ ulock \in UPD!Ids \cup {UPD!Nobody}
  /\ utask \in [UPD!Ids -> Requests]
  /\ workers \in [UPD!Ids -> Workers]
  /\ host \in Hosts

-----------------------------------------------------------------------------
(* The invariant *)

(* A request in one of these places holds the mutex ... *)
Waiting == {"none", "begin", "fetch", "finish", "schedule", "done"}
MutexHeld == \A i \in UPD!Ids : utask[i].at \notin Waiting => umutex = i

(* ... and a worker that has begun the lock. *)
OneHolder == \A w \in UPD!Ids : workers[w].at \notin {"none", "starting"} => ulock = w

Unused == \A i \in UPD!Ids : utask[i].at # "done" => workers[i] = UPD!NoWorker

(* What is launched is what the phone confirmed. *)
Confirmed ==
  \A i \in UPD!Ids :
    /\ utask[i].at \in {"job", "launch"} => um.meta = utask[i].asked
    /\ workers[i].target = workers[i].asked

(* What a worker is about to link is there, and so is what is linked. *)
LinkThere ==
  /\ \A w \in UPD!Ids : workers[w].at \in {"placed", "pruned"} => workers[w].target \in host.dirs
  /\ UPD!InstallIsSound

(* A worker before its link is swapped; one that installs what is installed   *)
(* already may be overlooked.                                                *)
Holding == {"preparing", "installing", "placed", "pruned"}
Young(w) == UPD!Starting(w) \/ workers[w].at \in Holding
Redundant(w) == workers[w].at \in Holding /\ workers[w].target = host.installed

Recorded(y) ==
  /\ UPD!transient_update_state(ufile.state)
  /\ UPD!Starting(y) => ufile.fresh
  /\ workers[y].at # "none" => workers[y].target # um.version \/ workers[y].target = host.installed
  /\ workers[y].at \in Holding => ufile.target = workers[y].target
  /\ \A x \in UPD!Ids : Young(x) /\ x # y => Redundant(x)

Records == host.lost \/ \A y \in UPD!Ids : Young(y) /\ ~Redundant(y) => Recorded(y)

(* What a request found while it holds the mutex, as to the workers.         *)
Probing(i) ==
  /\ utask[i].at \in {"probe_begin", "probe_finish"} => \A w \in UPD!Ids : ~UPD!Starting(w)
  /\ utask[i].at \in {"orphan_begin", "orphan_finish"} =>
       ulock = UPD!Nobody /\ \A w \in UPD!Ids : ~UPD!Starting(w)
  /\ utask[i].at \in {"refetch", "job"} => \A w \in UPD!Ids : Young(w) => Redundant(w)
  /\ utask[i].at \in {"refetch", "job", "launch"} => utask[i].asked # um.version

Probes == host.lost \/ \A i \in UPD!Ids : Probing(i)

UpdateInv ==
  /\ UpdateTypes /\ MutexHeld /\ OneHolder /\ Unused /\ Confirmed /\ LinkThere
  /\ Records /\ Probes

-----------------------------------------------------------------------------
(* Operators *)

LEMMA FileTypes ==
  ASSUME NEW f \in UpdateFiles, NEW version \in Nat
  PROVE  /\ UPD!load_state(f, version) \in UpdateFiles
         /\ UPD!Settled(f, version) \in UpdateFiles
         /\ UPD!finish_orphan(f) \in UpdateFiles
         /\ UPD!from_env(f, version) \in UpdateFiles
<1>2. UPD!Settled(f, version) \in UpdateFiles
  BY DEF UpdateFiles, FileStates, UPD!Settled
<1>3. UPD!finish_orphan(f) \in UpdateFiles
  BY DEF UpdateFiles, FileStates, UPD!finish_orphan
<1>4. UPD!from_env(f, version) \in UpdateFiles
  BY <1>2, <1>3 DEF UPD!from_env
<1>5. UPD!load_state(f, version) \in UpdateFiles
  <2>1. [f EXCEPT !.can = FALSE] \in UpdateFiles
    BY DEF UpdateFiles
  <2>2. /\ UPD!UpdateState("checking", UPD!NoVersion, UPD!NoVersion, FALSE) \in UpdateFiles
        /\ UPD!UpdateState("current", UPD!NoVersion, UPD!NoVersion, FALSE) \in UpdateFiles
    BY DEF UpdateFiles, FileStates, UPD!UpdateState, UPD!NoVersion
  <2> QED BY <2>1, <2>2 DEF UPD!load_state
<1> QED BY <1>2, <1>3, <1>4, <1>5

LEMMA NoFileType == UPD!NoFile \in UpdateFiles
BY DEF UpdateFiles, FileStates, UPD!NoFile, UPD!UpdateState, UPD!NoVersion

LEMMA LosesIs ==
  ASSUME NEW h \in Hosts, NEW by
  PROVE  /\ UPD!Loses(h, by) \in Hosts
         /\ UPD!Loses(h, by).installed = h.installed /\ UPD!Loses(h, by).dirs = h.dirs
         /\ UPD!Loses(h, by).wrong = h.wrong
         /\ ~UPD!Loses(h, by).lost => ~h.lost /\ \A w \in UPD!Ids \ {by} : ~UPD!Starting(w)
BY DEF Hosts, UPD!Loses

LEMMA SpentIs ==
  ASSUME NEW h \in Hosts
  PROVE  /\ UPD!Spent(h) \in Hosts
         /\ UPD!Spent(h).installed = h.installed /\ UPD!Spent(h).dirs = h.dirs
         /\ UPD!Spent(h).wrong = h.wrong /\ UPD!Spent(h).lost = h.lost
BY DEF Hosts, UPD!Spent

LEMMA StateIs ==
  ASSUME UpdateTypes, NEW w \in UPD!Ids, NEW s \in FileStates
  PROVE  /\ UPD!State(w, s) \in UpdateFiles
         /\ UPD!State(w, s).state = s /\ UPD!State(w, s).target = workers[w].target
         /\ UPD!State(w, s).fresh
BY DEF UpdateTypes, UpdateFiles, Workers, UPD!State, UPD!UpdateState, UPD!NoVersion

LEMMA NobodyIsNoId == UPD!Nobody \notin UPD!Ids
BY DEF UPD!Nobody, UPD!Ids

-----------------------------------------------------------------------------
(* Steps of the relay *)

(* A step of request i that leaves the workers and the release alone. *)
LEMMA RequestKeeps ==
  ASSUME UpdateInv, NEW i \in UPD!Ids, UpdateTypes', UNCHANGED <<workers, ulock>>,
         \A j \in UPD!Ids \ {i} : utask'[j] = utask[j],
         utask[i].at # "done", um'.version = um.version,
         host'.installed = host.installed, host'.dirs = host.dirs, host'.wrong = host.wrong
  PROVE  /\ OneHolder' /\ Unused' /\ LinkThere'
         /\ \A w \in UPD!Ids : workers[w].target = workers[w].asked
         /\ \A w \in UPD!Ids \ {i} : (UPD!Starting(w)' <=> UPD!Starting(w)) /\ (Young(w)' <=> Young(w))
         /\ \A w \in UPD!Ids : Redundant(w)' <=> Redundant(w)
         /\ workers[i] = UPD!NoWorker
         /\ utask'[i].at # "launch" => ~UPD!Starting(i)' /\ ~Young(i)'
         /\ utask[i].at # "launch" => ~UPD!Starting(i) /\ ~Young(i)
BY DEF UpdateInv, OneHolder, Unused, LinkThere, UPD!InstallIsSound, UPD!Starting, Young, Redundant,
       Confirmed, UPD!NoWorker, Holding

(* ... and that does not launch either: the records stay if the file does or  *)
(* there is nobody to overlook.                                              *)
LEMMA NothingLost ==
  ASSUME UpdateInv, NEW i \in UPD!Ids, UpdateTypes', UNCHANGED <<workers, ulock>>,
         \A j \in UPD!Ids \ {i} : utask'[j] = utask[j],
         utask[i].at # "done", um'.version = um.version,
         host'.installed = host.installed, host'.dirs = host.dirs, host'.wrong = host.wrong,
         utask[i].at # "launch", utask'[i].at # "launch", host.lost => host'.lost,
         host'.lost \/ ufile' = ufile \/ \A y \in UPD!Ids : Young(y) => Redundant(y),
         host'.lost \/ Probing(i)'
  PROVE  Records' /\ Probes'
<1>1. CASE host'.lost
  BY <1>1 DEF Records, Probes
<1>2. CASE ~host'.lost
  <2>1. /\ \A w \in UPD!Ids : UPD!Starting(w)' <=> UPD!Starting(w)
        /\ \A w \in UPD!Ids : Young(w)' <=> Young(w)
        /\ \A w \in UPD!Ids : Redundant(w)' <=> Redundant(w)
    BY RequestKeeps
  <2>2. \A y \in UPD!Ids : Young(y) /\ ~Redundant(y) => Recorded(y) /\ ufile' = ufile
    BY <1>2 DEF UpdateInv, Records
  <2>3. Records'
    <3> SUFFICES ASSUME NEW y \in UPD!Ids, Young(y)', ~Redundant(y)' PROVE Recorded(y)'
      BY DEF Records
    <3> QED BY <2>1, <2>2 DEF Recorded
  <2>4. \A j \in UPD!Ids \ {i} : Probing(j)'
    <3> SUFFICES ASSUME NEW j \in UPD!Ids \ {i} PROVE Probing(j)'
      OBVIOUS
    <3>1. Probing(j) /\ utask'[j] = utask[j]
      BY <1>2 DEF UpdateInv, Probes
    <3> QED BY <2>1, <3>1 DEF Probing
  <2> QED BY <1>2, <2>3, <2>4 DEF Probes
<1> QED BY <1>1, <1>2

LEMMA GoesIs ==
  ASSUME UpdateTypes, NEW i \in UPD!Ids, NEW r \in Requests, UPD!Goes(i, r)
  PROVE  /\ utask' \in [UPD!Ids -> Requests] /\ utask'[i] = r
         /\ \A j \in UPD!Ids \ {i} : utask'[j] = utask[j]
BY DEF UpdateTypes, UPD!Goes

LEMMA EndsIs ==
  ASSUME UpdateTypes, NEW i \in UPD!Ids, UPD!Ends(i)
  PROVE  /\ utask' \in [UPD!Ids -> Requests] /\ utask'[i].at = "done"
         /\ \A j \in UPD!Ids \ {i} : utask'[j] = utask[j]
         /\ umutex' = UPD!Nobody
<1> DEFINE r == [utask[i] EXCEPT !.at = "done", !.cand = UPD!NoFile, !.got = UPD!NoVersion]
<1>1. r \in Requests /\ r.at = "done"
  BY NoFileType DEF UpdateTypes, Requests, Stations, UPD!NoVersion
<1>2. UPD!Goes(i, r) /\ umutex' = UPD!Nobody
  BY DEF UPD!Ends
<1> HIDE DEF r
<1> QED BY <1>1, <1>2, GoesIs

(* A step of the request that holds the mutex. *)
LEMMA HolderKeeps ==
  ASSUME UpdateInv, NEW i \in UPD!Ids, UNCHANGED workers,
         \A j \in UPD!Ids \ {i} : utask'[j] = utask[j],
         utask[i].at \notin Waiting, utask'[i].at \in Waiting \/ umutex' = i,
         utask'[i].at \in {"job", "launch"} => um'.meta = utask'[i].asked
  PROVE  MutexHeld' /\ Confirmed' /\ utask[i].at # "done"
<1>1. \A j \in UPD!Ids \ {i} : utask[j].at \in Waiting
  BY DEF UpdateInv, MutexHeld
<1>2. MutexHeld'
  BY <1>1 DEF MutexHeld
<1>3. Confirmed'
  BY <1>1 DEF UpdateInv, Confirmed, Waiting
<1> QED BY <1>2, <1>3 DEF Waiting

(* Loading keeps whether an update runs; when none does, every worker that   *)
(* is about installs what is installed.                                      *)
LEMMA LoadTells ==
  ASSUME NEW f \in UpdateFiles, NEW version \in Nat
  PROVE  /\ UPD!transient_update_state(UPD!load_state(f, version).state)
               <=> UPD!transient_update_state(f.state)
         /\ UPD!load_state(f, version).state = "available" =>
               UPD!load_state(f, version) = f /\ f.avail > version
BY DEF UpdateFiles, FileStates, UPD!load_state, UPD!transient_update_state, UPD!valid_state,
       UPD!Reconcilable, UPD!UpdateState, UPD!newer_version

LEMMA NobodyToOverlook ==
  ASSUME UpdateInv, ~host.lost, ~UPD!transient_update_state(ufile.state)
  PROVE  \A y \in UPD!Ids : Young(y) => Redundant(y)
BY DEF UpdateInv, Records, Recorded

LEMMA AsksKeep == UpdateInv /\ UPD!Asks => UpdateInv'
<1> SUFFICES ASSUME UpdateInv, UPD!Asks PROVE UpdateInv'
  OBVIOUS
<1>1. PICK i \in UPD!Ids, kind \in {"check", "install"}, v \in Nat :
        /\ utask[i].at = "none" /\ utask' = [utask EXCEPT ![i] = UPD!Request(kind, v)]
        /\ UNCHANGED <<ufile, um, umutex, workers, ulock, host>>
  <2>1. UPD!NoVersion \in Nat /\ \A v \in 2 .. host.upstream : v \in Nat
    BY DEF UPD!NoVersion, UpdateInv, UpdateTypes, Hosts
  <2> QED BY <2>1 DEF UPD!Asks, UPD!Goes
<1>2. UPD!Request(kind, v) \in Requests /\ UPD!Request(kind, v).at \in {"begin", "schedule"}
  BY NoFileType DEF UPD!Request, Requests, Stations, UPD!NoVersion
<1>3. UpdateTypes' /\ utask'[i].at \in {"begin", "schedule"} /\ \A j \in UPD!Ids \ {i} : utask'[j] = utask[j]
  BY <1>1, <1>2 DEF UpdateInv, UpdateTypes
<1>4. OneHolder' /\ Unused' /\ LinkThere'
  BY <1>1, <1>3, RequestKeeps
<1>5. MutexHeld' /\ Confirmed'
  BY <1>1, <1>3 DEF UpdateInv, MutexHeld, Confirmed, Waiting
<1>6. Probing(i)'
  BY <1>3 DEF Probing
<1>7. Records' /\ Probes'
  BY <1>1, <1>3, <1>6, NothingLost
<1> QED BY <1>3, <1>4, <1>5, <1>7 DEF UpdateInv

LEMMA EnterKeeps ==
  ASSUME UpdateInv, NEW i \in UPD!Ids, UPD!Enter(i)
  PROVE  UpdateInv'
<1> DEFINE t == utask[i]
           f == IF um.on THEN ufile ELSE UPD!from_env(ufile, um.version)
           looks == t.at \in {"begin", "finish"}
           g == IF looks THEN UPD!Settled(f, um.version) ELSE f
           orphan == looks /\ UPD!Orphaned(f, um.version)
<1>1. /\ umutex = UPD!Nobody /\ umutex' = i /\ t.at \in {"begin", "finish", "schedule"}
      /\ ufile' = g /\ UNCHANGED <<workers, ulock>>
      /\ host' = IF g = ufile THEN host ELSE UPD!Loses(host, UPD!Nobody)
      /\ um' = IF um.on THEN um ELSE [um EXCEPT !.on = TRUE, !.st = UPD!load_state(f, um.version)]
  BY DEF UPD!Enter
<1>2. /\ orphan => utask' = [utask EXCEPT ![i] = [t EXCEPT !.at = IF @ = "begin" THEN "probe_begin" ELSE "probe_finish",
                                                           !.cand = f]]
      /\ ~orphan => utask' = [utask EXCEPT ![i] = [t EXCEPT !.at = CASE @ = "begin" -> "check_begin"
                                                                  [] @ = "finish" -> "check_finish"
                                                                  [] OTHER -> "checked"]]
  BY DEF UPD!Enter, UPD!Goes
<1>3. /\ t \in Requests /\ ufile \in UpdateFiles /\ um \in Managers /\ um.version \in Nat
      /\ host \in Hosts /\ utask \in [UPD!Ids -> Requests]
  BY DEF UpdateInv, UpdateTypes, Managers
<1>4. f \in UpdateFiles /\ g \in UpdateFiles
  BY <1>3, FileTypes
<1>5. /\ utask' \in [UPD!Ids -> Requests] /\ \A j \in UPD!Ids \ {i} : utask'[j] = utask[j]
      /\ orphan => utask'[i].at \in {"probe_begin", "probe_finish"}
      /\ ~orphan => utask'[i].at \in {"check_begin", "check_finish", "checked"}
  <2> HIDE DEF f, orphan
  <2>1. CASE orphan
    <3> DEFINE r == [t EXCEPT !.at = IF @ = "begin" THEN "probe_begin" ELSE "probe_finish", !.cand = f]
    <3>1. r \in Requests /\ r.at \in {"probe_begin", "probe_finish"}
      BY <1>3, <1>4 DEF Requests, Stations
    <3>2. utask' = [utask EXCEPT ![i] = r]
      BY <1>2, <2>1
    <3> HIDE DEF r
    <3> QED BY <1>3, <2>1, <3>1, <3>2
  <2>2. CASE ~orphan
    BY <1>1, <1>2, <1>3, <2>2 DEF Requests, Stations
  <2> QED BY <2>1, <2>2
<1>6. um' \in Managers /\ um'.version = um.version /\ um'.meta = um.meta
  <2>1. UPD!load_state(f, um.version) \in UpdateFiles
    BY <1>3, <1>4, FileTypes
  <2> HIDE DEF f
  <2> QED BY <1>1, <1>3, <2>1 DEF Managers
<1>7. /\ host' \in Hosts /\ host'.installed = host.installed /\ host'.dirs = host.dirs /\ host'.wrong = host.wrong
      /\ host.lost => host'.lost
      /\ g # ufile /\ ~host'.lost => \A w \in UPD!Ids : ~UPD!Starting(w)
  <2> HIDE DEF g
  <2> QED BY <1>1, <1>3, LosesIs, NobodyIsNoId
<1>8. UpdateTypes'
  BY <1>1, <1>4, <1>5, <1>6, <1>7 DEF UpdateInv, UpdateTypes
<1>9. OneHolder' /\ Unused' /\ LinkThere'
  BY <1>1, <1>5, <1>6, <1>7, <1>8, RequestKeeps
<1>10. MutexHeld' /\ Confirmed'
  <2>1. \A j \in UPD!Ids : utask[j].at \in Waiting
    BY <1>1, NobodyIsNoId DEF UpdateInv, MutexHeld
  <2>2. MutexHeld'
    BY <1>1, <1>5, <2>1 DEF MutexHeld
  <2>3. Confirmed'
    BY <1>1, <1>5, <1>6, <2>1 DEF UpdateInv, Confirmed, Waiting
  <2> QED BY <2>2, <2>3
<1>11. host'.lost \/ ufile' = ufile \/ \A y \in UPD!Ids : Young(y) => Redundant(y)
  <2> SUFFICES ASSUME ~host'.lost, NEW y \in UPD!Ids, Young(y), ~Redundant(y) PROVE g = ufile
    BY <1>1
  <2>1. SUFFICES ASSUME g # ufile PROVE FALSE
    OBVIOUS
  <2>2. Recorded(y) /\ ~UPD!Starting(y)
    BY <1>7, <2>1 DEF UpdateInv, Records
  <2>3. workers[y].at \in Holding /\ ufile.target = workers[y].target /\ ufile.target # um.version
    BY <2>2 DEF Young, Recorded, Redundant, Holding
  <2>4. ulock = y
    BY <2>3 DEF UpdateInv, OneHolder, Holding
  <2>5. UPD!Settled(ufile, um.version) = ufile
    BY <2>3 DEF UPD!Settled, UPD!Arrived
  <2>6. f = ufile
    BY <2>4, <2>5, NobodyIsNoId DEF UPD!from_env
  <2> QED BY <2>1, <2>5, <2>6
<1>12. host'.lost \/ Probing(i)'
  <2>1. CASE ~orphan
    BY <1>5, <2>1 DEF Probing
  <2>2. CASE orphan
    <3> SUFFICES ASSUME ~host'.lost, NEW w \in UPD!Ids, UPD!Starting(w)' PROVE FALSE
      BY <1>5, <2>2 DEF Probing
    <3>1. f = ufile
      BY <2>2 DEF UPD!Orphaned, UPD!from_env, UPD!finish_orphan, UPD!Settled, UPD!transient_update_state
    <3>2. ~ufile.fresh
      BY <2>2, <3>1 DEF UPD!Orphaned
    <3>3. UPD!Starting(w) /\ w # i
      BY <1>1, <1>5, <1>6, <1>7, <1>8, <2>2, RequestKeeps
    <3>4. Young(w) /\ ~Redundant(w)
      BY <3>3 DEF Young, Redundant, UPD!Starting, UpdateInv, Unused, Holding, UPD!NoWorker
    <3> QED BY <1>7, <3>2, <3>3, <3>4 DEF UpdateInv, Records, Recorded
  <2> QED BY <2>1, <2>2
<1>13. Records' /\ Probes'
  BY <1>1, <1>5, <1>6, <1>7, <1>8, <1>11, <1>12, NothingLost
<1> QED BY <1>8, <1>9, <1>10, <1>13 DEF UpdateInv

LEMMA ProbeKeeps ==
  ASSUME UpdateInv, NEW i \in UPD!Ids, UPD!lock_acquirable(i)
  PROVE  UpdateInv'
<1> DEFINE t == utask[i]
<1>1. PICK at \in {"orphan_begin", "check_begin", "orphan_finish", "check_finish"} :
        /\ t.at \in {"probe_begin", "probe_finish"}
        /\ at \in {"orphan_begin", "orphan_finish"} => ulock = UPD!Nobody
        /\ UPD!Goes(i, [t EXCEPT !.at = at])
        /\ UNCHANGED <<ufile, um, umutex, workers, ulock, host>>
  BY DEF UPD!lock_acquirable
<1>2. [t EXCEPT !.at = at] \in Requests /\ [t EXCEPT !.at = at].at = at
  BY <1>1 DEF UpdateInv, UpdateTypes, Requests, Stations
<1>3. /\ utask' \in [UPD!Ids -> Requests] /\ utask'[i].at = at
      /\ \A j \in UPD!Ids \ {i} : utask'[j] = utask[j]
  BY <1>1, <1>2, GoesIs DEF UpdateInv
<1>4. UpdateTypes'
  BY <1>1, <1>3 DEF UpdateInv, UpdateTypes
<1>5. t.at \notin Waiting /\ umutex' = i
  BY <1>1 DEF UpdateInv, MutexHeld, Waiting
<1>6. MutexHeld' /\ Confirmed' /\ t.at # "done"
  BY <1>1, <1>3, <1>5, HolderKeeps
<1>7. OneHolder' /\ Unused' /\ LinkThere'
  BY <1>1, <1>3, <1>4, <1>6, RequestKeeps
<1>8. host'.lost \/ Probing(i)'
  <2> SUFFICES ASSUME ~host.lost, at \in {"orphan_begin", "orphan_finish"} PROVE Probing(i)'
    BY <1>1, <1>3 DEF Probing
  <2>1. \A w \in UPD!Ids : ~UPD!Starting(w)
    BY <1>1 DEF UpdateInv, Probes, Probing
  <2>2. \A w \in UPD!Ids : ~UPD!Starting(w)'
    BY <1>1, <1>3, <2>1 DEF UPD!Starting
  <2> QED BY <1>1, <1>3, <2>2 DEF Probing
<1>9. Records' /\ Probes'
  BY <1>1, <1>3, <1>4, <1>6, <1>8, NothingLost
<1> QED BY <1>4, <1>6, <1>7, <1>9 DEF UpdateInv

LEMMA OrphanKeeps ==
  ASSUME UpdateInv, NEW i \in UPD!Ids, UPD!recover_orphan(i)
  PROVE  UpdateInv'
<1> DEFINE t == utask[i]
<1>1. PICK at \in {"check_begin", "check_finish"} :
        /\ t.at \in {"orphan_begin", "orphan_finish"} /\ ufile' = UPD!finish_orphan(t.cand)
        /\ UPD!Goes(i, [t EXCEPT !.at = at, !.cand = UPD!NoFile])
        /\ UNCHANGED <<um, umutex, workers, ulock, host>>
  BY DEF UPD!recover_orphan
<1>2. /\ [t EXCEPT !.at = at, !.cand = UPD!NoFile] \in Requests
      /\ [t EXCEPT !.at = at, !.cand = UPD!NoFile].at = at
  BY <1>1, NoFileType DEF UpdateInv, UpdateTypes, Requests, Stations
<1>3. /\ utask' \in [UPD!Ids -> Requests] /\ utask'[i].at = at
      /\ \A j \in UPD!Ids \ {i} : utask'[j] = utask[j]
  BY <1>1, <1>2, GoesIs DEF UpdateInv
<1>4. UpdateTypes'
  <2>1. t.cand \in UpdateFiles
    BY DEF UpdateInv, UpdateTypes, Requests
  <2>2. ufile' \in UpdateFiles
    BY <1>1, <2>1, FileTypes
  <2> QED BY <1>1, <1>3, <2>2 DEF UpdateInv, UpdateTypes
<1>5. t.at \notin Waiting /\ umutex' = i
  BY <1>1 DEF UpdateInv, MutexHeld, Waiting
<1>6. MutexHeld' /\ Confirmed' /\ t.at # "done"
  BY <1>1, <1>3, <1>5, HolderKeeps
<1>7. OneHolder' /\ Unused' /\ LinkThere'
  BY <1>1, <1>3, <1>4, <1>6, RequestKeeps
<1>8. host.lost \/ \A y \in UPD!Ids : ~Young(y)
  <2> SUFFICES ASSUME ~host.lost, NEW y \in UPD!Ids PROVE ~Young(y)
    OBVIOUS
  <2>1. ulock = UPD!Nobody /\ ~UPD!Starting(y)
    BY <1>1 DEF UpdateInv, Probes, Probing
  <2> QED BY <2>1, NobodyIsNoId DEF UpdateInv, OneHolder, Young, Holding
<1>9. Probing(i)'
  BY <1>3 DEF Probing
<1>10. Records' /\ Probes'
  BY <1>1, <1>3, <1>4, <1>6, <1>8, <1>9, NothingLost
<1> QED BY <1>4, <1>6, <1>7, <1>10 DEF UpdateInv

LEMMA CheckBeginKeeps ==
  ASSUME UpdateInv, NEW i \in UPD!Ids, UPD!check_begin(i)
  PROVE  UpdateInv'
<1> DEFINE t == utask[i]
           current == UPD!load_state(ufile, um.version)
           st == UPD!UpdateState("checking", UPD!NoVersion, current.avail, current.can)
           r == [t EXCEPT !.at = "fetch"]
<1>1. /\ t.at = "check_begin" /\ UNCHANGED <<workers, ulock, host>>
      /\ \/ um' = [um EXCEPT !.st = current] /\ UPD!Ends(i) /\ UNCHANGED ufile
         \/ /\ ~UPD!transient_update_state(current.state)
            /\ um' = [um EXCEPT !.st = st] /\ ufile' = st /\ UPD!Goes(i, r) /\ umutex' = UPD!Nobody
  BY DEF UPD!check_begin
<1>2. /\ t \in Requests /\ ufile \in UpdateFiles /\ um \in Managers /\ um.version \in Nat
  BY DEF UpdateInv, UpdateTypes, Managers
<1>3. current \in UpdateFiles
  BY <1>2, FileTypes
<1>4. st \in UpdateFiles
  <2> HIDE DEF current
  <2> QED BY <1>3 DEF UPD!UpdateState, UpdateFiles, FileStates, UPD!NoVersion
<1>5. r \in Requests /\ r.at = "fetch"
  BY <1>2 DEF Requests, Stations
<1>6. ~UPD!transient_update_state(current.state) => ~UPD!transient_update_state(ufile.state)
  BY <1>2, LoadTells
<1> HIDE DEF r, st, current
<1>7. /\ utask' \in [UPD!Ids -> Requests] /\ utask'[i].at \in {"done", "fetch"}
      /\ \A j \in UPD!Ids \ {i} : utask'[j] = utask[j]
      /\ umutex' = UPD!Nobody
  BY <1>1, <1>5, GoesIs, EndsIs DEF UpdateInv
<1>8. um' \in Managers /\ um'.version = um.version /\ ufile' \in UpdateFiles
  BY <1>1, <1>2, <1>3, <1>4 DEF Managers
<1>9. UpdateTypes'
  BY <1>1, <1>7, <1>8 DEF UpdateInv, UpdateTypes
<1>10. MutexHeld' /\ Confirmed' /\ t.at # "done"
  BY <1>1, <1>7, HolderKeeps DEF Waiting
<1>11. OneHolder' /\ Unused' /\ LinkThere'
  BY <1>1, <1>7, <1>8, <1>9, <1>10, RequestKeeps
<1>12. host.lost \/ ufile' = ufile \/ \A y \in UPD!Ids : Young(y) => Redundant(y)
  BY <1>1, <1>6, NobodyToOverlook
<1>13. Probing(i)'
  BY <1>7 DEF Probing
<1>14. Records' /\ Probes'
  BY <1>1, <1>7, <1>8, <1>9, <1>10, <1>12, <1>13, NothingLost
<1> QED BY <1>9, <1>10, <1>11, <1>14 DEF UpdateInv

LEMMA FetchKeeps ==
  ASSUME UpdateInv, NEW i \in UPD!Ids, UPD!fetch_release(i)
  PROVE  UpdateInv'
<1> DEFINE t == utask[i]
<1>1. PICK r \in {[t EXCEPT !.at = "finish", !.got = host.upstream], [t EXCEPT !.at = "finish"]} :
        /\ t.at = "fetch" /\ UPD!Goes(i, r) /\ host' \in {host, UPD!Spent(host)}
        /\ UNCHANGED <<ufile, um, umutex, workers, ulock>>
  BY DEF UPD!fetch_release
<1>2. r \in Requests /\ r.at = "finish"
  BY <1>1 DEF UpdateInv, UpdateTypes, Requests, Stations, Hosts
<1>3. /\ utask' \in [UPD!Ids -> Requests] /\ utask'[i].at = "finish"
      /\ \A j \in UPD!Ids \ {i} : utask'[j] = utask[j]
  BY <1>1, <1>2, GoesIs DEF UpdateInv
<1>4. /\ host' \in Hosts /\ host'.installed = host.installed /\ host'.dirs = host.dirs
      /\ host'.wrong = host.wrong /\ host'.lost = host.lost
  BY <1>1, SpentIs DEF UpdateInv, UpdateTypes
<1>5. UpdateTypes'
  BY <1>1, <1>3, <1>4 DEF UpdateInv, UpdateTypes
<1>6. MutexHeld' /\ Confirmed'
  BY <1>1, <1>3 DEF UpdateInv, MutexHeld, Confirmed, Waiting
<1>7. OneHolder' /\ Unused' /\ LinkThere'
  BY <1>1, <1>3, <1>4, <1>5, RequestKeeps
<1>8. Probing(i)'
  BY <1>3 DEF Probing
<1>9. Records' /\ Probes'
  BY <1>1, <1>3, <1>4, <1>5, <1>8, NothingLost
<1> QED BY <1>5, <1>6, <1>7, <1>9 DEF UpdateInv

LEMMA CheckFinishKeeps ==
  ASSUME UpdateInv, NEW i \in UPD!Ids, UPD!check_finish(i)
  PROVE  UpdateInv'
<1> DEFINE t == utask[i]
           current == UPD!load_state(ufile, um.version)
           st == IF t.got = UPD!NoVersion THEN [um.st EXCEPT !.state = "failed", !.can = FALSE]
                   ELSE UPD!Found(t.got, um.version)
           meta == IF t.got = UPD!NoVersion THEN um.meta ELSE t.got
<1>1. /\ t.at = "check_finish" /\ UPD!Ends(i) /\ UNCHANGED <<workers, ulock>>
      /\ \/ um' = [um EXCEPT !.st = current] /\ UNCHANGED <<ufile, host>>
         \/ /\ ~UPD!transient_update_state(current.state)
            /\ um' = [um EXCEPT !.st = st, !.meta = meta]
            /\ ufile' \in {ufile, st} /\ host' \in {host, UPD!Spent(host)}
  BY DEF UPD!check_finish, UPD!Writes
<1>2. /\ t \in Requests /\ ufile \in UpdateFiles /\ um \in Managers /\ um.version \in Nat
      /\ um.st \in UpdateFiles /\ host \in Hosts /\ t.got \in Nat
  BY DEF UpdateInv, UpdateTypes, Managers, Requests
<1>3. current \in UpdateFiles
  BY <1>2, FileTypes
<1>4. st \in UpdateFiles /\ meta \in Nat
  <2>1. [um.st EXCEPT !.state = "failed", !.can = FALSE] \in UpdateFiles
    BY <1>2 DEF UpdateFiles, FileStates
  <2>2. UPD!Found(t.got, um.version) \in UpdateFiles
    BY <1>2 DEF UPD!Found, UPD!UpdateState, UpdateFiles, FileStates, UPD!NoVersion, UPD!eligibility, Hosts
  <2>3. meta \in Nat
    BY <1>2 DEF Managers
  <2> QED BY <2>1, <2>2, <2>3
<1>5. ~UPD!transient_update_state(current.state) => ~UPD!transient_update_state(ufile.state)
  BY <1>2, LoadTells
<1> HIDE DEF st, current, meta
<1>6. /\ utask' \in [UPD!Ids -> Requests] /\ utask'[i].at = "done"
      /\ \A j \in UPD!Ids \ {i} : utask'[j] = utask[j]
      /\ umutex' = UPD!Nobody
  BY <1>1, EndsIs DEF UpdateInv
<1>7. um' \in Managers /\ um'.version = um.version /\ ufile' \in UpdateFiles
  BY <1>1, <1>2, <1>3, <1>4 DEF Managers
<1>8. /\ host' \in Hosts /\ host'.installed = host.installed /\ host'.dirs = host.dirs
      /\ host'.wrong = host.wrong /\ host'.lost = host.lost
  BY <1>1, <1>2, SpentIs
<1>9. UpdateTypes'
  BY <1>1, <1>6, <1>7, <1>8 DEF UpdateInv, UpdateTypes
<1>10. MutexHeld' /\ Confirmed' /\ t.at # "done"
  BY <1>1, <1>6, HolderKeeps DEF Waiting
<1>11. OneHolder' /\ Unused' /\ LinkThere'
  BY <1>1, <1>6, <1>7, <1>8, <1>9, <1>10, RequestKeeps
<1>12. host'.lost \/ ufile' = ufile \/ \A y \in UPD!Ids : Young(y) => Redundant(y)
  BY <1>1, <1>5, <1>8, NobodyToOverlook
<1>13. Probing(i)'
  BY <1>6 DEF Probing
<1>14. Records' /\ Probes'
  BY <1>1, <1>6, <1>7, <1>8, <1>9, <1>10, <1>12, <1>13, NothingLost
<1> QED BY <1>9, <1>10, <1>11, <1>14 DEF UpdateInv

LEMMA ScheduleKeeps ==
  ASSUME UpdateInv, NEW i \in UPD!Ids, UPD!schedule(i)
  PROVE  UpdateInv'
<1> DEFINE t == utask[i]
           current == UPD!load_state(ufile, um.version)
           r == [t EXCEPT !.at = IF UPD!Fetched(t.asked) THEN "job" ELSE "refetch"]
           goes == /\ current.state = "available" /\ t.asked = current.avail
                   /\ UPD!Goes(i, r) /\ UNCHANGED umutex
<1>1. /\ t.at = "checked" /\ um' = [um EXCEPT !.st = current]
      /\ UNCHANGED <<ufile, workers, ulock, host>>
      /\ UPD!Ends(i) \/ goes
  BY DEF UPD!schedule
<1>2. /\ t \in Requests /\ ufile \in UpdateFiles /\ um \in Managers /\ um.version \in Nat
      /\ umutex = i
  BY <1>1 DEF UpdateInv, UpdateTypes, Managers, MutexHeld, Waiting
<1>3. current \in UpdateFiles
  BY <1>2, FileTypes
<1>4. /\ r \in Requests /\ r.asked = t.asked /\ r.at \in {"job", "refetch"}
      /\ r.at = "job" => um.meta = t.asked
  BY <1>2 DEF Requests, Stations, UPD!Fetched
<1>5. current.state = "available" => current = ufile /\ ufile.avail > um.version
  BY <1>2, LoadTells
<1> HIDE DEF r, current
<1>6. /\ utask' \in [UPD!Ids -> Requests]
      /\ \A j \in UPD!Ids \ {i} : utask'[j] = utask[j]
      /\ \/ utask'[i].at = "done" /\ umutex' = UPD!Nobody
         \/ goes /\ utask'[i] = r /\ umutex' = i
  BY <1>1, <1>2, <1>4, GoesIs, EndsIs DEF UpdateInv
<1>7. um' \in Managers /\ um'.version = um.version /\ um'.meta = um.meta
  BY <1>1, <1>2, <1>3 DEF Managers
<1>8. UpdateTypes'
  BY <1>1, <1>6, <1>7 DEF UpdateInv, UpdateTypes
<1>9. MutexHeld' /\ Confirmed' /\ t.at # "done"
  BY <1>1, <1>4, <1>6, <1>7, HolderKeeps DEF Waiting
<1>10. OneHolder' /\ Unused' /\ LinkThere'
  BY <1>1, <1>6, <1>7, <1>8, <1>9, RequestKeeps
<1>11. host'.lost \/ Probing(i)'
  <2>1. CASE utask'[i].at = "done"
    BY <2>1 DEF Probing
  <2>2. CASE goes /\ utask'[i] = r
    <3> SUFFICES ASSUME ~host.lost PROVE Probing(i)'
      BY <1>1
    <3>1. ~UPD!transient_update_state(ufile.state)
      BY <1>5, <2>2 DEF UPD!transient_update_state
    <3>2. \A y \in UPD!Ids : Young(y) => Redundant(y)
      BY <3>1, NobodyToOverlook
    <3>3. \A y \in UPD!Ids : Young(y)' => Redundant(y)'
      BY <1>1, <1>4, <1>6, <1>7, <1>8, <1>9, <2>2, <3>2, RequestKeeps
    <3>4. utask'[i].asked # um'.version
      BY <1>2, <1>4, <1>5, <1>7, <2>2 DEF UpdateFiles
    <3> QED BY <1>4, <2>2, <3>3, <3>4 DEF Probing
  <2> QED BY <1>6, <2>1, <2>2
<1>12. Records' /\ Probes'
  <2>1. utask'[i].at # "launch"
    BY <1>4, <1>6
  <2> QED BY <1>1, <1>6, <1>7, <1>8, <1>9, <1>11, <2>1, NothingLost
<1> QED BY <1>8, <1>9, <1>10, <1>12 DEF UpdateInv

LEMMA RefetchKeeps ==
  ASSUME UpdateInv, NEW i \in UPD!Ids, UPD!Refetch(i)
  PROVE  UpdateInv'
<1> DEFINE t == utask[i]
           r == [t EXCEPT !.at = "job"]
           goes == um' = [um EXCEPT !.meta = t.asked] /\ UPD!Goes(i, r) /\ UNCHANGED umutex
<1>1. /\ t.at = "refetch" /\ UNCHANGED <<ufile, workers, ulock, host>>
      /\ goes \/ (UPD!Ends(i) /\ UNCHANGED um)
  BY DEF UPD!Refetch
<1>2. t \in Requests /\ um \in Managers /\ umutex = i /\ t.asked \in Nat
  BY <1>1 DEF UpdateInv, UpdateTypes, Requests, MutexHeld, Waiting
<1>3. r \in Requests /\ r.asked = t.asked /\ r.at = "job"
  BY <1>2 DEF Requests, Stations
<1> HIDE DEF r
<1>4. /\ utask' \in [UPD!Ids -> Requests]
      /\ \A j \in UPD!Ids \ {i} : utask'[j] = utask[j]
      /\ \/ utask'[i].at = "done" /\ umutex' = UPD!Nobody
         \/ goes /\ utask'[i] = r /\ umutex' = i
  BY <1>1, <1>2, <1>3, GoesIs, EndsIs DEF UpdateInv
<1>5. um' \in Managers /\ um'.version = um.version /\ (goes => um'.meta = t.asked)
  BY <1>1, <1>2 DEF Managers
<1>6. UpdateTypes'
  BY <1>1, <1>4, <1>5 DEF UpdateInv, UpdateTypes
<1>7. MutexHeld' /\ Confirmed' /\ t.at # "done"
  BY <1>1, <1>3, <1>4, <1>5, HolderKeeps DEF Waiting
<1>8. OneHolder' /\ Unused' /\ LinkThere'
  BY <1>1, <1>4, <1>5, <1>6, <1>7, RequestKeeps
<1>9. utask'[i].at # "launch"
  BY <1>3, <1>4
<1>10. host'.lost \/ Probing(i)'
  <2>1. CASE utask'[i].at = "done"
    BY <2>1 DEF Probing
  <2>2. CASE goes /\ utask'[i] = r
    <3> SUFFICES ASSUME ~host.lost PROVE Probing(i)'
      BY <1>1
    <3>1. Probing(i)
      BY DEF UpdateInv, Probes
    <3>2. \A y \in UPD!Ids : Young(y)' => Redundant(y)'
      BY <1>1, <1>4, <1>5, <1>6, <1>7, <1>9, <3>1, RequestKeeps DEF Probing
    <3> QED BY <1>1, <1>3, <1>5, <2>2, <3>1, <3>2 DEF Probing
  <2> QED BY <1>4, <2>1, <2>2
<1>11. Records' /\ Probes'
  BY <1>1, <1>4, <1>5, <1>6, <1>7, <1>9, <1>10, NothingLost
<1> QED BY <1>6, <1>7, <1>8, <1>11 DEF UpdateInv

LEMMA ScheduledKeeps ==
  ASSUME UpdateInv, NEW i \in UPD!Ids, UPD!Scheduled(i)
  PROVE  UpdateInv'
<1> DEFINE t == utask[i]
           st == [um.st EXCEPT !.state = "scheduled", !.can = FALSE, !.started = TRUE, !.fresh = TRUE]
           r == [t EXCEPT !.at = "launch"]
           goes == ufile' = st /\ UPD!Goes(i, r) /\ UNCHANGED <<umutex, host>>
<1>1. /\ t.at = "job" /\ um' = [um EXCEPT !.st = st] /\ UNCHANGED <<workers, ulock>>
      /\ goes \/ (UPD!Ends(i) /\ ufile' = ufile /\ host' = UPD!Spent(host))
  BY DEF UPD!Scheduled
<1>2. /\ t \in Requests /\ um \in Managers /\ umutex = i /\ um.st \in UpdateFiles
      /\ ufile \in UpdateFiles /\ host \in Hosts /\ um.meta = t.asked
  BY <1>1 DEF UpdateInv, UpdateTypes, Managers, MutexHeld, Waiting, Confirmed
<1>3. r \in Requests /\ r.asked = t.asked /\ r.at = "launch"
  BY <1>2 DEF Requests, Stations
<1>4. st \in UpdateFiles /\ UPD!transient_update_state(st.state) /\ st.fresh
  BY <1>2 DEF UpdateFiles, FileStates, UPD!transient_update_state
<1> HIDE DEF r, st
<1>5. /\ utask' \in [UPD!Ids -> Requests]
      /\ \A j \in UPD!Ids \ {i} : utask'[j] = utask[j]
      /\ \/ goes /\ utask'[i] = r /\ umutex' = i
         \/ utask'[i].at = "done" /\ umutex' = UPD!Nobody /\ ufile' = ufile
  BY <1>1, <1>2, <1>3, GoesIs, EndsIs DEF UpdateInv
<1>6. um' \in Managers /\ um'.version = um.version /\ um'.meta = um.meta
  BY <1>1, <1>2, <1>4 DEF Managers
<1>7. /\ host' \in Hosts /\ host'.installed = host.installed /\ host'.dirs = host.dirs
      /\ host'.wrong = host.wrong /\ host'.lost = host.lost
  BY <1>1, <1>2, SpentIs
<1>8. UpdateTypes'
  BY <1>1, <1>2, <1>4, <1>5, <1>6, <1>7 DEF UpdateInv, UpdateTypes
<1>9. MutexHeld' /\ Confirmed' /\ t.at # "done"
  BY <1>1, <1>2, <1>3, <1>5, <1>6, HolderKeeps DEF Waiting
<1>10. OneHolder' /\ Unused' /\ LinkThere'
  BY <1>1, <1>5, <1>6, <1>7, <1>8, <1>9, RequestKeeps
<1>11. CASE utask'[i].at = "done" /\ ufile' = ufile
  <2>1. Probing(i)'
    BY <1>11 DEF Probing
  <2>2. Records' /\ Probes'
    BY <1>1, <1>5, <1>6, <1>7, <1>8, <1>9, <1>11, <2>1, NothingLost
  <2> QED BY <1>8, <1>9, <1>10, <2>2 DEF UpdateInv
<1>12. CASE goes /\ utask'[i] = r
  <2>1. \A j \in UPD!Ids \ {i} : utask[j].at \in Waiting
    BY <1>1 DEF UpdateInv, MutexHeld, Waiting
  <2>2. host.lost \/ (Probing(i) /\ \A y \in UPD!Ids : Young(y) => Redundant(y))
    BY <1>1 DEF UpdateInv, Probes, Probing
  <2>3. /\ \A w \in UPD!Ids \ {i} : Young(w)' <=> Young(w)
        /\ \A w \in UPD!Ids : Redundant(w)' <=> Redundant(w)
        /\ workers[i] = UPD!NoWorker
    BY <1>1, <1>5, <1>6, <1>7, <1>8, <1>9, RequestKeeps
  <2>4. Records'
    <3> SUFFICES ASSUME ~host'.lost, NEW y \in UPD!Ids, Young(y)', ~Redundant(y)' PROVE Recorded(y)'
      BY DEF Records
    <3>1. y = i /\ \A x \in UPD!Ids : Young(x)' /\ x # y => Redundant(x)'
      BY <1>7, <2>2, <2>3
    <3>2. workers'[i].at = "none"
      BY <1>1, <2>3 DEF UPD!NoWorker
    <3> QED BY <1>4, <1>12, <3>1, <3>2 DEF Recorded, Holding
  <2>5. Probes'
    <3> SUFFICES ASSUME ~host'.lost, NEW j \in UPD!Ids PROVE Probing(j)'
      BY DEF Probes
    <3>1. CASE j # i
      BY <1>5, <2>1, <3>1 DEF Probing, Waiting
    <3>2. CASE j = i
      BY <1>1, <1>3, <1>6, <1>7, <1>12, <2>2, <3>2 DEF Probing
    <3> QED BY <3>1, <3>2
  <2> QED BY <1>8, <1>9, <1>10, <2>4, <2>5 DEF UpdateInv
<1> QED BY <1>5, <1>11, <1>12

LEMMA LaunchKeeps ==
  ASSUME UpdateInv, NEW i \in UPD!Ids, UPD!launch_worker(i)
  PROVE  UpdateInv'
<1> DEFINE t == utask[i]
           k == [at |-> "starting", target |-> um.meta, asked |-> t.asked]
           st == [um.st EXCEPT !.state = "failed"]
           starts == workers' = [workers EXCEPT ![i] = k] /\ UNCHANGED <<ufile, um, host>>
           fails == /\ um' = [um EXCEPT !.st.state = "failed"] /\ ufile' = st
                    /\ host' = UPD!Spent(host) /\ UNCHANGED workers
<1>1. t.at = "launch" /\ UPD!Ends(i) /\ UNCHANGED ulock /\ (starts \/ fails)
  BY DEF UPD!launch_worker
<1>2. /\ um \in Managers /\ um.st \in UpdateFiles /\ host \in Hosts /\ um.meta = t.asked
      /\ workers \in [UPD!Ids -> Workers] /\ t.asked \in Nat /\ workers[i] = UPD!NoWorker
  BY <1>1 DEF UpdateInv, UpdateTypes, Managers, Confirmed, Requests, Unused
<1>3. k \in Workers /\ k.at = "starting" /\ k.target = t.asked /\ k.asked = t.asked
  BY <1>2 DEF Workers, Phases
<1>4. st \in UpdateFiles
  BY <1>2 DEF UpdateFiles, FileStates
<1>5. /\ utask' \in [UPD!Ids -> Requests] /\ utask'[i].at = "done"
      /\ \A j \in UPD!Ids \ {i} : utask'[j] = utask[j]
      /\ umutex' = UPD!Nobody
  BY <1>1, EndsIs DEF UpdateInv
<1>6. \A j \in UPD!Ids : utask'[j].at \in Waiting
  BY <1>1, <1>5 DEF UpdateInv, MutexHeld, Waiting
<1>7. MutexHeld' /\ Probes'
  BY <1>6 DEF MutexHeld, Probes, Probing, Waiting
<1>8. host.lost \/ \A y \in UPD!Ids \ {i} : Young(y) => Redundant(y)
  <2>1. UPD!Starting(i) /\ Young(i) /\ ~Redundant(i)
    BY <1>1, <1>2 DEF UPD!Starting, Young, Redundant, Holding, UPD!NoWorker
  <2> QED BY <2>1 DEF UpdateInv, Records, Recorded
<1> HIDE DEF k, st
<1>9. CASE starts
  <2>1. workers' \in [UPD!Ids -> Workers] /\ workers'[i] = k /\ \A j \in UPD!Ids \ {i} : workers'[j] = workers[j]
    BY <1>2, <1>3, <1>9
  <2>2. UpdateTypes'
    BY <1>1, <1>5, <1>9, <2>1 DEF UpdateInv, UpdateTypes
  <2>3. OneHolder' /\ Unused' /\ LinkThere' /\ Confirmed'
    BY <1>1, <1>3, <1>5, <1>6, <1>9, <2>1 DEF UpdateInv, OneHolder, Unused, LinkThere, UPD!InstallIsSound, Confirmed, Waiting
  <2>4. Records'
    <3> SUFFICES ASSUME ~host.lost, NEW y \in UPD!Ids, Young(y)', ~Redundant(y)' PROVE Recorded(y)'
      BY <1>9 DEF Records
    <3>1. \A x \in UPD!Ids \ {i} : (Young(x)' <=> Young(x)) /\ (Redundant(x)' <=> Redundant(x))
      BY <1>5, <1>9, <2>1 DEF Young, Redundant, UPD!Starting
    <3>2. y = i /\ \A x \in UPD!Ids : Young(x)' /\ x # y => Redundant(x)'
      BY <1>8, <3>1
    <3>3. Recorded(i)
      <4>1. UPD!Starting(i) /\ Young(i) /\ ~Redundant(i)
        BY <1>1, <1>2 DEF UPD!Starting, Young, Redundant, Holding, UPD!NoWorker
      <4> QED BY <4>1 DEF UpdateInv, Records
    <3>4. UPD!transient_update_state(ufile.state) /\ ufile.fresh
      BY <1>1, <3>3 DEF Recorded, UPD!Starting
    <3>5. t.asked # um.version
      BY <1>1 DEF UpdateInv, Probes, Probing
    <3> QED BY <1>3, <1>9, <2>1, <3>2, <3>4, <3>5 DEF Recorded, Holding
  <2> QED BY <1>7, <2>2, <2>3, <2>4 DEF UpdateInv
<1>10. CASE fails
  <2>1. um' \in Managers
    BY <1>2, <1>10 DEF Managers, UpdateFiles, FileStates
  <2>2. /\ host' \in Hosts /\ host'.installed = host.installed /\ host'.dirs = host.dirs
        /\ host'.wrong = host.wrong /\ host'.lost = host.lost
    BY <1>2, <1>10, SpentIs
  <2>3. UpdateTypes'
    BY <1>1, <1>4, <1>5, <1>10, <2>1, <2>2 DEF UpdateInv, UpdateTypes
  <2>4. OneHolder' /\ Unused' /\ LinkThere' /\ Confirmed'
    BY <1>1, <1>2, <1>5, <1>6, <1>10, <2>2 DEF UpdateInv, OneHolder, Unused, LinkThere, UPD!InstallIsSound, Confirmed, Waiting
  <2>5. Records'
    <3> SUFFICES ASSUME ~host'.lost, NEW y \in UPD!Ids, Young(y)', ~Redundant(y)' PROVE FALSE
      BY DEF Records
    <3>1. y # i
      BY <1>2, <1>5, <1>10 DEF Young, UPD!Starting, Holding, UPD!NoWorker
    <3>2. Young(y) /\ ~Redundant(y)
      BY <1>5, <1>10, <2>2, <3>1 DEF Young, Redundant, UPD!Starting
    <3> QED BY <1>8, <2>2, <3>1, <3>2
  <2> QED BY <1>7, <2>3, <2>4, <2>5 DEF UpdateInv
<1> QED BY <1>1, <1>9, <1>10

-----------------------------------------------------------------------------
(* Steps of a worker *)

LEMMA AtIs ==
  ASSUME UpdateTypes, NEW w \in UPD!Ids, NEW at \in Phases, UPD!At(w, at)
  PROVE  /\ workers' \in [UPD!Ids -> Workers] /\ workers'[w].at = at
         /\ workers'[w].target = workers[w].target /\ workers'[w].asked = workers[w].asked
         /\ \A j \in UPD!Ids \ {w} : workers'[j] = workers[j]
BY DEF UpdateTypes, UPD!At, Workers

LEMMA GoneIs ==
  ASSUME UpdateTypes, NEW w \in UPD!Ids, UPD!Gone(w)
  PROVE  /\ workers' \in [UPD!Ids -> Workers] /\ workers'[w] = UPD!NoWorker
         /\ \A j \in UPD!Ids \ {w} : workers'[j] = workers[j]
         /\ ulock' \in UPD!Ids \cup {UPD!Nobody}
         /\ ulock = UPD!Nobody => ulock' = UPD!Nobody
         /\ ulock # w => ulock' = ulock
BY DEF UpdateTypes, UPD!Gone, UPD!NoWorker, UPD!NoVersion, Workers, Phases

(* A worker ends: nobody gets younger, and the others keep what they have. *)
LEMMA GoneLeaves ==
  ASSUME UpdateInv, NEW w \in UPD!Ids, workers[w] # UPD!NoWorker, UPD!Gone(w),
         UNCHANGED <<um, umutex, utask>>
  PROVE  /\ MutexHeld' /\ OneHolder' /\ Unused' /\ Confirmed'
         /\ \A j \in UPD!Ids \ {w} : workers'[j] = workers[j]
         /\ ~Young(w)' /\ ~UPD!Starting(w)'
         /\ \A j \in UPD!Ids \ {w} : (UPD!Starting(j)' <=> UPD!Starting(j)) /\ (Young(j)' <=> Young(j))
         /\ ulock = UPD!Nobody => ulock' = UPD!Nobody
<1>1. /\ workers'[w] = UPD!NoWorker /\ \A j \in UPD!Ids \ {w} : workers'[j] = workers[j]
      /\ ulock = UPD!Nobody => ulock' = UPD!Nobody
      /\ ulock # w => ulock' = ulock
  BY GoneIs DEF UpdateInv
<1>2. utask[w].at = "done"
  BY DEF UpdateInv, Unused, UPD!NoWorker
<1>3. MutexHeld' /\ Unused' /\ Confirmed'
  BY <1>1 DEF UpdateInv, MutexHeld, Unused, Confirmed, UPD!NoWorker
<1>4. OneHolder'
  BY <1>1 DEF UpdateInv, OneHolder, UPD!NoWorker
<1>5. ~Young(w)' /\ ~UPD!Starting(w)'
  BY <1>1, <1>2 DEF Young, UPD!Starting, Holding, UPD!NoWorker
<1>6. \A j \in UPD!Ids \ {w} : (UPD!Starting(j)' <=> UPD!Starting(j)) /\ (Young(j)' <=> Young(j))
  BY <1>1 DEF Young, UPD!Starting
<1> QED BY <1>1, <1>3, <1>4, <1>5, <1>6

(* It ends without a word ... *)
LEMMA SilentEndKeeps ==
  ASSUME UpdateInv, NEW w \in UPD!Ids, workers[w] # UPD!NoWorker, UPD!Gone(w),
         UNCHANGED <<ufile, um, umutex, utask>>, host' \in {host, UPD!Spent(host)}
  PROVE  UpdateInv'
<1>1. /\ host' \in Hosts /\ host'.installed = host.installed /\ host'.dirs = host.dirs
      /\ host'.wrong = host.wrong /\ host'.lost = host.lost
  BY SpentIs DEF UpdateInv, UpdateTypes
<1>2. UpdateTypes'
  BY <1>1, GoneIs DEF UpdateInv, UpdateTypes
<1>3. /\ MutexHeld' /\ OneHolder' /\ Unused' /\ Confirmed'
      /\ \A j \in UPD!Ids \ {w} : workers'[j] = workers[j]
      /\ ~Young(w)' /\ ~UPD!Starting(w)'
      /\ \A j \in UPD!Ids \ {w} : (UPD!Starting(j)' <=> UPD!Starting(j)) /\ (Young(j)' <=> Young(j))
      /\ ulock = UPD!Nobody => ulock' = UPD!Nobody
  BY GoneLeaves
<1>4. workers'[w] = UPD!NoWorker
  BY GoneIs DEF UpdateInv
<1>5. LinkThere'
  BY <1>1, <1>3, <1>4 DEF UpdateInv, LinkThere, UPD!InstallIsSound, UPD!NoWorker
<1>6. \A j \in UPD!Ids \ {w} : Redundant(j)' <=> Redundant(j)
  BY <1>1, <1>3 DEF Redundant
<1>7. Records'
  <2> SUFFICES ASSUME ~host'.lost, NEW y \in UPD!Ids, Young(y)', ~Redundant(y)' PROVE Recorded(y)'
    BY DEF Records
  <2>1. y # w /\ Young(y) /\ ~Redundant(y)
    BY <1>3, <1>6
  <2>2. Recorded(y)
    BY <1>1, <2>1 DEF UpdateInv, Records
  <2> QED BY <1>1, <1>3, <1>6, <2>1, <2>2 DEF Recorded
<1>8. Probes'
  <2> SUFFICES ASSUME ~host'.lost, NEW i \in UPD!Ids PROVE Probing(i)'
    BY DEF Probes
  <2>1. Probing(i)
    BY <1>1 DEF UpdateInv, Probes
  <2> QED BY <1>3, <1>6, <2>1 DEF Probing
<1> QED BY <1>2, <1>3, <1>5, <1>7, <1>8 DEF UpdateInv

(* ... or with a verdict; what it may have linked is what it was told to.    *)
LEMMA VerdictKeeps ==
  ASSUME UpdateInv, NEW w \in UPD!Ids, workers[w].at # "none", UPD!Gone(w),
         UNCHANGED <<um, umutex, utask>>, ufile' \in UpdateFiles,
         NEW h \in Hosts, h.lost = host.lost, h.dirs = host.dirs, ~h.wrong, h.installed \in h.dirs,
         h.installed = host.installed \/ workers[w].at # "starting",
         host' = UPD!Loses(h, w)
  PROVE  UpdateInv'
<1>1. /\ host' \in Hosts /\ host'.installed = h.installed /\ host'.dirs = host.dirs
      /\ ~host'.wrong /\ (host.lost => host'.lost)
      /\ ~host'.lost => \A x \in UPD!Ids \ {w} : ~UPD!Starting(x)
  BY LosesIs
<1>2. UpdateTypes'
  BY <1>1, GoneIs DEF UpdateInv, UpdateTypes
<1>3. /\ MutexHeld' /\ OneHolder' /\ Unused' /\ Confirmed'
      /\ \A j \in UPD!Ids \ {w} : workers'[j] = workers[j]
      /\ ~Young(w)' /\ ~UPD!Starting(w)'
      /\ \A j \in UPD!Ids \ {w} : (UPD!Starting(j)' <=> UPD!Starting(j)) /\ (Young(j)' <=> Young(j))
      /\ ulock = UPD!Nobody => ulock' = UPD!Nobody
  BY GoneLeaves DEF UPD!NoWorker
<1>4. workers'[w] = UPD!NoWorker
  BY GoneIs DEF UpdateInv
<1>5. LinkThere'
  BY <1>1, <1>3, <1>4 DEF UpdateInv, LinkThere, UPD!InstallIsSound, UPD!NoWorker
<1>6. \A y \in UPD!Ids : ~host'.lost /\ Young(y)' => y # w /\ Young(y) /\ Redundant(y) /\ Redundant(y)'
  <2> SUFFICES ASSUME ~host'.lost, NEW y \in UPD!Ids, Young(y)'
               PROVE  y # w /\ Young(y) /\ Redundant(y) /\ Redundant(y)'
    OBVIOUS
  <2>1. y # w /\ Young(y) /\ workers[y].at \in Holding
    BY <1>1, <1>3 DEF Young
  <2>2. workers[w].at = "starting"
    BY <2>1 DEF UpdateInv, OneHolder, Holding
  <2>3. Young(w) /\ ~Redundant(w)
    BY <2>2 DEF Young, Redundant, UPD!Starting, Holding
  <2>4. Recorded(w)
    BY <1>1, <2>3 DEF UpdateInv, Records
  <2>5. Redundant(y)
    BY <2>1, <2>4 DEF Recorded
  <2>6. Redundant(y)'
    BY <1>1, <1>3, <2>1, <2>2, <2>5 DEF Redundant
  <2> QED BY <2>1, <2>5, <2>6
<1>7. Records'
  BY <1>6 DEF Records
<1>8. Probes'
  <2> SUFFICES ASSUME ~host'.lost, NEW i \in UPD!Ids PROVE Probing(i)'
    BY DEF Probes
  <2>1. Probing(i)
    BY <1>1 DEF UpdateInv, Probes
  <2> QED BY <1>3, <1>6, <2>1 DEF Probing
<1> QED BY <1>2, <1>3, <1>5, <1>7, <1>8 DEF UpdateInv

(* The installer, or a step of the worker, fails. *)
LEMMA FailKeeps ==
  ASSUME UpdateInv, NEW w \in UPD!Ids, workers[w].at # "none",
         UPD!fail(w, host) \/ UPD!fail(w, UPD!Spent(host)),
         UNCHANGED <<um, umutex, utask>>
  PROVE  UpdateInv'
<1>1. PICK h \in {host, UPD!Spent(host)} : UPD!fail(w, h)
  OBVIOUS
<1>2. h \in Hosts /\ h.installed = host.installed /\ h.dirs = host.dirs /\ h.wrong = host.wrong /\ h.lost = host.lost
  BY SpentIs DEF UpdateInv, UpdateTypes
<1>3. UPD!Gone(w) /\ ufile' = UPD!State(w, "failed") /\ host' = UPD!Loses(h, w)
  BY <1>1 DEF UPD!fail
<1>4. ufile' \in UpdateFiles
  BY <1>3, StateIs DEF UpdateInv, FileStates
<1>5. ~h.wrong /\ h.installed \in h.dirs
  BY <1>2 DEF UpdateInv, LinkThere, UPD!InstallIsSound
<1> QED BY <1>2, <1>3, <1>4, <1>5, VerdictKeeps

(* The worker that holds the lock goes on, and what it writes names its target. *)
LEMMA HolderMoves ==
  ASSUME UpdateInv, NEW w \in UPD!Ids, workers[w].at \notin {"none", "starting"},
         NEW at \in Phases \ {"none", "starting"}, UPD!At(w, at), at \in Holding <=> workers[w].at \in Holding,
         UNCHANGED <<um, umutex, utask, ulock>>,
         UpdateTypes', host'.installed = host.installed, host'.lost = host.lost,
         ufile' = ufile \/ (/\ UPD!transient_update_state(ufile'.state) /\ ufile'.fresh
                            /\ ufile'.target = workers[w].target)
  PROVE  MutexHeld' /\ OneHolder' /\ Unused' /\ Confirmed' /\ Records' /\ Probes'
<1>1. /\ workers'[w].at = at
      /\ workers'[w].target = workers[w].target /\ workers'[w].asked = workers[w].asked
      /\ \A j \in UPD!Ids \ {w} : workers'[j] = workers[j]
  BY AtIs DEF UpdateInv
<1>2. ulock = w /\ utask[w].at = "done"
  BY DEF UpdateInv, OneHolder, Unused, UPD!NoWorker
<1>3. MutexHeld' /\ OneHolder' /\ Unused' /\ Confirmed'
  BY <1>1, <1>2 DEF UpdateInv, MutexHeld, OneHolder, Unused, Confirmed
<1>4. \A j \in UPD!Ids : /\ UPD!Starting(j)' <=> UPD!Starting(j)
                         /\ Young(j)' <=> Young(j)
                         /\ Redundant(j)' <=> Redundant(j)
  BY <1>1, <1>2 DEF UPD!Starting, Young, Redundant
<1>5. Records'
  <2> SUFFICES ASSUME ~host'.lost, NEW y \in UPD!Ids, Young(y)', ~Redundant(y)' PROVE Recorded(y)'
    BY DEF Records
  <2>1. Recorded(y)
    BY <1>4 DEF UpdateInv, Records
  <2>2. workers[y].at \in Holding => y = w
    BY <1>2 DEF UpdateInv, OneHolder, Holding
  <2>3. /\ workers'[y].target = workers[y].target
        /\ workers'[y].at # "none" => workers[y].at # "none"
        /\ workers'[y].at \in Holding => workers[y].at \in Holding
    BY <1>1
  <2> QED BY <1>4, <2>1, <2>2, <2>3 DEF Recorded
<1>6. Probes'
  <2> SUFFICES ASSUME ~host'.lost, NEW i \in UPD!Ids PROVE Probing(i)'
    BY DEF Probes
  <2>1. Probing(i)
    BY DEF UpdateInv, Probes
  <2> QED BY <1>4, <2>1 DEF Probing
<1> QED BY <1>3, <1>5, <1>6

LEMMA AcquireKeeps ==
  ASSUME UpdateInv, NEW w \in UPD!Ids, UPD!acquire_lock(w)
  PROVE  UpdateInv'
<1>1. workers[w].at = "starting" /\ UNCHANGED <<um, umutex, utask>>
  BY DEF UPD!acquire_lock
<1>2. CASE UPD!Gone(w) /\ UNCHANGED <<ufile, host>>
  BY <1>1, <1>2, SilentEndKeeps DEF UPD!NoWorker
<1>3. CASE UPD!fail(w, UPD!Spent(host))
  BY <1>1, <1>3, FailKeeps
<1>4. CASE /\ ulock = UPD!Nobody /\ ulock' = w /\ ufile' = UPD!State(w, "preparing")
           /\ UPD!At(w, "preparing") /\ UNCHANGED host
  <2>1. /\ workers' \in [UPD!Ids -> Workers] /\ workers'[w].at = "preparing"
        /\ workers'[w].target = workers[w].target /\ workers'[w].asked = workers[w].asked
        /\ \A j \in UPD!Ids \ {w} : workers'[j] = workers[j]
    BY <1>4, AtIs DEF UpdateInv, Phases
  <2>2. /\ ufile' \in UpdateFiles /\ ufile'.state = "preparing"
        /\ ufile'.target = workers[w].target /\ ufile'.fresh
    BY <1>4, StateIs DEF UpdateInv, FileStates
  <2>3. utask[w].at = "done"
    BY <1>1 DEF UpdateInv, Unused, UPD!NoWorker
  <2>4. \A x \in UPD!Ids : workers[x].at \notin Holding
    BY <1>4, NobodyIsNoId DEF UpdateInv, OneHolder, Holding
  <2>5. UpdateTypes'
    BY <1>1, <1>4, <2>1, <2>2 DEF UpdateInv, UpdateTypes
  <2>6. MutexHeld' /\ Unused' /\ Confirmed'
    BY <1>1, <2>1, <2>3 DEF UpdateInv, MutexHeld, Unused, Confirmed
  <2>7. OneHolder'
    BY <1>4, <2>1, NobodyIsNoId DEF UpdateInv, OneHolder
  <2>8. LinkThere'
    BY <1>4, <2>1 DEF UpdateInv, LinkThere, UPD!InstallIsSound
  <2>9. Young(w) /\ ~Redundant(w) /\ UPD!Starting(w)
    BY <1>1 DEF Young, Redundant, UPD!Starting, Holding
  <2>10. host.lost \/ (Recorded(w) /\ \A x \in UPD!Ids \ {w} : ~Young(x))
    BY <2>4, <2>9 DEF UpdateInv, Records, Recorded, Redundant
  <2>11. \A x \in UPD!Ids \ {w} : (Young(x)' <=> Young(x)) /\ (UPD!Starting(x)' <=> UPD!Starting(x))
    BY <1>1, <2>1 DEF Young, UPD!Starting
  <2>12. ~UPD!Starting(w)'
    BY <1>1, <2>1, <2>3 DEF UPD!Starting
  <2>13. Records'
    <3> SUFFICES ASSUME ~host.lost, NEW y \in UPD!Ids, Young(y)' PROVE Recorded(y)'
      BY <1>4 DEF Records
    <3>1. y = w
      BY <2>10, <2>11
    <3>2. workers[w].target # um.version \/ workers[w].target = host.installed
      BY <1>1, <2>10 DEF Recorded
    <3>3. \A x \in UPD!Ids : Young(x)' => x = w
      BY <2>10, <2>11
    <3> QED BY <1>1, <1>4, <2>1, <2>2, <2>12, <3>1, <3>2, <3>3 DEF Recorded, UPD!transient_update_state
  <2>14. Probes'
    <3> SUFFICES ASSUME ~host.lost, NEW i \in UPD!Ids PROVE Probing(i)'
      BY <1>4 DEF Probes
    <3>1. Probing(i)
      BY DEF UpdateInv, Probes
    <3> QED BY <1>1, <2>9, <2>11, <2>12, <3>1 DEF Probing
  <2> QED BY <2>5, <2>6, <2>7, <2>8, <2>13, <2>14 DEF UpdateInv
<1> QED BY <1>2, <1>3, <1>4 DEF UPD!acquire_lock

(* Only an archive without a defect is prepared. *)
LEMMA PreparedIsWhole ==
  ASSUME NEW archive \in {{}} \cup {{d} : d \in UPD!Defects}, NEW current, NEW target,
         UPD!prepare_target_release(archive, current, target)
  PROVE  archive = {}
BY DEF UPD!prepare_target_release, UPD!checksum_for_archive, UPD!extract_release_archive, UPD!verify,
       UPD!Identity, UPD!Defects

LEMMA PrepareKeeps ==
  ASSUME UpdateInv, NEW w \in UPD!Ids, UPD!Prepare(w)
  PROVE  UpdateInv'
<1>1. workers[w].at = "preparing" /\ UNCHANGED <<um, umutex, utask>>
  BY DEF UPD!Prepare
<1>2. PICK archive \in {{}} \cup {{d} : d \in UPD!Defects} :
        LET h == IF archive = {} THEN host ELSE UPD!Spent(host) IN
        IF UPD!prepare_target_release(archive, host.installed, workers[w].target)
          THEN /\ ufile' = UPD!State(w, "installing") /\ UPD!At(w, "installing")
               /\ host' = [h EXCEPT !.wrong = @ \/ archive # {}]
               /\ UNCHANGED ulock
          ELSE UPD!fail(w, h)
  BY DEF UPD!Prepare
<1>3. CASE ~UPD!prepare_target_release(archive, host.installed, workers[w].target)
  <2>1. UPD!fail(w, host) \/ UPD!fail(w, UPD!Spent(host))
    BY <1>2, <1>3
  <2> QED BY <1>1, <2>1, FailKeeps
<1>4. CASE UPD!prepare_target_release(archive, host.installed, workers[w].target)
  <2>1. archive = {}
    BY <1>4, PreparedIsWhole
  <2>2. /\ ufile' = UPD!State(w, "installing") /\ UPD!At(w, "installing") /\ UNCHANGED ulock
        /\ host' = [host EXCEPT !.wrong = @ \/ FALSE]
    BY <1>2, <1>4, <2>1
  <2>3. /\ host' \in Hosts /\ host'.installed = host.installed /\ host'.dirs = host.dirs
        /\ host'.wrong = host.wrong /\ host'.lost = host.lost
    BY <2>2 DEF UpdateInv, UpdateTypes, Hosts
  <2>4. /\ ufile' \in UpdateFiles /\ UPD!transient_update_state(ufile'.state)
        /\ ufile'.target = workers[w].target /\ ufile'.fresh
    BY <2>2, StateIs DEF UpdateInv, FileStates, UPD!transient_update_state
  <2>5. /\ workers' \in [UPD!Ids -> Workers] /\ workers'[w].at = "installing"
        /\ \A j \in UPD!Ids \ {w} : workers'[j] = workers[j]
    BY <2>2, AtIs DEF UpdateInv, Phases
  <2>6. UpdateTypes'
    BY <1>1, <2>2, <2>3, <2>4, <2>5 DEF UpdateInv, UpdateTypes
  <2>7. MutexHeld' /\ OneHolder' /\ Unused' /\ Confirmed' /\ Records' /\ Probes'
    <3>1. "installing" \in Phases \ {"none", "starting"} /\ "installing" \in Holding /\ workers[w].at \in Holding
      BY <1>1 DEF Phases, Holding
    <3> QED BY <1>1, <2>2, <2>3, <2>4, <2>6, <3>1, HolderMoves
  <2>8. LinkThere'
    BY <2>3, <2>5 DEF UpdateInv, LinkThere, UPD!InstallIsSound
  <2> QED BY <2>6, <2>7, <2>8 DEF UpdateInv
<1> QED BY <1>3, <1>4

(* The holder is the only worker in these phases. *)
LEMMA Alone ==
  ASSUME UpdateInv, NEW w \in UPD!Ids, workers[w].at \notin {"none", "starting"}
  PROVE  /\ ulock = w /\ utask[w].at = "done"
         /\ \A x \in UPD!Ids \ {w} : workers[x].at \in {"none", "starting"}
BY DEF UpdateInv, OneHolder, Unused, UPD!NoWorker

LEMMA PlaceKeeps ==
  ASSUME UpdateInv, NEW w \in UPD!Ids, UPD!Place(w) \/ UPD!prune_old_releases(w)
  PROVE  UpdateInv'
<1> DEFINE dirs == IF workers[w].at = "installing" THEN host.dirs \cup {workers[w].target}
                     ELSE host.dirs \cap UPD!Kept(w)
           at == IF workers[w].at = "installing" THEN "placed" ELSE "pruned"
<1>1. /\ workers[w].at \in {"installing", "placed"} /\ UNCHANGED <<um, umutex, utask>>
      /\ \/ UPD!fail(w, UPD!Spent(host))
         \/ host' = [host EXCEPT !.dirs = dirs] /\ UPD!At(w, at) /\ UNCHANGED <<ufile, ulock>>
  BY DEF UPD!Place, UPD!prune_old_releases, UPD!Stopped
<1>2. CASE UPD!fail(w, UPD!Spent(host))
  BY <1>1, <1>2, FailKeeps
<1>3. CASE host' = [host EXCEPT !.dirs = dirs] /\ UPD!At(w, at) /\ UNCHANGED <<ufile, ulock>>
  <2>1. /\ workers[w] \in Workers /\ workers[w].target \in Nat /\ host \in Hosts
        /\ host.installed \in host.dirs
        /\ workers[w].at = "placed" => workers[w].target \in host.dirs
    BY DEF UpdateInv, UpdateTypes, Workers, LinkThere, UPD!InstallIsSound
  <2>2. dirs \in SUBSET Nat /\ host.installed \in dirs /\ workers[w].target \in dirs
    BY <1>1, <2>1 DEF Hosts, UPD!Kept
  <2>3. at \in Phases \ {"none", "starting"} /\ at \in Holding /\ workers[w].at \in Holding /\ at \in Phases
    BY <1>1 DEF Phases, Holding
  <2> HIDE DEF dirs, at
  <2>4. /\ host' \in Hosts /\ host'.installed = host.installed /\ host'.dirs = dirs
        /\ host'.wrong = host.wrong /\ host'.lost = host.lost
    BY <1>3, <2>1, <2>2 DEF Hosts
  <2>5. /\ workers' \in [UPD!Ids -> Workers] /\ workers'[w].at = at /\ workers'[w].target = workers[w].target
        /\ \A j \in UPD!Ids \ {w} : workers'[j] = workers[j]
    BY <1>3, <2>3, AtIs DEF UpdateInv
  <2>6. UpdateTypes'
    BY <1>1, <1>3, <2>4, <2>5 DEF UpdateInv, UpdateTypes
  <2>7. MutexHeld' /\ OneHolder' /\ Unused' /\ Confirmed' /\ Records' /\ Probes'
    BY <1>1, <1>3, <2>3, <2>4, <2>6, HolderMoves
  <2>8. LinkThere'
    <3>1. \A x \in UPD!Ids \ {w} : workers[x].at \in {"none", "starting"}
      BY <1>1, Alone
    <3> QED BY <2>2, <2>4, <2>5, <3>1 DEF UpdateInv, LinkThere, UPD!InstallIsSound
  <2> QED BY <2>6, <2>7, <2>8 DEF UpdateInv
<1> QED BY <1>1, <1>2, <1>3

LEMMA ActivateKeeps ==
  ASSUME UpdateInv, NEW w \in UPD!Ids, UPD!activate(w)
  PROVE  UpdateInv'
<1> DEFINE h == [host EXCEPT !.installed = workers[w].target,
                             !.wrong = @ \/ workers[w].target # workers[w].asked]
<1>1. /\ workers[w].at = "pruned" /\ UNCHANGED <<um, umutex, utask>>
      /\ \/ host' = h /\ UPD!At(w, "installed") /\ UNCHANGED <<ufile, ulock>>
         \/ UPD!fail(w, UPD!Spent(h))
         \/ UPD!fail(w, UPD!Spent(host))
  BY DEF UPD!activate, UPD!Stopped
<1>2. /\ host \in Hosts /\ workers[w].target \in Nat /\ workers[w].target = workers[w].asked
      /\ workers[w].target \in host.dirs /\ ~host.wrong
  BY <1>1 DEF UpdateInv, UpdateTypes, Workers, Confirmed, LinkThere, UPD!InstallIsSound
<1>3. /\ h \in Hosts /\ h.installed = workers[w].target /\ h.dirs = host.dirs /\ ~h.wrong /\ h.lost = host.lost
  BY <1>2 DEF Hosts
<1> HIDE DEF h
<1>4. CASE UPD!fail(w, UPD!Spent(host))
  BY <1>1, <1>4, FailKeeps
<1>5. CASE UPD!fail(w, UPD!Spent(h))
  <2>1. /\ UPD!Spent(h) \in Hosts /\ UPD!Spent(h).lost = host.lost /\ UPD!Spent(h).dirs = host.dirs
        /\ ~UPD!Spent(h).wrong /\ UPD!Spent(h).installed \in UPD!Spent(h).dirs
    BY <1>2, <1>3, SpentIs
  <2>2. UPD!Gone(w) /\ ufile' = UPD!State(w, "failed") /\ host' = UPD!Loses(UPD!Spent(h), w)
    BY <1>5 DEF UPD!fail
  <2>3. ufile' \in UpdateFiles
    BY <2>2, StateIs DEF UpdateInv, FileStates
  <2> QED BY <1>1, <2>1, <2>2, <2>3, VerdictKeeps
<1>6. CASE host' = h /\ UPD!At(w, "installed") /\ UNCHANGED <<ufile, ulock>>
  <2>1. /\ workers' \in [UPD!Ids -> Workers] /\ workers'[w].at = "installed"
        /\ workers'[w].target = workers[w].target /\ workers'[w].asked = workers[w].asked
        /\ \A j \in UPD!Ids \ {w} : workers'[j] = workers[j]
    BY <1>6, AtIs DEF UpdateInv, Phases
  <2>2. /\ ulock = w /\ utask[w].at = "done"
        /\ \A x \in UPD!Ids \ {w} : workers[x].at \in {"none", "starting"}
    BY <1>1, Alone
  <2>3. UpdateTypes'
    BY <1>1, <1>3, <1>6, <2>1 DEF UpdateInv, UpdateTypes
  <2>4. MutexHeld' /\ OneHolder' /\ Unused' /\ Confirmed'
    BY <1>1, <1>6, <2>1, <2>2 DEF UpdateInv, MutexHeld, OneHolder, Unused, Confirmed
  <2>5. LinkThere'
    BY <1>2, <1>3, <1>6, <2>1, <2>2 DEF LinkThere, UPD!InstallIsSound
  <2>6. ~Young(w)' /\ ~UPD!Starting(w)' /\ ~UPD!Starting(w)
    BY <1>1, <2>1, <2>2 DEF Young, UPD!Starting, Holding
  <2>7. \A x \in UPD!Ids \ {w} : (Young(x)' <=> Young(x)) /\ (UPD!Starting(x)' <=> UPD!Starting(x)) /\ ~Redundant(x)
    BY <1>1, <2>1, <2>2 DEF Young, UPD!Starting, Redundant, Holding
  <2>8. Records'
    <3> SUFFICES ASSUME ~host.lost, NEW y \in UPD!Ids, Young(y)' PROVE Recorded(y)'
      BY <1>3, <1>6 DEF Records
    <3>1. y # w /\ Young(y) /\ ~Redundant(y)
      BY <2>6, <2>7
    <3>2. Recorded(y)
      BY <3>1 DEF UpdateInv, Records
    <3>3. host'.installed = host.installed
      <4>1. Young(w) /\ Redundant(w)
        BY <1>1, <3>1, <3>2 DEF Recorded, Young, Holding
      <4> QED BY <1>3, <1>6, <4>1 DEF Redundant
    <3>4. \A x \in UPD!Ids : Young(x)' /\ x # y => FALSE
      BY <2>6, <2>7, <3>2 DEF Recorded
    <3>5. UPD!Starting(y)' => UPD!Starting(y)
      BY <2>7, <3>1
    <3> QED BY <1>1, <1>6, <2>1, <3>1, <3>2, <3>3, <3>4, <3>5 DEF Recorded
  <2>9. Probes'
    <3> SUFFICES ASSUME ~host.lost, NEW i \in UPD!Ids PROVE Probing(i)'
      BY <1>3, <1>6 DEF Probes
    <3>1. Probing(i)
      BY DEF UpdateInv, Probes
    <3> QED BY <1>1, <1>6, <2>6, <2>7, <3>1 DEF Probing
  <2> QED BY <2>3, <2>4, <2>5, <2>8, <2>9 DEF UpdateInv
<1> QED BY <1>1, <1>4, <1>5, <1>6

LEMMA RestartingKeeps ==
  ASSUME UpdateInv, NEW w \in UPD!Ids, UPD!Restarting(w)
  PROVE  UpdateInv'
<1>1. /\ workers[w].at = "installed" /\ UNCHANGED <<um, umutex, utask>>
      /\ \/ ufile' = UPD!State(w, "restarting") /\ UPD!At(w, "restarting") /\ UNCHANGED <<ulock, host>>
         \/ host' = UPD!Spent(host) /\ UPD!Gone(w) /\ UNCHANGED ufile
  BY DEF UPD!Restarting
<1>2. CASE host' = UPD!Spent(host) /\ UPD!Gone(w) /\ UNCHANGED ufile
  BY <1>1, <1>2, SilentEndKeeps DEF UPD!NoWorker
<1>3. CASE ufile' = UPD!State(w, "restarting") /\ UPD!At(w, "restarting") /\ UNCHANGED <<ulock, host>>
  <2>1. /\ ufile' \in UpdateFiles /\ UPD!transient_update_state(ufile'.state)
        /\ ufile'.target = workers[w].target /\ ufile'.fresh
    BY <1>3, StateIs DEF UpdateInv, FileStates, UPD!transient_update_state
  <2>2. /\ workers' \in [UPD!Ids -> Workers] /\ workers'[w].at = "restarting"
        /\ \A j \in UPD!Ids \ {w} : workers'[j] = workers[j]
    BY <1>3, AtIs DEF UpdateInv, Phases
  <2>3. UpdateTypes'
    BY <1>1, <1>3, <2>1, <2>2 DEF UpdateInv, UpdateTypes
  <2>4. MutexHeld' /\ OneHolder' /\ Unused' /\ Confirmed' /\ Records' /\ Probes'
    <3>1. /\ "restarting" \in Phases \ {"none", "starting"} /\ "restarting" \notin Holding
          /\ workers[w].at \notin Holding /\ workers[w].at \notin {"none", "starting"}
      BY <1>1 DEF Phases, Holding
    <3> QED BY <1>1, <1>3, <2>1, <2>3, <3>1, HolderMoves
  <2>5. LinkThere'
    BY <1>3, <2>2 DEF UpdateInv, LinkThere, UPD!InstallIsSound
  <2> QED BY <2>3, <2>4, <2>5 DEF UpdateInv
<1> QED BY <1>1, <1>2, <1>3

LEMMA HealthKeeps ==
  ASSUME UpdateInv, NEW w \in UPD!Ids, UPD!verify_health(w)
  PROVE  UpdateInv'
<1>1. /\ workers[w].at = "restarting" /\ UNCHANGED <<um, umutex, utask>>
      /\ \/ ufile' = UPD!State(w, "succeeded") /\ UPD!Gone(w) /\ host' = UPD!Loses(host, w)
         \/ UPD!fail(w, UPD!Spent(host))
  BY DEF UPD!verify_health
<1>2. CASE UPD!fail(w, UPD!Spent(host))
  BY <1>1, <1>2, FailKeeps
<1>3. CASE ufile' = UPD!State(w, "succeeded") /\ UPD!Gone(w) /\ host' = UPD!Loses(host, w)
  <2>1. ufile' \in UpdateFiles
    BY <1>3, StateIs DEF UpdateInv, FileStates
  <2>2. host \in Hosts /\ ~host.wrong /\ host.installed \in host.dirs
    BY DEF UpdateInv, UpdateTypes, LinkThere, UPD!InstallIsSound
  <2> QED BY <1>1, <1>3, <2>1, <2>2, VerdictKeeps
<1> QED BY <1>1, <1>2, <1>3

LEMMA DeathKeeps ==
  ASSUME UpdateInv, NEW w \in UPD!Ids, UPD!WorkerDies(w)
  PROVE  UpdateInv'
BY SilentEndKeeps DEF UPD!WorkerDies

-----------------------------------------------------------------------------
(* Steps outside, and the theorem *)

LEMMA RestartsKeep ==
  ASSUME UpdateInv, UPD!Restarts
  PROVE  UpdateInv'
<1>1. /\ host' \in {host, UPD!Spent(host)} /\ um' = UPD!RelayStarts(host.installed)
      /\ utask' = [i \in UPD!Ids |-> IF utask[i].at = "none" THEN utask[i] ELSE [UPD!NoRequest EXCEPT !.at = "done"]]
      /\ umutex' = UPD!Nobody /\ UNCHANGED <<ufile, workers, ulock>>
  BY DEF UPD!Restarts
<1>2. /\ host' \in Hosts /\ host'.installed = host.installed /\ host'.dirs = host.dirs
      /\ host'.wrong = host.wrong /\ host'.lost = host.lost /\ host.installed \in Nat
  BY <1>1, SpentIs DEF UpdateInv, UpdateTypes, Hosts
<1>3. um' \in Managers /\ um'.version = host.installed
  BY <1>1, <1>2, NoFileType DEF UPD!RelayStarts, Managers, UPD!NoVersion
<1> DEFINE gone == [UPD!NoRequest EXCEPT !.at = "done"]
<1>4. gone \in Requests /\ gone.at = "done"
  BY NoFileType DEF UPD!NoRequest, UPD!Request, Requests, Stations, UPD!NoVersion
<1> HIDE DEF gone
<1>5. /\ utask' \in [UPD!Ids -> Requests]
      /\ \A i \in UPD!Ids : utask'[i].at = "done" \/ (utask[i].at = "none" /\ utask'[i] = utask[i])
  <2>1. utask \in [UPD!Ids -> Requests]
    BY DEF UpdateInv, UpdateTypes
  <2>2. utask' = [i \in UPD!Ids |-> IF utask[i].at = "none" THEN utask[i] ELSE gone]
    BY <1>1 DEF gone
  <2> QED BY <1>4, <2>1, <2>2
<1>6. UpdateTypes'
  BY <1>1, <1>2, <1>3, <1>5 DEF UpdateInv, UpdateTypes
<1>7. MutexHeld' /\ OneHolder' /\ Unused' /\ Confirmed' /\ LinkThere'
  BY <1>1, <1>2, <1>5 DEF UpdateInv, MutexHeld, OneHolder, Unused, Confirmed, LinkThere,
                          UPD!InstallIsSound, Waiting
<1>8. \A y \in UPD!Ids : /\ UPD!Starting(y)' => UPD!Starting(y)
                         /\ Young(y)' => Young(y)
                         /\ Redundant(y)' <=> Redundant(y)
  BY <1>1, <1>2, <1>5 DEF UPD!Starting, Young, Redundant
<1>9. Records'
  <2> SUFFICES ASSUME ~host'.lost, NEW y \in UPD!Ids, Young(y)', ~Redundant(y)' PROVE Recorded(y)'
    BY DEF Records
  <2>1. Recorded(y)
    BY <1>2, <1>8 DEF UpdateInv, Records
  <2> QED BY <1>1, <1>2, <1>3, <1>8, <2>1 DEF Recorded
<1>10. Probes'
  BY <1>5 DEF Probes, Probing
<1> QED BY <1>6, <1>7, <1>9, <1>10 DEF UpdateInv

LEMMA PublishesKeep ==
  ASSUME UpdateInv, UPD!Publishes
  PROVE  UpdateInv'
<1>1. host' = [host EXCEPT !.upstream = @ + 1] /\ UNCHANGED <<ufile, um, umutex, utask, workers, ulock>>
  BY DEF UPD!Publishes
<1>2. /\ host' \in Hosts /\ host'.installed = host.installed /\ host'.dirs = host.dirs
      /\ host'.wrong = host.wrong /\ host'.lost = host.lost
  BY <1>1 DEF UpdateInv, UpdateTypes, Hosts
<1>3. UpdateTypes' /\ MutexHeld' /\ OneHolder' /\ Unused' /\ Confirmed' /\ LinkThere'
  BY <1>1, <1>2 DEF UpdateInv, UpdateTypes, MutexHeld, OneHolder, Unused, Confirmed, LinkThere,
                    UPD!InstallIsSound
<1>4. \A y \in UPD!Ids : /\ UPD!Starting(y)' <=> UPD!Starting(y)
                         /\ Young(y)' <=> Young(y)
                         /\ Redundant(y)' <=> Redundant(y)
  BY <1>1, <1>2 DEF UPD!Starting, Young, Redundant
<1>5. Records'
  BY <1>1, <1>2, <1>4 DEF UpdateInv, Records, Recorded
<1>6. Probes'
  BY <1>1, <1>2, <1>4 DEF UpdateInv, Probes, Probing
<1> QED BY <1>3, <1>5, <1>6 DEF UpdateInv

LEMMA GraceKeeps ==
  ASSUME UpdateInv, UPD!GraceEnds
  PROVE  UpdateInv'
<1>1. /\ ufile' = [ufile EXCEPT !.fresh = FALSE] /\ host' = UPD!Loses(host, UPD!Nobody)
      /\ UNCHANGED <<um, umutex, utask, workers, ulock>>
  BY DEF UPD!GraceEnds
<1>2. /\ host' \in Hosts /\ host'.installed = host.installed /\ host'.dirs = host.dirs
      /\ host'.wrong = host.wrong /\ (host.lost => host'.lost)
      /\ ~host'.lost => \A y \in UPD!Ids : ~UPD!Starting(y)
  BY <1>1, LosesIs, NobodyIsNoId DEF UpdateInv, UpdateTypes
<1>3. ufile' \in UpdateFiles /\ ufile'.state = ufile.state /\ ufile'.target = ufile.target
  BY <1>1 DEF UpdateInv, UpdateTypes, UpdateFiles
<1>4. UpdateTypes' /\ MutexHeld' /\ OneHolder' /\ Unused' /\ Confirmed' /\ LinkThere'
  BY <1>1, <1>2, <1>3 DEF UpdateInv, UpdateTypes, MutexHeld, OneHolder, Unused, Confirmed, LinkThere,
                          UPD!InstallIsSound
<1>5. \A y \in UPD!Ids : /\ UPD!Starting(y)' <=> UPD!Starting(y)
                         /\ Young(y)' <=> Young(y)
                         /\ Redundant(y)' <=> Redundant(y)
  BY <1>1, <1>2 DEF UPD!Starting, Young, Redundant
<1>6. Records'
  BY <1>1, <1>2, <1>3, <1>5 DEF UpdateInv, Records, Recorded
<1>7. Probes'
  BY <1>1, <1>2, <1>5 DEF UpdateInv, Probes, Probing
<1> QED BY <1>4, <1>6, <1>7 DEF UpdateInv

LEMMA StartsSound == UPD!Init => UpdateInv
<1> SUFFICES ASSUME UPD!Init PROVE UpdateInv
  OBVIOUS
<1>1. /\ ufile = UPD!NoFile /\ um = UPD!RelayStarts(1) /\ umutex = UPD!Nobody /\ ulock = UPD!Nobody
      /\ utask = [i \in UPD!Ids |-> UPD!NoRequest] /\ workers = [i \in UPD!Ids |-> UPD!NoWorker]
  BY DEF UPD!Init
<1>2. host \in Hosts /\ host.installed = 1 /\ host.dirs = {1} /\ ~host.wrong
  <2>1. host \in [installed : {1}, dirs : {{1}}, eligible : BOOLEAN, upstream : {1}, odds : {0},
                  lost : {FALSE}, wrong : {FALSE}]
    BY DEF UPD!Init
  <2>2. /\ host = [installed |-> host.installed, dirs |-> host.dirs, eligible |-> host.eligible,
                   upstream |-> host.upstream, odds |-> host.odds, lost |-> host.lost, wrong |-> host.wrong]
        /\ host.installed = 1 /\ host.dirs = {1} /\ host.eligible \in BOOLEAN /\ host.upstream = 1
        /\ host.odds = 0 /\ host.lost = FALSE /\ host.wrong = FALSE
    BY <2>1
  <2>3. host.installed \in Nat /\ host.upstream \in Nat /\ host.odds \in Nat
    BY <2>2
  <2>4. host.lost \in BOOLEAN /\ host.wrong \in BOOLEAN /\ ~host.wrong
    BY <2>2, Zenon
  <2>5. host.dirs \subseteq Nat
    BY <2>2
  <2>6. host \in Hosts
    BY <2>2, <2>3, <2>4, <2>5 DEF Hosts
  <2> QED BY <2>2, <2>4, <2>6
<1>3. um \in Managers /\ ufile \in UpdateFiles
  BY <1>1, NoFileType DEF UPD!RelayStarts, Managers, UPD!NoVersion
<1>4. UPD!NoRequest \in Requests /\ UPD!NoRequest.at = "none"
  BY NoFileType DEF UPD!NoRequest, UPD!Request, Requests, Stations, UPD!NoVersion
<1>5. UPD!NoWorker \in Workers /\ UPD!NoWorker.at = "none" /\ UPD!NoWorker.target = UPD!NoWorker.asked
  BY DEF UPD!NoWorker, Workers, Phases, UPD!NoVersion
<1>6. UpdateTypes
  BY <1>1, <1>2, <1>3, <1>4, <1>5 DEF UpdateTypes
<1>7. MutexHeld /\ OneHolder /\ Unused /\ Confirmed /\ LinkThere
  BY <1>1, <1>2, <1>4, <1>5 DEF MutexHeld, OneHolder, Unused, Confirmed, LinkThere, UPD!InstallIsSound,
                                Waiting
<1>8. Records /\ Probes
  BY <1>1, <1>4, <1>5 DEF Records, Probes, Probing, Young, UPD!Starting, Holding
<1> QED BY <1>6, <1>7, <1>8 DEF UpdateInv

(* For any number of requests, releases and failures: only a release that a  *)
(* phone confirmed and that passed every check is installed; the link names  *)
(* a release that is there; and a worker that prepares is seen by every      *)
(* check and install unless its record was lost while it started, or what it *)
(* installs is installed already (orphan_candidate, schedule, activate).     *)
THEOREM UpdateAlwaysSound == UPD!Spec => []UpdateIsSound
<1>1. UPD!Init => UpdateInv
  BY StartsSound
<1>2. UpdateInv /\ [UPD!Next]_UPD!updateVars => UpdateInv'
  <2> SUFFICES ASSUME UpdateInv, [UPD!Next]_UPD!updateVars PROVE UpdateInv'
    OBVIOUS
  <2>1. CASE UNCHANGED UPD!updateVars
    <3>1. UNCHANGED <<ufile, um, umutex, utask, workers, ulock, host>>
      BY <2>1 DEF UPD!updateVars
    <3> QED BY <3>1 DEF UpdateInv, UpdateTypes, MutexHeld, OneHolder, Unused, Confirmed, LinkThere,
                        UPD!InstallIsSound, Records, Recorded, Probes, Probing, Young, Redundant, UPD!Starting
  <2>2. CASE UPD!Next
    <3>3. UPD!Relay => UpdateInv'
      BY AsksKeep, EnterKeeps, ProbeKeeps, OrphanKeeps, CheckBeginKeeps, FetchKeeps,
         CheckFinishKeeps, ScheduleKeeps, RefetchKeeps, ScheduledKeeps, LaunchKeeps DEF UPD!Relay
    <3>4. UPD!Worker => UpdateInv'
      BY AcquireKeeps, PrepareKeeps, PlaceKeeps, ActivateKeeps, RestartingKeeps, HealthKeeps,
         DeathKeeps DEF UPD!Worker
    <3> QED BY <2>2, <3>3, <3>4, RestartsKeep, PublishesKeep, GraceKeeps DEF UPD!Next
  <2> QED BY <2>1, <2>2
<1>3. UpdateInv => UpdateIsSound
  <2> SUFFICES ASSUME UpdateInv PROVE UPD!WorkerVisible /\ UPD!InstallIsSound
    BY DEF UpdateIsSound
  <2>1. UPD!WorkerVisible
    <3> SUFFICES ASSUME ulock # UPD!Nobody, workers[ulock].at \in {"preparing", "installing"}, ~host.lost,
                        host.installed # workers[ulock].target
                 PROVE  UPD!transient_update_state(ufile.state)
      BY DEF UPD!WorkerVisible
    <3>1. ulock \in UPD!Ids
      BY DEF UpdateInv, UpdateTypes
    <3>2. Young(ulock) /\ ~Redundant(ulock)
      BY DEF Young, Redundant, Holding
    <3> QED BY <3>1, <3>2 DEF UpdateInv, Records, Recorded
  <2>2. UPD!InstallIsSound
    BY DEF UpdateInv, LinkThere
  <2> QED BY <2>1, <2>2
<1> QED BY <1>1, <1>2, <1>3, PTL DEF UPD!Spec

-----------------------------------------------------------------------------
(* Responses: types *)

AskStatuses == {"working", "blocked", "done"}
AskPhases == {"nothing", "failed", "closed", "conflict", "not_started", "dispatched_unknown", "accepted",
              "confirmed", "unconfirmed", "advanced", "navigated", "unexpected"}
AskStages == {"replay", "schedule", "attached", "locking", "reading", "sending", "watching", "told"}
AskKeys == {"Enter", "Down", "Up", "Next", "Previous", "Chat"}
Strokes == [key : AskKeys, op : Nat]
AskTerms == [flow : {"question", "approval"}, alike : BOOLEAN, token : Nat, at : 1..3, cursor : 1..2, busy : BOOLEAN,
             inbox : Seq(Strokes), landed : SUBSET Nat, astray : BOOLEAN]
AskOps == [rid : Nat, kind : AskKinds, target : 1..2, opt : 1..2, token : Nat, status : AskStatuses,
           pc : AskStages, keys : Seq(AskKeys), sent : Nat, clean : BOOLEAN, told : AskPhases, via : Nat]
LedgerKeys == ({"approval"} \cup AskKinds) \X Nat \X Nat
Payloads == AskKinds \X Nat \X Nat
LedgerEntries(stamps) ==
  [key : LedgerKeys, hash : Payloads, token : Nat, owner : Nat, result : AskPhases, done : BOOLEAN,
   waiters : SUBSET Nat, created_at : stamps]
EntryTyped(e) == e \in LedgerEntries({e.created_at})
AskTypes ==
  /\ term \in AskTerms
  /\ known \in [token : Nat, status : AskStatuses]
  /\ ops \in Seq(AskOps)
  /\ pane \in [lock : Nat, pending : [event : Nat, look : Nat, token : Nat]]
  /\ askOdds \in [n : Nat, evicted : SUBSET LedgerKeys, lagged : SUBSET Nat]
  /\ \A e \in entries : EntryTyped(e)

-----------------------------------------------------------------------------
(* Responses: the invariant *)

QKey(i) == QS!question_ledger_key(ops[i])
Flying == {"locking", "reading", "sending", "watching"}
Acting(i) == ops[i].pc \in {"sending", "watching"} \/ ops[i].sent > 0
Failing == {"failed", "not_started", "closed"}
Kept(i) == \E e \in entries : e.owner = i
Behind(t) == known.token = QS!Absent \/ t < known.token

(* One entry a key, as its owner asked for. *)
OnePerKey == \A e, d \in entries : e.key = d.key => e = d
EntryOfOwner(e) ==
  /\ e.owner \in DOMAIN ops
  /\ e.key = QKey(e.owner) /\ e.token = ops[e.owner].token /\ e.hash = QS!hash_payload(ops[e.owner])
  /\ ops[e.owner].pc \in Flying \cup {"told"}
WaitersOf(e) ==
  /\ e.result # QS!Nothing => e.waiters = {}
  /\ \A w \in e.waiters : w \in DOMAIN ops /\ ops[w].pc = "attached" /\ ops[w].via = e.owner /\ QKey(w) = e.key
StageOf(e) ==
  /\ e.result = QS!Nothing => ops[e.owner].pc \in {"locking", "reading", "sending"} /\ ~e.done
  /\ e.result # QS!Nothing /\ ~e.done => e.result = "accepted" /\ ops[e.owner].pc = "watching"
  /\ e.done => ops[e.owner].pc = "told" /\ ops[e.owner].told = e.result
EntriesFit ==
  /\ OnePerKey
  /\ \A e \in entries : EntryOfOwner(e) /\ WaitersOf(e) /\ (e.key \notin askOdds.evicted => StageOf(e))

(* A request has its entry while it runs, and keeps it once it has sent keys, *)
(* unless the pane is another by now.                                        *)
FlightsFit ==
  \A i \in DOMAIN ops :
    (ops[i].pc \in Flying \/ ops[i].sent > 0) /\ QKey(i) \notin askOdds.evicted =>
      Kept(i) \/ (ops[i].pc = "told" /\ Behind(ops[i].token))
OneActs ==
  \A i, j \in DOMAIN ops :
    i # j /\ QS!Same(i, j) /\ QKey(i) \notin askOdds.evicted => ~(Acting(i) /\ Acting(j))

(* What the stage of a request says of it. *)
OpFits(i) ==
  /\ ops[i].pc \in {"replay", "schedule", "attached", "locking", "reading"} => ops[i].sent = 0
  /\ ops[i].pc \notin {"attached", "told"} => ops[i].via = QS!NoOp
  /\ ops[i].clean => ops[i].pc \in {"sending", "watching", "told"}
  /\ ops[i].told # QS!Nothing => ops[i].pc = "told"
  /\ ops[i].via # QS!NoOp => ops[i].via \in DOMAIN ops /\ ops[i].sent = 0 /\ ~ops[i].clean
OpsFit == \A i \in DOMAIN ops : OpFits(i)
FailuresTrue ==
  \A i \in DOMAIN ops :
    ops[i].told \in Failing /\ QKey(i) \notin askOdds.evicted =>
      IF ops[i].via = QS!NoOp THEN ops[i].sent = 0
        ELSE ops[ops[i].via].sent = 0 /\ ops[ops[i].via].pc = "told"

(* Tokens only grow, until the pane is closed. *)
TokensFit ==
  /\ term.token # QS!Absent => known.token # QS!Absent /\ known.token <= term.token
  /\ known.token # QS!Absent => \A i \in DOMAIN ops : ops[i].token <= known.token
LockFits ==
  /\ pane.lock # QS!NoOp => pane.lock \in DOMAIN ops /\ ops[pane.lock].pc \in {"reading", "sending"}
  /\ \A i \in DOMAIN ops : ops[i].pc \in {"reading", "sending"} => pane.lock = i

-----------------------------------------------------------------------------
(* The terminal still shows what the request was planned for. *)
Aim(i) ==
  /\ ~term.busy /\ term.at # QS!Over /\ QS!Ident(term.at) = QS!Ident(ops[i].target)
  /\ ops[i].kind = "approval" /\ i \notin askOdds.lagged => known.status = "blocked"
CleanHead == term.inbox # <<>> /\ ops[term.inbox[1].op].clean

(* The keys of a clean request are in front of all others. *)
KeysFit ==
  /\ \A m \in DOMAIN term.inbox : term.inbox[m].op \in DOMAIN ops
  /\ \A m \in DOMAIN term.inbox :
       ops[term.inbox[m].op].clean =>
         /\ \A l \in 1..m : term.inbox[l].op = term.inbox[m].op
         /\ m # 1 => m = 2 /\ term.inbox[1].key \in {"Down", "Up"} /\ term.inbox[2].key = "Enter"
HeadAims ==
  CleanHead =>
    LET k == term.inbox[1] IN
    /\ Aim(k.op)
    /\ k.key = "Enter" => term.cursor = ops[k.op].opt
    /\ k.key = "Down" => ops[k.op].opt = 2
    /\ k.key = "Up" => ops[k.op].opt = 1
Poised(i) ==
  /\ \A m \in DOMAIN term.inbox : term.inbox[m].op = i
  /\ ops[i].keys # <<>> =>
       /\ Aim(i)
       /\ \/ /\ ops[i].keys = <<"Enter">>
             /\ \/ term.inbox = <<>> /\ term.cursor = ops[i].opt
                \/ Len(term.inbox) = 1 /\ term.inbox[1].key \in {"Down", "Up"}
          \/ term.inbox = <<>> /\ ops[i].keys = <<"Down", "Enter">> /\ ops[i].opt = 2
          \/ term.inbox = <<>> /\ ops[i].keys = <<"Up", "Enter">> /\ ops[i].opt = 1
          \/ /\ term.inbox = <<>> /\ ops[i].keys \in {<<"Next">>, <<"Previous">>, <<"Chat">>}
             /\ ops[i].kind \in {"next", "previous", "clarify"}
SendersPoised == \A i \in DOMAIN ops : ops[i].pc = "sending" /\ ops[i].clean => Poised(i)

Choosing == {"answer", "approval"}
EnterComes(i) == \E m \in DOMAIN term.inbox : term.inbox[m].op = i /\ term.inbox[m].key = "Enter"
Typed(i) == ops[i].pc = "watching" \/ (ops[i].pc = "sending" /\ ops[i].keys = <<>>)
EntersLand ==
  \A i \in DOMAIN ops :
    Typed(i) /\ ops[i].clean /\ ops[i].kind \in Choosing => i \in term.landed \/ EnterComes(i)
SendersSee ==
  CleanHead => \A j \in DOMAIN ops : ops[j].pc = "sending" => QS!Ident(ops[j].target) = QS!Ident(term.at)
VerifiedStands ==
  \A i \in DOMAIN ops :
    /\ ops[i].pc = "watching" /\ ops[i].clean /\ ops[i].kind = "approval" /\ ~term.alike
    /\ QKey(i) \notin askOdds.evicted /\ EnterComes(i)
    => /\ pane.pending.event = ops[i].target /\ pane.pending.token = ops[i].token
       /\ pane.pending.look = ops[i].target
SuccessTrue ==
  \A i \in DOMAIN ops :
    /\ ops[i].told \in {"confirmed", "advanced"} /\ ops[i].via = QS!NoOp /\ ops[i].kind \in Choosing
    /\ ops[i].clean /\ ~term.alike /\ QKey(i) \notin askOdds.evicted /\ i \notin askOdds.lagged
    => i \in term.landed
CleanStays == \A i \in DOMAIN ops : ops[i].clean => term.token # QS!Absent

LedgerHolds == EntriesFit /\ FlightsFit /\ OneActs /\ OpsFit /\ FailuresTrue
TerminalHolds ==
  /\ KeysFit /\ HeadAims /\ SendersPoised /\ EntersLand /\ SendersSee /\ CleanStays
  /\ ~term.astray
AnswersInv ==
  /\ AskTypes /\ LedgerHolds /\ TokensFit /\ LockFits
  /\ TerminalHolds /\ VerifiedStands /\ SuccessTrue

-----------------------------------------------------------------------------
(* Responses: lemmas on requests and entries *)

LEMMA OpTyped ==
  ASSUME AskTypes, NEW i \in DOMAIN ops
  PROVE  /\ i \in Nat /\ i # 0 /\ ops[i] \in AskOps
         /\ ops[i].rid \in Nat /\ ops[i].kind \in AskKinds /\ ops[i].target \in 1..2 /\ ops[i].opt \in 1..2
         /\ ops[i].token \in Nat /\ ops[i].status \in AskStatuses /\ ops[i].pc \in AskStages
         /\ ops[i].keys \in Seq(AskKeys) /\ ops[i].sent \in Nat /\ ops[i].clean \in BOOLEAN
         /\ ops[i].told \in AskPhases /\ ops[i].via \in Nat
<1>1. ops \in Seq(AskOps) BY DEF AskTypes
<1>2. i \in 1..Len(ops) /\ Len(ops) \in Nat BY <1>1
<1>3. ops[i] \in AskOps BY <1>1, <1>2
<1> QED BY <1>2, <1>3 DEF AskOps

LEMMA EntryFields ==
  ASSUME AskTypes, NEW e \in entries
  PROVE  /\ e \in LedgerEntries({e.created_at})
         /\ e.key \in LedgerKeys /\ e.hash \in Payloads /\ e.token \in Nat /\ e.owner \in Nat
         /\ e.result \in AskPhases /\ e.done \in BOOLEAN /\ e.waiters \in SUBSET Nat
<1>1. e \in LedgerEntries({e.created_at}) BY DEF AskTypes, EntryTyped
<1> QED BY <1>1 DEF LedgerEntries

(* The requests after a step, field by field. *)
SameIdent(j) ==
  /\ ops'[j].rid = ops[j].rid /\ ops'[j].kind = ops[j].kind /\ ops'[j].target = ops[j].target
  /\ ops'[j].opt = ops[j].opt /\ ops'[j].token = ops[j].token /\ ops'[j].status = ops[j].status

LEMMA IdentKey ==
  ASSUME NEW j, SameIdent(j)
  PROVE  QKey(j)' = QKey(j) /\ QS!hash_payload(ops'[j]) = QS!hash_payload(ops[j])
BY DEF SameIdent, QKey, QS!question_ledger_key, QS!hash_payload

LEMMA KeyTyped ==
  ASSUME AskTypes, NEW i \in DOMAIN ops
  PROVE  QKey(i) \in LedgerKeys /\ QS!hash_payload(ops[i]) \in Payloads
<1>1. ops[i].rid \in Nat /\ ops[i].kind \in AskKinds /\ ops[i].target \in Nat /\ ops[i].opt \in Nat BY OpTyped
<1> QED BY <1>1 DEF QKey, QS!question_ledger_key, QS!hash_payload, LedgerKeys, Payloads

LEMMA FindIs ==
  ASSUME NEW l, NEW key, QS!Has(l, key)
  PROVE  QS!Find(l, key) \in l /\ QS!Find(l, key).key = key
BY DEF QS!Has, QS!Find


(* A request that is told something. *)
ToldAs(r, phase) == [r EXCEPT !.pc = "told", !.told = phase]

LEMMA ToldOp ==
  ASSUME NEW r \in AskOps, NEW phase \in AskPhases
  PROVE  /\ ToldAs(r, phase) \in AskOps /\ ToldAs(r, phase).pc = "told" /\ ToldAs(r, phase).told = phase
         /\ ToldAs(r, phase).rid = r.rid /\ ToldAs(r, phase).kind = r.kind /\ ToldAs(r, phase).target = r.target
         /\ ToldAs(r, phase).opt = r.opt /\ ToldAs(r, phase).token = r.token
         /\ ToldAs(r, phase).status = r.status /\ ToldAs(r, phase).keys = r.keys
         /\ ToldAs(r, phase).sent = r.sent /\ ToldAs(r, phase).clean = r.clean /\ ToldAs(r, phase).via = r.via
BY DEF AskOps, AskStages, ToldAs

LEMMA ToldIdent ==
  ASSUME NEW j, ops[j] \in AskOps, NEW phase \in AskPhases, ops'[j] = ToldAs(ops[j], phase)
  PROVE  /\ ops'[j].pc = "told" /\ ops'[j].told = phase /\ ops'[j].via = ops[j].via
         /\ ops'[j].clean = ops[j].clean /\ SameIdent(j) /\ ops'[j].sent = ops[j].sent
         /\ ops'[j].keys = ops[j].keys
BY ToldOp DEF SameIdent

LEMMA AnsweredFacts ==
  ASSUME NEW os \in Seq(AskOps), NEW e, NEW phase \in AskPhases
  PROVE  /\ QS!Answered(os, e, phase) \in Seq(AskOps) /\ DOMAIN QS!Answered(os, e, phase) = DOMAIN os
         /\ \A j \in DOMAIN os : j \notin e.waiters => QS!Answered(os, e, phase)[j] = os[j]
         /\ \A j \in DOMAIN os :
              j \in e.waiters => QS!Answered(os, e, phase)[j] = ToldAs(os[j], phase)
         /\ QS!Closed(os, e) = QS!Answered(os, e, "closed")
<1>1. ASSUME NEW j \in DOMAIN os
      PROVE  os[j] \in AskOps /\ ToldAs(os[j], phase) \in AskOps
  <2>1. PICK r \in AskOps : r = os[j] OBVIOUS
  <2> QED BY <2>1, ToldOp
<1>2. DOMAIN os = 1..Len(os) /\ Len(os) \in Nat OBVIOUS
<1>3. QS!Answered(os, e, phase) \in [1..Len(os) -> AskOps]
  <2>1. \A j \in DOMAIN os :
          (IF j \in e.waiters THEN ToldAs(os[j], phase) ELSE os[j]) \in AskOps
    BY <1>1
  <2> QED BY <1>2, <2>1, Zenon DEF QS!Answered, ToldAs
<1>4. QS!Answered(os, e, phase) \in Seq(AskOps) BY <1>2, <1>3
<1>5. QS!Closed(os, e) = QS!Answered(os, e, "closed") BY DEF QS!Closed, QS!Answered
<1>6. /\ DOMAIN QS!Answered(os, e, phase) = DOMAIN os
      /\ \A j \in DOMAIN os : j \notin e.waiters => QS!Answered(os, e, phase)[j] = os[j]
      /\ \A j \in DOMAIN os :
           j \in e.waiters => QS!Answered(os, e, phase)[j] = ToldAs(os[j], phase)
  BY DEF QS!Answered, ToldAs
<1> QED BY <1>4, <1>5, <1>6

(* Nobody but those in W, who only waited, and i changes. *)
Moves(i, W, phase) ==
  /\ ops' \in Seq(AskOps) /\ DOMAIN ops' = DOMAIN ops
  /\ \A j \in DOMAIN ops : SameIdent(j) /\ ops'[j].sent = ops[j].sent /\ ops'[j].keys = ops[j].keys
  /\ \A j \in DOMAIN ops : j # i /\ j \notin W => ops'[j] = ops[j]
  /\ \A j \in W : /\ j \in DOMAIN ops /\ j # i /\ ops[j].pc = "attached" /\ ops'[j].pc = "told"
                  /\ ops'[j].told = phase /\ ops'[j].via = ops[j].via /\ ops'[j].clean = ops[j].clean

LEMMA MovesFrom ==
  ASSUME AskTypes, NEW i \in DOMAIN ops, NEW os \in Seq(AskOps), DOMAIN os = DOMAIN ops,
         \A j \in DOMAIN ops : j # i => os[j] = ops[j],
         NEW r \in AskOps, os[i] = r,
         /\ r.rid = ops[i].rid /\ r.kind = ops[i].kind /\ r.target = ops[i].target /\ r.opt = ops[i].opt
         /\ r.token = ops[i].token /\ r.status = ops[i].status /\ r.sent = ops[i].sent /\ r.keys = ops[i].keys,
         NEW e, NEW W, W = e.waiters, NEW phase \in AskPhases, ops' = QS!Answered(os, e, phase),
         \A w \in W : w \in DOMAIN ops /\ w # i /\ ops[w].pc = "attached"
  PROVE  Moves(i, W, phase) /\ ops'[i] = r
<1>1. /\ ops' \in Seq(AskOps) /\ DOMAIN ops' = DOMAIN ops
      /\ \A j \in DOMAIN ops : j \notin W => ops'[j] = os[j]
      /\ \A j \in DOMAIN ops : j \in W => ops'[j] = ToldAs(os[j], phase)
  <2>1. PICK q : q = QS!Answered(os, e, phase) OBVIOUS
  <2>2. /\ q \in Seq(AskOps) /\ DOMAIN q = DOMAIN os
        /\ \A j \in DOMAIN os : j \notin e.waiters => q[j] = os[j]
        /\ \A j \in DOMAIN os : j \in e.waiters => q[j] = ToldAs(os[j], phase)
    BY <2>1, AnsweredFacts
  <2> QED BY <2>1, <2>2, Zenon
<1>2. i \notin W OBVIOUS
<1>3. ops'[i] = r BY <1>1, <1>2
<1>4. \A j \in DOMAIN ops : ops[j] \in AskOps BY OpTyped
<1>5. \A j \in W : /\ j \in DOMAIN ops /\ j # i /\ ops'[j] = ToldAs(ops[j], phase)
  BY <1>1
<1>6. \A j \in W : /\ ops'[j].pc = "told" /\ ops'[j].told = phase /\ ops'[j].via = ops[j].via
                   /\ ops'[j].clean = ops[j].clean /\ SameIdent(j) /\ ops'[j].sent = ops[j].sent
                   /\ ops'[j].keys = ops[j].keys
  <2> SUFFICES ASSUME NEW j \in W
               PROVE  /\ ops'[j].pc = "told" /\ ops'[j].told = phase /\ ops'[j].via = ops[j].via
                      /\ ops'[j].clean = ops[j].clean /\ SameIdent(j) /\ ops'[j].sent = ops[j].sent
                      /\ ops'[j].keys = ops[j].keys
    OBVIOUS
  <2>1. ops[j] \in AskOps /\ ops'[j] = ToldAs(ops[j], phase) BY <1>4, <1>5
  <2> QED BY <2>1, ToldIdent
<1>7. \A j \in DOMAIN ops : j # i /\ j \notin W => ops'[j] = ops[j] BY <1>1
<1>8. \A j \in DOMAIN ops : SameIdent(j) /\ ops'[j].sent = ops[j].sent /\ ops'[j].keys = ops[j].keys
  BY <1>3, <1>6, <1>7 DEF SameIdent
<1> QED BY <1>1, <1>3, <1>5, <1>6, <1>7, <1>8 DEF Moves

LEMMA TellFacts ==
  ASSUME AskTypes, NEW i \in DOMAIN ops, NEW phase \in AskPhases, NEW os, os = QS!Tell(i, phase)
  PROVE  /\ os \in Seq(AskOps) /\ DOMAIN os = DOMAIN ops
         /\ \A j \in DOMAIN ops : j # i => os[j] = ops[j]
         /\ os[i] = ToldAs(ops[i], phase)
<1>1. ops \in Seq(AskOps) /\ ops[i] \in AskOps BY OpTyped DEF AskTypes
<1>2. PICK t : t = ToldAs(ops[i], phase) OBVIOUS
<1>3. os = [ops EXCEPT ![i] = t] BY <1>1, <1>2 DEF QS!Tell, ToldAs
<1>4. t \in AskOps BY <1>1, <1>2, ToldOp
<1> QED BY <1>1, <1>2, <1>3, <1>4

-----------------------------------------------------------------------------
(* Responses: what a step leaves as it is *)

(* A step that only stains requests. *)
OpsStand ==
  /\ DOMAIN ops' = DOMAIN ops
  /\ \A j \in DOMAIN ops :
       /\ SameIdent(j) /\ ops'[j].pc = ops[j].pc /\ ops'[j].sent = ops[j].sent /\ ops'[j].told = ops[j].told
       /\ ops'[j].via = ops[j].via /\ ops'[j].keys = ops[j].keys
       /\ ops'[j].clean => ops[j].clean

BehindNext(t) == known'.token = QS!Absent \/ t < known'.token

LEMMA LedgerStands ==
  ASSUME AskTypes, LedgerHolds, OpsStand, entries' = entries, askOdds'.evicted = askOdds.evicted,
         \A t \in Nat : Behind(t) => BehindNext(t)
  PROVE  LedgerHolds'
<1>1. \A j \in DOMAIN ops : QKey(j)' = QKey(j) /\ QS!hash_payload(ops'[j]) = QS!hash_payload(ops[j])
  BY IdentKey DEF OpsStand
<1>2. EntriesFit'
  <2> SUFFICES ASSUME NEW e \in entries
               PROVE  /\ EntryOfOwner(e)' /\ WaitersOf(e)'
                      /\ e.key \notin askOdds.evicted => StageOf(e)'
    BY DEF LedgerHolds, EntriesFit, OnePerKey
  <2>1. EntryOfOwner(e) /\ WaitersOf(e) /\ (e.key \notin askOdds.evicted => StageOf(e))
    BY DEF LedgerHolds, EntriesFit
  <2>2. EntryOfOwner(e)' BY <1>1, <2>1 DEF EntryOfOwner, OpsStand, SameIdent
  <2>3. WaitersOf(e)' BY <1>1, <2>1 DEF WaitersOf, OpsStand
  <2>4. e.key \notin askOdds.evicted => StageOf(e)' BY <2>1 DEF StageOf, OpsStand, EntryOfOwner
  <2> QED BY <2>2, <2>3, <2>4
<1>3. FlightsFit'
  <2> SUFFICES ASSUME NEW i \in DOMAIN ops, (ops[i].pc \in Flying \/ ops[i].sent > 0), QKey(i) \notin askOdds.evicted
               PROVE  Kept(i) \/ (ops[i].pc = "told" /\ BehindNext(ops[i].token))
    BY <1>1 DEF FlightsFit, OpsStand, SameIdent, Kept, Behind, BehindNext, QS!Absent
  <2>1. ops[i].token \in Nat BY OpTyped
  <2> QED BY <2>1 DEF LedgerHolds, FlightsFit
<1>4. OneActs'
  <2> SUFFICES ASSUME NEW i \in DOMAIN ops, NEW j \in DOMAIN ops, i # j, QS!Same(i, j)', QKey(i) \notin askOdds.evicted
               PROVE  ~(Acting(i)' /\ Acting(j)')
    BY <1>1 DEF OneActs, OpsStand
  <2>1. QS!Same(i, j) BY <1>1 DEF QS!Same, QKey, OpsStand, SameIdent
  <2> QED BY <2>1 DEF LedgerHolds, OneActs, Acting, OpsStand
<1>5. OpsFit'
  <2> SUFFICES ASSUME NEW i \in DOMAIN ops PROVE OpFits(i)' BY DEF OpsFit, OpsStand
  <2>1. OpFits(i) BY DEF LedgerHolds, OpsFit
  <2> QED BY <2>1 DEF OpFits, OpsStand
<1>6. FailuresTrue'
  <2> SUFFICES ASSUME NEW i \in DOMAIN ops, ops[i].told \in Failing, QKey(i) \notin askOdds.evicted
               PROVE  IF ops[i].via = QS!NoOp THEN ops'[i].sent = 0
                        ELSE ops'[ops[i].via].sent = 0 /\ ops'[ops[i].via].pc = "told"
    BY <1>1 DEF FailuresTrue, OpsStand
  <2>1. OpFits(i) BY DEF LedgerHolds, OpsFit
  <2> QED BY <2>1 DEF LedgerHolds, FailuresTrue, OpFits, OpsStand
<1> QED BY <1>2, <1>3, <1>4, <1>5, <1>6 DEF LedgerHolds

(* A step after which no request sends or watches that did not before. *)
Quiet ==
  /\ DOMAIN ops' = DOMAIN ops
  /\ \A j \in DOMAIN ops :
       /\ SameIdent(j) /\ ops'[j].clean = ops[j].clean /\ ops'[j].keys = ops[j].keys
       /\ ops'[j].pc \in {"sending", "watching"} => ops'[j].pc = ops[j].pc

LEMMA HeadThere ==
  ASSUME AskTypes, KeysFit, term.inbox # <<>>
  PROVE  /\ 1 \in DOMAIN term.inbox /\ term.inbox[1] \in Strokes /\ term.inbox[1].op \in DOMAIN ops
         /\ term.inbox \in Seq(Strokes) /\ Len(term.inbox) \in Nat \ {0} /\ DOMAIN term.inbox = 1..Len(term.inbox)
<1>1. term.inbox \in Seq(Strokes) BY DEF AskTypes, AskTerms
<1>2. 1 \in DOMAIN term.inbox /\ term.inbox[1] \in Strokes /\ Len(term.inbox) \in Nat \ {0} BY <1>1
<1> QED BY <1>1, <1>2 DEF KeysFit

LEMMA TerminalStands ==
  ASSUME AskTypes, TerminalHolds, Quiet, term' = term, known'.status = known.status, askOdds'.lagged = askOdds.lagged
  PROVE  TerminalHolds'
<1>0. \A m \in DOMAIN term.inbox : term.inbox[m].op \in DOMAIN ops BY DEF TerminalHolds, KeysFit
<1>1. KeysFit' BY <1>0 DEF TerminalHolds, KeysFit, Quiet
<1>2. CleanHead' => CleanHead /\ term.inbox[1].op \in DOMAIN ops
  BY HeadThere DEF TerminalHolds, CleanHead, Quiet
<1>3. \A i \in DOMAIN ops : Aim(i) => Aim(i)' BY DEF Aim, Quiet, SameIdent, QS!Ident, QS!Over
<1>4. HeadAims'
  BY <1>2, <1>3 DEF TerminalHolds, HeadAims, Quiet, SameIdent
<1>5. SendersPoised'
  <2> SUFFICES ASSUME NEW i \in DOMAIN ops, ops[i].pc = "sending", ops[i].clean PROVE Poised(i)'
    BY DEF SendersPoised, Quiet
  <2>1. Poised(i) BY DEF TerminalHolds, SendersPoised
  <2> QED BY <1>3, <2>1 DEF Poised, Quiet, SameIdent
<1>6. EntersLand'
  BY DEF TerminalHolds, EntersLand, Typed, EnterComes, Quiet, SameIdent
<1>7. SendersSee'
  BY <1>2 DEF TerminalHolds, SendersSee, Quiet, SameIdent, QS!Ident, QS!Over
<1>8. CleanStays' /\ ~term'.astray BY DEF TerminalHolds, CleanStays, Quiet
<1> QED BY <1>1, <1>4, <1>5, <1>6, <1>7, <1>8 DEF TerminalHolds

LEMMA VerifiedStays ==
  ASSUME VerifiedStands, Quiet, term' = term, askOdds.evicted \subseteq askOdds'.evicted,
         pane'.pending = pane.pending
  PROVE  VerifiedStands'
<1>1. \A j \in DOMAIN ops : QKey(j)' = QKey(j) BY IdentKey DEF Quiet
<1> QED BY <1>1 DEF VerifiedStands, EnterComes, Quiet, SameIdent

LEMMA SuccessStays ==
  ASSUME SuccessTrue, Quiet, term' = term, askOdds.evicted \subseteq askOdds'.evicted,
         askOdds.lagged \subseteq askOdds'.lagged,
         \A j \in DOMAIN ops :
           ops'[j].told \in {"confirmed", "advanced"} /\ ops'[j].via = QS!NoOp /\ ops[j].clean =>
             \/ ops'[j].told = ops[j].told /\ ops[j].via = QS!NoOp
             \/ ops[j].kind \in Choosing /\ ~term.alike /\ QKey(j) \notin askOdds'.evicted
                   /\ j \notin askOdds'.lagged => j \in term.landed
  PROVE  SuccessTrue'
<1>1. \A j \in DOMAIN ops : QKey(j)' = QKey(j) BY IdentKey DEF Quiet
<1> QED BY <1>1 DEF SuccessTrue, Quiet, SameIdent

-----------------------------------------------------------------------------
(* Responses: the terminal *)

LEMMA TermFields ==
  ASSUME AskTypes
  PROVE  /\ term \in AskTerms /\ term.flow \in {"question", "approval"} /\ term.alike \in BOOLEAN
         /\ term.token \in Nat /\ term.at \in 1..3 /\ term.cursor \in 1..2 /\ term.busy \in BOOLEAN
         /\ term.inbox \in Seq(Strokes) /\ term.landed \in SUBSET Nat /\ term.astray \in BOOLEAN
BY DEF AskTypes, AskTerms

LEMMA GoesFacts ==
  ASSUME NEW t \in AskTerms, NEW to \in 1..3
  PROVE  /\ QS!Goes(t, to) \in AskTerms /\ QS!Goes(t, to).flow = t.flow /\ QS!Goes(t, to).alike = t.alike
         /\ QS!Goes(t, to).token = t.token /\ QS!Goes(t, to).inbox = t.inbox /\ QS!Goes(t, to).astray = t.astray
         /\ QS!Goes(t, to).landed = t.landed
<1>1. PICK b \in BOOLEAN : b = TRUE OBVIOUS
<1>2. PICK r : r = QS!Goes(t, to) OBVIOUS
<1>3. r = [t EXCEPT !.at = to, !.cursor = 1, !.busy = b] BY <1>1, <1>2 DEF QS!Goes
<1>4. r \in AskTerms
  <2>1. r = [flow |-> t.flow, alike |-> t.alike, token |-> t.token, at |-> to, cursor |-> 1, busy |-> b,
             inbox |-> t.inbox, landed |-> t.landed, astray |-> t.astray]
    BY <1>3 DEF AskTerms
  <2>2. 1 \in 1..2 OBVIOUS
  <2>3. /\ t.flow \in {"question", "approval"} /\ t.alike \in BOOLEAN /\ t.token \in Nat
        /\ t.inbox \in Seq(Strokes) /\ t.landed \in SUBSET Nat /\ t.astray \in BOOLEAN
    BY DEF AskTerms
  <2> QED BY <2>1, <2>2, <2>3, Zenon DEF AskTerms
<1>5. r.flow = t.flow /\ r.token = t.token /\ r.inbox = t.inbox /\ r.landed = t.landed BY <1>3 DEF AskTerms
<1>6. r.alike = t.alike /\ r.astray = t.astray BY <1>3 DEF AskTerms
<1> QED BY <1>2, <1>4, <1>5, <1>6

(* The terminal after a key. *)
LEMMA HandledIs ==
  ASSUME NEW t \in AskTerms, NEW k \in Strokes, NEW u, u = QS!Handled(t, k)
  PROVE  /\ u \in AskTerms /\ u.flow = t.flow /\ u.alike = t.alike /\ u.token = t.token
         /\ u.inbox = t.inbox /\ u.astray = t.astray /\ t.landed \subseteq u.landed
         /\ t.at # 3 /\ k.key \in {"Down", "Up"} =>
              u.at = t.at /\ u.busy = t.busy /\ u.cursor = IF k.key = "Down" THEN 2 ELSE 1
         /\ t.at # 3 /\ k.key = "Enter" => k.op \in u.landed
<1>0. k.key \in AskKeys /\ k.op \in Nat /\ t.at \in 1..3 /\ t.landed \in SUBSET Nat BY DEF Strokes, AskTerms
<1>1. CASE t.at = 3
  <2>1. t.at = QS!Over BY <1>1 DEF QS!Over
  <2>2. u = t BY <2>1 DEF QS!Handled
  <2> QED BY <1>1, <2>2
<1>2. CASE t.at # 3 /\ k.key = "Down"
  <2>1. u = [t EXCEPT !.cursor = 2] BY <1>2 DEF QS!Handled, QS!Over
  <2> QED BY <1>2, <2>1 DEF AskTerms
<1>3. CASE t.at # 3 /\ k.key = "Up"
  <2>1. u = [t EXCEPT !.cursor = 1] BY <1>3 DEF QS!Handled, QS!Over
  <2> QED BY <1>3, <2>1 DEF AskTerms
<1>4. CASE t.at # 3 /\ k.key \in {"Next", "Previous", "Chat"}
  <2>1. \E to \in 1..3 : u = QS!Goes(t, to)
    <3>1. CASE k.key = "Next"
      <4>1. u = QS!Goes(t, IF t.at = 1 THEN 2 ELSE t.at) BY <1>4, <3>1 DEF QS!Handled, QS!Over
      <4>2. (IF t.at = 1 THEN 2 ELSE t.at) \in 1..3 BY <1>0
      <4> QED BY <4>1, <4>2
    <3>2. CASE k.key = "Previous"
      BY <1>4, <3>2 DEF QS!Handled, QS!Over
    <3>3. CASE k.key = "Chat"
      BY <1>4, <3>3 DEF QS!Handled, QS!Over
    <3> QED BY <1>4, <3>1, <3>2, <3>3
  <2>2. PICK to \in 1..3 : u = QS!Goes(t, to) BY <2>1
  <2> QED BY <1>4, <2>2, GoesFacts
<1>5. CASE t.at # 3 /\ k.key = "Enter"
  <2>1. PICK v : v = [t EXCEPT !.landed = t.landed \cup {k.op}] OBVIOUS
  <2>2. u = QS!Goes(v, t.at + 1)
    BY <1>5, <2>1 DEF QS!Handled, QS!Over
  <2>3. PICK L \in SUBSET Nat : L = t.landed \cup {k.op} BY <1>0
  <2>4. /\ v \in AskTerms /\ v.flow = t.flow /\ v.alike = t.alike /\ v.token = t.token
        /\ v.inbox = t.inbox /\ v.astray = t.astray /\ v.landed = L
    BY <2>1, <2>3 DEF AskTerms
  <2>5. t.at + 1 \in 1..3 BY <1>0, <1>5
  <2>6. /\ u \in AskTerms /\ u.flow = v.flow /\ u.alike = v.alike /\ u.token = v.token
        /\ u.inbox = v.inbox /\ u.astray = v.astray /\ u.landed = v.landed
    BY <2>2, <2>4, <2>5, GoesFacts
  <2> QED BY <1>5, <2>3, <2>4, <2>6
<1> QED BY <1>0, <1>1, <1>2, <1>3, <1>4, <1>5 DEF AskKeys

LEMMA HandledFacts ==
  ASSUME NEW t \in AskTerms, NEW k \in Strokes
  PROVE  /\ QS!Handled(t, k) \in AskTerms /\ QS!Handled(t, k).flow = t.flow
         /\ QS!Handled(t, k).alike = t.alike /\ QS!Handled(t, k).token = t.token
         /\ QS!Handled(t, k).inbox = t.inbox /\ QS!Handled(t, k).astray = t.astray
         /\ t.landed \subseteq QS!Handled(t, k).landed
         /\ t.at # 3 /\ k.key \in {"Down", "Up"} =>
              /\ QS!Handled(t, k).at = t.at /\ QS!Handled(t, k).busy = t.busy
              /\ QS!Handled(t, k).cursor = IF k.key = "Down" THEN 2 ELSE 1
         /\ t.at # 3 /\ k.key = "Enter" => k.op \in QS!Handled(t, k).landed
<1>1. PICK u : u = QS!Handled(t, k) OBVIOUS
<1>2. /\ u \in AskTerms /\ u.flow = t.flow /\ u.alike = t.alike /\ u.token = t.token
      /\ u.inbox = t.inbox /\ u.astray = t.astray /\ t.landed \subseteq u.landed
      /\ t.at # 3 /\ k.key \in {"Down", "Up"} =>
           u.at = t.at /\ u.busy = t.busy /\ u.cursor = IF k.key = "Down" THEN 2 ELSE 1
      /\ t.at # 3 /\ k.key = "Enter" => k.op \in u.landed
  BY <1>1, HandledIs
<1> QED BY <1>1, <1>2, Zenon

LEMMA AgentReadsKeeps ==
  ASSUME AnswersInv, QS!AgentReads
  PROVE  AnswersInv'
<1> DEFINE k == Head(term.inbox)
<1>1. AskTypes /\ LedgerHolds /\ TokensFit /\ LockFits /\ TerminalHolds /\ VerifiedStands /\ SuccessTrue
  BY DEF AnswersInv
<1>2. /\ UNCHANGED <<known, entries, pane, ops, askOdds>> /\ term.inbox # <<>> /\ ~term.busy
      /\ term' = [QS!Handled([term EXCEPT !.inbox = Tail(term.inbox)], k) EXCEPT
                    !.astray = @ \/ QS!Astray(term, k)]
  BY DEF QS!AgentReads
<1>3. /\ term.inbox \in Seq(Strokes) /\ 1 \in DOMAIN term.inbox /\ k \in Strokes /\ k = term.inbox[1]
      /\ k.op \in DOMAIN ops /\ Len(term.inbox) \in Nat \ {0} /\ Tail(term.inbox) \in Seq(Strokes)
      /\ DOMAIN term.inbox = 1..Len(term.inbox)
  BY <1>1, <1>2, HeadThere DEF TerminalHolds
<1>4. /\ Len(Tail(term.inbox)) = Len(term.inbox) - 1 /\ DOMAIN Tail(term.inbox) = 1..(Len(term.inbox) - 1)
      /\ \A m \in 1..(Len(term.inbox) - 1) : Tail(term.inbox)[m] = term.inbox[m + 1]
  BY <1>3
<1>5. k.key \in AskKeys BY <1>3 DEF Strokes
<1>6. PICK t : t = [term EXCEPT !.inbox = Tail(term.inbox)] OBVIOUS
<1>7. /\ t \in AskTerms /\ t.flow = term.flow /\ t.alike = term.alike /\ t.token = term.token /\ t.at = term.at
      /\ t.cursor = term.cursor /\ t.busy = term.busy /\ t.inbox = Tail(term.inbox) /\ t.landed = term.landed
      /\ t.astray = term.astray
  BY <1>1, <1>3, <1>6, TermFields DEF AskTerms
<1>8. ~QS!Astray(term, k)
  <2> SUFFICES ASSUME QS!Astray(term, k) PROVE FALSE OBVIOUS
  <2>1. ops[k.op].clean BY DEF QS!Astray
  <2>2. CleanHead BY <1>2, <1>3, <2>1 DEF CleanHead
  <2>3. Aim(k.op) /\ (k.key = "Enter" => term.cursor = ops[k.op].opt)
    BY <1>1, <1>3, <2>2 DEF TerminalHolds, HeadAims
  <2> QED BY <2>3 DEF QS!Astray, Aim
<1>9. PICK u : u = QS!Handled(t, k) OBVIOUS
<1>10. /\ u \in AskTerms /\ u.flow = t.flow /\ u.alike = t.alike /\ u.token = t.token
       /\ u.inbox = t.inbox /\ u.astray = t.astray /\ t.landed \subseteq u.landed
       /\ t.at # 3 /\ k.key \in {"Down", "Up"} =>
            u.at = t.at /\ u.busy = t.busy /\ u.cursor = IF k.key = "Down" THEN 2 ELSE 1
       /\ t.at # 3 /\ k.key = "Enter" => k.op \in u.landed
  <2>1. PICK s \in Strokes : s = k BY <1>3
  <2>2. t \in AskTerms BY <1>7
  <2>3. u = QS!Handled(t, s) BY <1>9, <2>1
  <2> HIDE DEF k
  <2>4. /\ u \in AskTerms /\ u.flow = t.flow /\ u.alike = t.alike /\ u.token = t.token
        /\ u.inbox = t.inbox /\ u.astray = t.astray /\ t.landed \subseteq u.landed
        /\ t.at # 3 /\ s.key \in {"Down", "Up"} =>
             u.at = t.at /\ u.busy = t.busy /\ u.cursor = IF s.key = "Down" THEN 2 ELSE 1
        /\ t.at # 3 /\ s.key = "Enter" => s.op \in u.landed
    BY <2>2, <2>3, HandledFacts, Zenon
  <2> QED BY <2>1, <2>4, Zenon
<1>11. ~u.astray BY <1>1, <1>7, <1>10, Zenon DEF TerminalHolds
<1>12. term' = u
  <2>1. term' = [u EXCEPT !.astray = u.astray \/ QS!Astray(term, k)] BY <1>2, <1>6, <1>9
  <2>2. (u.astray \/ QS!Astray(term, k)) = u.astray BY <1>8, <1>10, <1>11 DEF AskTerms
  <2>3. term' = [u EXCEPT !.astray = u.astray] BY <2>1, <2>2, Zenon
  <2> QED BY <1>10, <2>3 DEF AskTerms
<1> HIDE DEF k
<1>13. /\ term' \in AskTerms /\ term'.alike = term.alike /\ term'.token = term.token /\ term'.flow = term.flow
       /\ term'.inbox = Tail(term.inbox) /\ term.landed \subseteq term'.landed /\ ~term'.astray
       /\ term.at # 3 /\ k.key \in {"Down", "Up"} =>
            term'.at = term.at /\ term'.busy = term.busy /\ term'.cursor = IF k.key = "Down" THEN 2 ELSE 1
       /\ term.at # 3 /\ k.key = "Enter" => k.op \in term'.landed
  BY <1>7, <1>10, <1>11, <1>12
<1>14. AskTypes' BY <1>1, <1>2, <1>13 DEF AskTypes
<1>15. OpsStand BY <1>2 DEF OpsStand, SameIdent
<1>16. LedgerHolds' BY <1>1, <1>2, <1>15, LedgerStands DEF Behind, BehindNext
<1>17. TokensFit' BY <1>1, <1>2, <1>13 DEF TokensFit, QS!Absent
<1>18. LockFits' BY <1>1, <1>2 DEF LockFits
<1>19. \A m \in DOMAIN term'.inbox : m + 1 \in DOMAIN term.inbox /\ term'.inbox[m] = term.inbox[m + 1] /\ m \in Nat \ {0}
  BY <1>3, <1>4, <1>13
<1>20. ASSUME NEW m \in DOMAIN term'.inbox, ops[term'.inbox[m].op].clean
       PROVE  /\ m = 1 /\ term.inbox[2].op = k.op /\ k.key \in {"Down", "Up"} /\ term.inbox[2].key = "Enter"
              /\ term.inbox[2] = term'.inbox[1] /\ CleanHead
  <2>1. m + 1 = 2 /\ k.key \in {"Down", "Up"} /\ term.inbox[2].key = "Enter" /\ term.inbox[1].op = term.inbox[2].op
    BY <1>1, <1>3, <1>19, <1>20 DEF TerminalHolds, KeysFit
  <2>2. m = 1 BY <1>19, <1>20, <2>1
  <2>3. term.inbox[2] = term'.inbox[1] BY <1>19, <1>20, <2>2
  <2>4. ops[term.inbox[1].op].clean BY <1>20, <2>1, <2>2, <2>3
  <2> QED BY <1>2, <1>3, <2>1, <2>2, <2>3, <2>4 DEF CleanHead
<1>21. KeysFit'
  <2>1. \A m \in DOMAIN term'.inbox : term'.inbox[m].op \in DOMAIN ops BY <1>1, <1>19 DEF TerminalHolds, KeysFit
  <2>2. ASSUME NEW m \in DOMAIN term'.inbox, ops[term'.inbox[m].op].clean
        PROVE  m = 1
    BY <1>20, <2>2
  <2>3. ASSUME NEW m \in DOMAIN term'.inbox, ops[term'.inbox[m].op].clean
        PROVE  /\ \A l \in 1..m : term'.inbox[l].op = term'.inbox[m].op
               /\ m # 1 => m = 2 /\ term'.inbox[1].key \in {"Down", "Up"} /\ term'.inbox[2].key = "Enter"
    BY <2>2, <2>3
  <2>4. ops' = ops BY <1>2
  <2> QED BY <2>1, <2>3, <2>4 DEF KeysFit
<1>22. CleanHead' => /\ CleanHead /\ k.key \in {"Down", "Up"} /\ term'.inbox[1].op = k.op /\ term'.inbox[1].key = "Enter"
  <2> SUFFICES ASSUME CleanHead'
               PROVE  /\ CleanHead /\ k.key \in {"Down", "Up"} /\ term'.inbox[1].op = k.op /\ term'.inbox[1].key = "Enter"
    OBVIOUS
  <2>1. 1 \in DOMAIN term'.inbox BY <1>3, <1>4, <1>13 DEF CleanHead
  <2> QED BY <1>2, <1>20, <2>1 DEF CleanHead
<1>23. CleanHead => /\ Aim(k.op) /\ term.at # 3 /\ (k.key = "Enter" => term.cursor = ops[k.op].opt)
                    /\ (k.key = "Down" => ops[k.op].opt = 2) /\ (k.key = "Up" => ops[k.op].opt = 1)
  BY <1>1, <1>3 DEF TerminalHolds, HeadAims, Aim, QS!Over
<1>24. CleanHead /\ k.key \in {"Down", "Up"} =>
         /\ term'.at = term.at /\ term'.busy = term.busy /\ term'.cursor = ops[k.op].opt
         /\ \A i \in DOMAIN ops : Aim(i) => Aim(i)'
  <2> SUFFICES ASSUME CleanHead, k.key \in {"Down", "Up"}
               PROVE  /\ term'.at = term.at /\ term'.busy = term.busy /\ term'.cursor = ops[k.op].opt
                      /\ \A i \in DOMAIN ops : Aim(i) => Aim(i)'
    OBVIOUS
  <2>1. term'.at = term.at /\ term'.busy = term.busy /\ term'.cursor = ops[k.op].opt BY <1>13, <1>23
  <2> QED BY <1>2, <1>13, <2>1 DEF Aim, QS!Ident, QS!Over
<1>25. HeadAims' BY <1>2, <1>3, <1>22, <1>23, <1>24 DEF HeadAims
<1>26. SendersPoised'
  <2> SUFFICES ASSUME NEW i \in DOMAIN ops, ops[i].pc = "sending", ops[i].clean PROVE Poised(i)'
    BY <1>2 DEF SendersPoised
  <2>1. Poised(i) BY <1>1 DEF TerminalHolds, SendersPoised
  <2>2. k.op = i /\ CleanHead BY <1>2, <1>3, <2>1 DEF Poised, CleanHead
  <2>3. \A m \in DOMAIN term'.inbox : term'.inbox[m].op = i BY <1>19, <2>1 DEF Poised
  <2>4. ASSUME ops[i].keys # <<>>
        PROVE  /\ Aim(i) /\ ops[i].keys = <<"Enter">> /\ k.key \in {"Down", "Up"} /\ Len(term.inbox) = 1
    BY <1>2, <1>3, <2>1, <2>4 DEF Poised
  <2>5. ops[i].keys # <<>> => /\ Aim(i)' /\ ops[i].keys = <<"Enter">> /\ term'.inbox = <<>>
                              /\ term'.cursor = ops[i].opt
    <3> SUFFICES ASSUME ops[i].keys # <<>>
                 PROVE  Aim(i)' /\ ops[i].keys = <<"Enter">> /\ term'.inbox = <<>> /\ term'.cursor = ops[i].opt
      OBVIOUS
    <3>1. /\ Aim(i) /\ ops[i].keys = <<"Enter">> /\ k.key \in {"Down", "Up"} /\ Len(term.inbox) = 1 BY <2>4
    <3>2. term'.inbox = <<>> BY <1>3, <1>4, <1>13, <3>1
    <3> QED BY <1>24, <2>2, <3>1, <3>2
  <2> QED BY <1>2, <2>3, <2>5 DEF Poised
<1>27. EntersLand'
  <2> SUFFICES ASSUME NEW i \in DOMAIN ops, Typed(i), ops[i].clean, ops[i].kind \in Choosing
               PROVE  i \in term'.landed \/ EnterComes(i)'
    BY <1>2 DEF EntersLand, Typed
  <2>1. i \in term.landed \/ EnterComes(i) BY <1>1 DEF TerminalHolds, EntersLand
  <2>2. CASE i \in term.landed BY <1>13, <2>2
  <2>3. CASE EnterComes(i)
    <3>1. PICK m \in DOMAIN term.inbox : term.inbox[m].op = i /\ term.inbox[m].key = "Enter" BY <2>3 DEF EnterComes
    <3>2. CASE m = 1
      <4>1. CleanHead /\ k.key = "Enter" /\ k.op = i BY <1>2, <1>3, <3>1, <3>2 DEF CleanHead
      <4> QED BY <1>13, <1>23, <4>1
    <3>3. CASE m # 1
      <4>1. m - 1 \in DOMAIN term'.inbox /\ term'.inbox[m - 1] = term.inbox[m] BY <1>3, <1>4, <1>13, <3>3
      <4> QED BY <3>1, <4>1 DEF EnterComes
    <3> QED BY <3>2, <3>3
  <2> QED BY <2>1, <2>2, <2>3
<1>28. SendersSee' BY <1>1, <1>2, <1>13, <1>22, <1>24 DEF TerminalHolds, SendersSee, QS!Ident, QS!Over
<1>29. CleanStays' BY <1>1, <1>2, <1>13 DEF TerminalHolds, CleanStays
<1>30. TerminalHolds' BY <1>13, <1>21, <1>25, <1>26, <1>27, <1>28, <1>29 DEF TerminalHolds
<1>31. VerifiedStands'
  <2>1. \A i \in DOMAIN ops : EnterComes(i)' => EnterComes(i) BY <1>19 DEF EnterComes
  <2> QED BY <1>1, <1>2, <1>13, <2>1 DEF VerifiedStands, QKey, QS!question_ledger_key
<1>32. SuccessTrue' BY <1>1, <1>2, <1>13 DEF SuccessTrue, QKey, QS!question_ledger_key
<1> QED BY <1>14, <1>16, <1>17, <1>18, <1>30, <1>31, <1>32 DEF AnswersInv

LEMMA AgentPaintsKeeps ==
  ASSUME AnswersInv, QS!AgentPaints
  PROVE  AnswersInv'
<1>1. AskTypes /\ LedgerHolds /\ TokensFit /\ LockFits /\ TerminalHolds /\ VerifiedStands /\ SuccessTrue
  BY DEF AnswersInv
<1>2. /\ UNCHANGED <<known, entries, pane, ops, askOdds>> /\ term.busy /\ term' = [term EXCEPT !.busy = FALSE]
  BY DEF QS!AgentPaints
<1>3. PICK b \in BOOLEAN : b = FALSE OBVIOUS
<1>4. term' = [term EXCEPT !.busy = b] BY <1>2, <1>3
<1>5. /\ term' \in AskTerms /\ term'.flow = term.flow /\ term'.alike = term.alike /\ term'.token = term.token
      /\ term'.at = term.at /\ term'.cursor = term.cursor /\ term'.inbox = term.inbox /\ term'.landed = term.landed
      /\ term'.astray = term.astray
  BY <1>1, <1>4, TermFields DEF AskTerms
<1>6. AskTypes' BY <1>1, <1>2, <1>5 DEF AskTypes
<1>7. OpsStand BY <1>2 DEF OpsStand, SameIdent
<1>8. LedgerHolds' BY <1>1, <1>2, <1>7, LedgerStands DEF Behind, BehindNext
<1>9. TokensFit' BY <1>1, <1>2, <1>5 DEF TokensFit, QS!Absent
<1>10. LockFits' BY <1>1, <1>2 DEF LockFits
<1>11. ~CleanHead BY <1>1, <1>2 DEF TerminalHolds, HeadAims, Aim
<1>12. ~CleanHead' BY <1>2, <1>5, <1>11 DEF CleanHead
<1>13. KeysFit' BY <1>1, <1>2, <1>5 DEF TerminalHolds, KeysFit
<1>14. SendersPoised'
  <2> SUFFICES ASSUME NEW i \in DOMAIN ops, ops[i].pc = "sending", ops[i].clean PROVE Poised(i)'
    BY <1>2 DEF SendersPoised
  <2>1. Poised(i) BY <1>1 DEF TerminalHolds, SendersPoised
  <2>2. ops[i].keys = <<>> BY <1>2, <2>1 DEF Poised, Aim
  <2> QED BY <1>2, <1>5, <2>1, <2>2 DEF Poised
<1>15. EntersLand' BY <1>1, <1>2, <1>5 DEF TerminalHolds, EntersLand, Typed, EnterComes
<1>16. HeadAims' /\ SendersSee' BY <1>12 DEF HeadAims, SendersSee
<1>17. CleanStays' /\ ~term'.astray BY <1>1, <1>2, <1>5 DEF TerminalHolds, CleanStays
<1>18. TerminalHolds' BY <1>13, <1>14, <1>15, <1>16, <1>17 DEF TerminalHolds
<1>19. VerifiedStands'
  <2>1. \A i : QKey(i)' = QKey(i) BY <1>2 DEF QKey
  <2>2. \A i : EnterComes(i)' => EnterComes(i) BY <1>5 DEF EnterComes
  <2> QED BY <1>1, <1>2, <1>5, <2>1, <2>2 DEF VerifiedStands
<1>20. SuccessTrue' BY <1>1, <1>2, <1>5 DEF SuccessTrue, QKey, QS!question_ledger_key
<1> QED BY <1>6, <1>8, <1>9, <1>10, <1>18, <1>19, <1>20 DEF AnswersInv

(* Whoever stains every request owes the terminal nothing. *)
LEMMA StainedKeeps ==
  ASSUME AnswersInv, ops' = QS!Stained, UNCHANGED <<known, entries, pane>>,
         askOdds' \in [n : Nat, evicted : SUBSET LedgerKeys, lagged : SUBSET Nat],
         askOdds'.evicted = askOdds.evicted, term' \in AskTerms, ~term'.astray,
         term'.inbox = term.inbox \/ term'.inbox = <<>>,
         term'.token # QS!Absent => term.token # QS!Absent /\ term.token <= term'.token
  PROVE  AnswersInv'
<1>1. AskTypes /\ LedgerHolds /\ TokensFit /\ LockFits /\ TerminalHolds BY DEF AnswersInv
<1>2. PICK b \in BOOLEAN : b = FALSE OBVIOUS
<1>3. ops' = [i \in DOMAIN ops |-> [ops[i] EXCEPT !.clean = b]] BY <1>2 DEF QS!Stained
<1>4. \A j \in DOMAIN ops : ops'[j] = [ops[j] EXCEPT !.clean = b] BY <1>3
<1>5. DOMAIN ops' = DOMAIN ops BY <1>3
<1>6. ASSUME NEW j \in DOMAIN ops
      PROVE  /\ ops'[j] \in AskOps /\ SameIdent(j) /\ ops'[j].pc = ops[j].pc /\ ops'[j].sent = ops[j].sent
             /\ ops'[j].told = ops[j].told /\ ops'[j].via = ops[j].via /\ ops'[j].keys = ops[j].keys
             /\ ~ops'[j].clean
  <2>1. PICK r \in AskOps : r = ops[j] BY <1>1, OpTyped
  <2>2. ops'[j] = [r EXCEPT !.clean = b] BY <1>4, <2>1
  <2> QED BY <1>2, <2>1, <2>2 DEF AskOps, SameIdent
<1>7. ops' \in Seq(AskOps)
  <2>1. DOMAIN ops = 1..Len(ops) /\ Len(ops) \in Nat BY <1>1 DEF AskTypes
  <2>2. ops' \in [1..Len(ops) -> AskOps] BY <1>3, <1>5, <1>6, <2>1
  <2> QED BY <2>1, <2>2
<1>8. AskTypes' BY <1>1, <1>7 DEF AskTypes
<1>9. OpsStand BY <1>5, <1>6 DEF OpsStand
<1>10. LedgerHolds' BY <1>1, <1>9, LedgerStands DEF Behind, BehindNext
<1>11. TokensFit'
  <2>1. term.token \in Nat /\ term'.token \in Nat /\ known.token \in Nat BY <1>1, <1>8 DEF AskTypes, AskTerms
  <2>2. term'.token # QS!Absent => known.token # QS!Absent /\ known.token <= term'.token
    BY <1>1, <2>1 DEF TokensFit
  <2>3. known.token # QS!Absent => \A i \in DOMAIN ops : ops'[i].token <= known.token
    BY <1>1, <1>6 DEF TokensFit, SameIdent
  <2> QED BY <1>5, <2>2, <2>3 DEF TokensFit, QS!Absent
<1>12. LockFits' BY <1>1, <1>5, <1>6 DEF LockFits, QS!NoOp
<1>13. \A m \in DOMAIN term'.inbox : term'.inbox[m].op \in DOMAIN ops BY <1>1 DEF TerminalHolds, KeysFit
<1>14. KeysFit' BY <1>5, <1>6, <1>13 DEF KeysFit
<1>15. ~CleanHead'
  <2> SUFFICES ASSUME term'.inbox # <<>> PROVE ~ops'[term'.inbox[1].op].clean BY DEF CleanHead
  <2>1. 1 \in DOMAIN term.inbox /\ term'.inbox = term.inbox BY <1>1, HeadThere DEF TerminalHolds
  <2> QED BY <1>6, <1>13, <2>1
<1>16. HeadAims' /\ SendersSee' BY <1>15 DEF HeadAims, SendersSee
<1>17. SendersPoised' /\ EntersLand' /\ CleanStays' BY <1>5, <1>6 DEF SendersPoised, EntersLand, CleanStays
<1>18. TerminalHolds' BY <1>14, <1>16, <1>17 DEF TerminalHolds
<1>19. VerifiedStands' /\ SuccessTrue' BY <1>5, <1>6 DEF VerifiedStands, SuccessTrue
<1> QED BY <1>8, <1>10, <1>11, <1>12, <1>18, <1>19 DEF AnswersInv

LEMMA CostFacts ==
  ASSUME AskTypes, QS!Cost
  PROVE  /\ askOdds' \in [n : Nat, evicted : SUBSET LedgerKeys, lagged : SUBSET Nat]
         /\ askOdds'.evicted = askOdds.evicted /\ askOdds'.lagged = askOdds.lagged
<1>1. askOdds \in [n : Nat, evicted : SUBSET LedgerKeys, lagged : SUBSET Nat] BY DEF AskTypes
<1>2. PICK m \in Nat : m = askOdds.n + 1 BY <1>1
<1>3. askOdds' = [askOdds EXCEPT !.n = m] BY <1>2 DEF QS!Cost
<1> QED BY <1>1, <1>3

LEMMA HandKeeps ==
  ASSUME AnswersInv, QS!Hand
  PROVE  AnswersInv'
<1>1. AskTypes BY DEF AnswersInv
<1>2. QS!Cost /\ ops' = QS!Stained /\ UNCHANGED <<known, entries, pane>> BY DEF QS!Hand
<1>3. term \in AskTerms BY <1>1, TermFields
<1>4. PICK k \in Strokes : k = [key |-> "Enter", op |-> QS!NoOp] BY DEF Strokes, AskKeys, QS!NoOp
<1>5. term' = QS!Handled(term, k) BY <1>4 DEF QS!Hand
<1>6. term' \in AskTerms /\ term'.inbox = term.inbox /\ term'.astray = term.astray /\ term'.token = term.token
  BY <1>3, <1>5, HandledFacts, Zenon
<1>7. ~term'.astray BY <1>6, Zenon DEF AnswersInv, TerminalHolds
<1>8. term'.token # QS!Absent => term.token # QS!Absent /\ term.token <= term'.token BY <1>1, <1>6, TermFields
<1> QED BY <1>1, <1>2, <1>6, <1>7, <1>8, CostFacts, StainedKeeps

FreshAs(t, n, a) == [QS!Fresh(t) EXCEPT !.token = n, !.at = a]

LEMMA FreshFacts ==
  ASSUME NEW t \in AskTerms, NEW n \in Nat, NEW a \in 1..3
  PROVE  /\ FreshAs(t, n, a) \in AskTerms /\ FreshAs(t, n, a).inbox = <<>> /\ FreshAs(t, n, a).token = n
         /\ ~t.astray => ~FreshAs(t, n, a).astray
<1>1. PICK b \in BOOLEAN : b = FALSE OBVIOUS
<1>0. <<>> \in Seq(Strokes) OBVIOUS
<1>2. PICK s \in Seq(Strokes) : s = <<>> BY <1>0, Zenon
<1>3. PICK u : u = FreshAs(t, n, a) OBVIOUS
<1>4. u = [flow |-> t.flow, alike |-> t.alike, token |-> n, at |-> a, cursor |-> 1, busy |-> b,
             inbox |-> s, landed |-> t.landed, astray |-> t.astray]
  BY <1>1, <1>2, <1>3 DEF AskTerms, QS!Fresh, FreshAs
<1>5. 1 \in 1..2 OBVIOUS
<1>6. /\ t.flow \in {"question", "approval"} /\ t.alike \in BOOLEAN /\ t.landed \in SUBSET Nat /\ t.astray \in BOOLEAN
  BY DEF AskTerms
<1>7. u \in AskTerms BY <1>4, <1>5, <1>6, Zenon DEF AskTerms
<1>8. u.inbox = s /\ u.token = n /\ u.astray = t.astray BY <1>4
<1>9. ~t.astray => ~u.astray BY <1>4, Zenon
<1> QED BY <1>2, <1>3, <1>7, <1>8, <1>9

LEMMA ReplaceKeeps ==
  ASSUME AnswersInv, QS!Replace
  PROVE  AnswersInv'
<1>1. AskTypes /\ ~term.astray BY DEF AnswersInv, TerminalHolds
<1>2. QS!Cost /\ ops' = QS!Stained /\ UNCHANGED <<known, entries, pane>> /\ term.token # QS!Absent BY DEF QS!Replace
<1>3. term \in AskTerms /\ term.token \in Nat BY <1>1, TermFields
<1>5. PICK n \in Nat : n = term.token + 1 BY <1>3
<1>4. term' = FreshAs(term, n, 1)
  BY <1>3, <1>5 DEF QS!Replace, QS!Fresh, AskTerms, FreshAs
<1>6. term' \in AskTerms /\ term'.inbox = <<>> /\ term'.token = n /\ ~term'.astray
  <2>1. 1 \in 1..3 OBVIOUS
  <2> QED BY <1>1, <1>3, <1>4, <1>5, <2>1, FreshFacts, Zenon
<1>7. term'.token # QS!Absent => term.token # QS!Absent /\ term.token <= term'.token BY <1>2, <1>3, <1>5, <1>6
<1> QED BY <1>1, <1>2, <1>6, <1>7, CostFacts, StainedKeeps

LEMMA CloseKeeps ==
  ASSUME AnswersInv, QS!Close
  PROVE  AnswersInv'
<1>1. AskTypes /\ ~term.astray BY DEF AnswersInv, TerminalHolds
<1>2. QS!Cost /\ ops' = QS!Stained /\ UNCHANGED <<known, entries, pane>> BY DEF QS!Close
<1>3. term \in AskTerms BY <1>1, TermFields
<1>4. term' = FreshAs(term, 0, 3) BY DEF QS!Close, QS!Absent, QS!Over, FreshAs
<1>5. term' \in AskTerms /\ term'.inbox = <<>> /\ term'.token = 0 /\ ~term'.astray
  <2>1. 3 \in 1..3 /\ 0 \in Nat OBVIOUS
  <2> QED BY <1>1, <1>3, <1>4, <2>1, FreshFacts, Zenon
<1>6. term'.token # QS!Absent => term.token # QS!Absent /\ term.token <= term'.token BY <1>5 DEF QS!Absent
<1> QED BY <1>1, <1>2, <1>5, <1>6, CostFacts, StainedKeeps

LEMMA RebindKeeps ==
  ASSUME AnswersInv, QS!Rebind
  PROVE  AnswersInv'
<1>1. AskTypes /\ LedgerHolds /\ TokensFit /\ LockFits /\ TerminalHolds /\ VerifiedStands /\ SuccessTrue
  BY DEF AnswersInv
<1>2. /\ QS!Cost /\ UNCHANGED <<known, entries, pane, ops>> /\ term.token # QS!Absent
      /\ term' = [term EXCEPT !.token = term.token + 1]
  BY DEF QS!Rebind
<1>3. term.token \in Nat /\ term \in AskTerms BY <1>1, TermFields
<1>4. PICK n \in Nat : n = term.token + 1 BY <1>3
<1>5. /\ term' \in AskTerms /\ term'.flow = term.flow /\ term'.alike = term.alike /\ term'.token = n
      /\ term'.at = term.at /\ term'.cursor = term.cursor /\ term'.inbox = term.inbox /\ term'.landed = term.landed
      /\ term'.astray = term.astray /\ term'.busy = term.busy
  BY <1>2, <1>3, <1>4 DEF AskTerms
<1>6. /\ askOdds' \in [n : Nat, evicted : SUBSET LedgerKeys, lagged : SUBSET Nat]
      /\ askOdds'.evicted = askOdds.evicted /\ askOdds'.lagged = askOdds.lagged
  BY <1>1, <1>2, CostFacts
<1>7. AskTypes' BY <1>1, <1>2, <1>5, <1>6 DEF AskTypes
<1>8. OpsStand BY <1>2 DEF OpsStand, SameIdent
<1>9. LedgerHolds' BY <1>1, <1>2, <1>6, <1>8, LedgerStands DEF Behind, BehindNext
<1>10. TokensFit'
  <2>1. known.token \in Nat BY <1>1 DEF AskTypes
  <2>2. n # QS!Absent /\ known.token <= n /\ known.token # QS!Absent
    BY <1>1, <1>2, <1>3, <1>4, <2>1 DEF TokensFit, QS!Absent
  <2> QED BY <1>1, <1>2, <1>5, <2>2 DEF TokensFit, QS!Absent
<1>11. LockFits' BY <1>1, <1>2 DEF LockFits
<1>12. \A i : Aim(i) => Aim(i)' BY <1>2, <1>5, <1>6, SMTT(30) DEF Aim, QS!Ident, QS!Over
<1>13. (CleanHead' => CleanHead) /\ KeysFit' BY <1>1, <1>2, <1>5 DEF TerminalHolds, CleanHead, KeysFit
<1>14. HeadAims' BY <1>1, <1>2, <1>5, <1>12, <1>13 DEF TerminalHolds, HeadAims
<1>15. SendersPoised'
  <2> SUFFICES ASSUME NEW i \in DOMAIN ops, ops[i].pc = "sending", ops[i].clean PROVE Poised(i)'
    BY <1>2 DEF SendersPoised
  <2>1. Poised(i) BY <1>1 DEF TerminalHolds, SendersPoised
  <2> QED BY <1>2, <1>5, <1>12, <2>1 DEF Poised
<1>16. EntersLand' BY <1>1, <1>2, <1>5 DEF TerminalHolds, EntersLand, Typed, EnterComes
<1>17. SendersSee' BY <1>1, <1>2, <1>5, <1>13 DEF TerminalHolds, SendersSee, QS!Ident, QS!Over
<1>18. CleanStays' /\ ~term'.astray BY <1>1, <1>3, <1>4, <1>5 DEF TerminalHolds, CleanStays, QS!Absent
<1>19. TerminalHolds' BY <1>13, <1>14, <1>15, <1>16, <1>17, <1>18 DEF TerminalHolds
<1>20. VerifiedStands'
  <2>1. \A i : QKey(i)' = QKey(i) BY <1>2 DEF QKey
  <2>2. \A i : EnterComes(i)' => EnterComes(i) BY <1>5 DEF EnterComes
  <2> QED BY <1>1, <1>2, <1>5, <1>6, <2>1, <2>2 DEF VerifiedStands
<1>21. SuccessTrue' BY <1>1, <1>2, <1>5, <1>6 DEF SuccessTrue, QKey, QS!question_ledger_key
<1> QED BY <1>7, <1>9, <1>10, <1>11, <1>19, <1>20, <1>21 DEF AnswersInv

LEMMA PublishKeeps ==
  ASSUME AnswersInv, QS!Publish
  PROVE  AnswersInv'
<1>1. AskTypes /\ LedgerHolds /\ TokensFit /\ LockFits /\ TerminalHolds /\ VerifiedStands /\ SuccessTrue
  BY DEF AnswersInv
<1>2. /\ UNCHANGED <<term, entries, ops, askOdds>> /\ known' = [token |-> term.token, status |-> QS!Status]
      /\ QS!forget_pane
  BY DEF QS!Publish
<1>3. term.token \in Nat /\ known.token \in Nat /\ term.busy \in BOOLEAN BY <1>1, TermFields DEF AskTypes
<1>4. QS!Status \in AskStatuses BY DEF QS!Status, AskStatuses
<1>5. known'.token = term.token /\ known'.status = QS!Status /\ known' \in [token : Nat, status : AskStatuses]
  BY <1>2, <1>3, <1>4
<1>6. /\ pane' \in [lock : Nat, pending : [event : Nat, look : Nat, token : Nat]] /\ pane'.lock = pane.lock
      /\ term.token # QS!Absent => pane' = pane
  <2>1. pane \in [lock : Nat, pending : [event : Nat, look : Nat, token : Nat]] BY <1>1 DEF AskTypes
  <2>2. QS!NoPending \in [event : Nat, look : Nat, token : Nat] BY DEF QS!NoPending, QS!Absent
  <2>3. CASE term.token = QS!Absent
    <3>1. pane' = [pane EXCEPT !.pending = QS!NoPending] BY <1>2, <2>3 DEF QS!forget_pane
    <3> QED BY <2>1, <2>2, <2>3, <3>1
  <2>4. CASE term.token # QS!Absent BY <1>2, <2>1, <2>4 DEF QS!forget_pane
  <2> QED BY <2>3, <2>4
<1>7. AskTypes' BY <1>1, <1>2, <1>5, <1>6 DEF AskTypes
<1>8. OpsStand BY <1>2 DEF OpsStand, SameIdent
<1>9. \A t \in Nat : Behind(t) => BehindNext(t) BY <1>1, <1>3, <1>5 DEF Behind, BehindNext, TokensFit
<1>10. LedgerHolds' BY <1>1, <1>2, <1>8, <1>9, LedgerStands
<1>11. TokensFit'
  <2>1. \A i \in DOMAIN ops : ops[i].token \in Nat BY <1>1, OpTyped
  <2> QED BY <1>1, <1>2, <1>3, <1>5, <2>1 DEF TokensFit, QS!Absent
<1>12. LockFits' BY <1>1, <1>2, <1>6 DEF LockFits
<1>13. \A i : Aim(i) => Aim(i)' BY <1>2, <1>5 DEF Aim, QS!Status, QS!Ident, QS!Over
<1>14. (CleanHead' => CleanHead) /\ KeysFit' BY <1>1, <1>2 DEF TerminalHolds, CleanHead, KeysFit
<1>15. HeadAims' BY <1>1, <1>2, <1>13, <1>14 DEF TerminalHolds, HeadAims
<1>16. SendersPoised' BY <1>1, <1>2, <1>13 DEF TerminalHolds, SendersPoised, Poised
<1>17. EntersLand' BY <1>1, <1>2 DEF TerminalHolds, EntersLand, Typed, EnterComes
<1>18. SendersSee' BY <1>1, <1>2, <1>14 DEF TerminalHolds, SendersSee, QS!Ident, QS!Over
<1>19. CleanStays' /\ ~term'.astray BY <1>1, <1>2 DEF TerminalHolds, CleanStays
<1>20. TerminalHolds' BY <1>14, <1>15, <1>16, <1>17, <1>18, <1>19 DEF TerminalHolds
<1>21. VerifiedStands'
  <2>1. ASSUME NEW i \in DOMAIN ops, ops[i].clean PROVE pane' = pane BY <1>1, <1>6, <2>1 DEF TerminalHolds, CleanStays
  <2>2. \A i : QKey(i)' = QKey(i) BY <1>2 DEF QKey
  <2>3. \A i : EnterComes(i)' => EnterComes(i) BY <1>2 DEF EnterComes
  <2> QED BY <1>1, <1>2, <2>1, <2>2, <2>3 DEF VerifiedStands
<1>22. SuccessTrue' BY <1>1, <1>2 DEF SuccessTrue, QKey, QS!question_ledger_key
<1> QED BY <1>7, <1>10, <1>11, <1>12, <1>20, <1>21, <1>22 DEF AnswersInv

-----------------------------------------------------------------------------
(* Responses: a request arrives *)

Blank(r) ==
  /\ r \in AskOps /\ r.token = known.token /\ r.pc = "replay" /\ r.sent = 0 /\ ~r.clean
  /\ r.told = QS!Nothing /\ r.via = QS!NoOp

LEMMA ArrivalKeeps ==
  ASSUME AnswersInv, NEW r, Blank(r), ops' = Append(ops, r), UNCHANGED <<term, known, entries, pane, askOdds>>
  PROVE  AnswersInv'
<1>1. AskTypes /\ LedgerHolds /\ TokensFit /\ LockFits /\ TerminalHolds /\ VerifiedStands /\ SuccessTrue
  BY DEF AnswersInv
<1> DEFINE n == Len(ops) + 1
<1>2. ops \in Seq(AskOps) /\ r \in AskOps BY <1>1 DEF AskTypes, Blank
<1>3. /\ ops' \in Seq(AskOps) /\ DOMAIN ops' = DOMAIN ops \cup {n} /\ n \notin DOMAIN ops /\ n \in Nat /\ n # 0
      /\ ops'[n] = r /\ \A j \in DOMAIN ops : ops'[j] = ops[j]
  BY <1>2
<1> HIDE DEF n
<1>4. /\ ops'[n].token = known.token /\ ops'[n].pc = "replay" /\ ops'[n].sent = 0 /\ ~ops'[n].clean
      /\ ops'[n].told = QS!Nothing /\ ops'[n].via = QS!NoOp
  BY <1>3 DEF Blank
<1>5. AskTypes' BY <1>1, <1>3 DEF AskTypes
<1>6. \A j \in DOMAIN ops : QKey(j)' = QKey(j) /\ QS!hash_payload(ops'[j]) = QS!hash_payload(ops[j])
  BY <1>3 DEF QKey
<1>7. EntriesFit'
  <2> SUFFICES ASSUME NEW e \in entries
               PROVE  EntryOfOwner(e)' /\ WaitersOf(e)' /\ (e.key \notin askOdds.evicted => StageOf(e)')
    BY <1>1 DEF LedgerHolds, EntriesFit, OnePerKey
  <2>1. EntryOfOwner(e) /\ WaitersOf(e) /\ (e.key \notin askOdds.evicted => StageOf(e))
    BY <1>1 DEF LedgerHolds, EntriesFit
  <2>2. EntryOfOwner(e)' BY <1>3, <1>6, <2>1 DEF EntryOfOwner
  <2>3. WaitersOf(e)' BY <1>3, <1>6, <2>1 DEF WaitersOf
  <2>4. e.key \notin askOdds.evicted => StageOf(e)' BY <1>3, <2>1 DEF StageOf, EntryOfOwner
  <2> QED BY <2>2, <2>3, <2>4
<1>8. FlightsFit'
  <2> SUFFICES ASSUME NEW i \in DOMAIN ops', ops'[i].pc \in Flying \/ ops'[i].sent > 0, QKey(i)' \notin askOdds.evicted
               PROVE  Kept(i) \/ (ops'[i].pc = "told" /\ Behind(ops'[i].token))
    BY DEF FlightsFit, Kept, Behind
  <2>1. i \in DOMAIN ops BY <1>3, <1>4 DEF Flying
  <2>2. ops'[i] = ops[i] /\ QKey(i)' = QKey(i) BY <1>3, <1>6, <2>1
  <2> QED BY <1>1, <2>1, <2>2 DEF LedgerHolds, FlightsFit
<1>9. OneActs'
  <2> SUFFICES ASSUME NEW i \in DOMAIN ops', NEW j \in DOMAIN ops', i # j, QS!Same(i, j)', QKey(i)' \notin askOdds.evicted,
                      Acting(i)', Acting(j)'
               PROVE  FALSE
    BY DEF OneActs
  <2>1. i \in DOMAIN ops /\ j \in DOMAIN ops BY <1>3, <1>4 DEF Acting
  <2>2. QS!Same(i, j) /\ Acting(i) /\ Acting(j) BY <1>3, <2>1 DEF QS!Same, Acting
  <2> QED BY <1>1, <1>6, <2>1, <2>2 DEF LedgerHolds, OneActs
<1>10. OpsFit'
  <2> SUFFICES ASSUME NEW i \in DOMAIN ops' PROVE OpFits(i)' BY DEF OpsFit
  <2>1. CASE i = n BY <1>4, <2>1 DEF OpFits
  <2>2. CASE i \in DOMAIN ops BY <1>1, <1>3, <2>2 DEF LedgerHolds, OpsFit, OpFits
  <2> QED BY <1>3, <2>1, <2>2
<1>11. FailuresTrue'
  <2> SUFFICES ASSUME NEW i \in DOMAIN ops', ops'[i].told \in Failing, QKey(i)' \notin askOdds.evicted
               PROVE  IF ops'[i].via = QS!NoOp THEN ops'[i].sent = 0
                        ELSE ops'[ops'[i].via].sent = 0 /\ ops'[ops'[i].via].pc = "told"
    BY DEF FailuresTrue
  <2>1. i \in DOMAIN ops BY <1>3, <1>4 DEF Failing, QS!Nothing
  <2>2. OpFits(i) /\ ops'[i] = ops[i] /\ QKey(i)' = QKey(i) BY <1>1, <1>3, <1>6, <2>1 DEF LedgerHolds, OpsFit
  <2> QED BY <1>1, <1>3, <2>1, <2>2 DEF LedgerHolds, FailuresTrue, OpFits
<1>12. LedgerHolds' BY <1>7, <1>8, <1>9, <1>10, <1>11 DEF LedgerHolds
<1>13. TokensFit'
  <2>1. known.token \in Nat BY <1>1 DEF AskTypes
  <2> QED BY <1>1, <1>3, <1>4, <2>1 DEF TokensFit, QS!Absent
<1>14. LockFits' BY <1>1, <1>3, <1>4 DEF LockFits, QS!NoOp
<1>15. \A m \in DOMAIN term.inbox : term.inbox[m].op \in DOMAIN ops BY <1>1 DEF TerminalHolds, KeysFit
<1>16. KeysFit' BY <1>1, <1>3, <1>15 DEF TerminalHolds, KeysFit
<1>17. CleanHead' => CleanHead /\ term.inbox[1].op \in DOMAIN ops
  BY <1>1, <1>3, HeadThere DEF TerminalHolds, CleanHead
<1>18. \A i \in DOMAIN ops : Aim(i) => Aim(i)' BY <1>3 DEF Aim, QS!Ident, QS!Over
<1>19. HeadAims' BY <1>1, <1>3, <1>17, <1>18 DEF TerminalHolds, HeadAims
<1>20. SendersPoised'
  <2> SUFFICES ASSUME NEW i \in DOMAIN ops', ops'[i].pc = "sending", ops'[i].clean PROVE Poised(i)'
    BY DEF SendersPoised
  <2>1. i \in DOMAIN ops /\ ops'[i] = ops[i] BY <1>3, <1>4
  <2>2. Poised(i) BY <1>1, <2>1 DEF TerminalHolds, SendersPoised
  <2> QED BY <1>18, <2>1, <2>2 DEF Poised
<1>21. EntersLand' BY <1>1, <1>3, <1>4 DEF TerminalHolds, EntersLand, Typed, EnterComes
<1>22. SendersSee' BY <1>1, <1>3, <1>4, <1>17 DEF TerminalHolds, SendersSee, QS!Ident, QS!Over
<1>23. CleanStays' /\ ~term'.astray BY <1>1, <1>3, <1>4 DEF TerminalHolds, CleanStays
<1>24. TerminalHolds' BY <1>16, <1>19, <1>20, <1>21, <1>22, <1>23 DEF TerminalHolds
<1>25. VerifiedStands'
  <2>1. \A i : EnterComes(i)' => EnterComes(i) BY DEF EnterComes
  <2> QED BY <1>1, <1>3, <1>4, <1>6, <2>1 DEF VerifiedStands
<1>26. SuccessTrue' BY <1>1, <1>3, <1>4, <1>6 DEF SuccessTrue
<1> QED BY <1>5, <1>12, <1>13, <1>14, <1>24, <1>25, <1>26 DEF AnswersInv

LEMMA NewOpBlank ==
  ASSUME AskTypes, NEW rid \in Nat, NEW kind \in AskKinds, NEW target \in 1..2, NEW opt \in 1..2
  PROVE  Blank(QS!NewOp(rid, kind, target, opt))
<1>1. known.token \in Nat /\ known.status \in AskStatuses BY DEF AskTypes
<1>2. <<>> \in Seq(AskKeys) OBVIOUS
<1>3. PICK b \in BOOLEAN : b = FALSE OBVIOUS
<1>4. PICK r : r = QS!NewOp(rid, kind, target, opt) OBVIOUS
<1>5. r = [rid |-> rid, kind |-> kind, target |-> target, opt |-> opt, token |-> known.token,
           status |-> known.status, pc |-> "replay", keys |-> <<>>, sent |-> 0, clean |-> b,
           told |-> "nothing", via |-> 0]
  BY <1>3, <1>4 DEF QS!NewOp, QS!Nothing, QS!NoOp
<1>6. r \in AskOps
  <2>1. "replay" \in AskStages /\ "nothing" \in AskPhases /\ 0 \in Nat BY DEF AskStages, AskPhases
  <2> QED BY <1>1, <1>2, <1>5, <2>1, Zenon DEF AskOps
<1>7. r.token = known.token /\ r.pc = "replay" /\ r.sent = 0 /\ r.told = QS!Nothing /\ r.via = QS!NoOp /\ r.clean = b
  BY <1>5 DEF QS!Nothing, QS!NoOp
<1> QED BY <1>3, <1>4, <1>6, <1>7 DEF Blank

LEMMA AskRequestKeeps ==
  ASSUME AnswersInv, NEW kind \in AskKinds, NEW opt \in 1..2, QS!Request(kind, opt)
  PROVE  AnswersInv'
<1>1. AskTypes BY DEF AnswersInv
<1>2. UNCHANGED <<term, known, entries, pane, askOdds>> BY DEF QS!Request
<1>3. PICK p \in QS!Prompts : ops' = Append(ops, QS!NewOp(Len(ops) + 1, kind, p, opt)) BY DEF QS!Request
<1>4. p \in 1..2 /\ Len(ops) + 1 \in Nat BY <1>1 DEF QS!Prompts, AskTypes
<1>5. PICK n \in Nat : n = Len(ops) + 1 BY <1>4
<1>6. Blank(QS!NewOp(n, kind, p, opt)) BY <1>1, <1>4, NewOpBlank
<1> QED BY <1>2, <1>3, <1>5, <1>6, ArrivalKeeps

LEMMA RetryKeeps ==
  ASSUME AnswersInv, NEW i \in DOMAIN ops, QS!Retry(i)
  PROVE  AnswersInv'
<1>1. AskTypes BY DEF AnswersInv
<1>2. /\ UNCHANGED <<term, known, entries, pane, askOdds>>
      /\ ops' = Append(ops, QS!NewOp(i, ops[i].kind, ops[i].target, ops[i].opt))
  BY DEF QS!Retry
<1>3. i \in Nat /\ ops[i].kind \in AskKinds /\ ops[i].target \in 1..2 /\ ops[i].opt \in 1..2 BY <1>1, OpTyped
<1>4. Blank(QS!NewOp(i, ops[i].kind, ops[i].target, ops[i].opt)) BY <1>1, <1>3, NewOpBlank
<1> QED BY <1>2, <1>4, ArrivalKeeps

-----------------------------------------------------------------------------
(* Responses: a step of one request on the ledger *)

(* What a request that is told that nothing was sent can rely on. *)
FailureHolds(j) ==
  ops[j].told \in Failing /\ QKey(j) \notin askOdds.evicted =>
    IF ops[j].via = QS!NoOp THEN ops[j].sent = 0 ELSE ops[ops[j].via].sent = 0 /\ ops[ops[j].via].pc = "told"

LEMMA LedgerStep ==
  ASSUME AskTypes, LedgerHolds, NEW i \in DOMAIN ops, NEW W, NEW phase \in AskPhases, Moves(i, W, phase),
         known' = known, askOdds.evicted \subseteq askOdds'.evicted, EntriesFit', ops[i].pc # "told",
         \A j \in DOMAIN ops : j # i /\ Kept(j) /\ QKey(j) \notin askOdds'.evicted => Kept(j)',
         (ops'[i].pc \in Flying \/ ops[i].sent > 0) /\ QKey(i) \notin askOdds'.evicted =>
           Kept(i)' \/ (ops'[i].pc = "told" /\ Behind(ops[i].token)),
         ops'[i].pc \in {"sending", "watching"} => ops[i].pc \in {"sending", "watching"},
         OpFits(i)', FailureHolds(i)',
         \A w \in W : phase \in Failing /\ QKey(w) \notin askOdds'.evicted =>
           ops[w].via # QS!NoOp /\ ops'[ops[w].via].sent = 0 /\ ops'[ops[w].via].pc = "told"
  PROVE  LedgerHolds'
<1>1. \A j \in DOMAIN ops : QKey(j)' = QKey(j) BY IdentKey DEF Moves
<1>2. DOMAIN ops' = DOMAIN ops BY DEF Moves
<1>3. \A j \in DOMAIN ops : \/ j = i \/ ops'[j] = ops[j]
                            \/ j \in W /\ ops[j].pc = "attached" /\ ops'[j].pc = "told"
  BY DEF Moves
<1>4. \A j \in DOMAIN ops : ops'[j].token = ops[j].token /\ ops'[j].sent = ops[j].sent BY DEF Moves, SameIdent
<1>5. \A j \in DOMAIN ops : OpFits(j) BY DEF LedgerHolds, OpsFit
<1>6. FlightsFit'
  <2> SUFFICES ASSUME NEW j \in DOMAIN ops, ops'[j].pc \in Flying \/ ops'[j].sent > 0, QKey(j)' \notin askOdds'.evicted
               PROVE  Kept(j)' \/ (ops'[j].pc = "told" /\ Behind(ops'[j].token))
    BY <1>2 DEF FlightsFit, Behind
  <2>1. CASE j = i BY <1>1, <1>4, <2>1
  <2>2. CASE j # i /\ ops'[j] = ops[j]
    BY <1>1, <2>2 DEF LedgerHolds, FlightsFit
  <2>3. CASE ops[j].pc = "attached" /\ ops'[j].pc = "told"
    BY <1>4, <1>5, <2>3 DEF OpFits, Flying
  <2> QED BY <1>3, <2>1, <2>2, <2>3
<1>7. OneActs'
  <2>1. ASSUME NEW j \in DOMAIN ops, Acting(j)' PROVE Acting(j)
    <3>1. CASE ops'[j] = ops[j] BY <2>1, <3>1 DEF Acting
    <3>2. CASE j = i BY <1>4, <2>1, <3>2 DEF Acting
    <3>3. CASE ops[j].pc = "attached" /\ ops'[j].pc = "told" BY <1>4, <2>1, <3>3 DEF Acting
    <3> QED BY <1>3, <3>1, <3>2, <3>3
  <2> SUFFICES ASSUME NEW j \in DOMAIN ops, NEW l \in DOMAIN ops, j # l, QS!Same(j, l)', QKey(j)' \notin askOdds'.evicted,
                      Acting(j)', Acting(l)'
               PROVE  FALSE
    BY <1>2 DEF OneActs
  <2>2. QS!Same(j, l) BY <1>1, <1>4 DEF QS!Same, QKey
  <2> QED BY <1>1, <2>1, <2>2 DEF LedgerHolds, OneActs
<1>8. OpsFit'
  <2> SUFFICES ASSUME NEW j \in DOMAIN ops PROVE OpFits(j)' BY <1>2 DEF OpsFit
  <2>1. CASE j = i BY <2>1
  <2>2. CASE ops'[j] = ops[j] BY <1>2, <1>5, <2>2 DEF OpFits
  <2>3. CASE j \in W
    <3>1. /\ ops[j].pc = "attached" /\ ops'[j].pc = "told" /\ ops'[j].via = ops[j].via /\ ops'[j].clean = ops[j].clean
      BY <2>3 DEF Moves
    <3> QED BY <1>2, <1>4, <1>5, <3>1 DEF OpFits
  <2> QED BY <1>3, <2>1, <2>2, <2>3
<1>9. FailuresTrue'
  <2> SUFFICES ASSUME NEW j \in DOMAIN ops PROVE FailureHolds(j)' BY <1>2 DEF FailuresTrue, FailureHolds
  <2>1. CASE j = i BY <2>1
  <2>2. CASE j # i /\ ops'[j] = ops[j]
    <3> SUFFICES ASSUME ops[j].told \in Failing, QKey(j) \notin askOdds.evicted
                 PROVE  IF ops[j].via = QS!NoOp THEN ops[j].sent = 0
                          ELSE ops'[ops[j].via].sent = 0 /\ ops'[ops[j].via].pc = "told"
      BY <1>1, <2>2 DEF FailureHolds
    <3>1. IF ops[j].via = QS!NoOp THEN ops[j].sent = 0
                          ELSE ops[ops[j].via].sent = 0 /\ ops[ops[j].via].pc = "told"
      BY DEF LedgerHolds, FailuresTrue
    <3>2. ops[j].via # QS!NoOp => ops[j].via \in DOMAIN ops BY <1>5 DEF OpFits
    <3> QED BY <1>3, <3>1, <3>2
  <2>3. CASE j \in W
    <3>1. ops'[j].told = phase /\ ops'[j].via = ops[j].via BY <2>3 DEF Moves
    <3> QED BY <1>1, <2>3, <3>1 DEF FailureHolds
  <2> QED BY <1>3, <2>1, <2>2, <2>3
<1> QED BY <1>6, <1>7, <1>8, <1>9 DEF LedgerHolds

(* An entry that nobody touches. *)
LEMMA EntryStays ==
  ASSUME AskTypes, LedgerHolds, NEW i \in DOMAIN ops, NEW W, NEW phase \in AskPhases, Moves(i, W, phase),
         ops[i].pc # "attached", NEW e \in entries, e.waiters \cap W = {}, e.owner # i, askOdds.evicted \subseteq askOdds'.evicted
  PROVE  EntryOfOwner(e)' /\ WaitersOf(e)' /\ (e.key \notin askOdds'.evicted => StageOf(e)')
<1>1. EntryOfOwner(e) /\ WaitersOf(e) /\ (e.key \notin askOdds.evicted => StageOf(e))
  BY DEF LedgerHolds, EntriesFit
<1>2. \A j \in DOMAIN ops : QKey(j)' = QKey(j) /\ QS!hash_payload(ops'[j]) = QS!hash_payload(ops[j])
  BY IdentKey DEF Moves
<1>3. ops'[e.owner] = ops[e.owner]
  <2>1. ops[e.owner].pc # "attached" BY <1>1 DEF EntryOfOwner, Flying
  <2> QED BY <1>1, <2>1 DEF EntryOfOwner, Moves
<1>4. EntryOfOwner(e)' BY <1>1, <1>2, <1>3 DEF EntryOfOwner, Moves
<1>5. WaitersOf(e)'
  <2>1. \A w \in e.waiters : ops'[w] = ops[w] BY <1>1 DEF WaitersOf, Moves
  <2> QED BY <1>1, <1>2, <2>1 DEF WaitersOf, Moves
<1>6. e.key \notin askOdds'.evicted => StageOf(e)' BY <1>1, <1>3 DEF StageOf
<1> QED BY <1>4, <1>5, <1>6

(* Who owns an entry has that one only; entries share no waiters. *)
LEMMA OwnersApart ==
  ASSUME AskTypes, LedgerHolds, NEW e \in entries, NEW d \in entries, e.owner = d.owner \/ e.waiters \cap d.waiters # {}
  PROVE  e = d
<1>1. /\ EntryOfOwner(e) /\ EntryOfOwner(d) /\ WaitersOf(e) /\ WaitersOf(d) /\ OnePerKey
  BY DEF LedgerHolds, EntriesFit
<1>2. e.key = d.key BY <1>1 DEF EntryOfOwner, WaitersOf
<1> QED BY <1>1, <1>2 DEF OnePerKey

LEMMA EvictsFacts ==
  ASSUME AskTypes, LedgerHolds, NEW new
  PROVE  /\ QS!Evicts(entries, new) \in [n : Nat, evicted : SUBSET LedgerKeys, lagged : SUBSET Nat]
         /\ askOdds.evicted \subseteq QS!Evicts(entries, new).evicted
         /\ QS!Evicts(entries, new).lagged = askOdds.lagged
         /\ \A e \in entries : (\A n \in new : n.owner # e.owner) => e.key \in QS!Evicts(entries, new).evicted
<1>1. askOdds \in [n : Nat, evicted : SUBSET LedgerKeys, lagged : SUBSET Nat] BY DEF AskTypes
<1>2. {e.key : e \in {o \in entries : \A n \in new : n.owner # o.owner}} \subseteq LedgerKeys BY EntryFields
<1>3. PICK K \in SUBSET LedgerKeys : K = askOdds.evicted \cup {e.key : e \in {o \in entries : \A n \in new : n.owner # o.owner}}
  BY <1>1, <1>2
<1>4. QS!Evicts(entries, new) = [askOdds EXCEPT !.evicted = K] BY <1>3 DEF QS!Evicts
<1>5. /\ QS!Evicts(entries, new) \in [n : Nat, evicted : SUBSET LedgerKeys, lagged : SUBSET Nat]
      /\ QS!Evicts(entries, new).evicted = K /\ QS!Evicts(entries, new).lagged = askOdds.lagged
  BY <1>1, <1>4
<1>6. \A e \in entries : (\A n \in new : n.owner # e.owner) => e.key \in K BY <1>3
<1> QED BY <1>3, <1>5, <1>6

-----------------------------------------------------------------------------
(* Responses: requests at the ledger *)

LEMMA MovesAlone ==
  ASSUME AskTypes, NEW i \in DOMAIN ops, NEW r \in AskOps, ops' = [ops EXCEPT ![i] = r],
         /\ r.rid = ops[i].rid /\ r.kind = ops[i].kind /\ r.target = ops[i].target /\ r.opt = ops[i].opt
         /\ r.token = ops[i].token /\ r.status = ops[i].status /\ r.sent = ops[i].sent /\ r.keys = ops[i].keys,
         NEW phase
  PROVE  Moves(i, {}, phase) /\ ops'[i] = r
<1>1. ops \in Seq(AskOps) BY DEF AskTypes
<1>2. /\ ops' \in Seq(AskOps) /\ DOMAIN ops' = DOMAIN ops /\ ops'[i] = r
      /\ \A j \in DOMAIN ops : j # i => ops'[j] = ops[j]
  BY <1>1
<1>3. \A j \in DOMAIN ops : SameIdent(j) /\ ops'[j].sent = ops[j].sent /\ ops'[j].keys = ops[j].keys
  BY <1>2 DEF SameIdent
<1> QED BY <1>2, <1>3 DEF Moves

(* What a step of one request leaves as it is, when it neither sends nor     *)
(* watches by it.                                                            *)
LEMMA MovesRest ==
  ASSUME AnswersInv, NEW i \in DOMAIN ops, NEW W, NEW phase \in AskPhases, Moves(i, W, phase),
         ops'[i].clean = ops[i].clean, ops'[i].pc \in {"sending", "watching"} => ops'[i].pc = ops[i].pc,
         term' = term, known' = known, askOdds.evicted \subseteq askOdds'.evicted, askOdds'.lagged = askOdds.lagged,
         ops'[i].told \in {"confirmed", "advanced"} /\ ops'[i].via = QS!NoOp /\ ops[i].clean =>
             \/ ops'[i].told = ops[i].told /\ ops[i].via = QS!NoOp
             \/ ops[i].kind \in Choosing /\ ~term.alike /\ QKey(i) \notin askOdds'.evicted
                   /\ i \notin askOdds'.lagged => i \in term.landed
  PROVE  /\ TokensFit' /\ TerminalHolds' /\ SuccessTrue' /\ Quiet
         /\ pane'.pending = pane.pending => VerifiedStands'
<1>1. AskTypes /\ LedgerHolds /\ TokensFit /\ TerminalHolds /\ VerifiedStands /\ SuccessTrue
  BY DEF AnswersInv
<1>2. DOMAIN ops' = DOMAIN ops /\ \A j \in DOMAIN ops : SameIdent(j) /\ ops'[j].keys = ops[j].keys BY DEF Moves
<1>3. \A j \in DOMAIN ops : j # i /\ j \notin W => ops'[j] = ops[j] BY DEF Moves
<1>4. \A j \in W : /\ j \in DOMAIN ops /\ ops[j].pc = "attached" /\ ops'[j].pc = "told"
                   /\ ops'[j].clean = ops[j].clean
  BY DEF Moves
<1>5. Quiet
  <2> SUFFICES ASSUME NEW j \in DOMAIN ops
               PROVE  /\ ops'[j].clean = ops[j].clean
                      /\ ops'[j].pc \in {"sending", "watching"} => ops'[j].pc = ops[j].pc
    BY <1>2 DEF Quiet
  <2>1. CASE j = i BY <2>1
  <2>2. CASE j \in W BY <1>4, <2>2
  <2>3. CASE ops'[j] = ops[j] BY <2>3
  <2> QED BY <1>3, <2>1, <2>2, <2>3
<1>6. TokensFit' BY <1>1, <1>2 DEF TokensFit, SameIdent, QS!Absent
<1>7. TerminalHolds' BY <1>1, <1>5, TerminalStands
<1>8. SuccessTrue'
  <2>1. \A j \in W : ~ops[j].clean BY <1>1, <1>4 DEF LedgerHolds, OpsFit, OpFits
  <2>2. \A j \in DOMAIN ops :
           ops'[j].told \in {"confirmed", "advanced"} /\ ops'[j].via = QS!NoOp /\ ops[j].clean =>
             \/ ops'[j].told = ops[j].told /\ ops[j].via = QS!NoOp
             \/ ops[j].kind \in Choosing /\ ~term.alike /\ QKey(j) \notin askOdds'.evicted
                   /\ j \notin askOdds'.lagged => j \in term.landed
    <3> SUFFICES ASSUME NEW j \in DOMAIN ops, ops'[j].told \in {"confirmed", "advanced"}, ops'[j].via = QS!NoOp, ops[j].clean
                 PROVE  \/ ops'[j].told = ops[j].told /\ ops[j].via = QS!NoOp
                        \/ ops[j].kind \in Choosing /\ ~term.alike /\ QKey(j) \notin askOdds'.evicted
                               /\ j \notin askOdds'.lagged => j \in term.landed
      OBVIOUS
    <3>1. CASE j = i BY <3>1
    <3>2. CASE j \in W BY <2>1, <3>2
    <3>3. CASE ops'[j] = ops[j] BY <3>3
    <3> QED BY <1>3, <3>1, <3>2, <3>3
  <2>3. askOdds.lagged \subseteq askOdds'.lagged OBVIOUS
  <2> QED BY <1>1, <1>5, <2>2, <2>3, SuccessStays
<1>9. pane'.pending = pane.pending => VerifiedStands' BY <1>1, <1>5, VerifiedStays
<1> QED BY <1>5, <1>6, <1>7, <1>8, <1>9

LEMMA LockStays ==
  ASSUME LockFits, NEW i \in DOMAIN ops, NEW W, NEW phase, Moves(i, W, phase), pane'.lock = pane.lock,
         ops[i].pc \notin {"reading", "sending"}, ops'[i].pc \notin {"reading", "sending"}
  PROVE  LockFits'
<1>1. DOMAIN ops' = DOMAIN ops BY DEF Moves
<1>2. \A j \in DOMAIN ops : j = i \/ ops'[j] = ops[j] \/ (ops[j].pc = "attached" /\ ops'[j].pc = "told") BY DEF Moves
<1> QED BY <1>1, <1>2 DEF LockFits

(* A request is admitted: entries go, and at most one is added. *)
NewEntryFits(x) == EntryTyped(x) /\ EntryOfOwner(x)' /\ WaitersOf(x)' /\ (x.key \notin askOdds'.evicted => StageOf(x)')
AdmitsLedger(l, X) ==
  /\ askOdds' = QS!Evicts(entries, entries') /\ entries' = l \cup X /\ l \in SUBSET entries
  /\ \A x \in X : NewEntryFits(x)
  /\ \A x \in X : \A d \in l : d.key # x.key
  /\ \A x, y \in X : x = y
AdmitsOp(i, W, l, X) ==
  /\ UNCHANGED <<term, known, pane>> /\ ops[i].pc \in {"replay", "schedule"}
  /\ Moves(i, W, "closed")
  /\ W = {} \/ \E d \in entries : W = d.waiters /\ d \notin l /\ \A x \in X : x.owner # d.owner
  /\ ops'[i].pc \in {"schedule", "locking", "attached", "told"} /\ ops'[i].clean = ops[i].clean
  /\ ops'[i].pc = "locking" => \E x \in X : x.owner = i
  /\ ops'[i].via # QS!NoOp => ops'[i].via \in DOMAIN ops /\ ops'[i].pc \in {"attached", "told"}
  /\ ops'[i].told # QS!Nothing => ops'[i].pc = "told"
  /\ FailureHolds(i)'

LEMMA AdmissionKeeps ==
  ASSUME AnswersInv, NEW i \in DOMAIN ops, NEW W, NEW l, NEW X, AdmitsLedger(l, X), AdmitsOp(i, W, l, X)
  PROVE  AnswersInv'
<1>0. /\ UNCHANGED <<term, known, pane>> /\ ops[i].pc \in {"replay", "schedule"} /\ Moves(i, W, "closed")
      /\ W = {} \/ \E d \in entries : W = d.waiters /\ d \notin l /\ \A x \in X : x.owner # d.owner
      /\ ops'[i].pc \in {"schedule", "locking", "attached", "told"} /\ ops'[i].clean = ops[i].clean
      /\ ops'[i].pc = "locking" => \E x \in X : x.owner = i
      /\ ops'[i].via # QS!NoOp => ops'[i].via \in DOMAIN ops /\ ops'[i].pc \in {"attached", "told"}
      /\ ops'[i].told # QS!Nothing => ops'[i].pc = "told"
      /\ FailureHolds(i)'
  BY DEF AdmitsOp
<1>00. /\ askOdds' = QS!Evicts(entries, entries') /\ entries' = l \cup X /\ l \in SUBSET entries
       /\ \A x \in X : /\ EntryTyped(x) /\ EntryOfOwner(x)' /\ WaitersOf(x)' /\ (x.key \notin askOdds'.evicted => StageOf(x)')
                        /\ \A d \in l : d.key # x.key
                        /\ \A y \in X : x = y
  BY DEF AdmitsLedger, NewEntryFits
<1> USE <1>0, <1>00
<1>1. AskTypes /\ LedgerHolds /\ LockFits BY DEF AnswersInv
<1>2. OpFits(i) BY <1>1 DEF LedgerHolds, OpsFit
<1>3. ops[i].sent = 0 /\ ~ops[i].clean /\ ops[i].via = QS!NoOp /\ ops[i].told = QS!Nothing BY <1>2 DEF OpFits
<1>4. /\ askOdds' \in [n : Nat, evicted : SUBSET LedgerKeys, lagged : SUBSET Nat]
      /\ askOdds.evicted \subseteq askOdds'.evicted /\ askOdds'.lagged = askOdds.lagged
      /\ \A e \in entries : (\A n \in entries' : n.owner # e.owner) => e.key \in askOdds'.evicted
  <2>1. PICK new : new = entries' OBVIOUS
  <2>2. /\ QS!Evicts(entries, new) \in [n : Nat, evicted : SUBSET LedgerKeys, lagged : SUBSET Nat]
        /\ askOdds.evicted \subseteq QS!Evicts(entries, new).evicted
        /\ QS!Evicts(entries, new).lagged = askOdds.lagged
        /\ \A e \in entries : (\A n \in new : n.owner # e.owner) => e.key \in QS!Evicts(entries, new).evicted
    BY <1>1, EvictsFacts
  <2> QED BY <2>1, <2>2
<1>5. ops' \in Seq(AskOps) /\ DOMAIN ops' = DOMAIN ops BY DEF Moves
<1>6. AskTypes' BY <1>1, <1>4, <1>5 DEF AskTypes, EntryTyped
<1>7. ops'[i].sent = ops[i].sent BY DEF Moves
<1>8. "closed" \in AskPhases BY DEF AskPhases
<1>9. \A w \in W : QKey(w) \in askOdds'.evicted
  <2> SUFFICES ASSUME NEW w \in W PROVE QKey(w) \in askOdds'.evicted OBVIOUS
  <2>1. PICK d \in entries : W = d.waiters /\ d \notin l /\ \A x \in X : x.owner # d.owner OBVIOUS
  <2>2. \A n \in entries' : n.owner # d.owner BY <1>1, <2>1, OwnersApart
  <2>3. d.key \in askOdds'.evicted BY <1>4, <2>2
  <2>4. WaitersOf(d) BY <1>1 DEF LedgerHolds, EntriesFit
  <2> QED BY <2>1, <2>3, <2>4 DEF WaitersOf
<1>10. \A e \in l : e.waiters \cap W = {} /\ e.owner # i
  <2> SUFFICES ASSUME NEW e \in l PROVE e.waiters \cap W = {} /\ e.owner # i OBVIOUS
  <2>1. EntryOfOwner(e) BY <1>1 DEF LedgerHolds, EntriesFit
  <2>2. e.owner # i BY <2>1 DEF EntryOfOwner, Flying
  <2>3. e.waiters \cap W = {} BY <1>1, OwnersApart
  <2> QED BY <2>2, <2>3
<1>11. \A e \in l : EntryOfOwner(e)' /\ WaitersOf(e)' /\ (e.key \notin askOdds'.evicted => StageOf(e)')
  <2> SUFFICES ASSUME NEW e \in l
               PROVE  EntryOfOwner(e)' /\ WaitersOf(e)' /\ (e.key \notin askOdds'.evicted => StageOf(e)')
    OBVIOUS
  <2>1. e \in entries /\ e.waiters \cap W = {} /\ e.owner # i /\ ops[i].pc # "attached" BY <1>10
  <2> QED BY <1>1, <1>4, <1>8, <2>1, EntryStays
<1>12. EntriesFit'
  <2>1. OnePerKey'
    <3>1. \A e, d \in l : e.key = d.key => e = d BY <1>1 DEF LedgerHolds, EntriesFit, OnePerKey
    <3> SUFFICES ASSUME NEW e \in entries', NEW d \in entries', e.key = d.key PROVE e = d BY DEF OnePerKey
    <3>2. (e \in l \/ e \in X) /\ (d \in l \/ d \in X) OBVIOUS
    <3>3. CASE e \in l /\ d \in l BY <3>1, <3>3
    <3>4. CASE e \in X /\ d \in l
      <4>1. d.key # e.key BY <3>4
      <4> QED BY <4>1
    <3>5. CASE e \in l /\ d \in X
      <4>1. e.key # d.key BY <3>5
      <4> QED BY <4>1
    <3>6. CASE e \in X /\ d \in X
      <4>1. \A x, y \in X : x = y BY DEF AdmitsLedger
      <4> QED BY <3>6, <4>1
    <3> QED BY <3>2, <3>3, <3>4, <3>5, <3>6
  <2> QED BY <1>11, <2>1 DEF EntriesFit
<1>13. \A j \in DOMAIN ops : j # i /\ Kept(j) /\ QKey(j) \notin askOdds'.evicted => Kept(j)'
  <2> SUFFICES ASSUME NEW j \in DOMAIN ops, Kept(j), QKey(j) \notin askOdds'.evicted PROVE Kept(j)' OBVIOUS
  <2>1. PICK e \in entries : e.owner = j BY DEF Kept
  <2>2. e.key = QKey(j) BY <1>1, <2>1 DEF LedgerHolds, EntriesFit, EntryOfOwner
  <2> QED BY <1>4, <2>1, <2>2 DEF Kept
<1>14. (ops'[i].pc \in Flying \/ ops[i].sent > 0) /\ QKey(i) \notin askOdds'.evicted =>
           Kept(i)' \/ (ops'[i].pc = "told" /\ Behind(ops[i].token))
  BY <1>3 DEF Flying, Kept
<1>15. OpFits(i)'
  <2>1. ops'[i].sent = 0 /\ ~ops'[i].clean BY <1>3, <1>7
  <2> QED BY <1>5, <2>1 DEF OpFits
<1>16. LedgerHolds'
  <2>1. known' = known /\ ops[i].pc # "told" OBVIOUS
  <2>2. ops'[i].pc \in {"sending", "watching"} => ops[i].pc \in {"sending", "watching"} OBVIOUS
  <2>3. \A w \in W : "closed" \in Failing /\ QKey(w) \notin askOdds'.evicted =>
           ops[w].via # QS!NoOp /\ ops'[ops[w].via].sent = 0 /\ ops'[ops[w].via].pc = "told"
    BY <1>9
  <2> QED BY <1>1, <1>4, <1>8, <1>12, <1>13, <1>14, <1>15, <2>1, <2>2, <2>3, LedgerStep, ZenonT(60)
<1>17. LockFits' BY <1>1, LockStays
<1>18. TokensFit' /\ TerminalHolds' /\ SuccessTrue' /\ VerifiedStands'
  <2>1. term' = term /\ known' = known /\ pane'.pending = pane.pending OBVIOUS
  <2>2. ops'[i].pc \in {"sending", "watching"} => ops'[i].pc = ops[i].pc OBVIOUS
  <2>3. ~ops[i].clean BY <1>3
  <2> QED BY <1>4, <1>8, <2>1, <2>2, <2>3, MovesRest
<1> QED BY <1>6, <1>16, <1>17, <1>18 DEF AnswersInv

LEMMA PrunedFewer ==
  ASSUME NEW l
  PROVE  QS!prune_locked(l) \in SUBSET l
BY DEF QS!prune_locked

LookupAnswers == {"miss", "stale", "conflict", "replay", "attach"}

LEMMA LookupFacts ==
  ASSUME NEW l, NEW i, NEW e, e = QS!Find(l, QKey(i))
  PROVE  /\ QS!Lookup(l, i) \in LookupAnswers
         /\ QS!Lookup(l, i) = "miss" <=> ~QS!Has(l, QKey(i))
         /\ QS!Lookup(l, i) # "miss" => e \in l /\ e.key = QKey(i)
         /\ QS!Lookup(l, i) = "replay" => e.result # QS!Nothing
         /\ QS!Lookup(l, i) = "attach" => e.result = QS!Nothing
<1>1. QS!Lookup(l, i) = IF ~QS!Has(l, QKey(i)) THEN "miss"
                        ELSE IF e.token # ops[i].token THEN "stale"
                        ELSE IF e.hash # QS!hash_payload(ops[i]) THEN "conflict"
                        ELSE IF e.result # QS!Nothing THEN "replay" ELSE "attach"
  BY DEF QS!Lookup, QKey
<1>2. QS!Lookup(l, i) # "miss" => e \in l /\ e.key = QKey(i) BY <1>1, FindIs
<1> QED BY <1>1, <1>2 DEF LookupAnswers

(* A request that moves on, attaches itself or is told what another was.     *)
PcAs(r, pc) == [r EXCEPT !.pc = pc]
AttachedAs(r, owner) == [r EXCEPT !.pc = "attached", !.via = owner]
ReplayedAs(r, phase, owner) == [r EXCEPT !.pc = "told", !.told = phase, !.via = owner]

LEMMA PcOp ==
  ASSUME NEW r \in AskOps, NEW pc \in AskStages
  PROVE  /\ PcAs(r, pc) \in AskOps /\ PcAs(r, pc).pc = pc /\ PcAs(r, pc).told = r.told
         /\ PcAs(r, pc).rid = r.rid /\ PcAs(r, pc).kind = r.kind /\ PcAs(r, pc).target = r.target
         /\ PcAs(r, pc).opt = r.opt /\ PcAs(r, pc).token = r.token /\ PcAs(r, pc).status = r.status
         /\ PcAs(r, pc).keys = r.keys /\ PcAs(r, pc).sent = r.sent /\ PcAs(r, pc).clean = r.clean
         /\ PcAs(r, pc).via = r.via
BY DEF AskOps, PcAs

LEMMA AttachedOp ==
  ASSUME NEW r \in AskOps, NEW o \in Nat
  PROVE  /\ AttachedAs(r, o) \in AskOps /\ AttachedAs(r, o).pc = "attached" /\ AttachedAs(r, o).told = r.told
         /\ AttachedAs(r, o).rid = r.rid /\ AttachedAs(r, o).kind = r.kind /\ AttachedAs(r, o).target = r.target
         /\ AttachedAs(r, o).opt = r.opt /\ AttachedAs(r, o).token = r.token /\ AttachedAs(r, o).status = r.status
         /\ AttachedAs(r, o).keys = r.keys /\ AttachedAs(r, o).sent = r.sent /\ AttachedAs(r, o).clean = r.clean
         /\ AttachedAs(r, o).via = o
BY DEF AskOps, AskStages, AttachedAs

LEMMA ReplayedOp ==
  ASSUME NEW r \in AskOps, NEW phase \in AskPhases, NEW o \in Nat
  PROVE  /\ ReplayedAs(r, phase, o) \in AskOps /\ ReplayedAs(r, phase, o).pc = "told"
         /\ ReplayedAs(r, phase, o).told = phase /\ ReplayedAs(r, phase, o).rid = r.rid
         /\ ReplayedAs(r, phase, o).kind = r.kind /\ ReplayedAs(r, phase, o).target = r.target
         /\ ReplayedAs(r, phase, o).opt = r.opt /\ ReplayedAs(r, phase, o).token = r.token
         /\ ReplayedAs(r, phase, o).status = r.status /\ ReplayedAs(r, phase, o).keys = r.keys
         /\ ReplayedAs(r, phase, o).sent = r.sent /\ ReplayedAs(r, phase, o).clean = r.clean
         /\ ReplayedAs(r, phase, o).via = o
BY DEF AskOps, AskStages, ReplayedAs

(* What a request at the ledger has done. *)
LEMMA EarlyOp ==
  ASSUME AskTypes, LedgerHolds, NEW i \in DOMAIN ops, ops[i].pc \in {"replay", "schedule"}
  PROVE  ops[i].sent = 0 /\ ~ops[i].clean /\ ops[i].via = QS!NoOp /\ ops[i].told = QS!Nothing
<1>1. OpFits(i) BY DEF LedgerHolds, OpsFit
<1> QED BY <1>1 DEF OpFits

LEMMA TellMoves ==
  ASSUME AskTypes, NEW i \in DOMAIN ops, NEW phase \in AskPhases, ops' = QS!Tell(i, phase), NEW any
  PROVE  /\ Moves(i, {}, any) /\ ops'[i].pc = "told" /\ ops'[i].told = phase /\ ops'[i].via = ops[i].via
         /\ ops'[i].clean = ops[i].clean
<1>1. ops[i] \in AskOps BY OpTyped
<1>2. PICK r : r = ToldAs(ops[i], phase) OBVIOUS
<1>3. ops' = [ops EXCEPT ![i] = r] BY <1>2 DEF QS!Tell, ToldAs, AskTypes
<1>4. /\ r \in AskOps /\ r.pc = "told" /\ r.told = phase
      /\ r.rid = ops[i].rid /\ r.kind = ops[i].kind /\ r.target = ops[i].target /\ r.opt = ops[i].opt
      /\ r.token = ops[i].token /\ r.status = ops[i].status /\ r.keys = ops[i].keys /\ r.sent = ops[i].sent
      /\ r.clean = ops[i].clean /\ r.via = ops[i].via
  <2>1. PICK s \in AskOps : s = ops[i] BY <1>1
  <2> QED BY <1>2, <2>1, ToldOp
<1>5. Moves(i, {}, any) /\ ops'[i] = r BY <1>3, <1>4, MovesAlone
<1> QED BY <1>4, <1>5

(* Nothing is done but that a request is told that it failed. *)
LEMMA RefusedKeeps ==
  ASSUME AnswersInv, NEW i \in DOMAIN ops, ops[i].pc \in {"replay", "schedule"}, ops' = QS!Tell(i, "failed"),
         UNCHANGED <<term, known, pane, entries, askOdds>>
  PROVE  AnswersInv'
<1>1. AskTypes /\ LedgerHolds /\ LockFits BY DEF AnswersInv
<1>2. "failed" \in AskPhases BY DEF AskPhases
<1>3. /\ Moves(i, {}, "failed") /\ ops'[i].pc = "told" /\ ops'[i].told = "failed" /\ ops'[i].via = ops[i].via
      /\ ops'[i].clean = ops[i].clean
  BY <1>1, <1>2, TellMoves
<1>4. ops[i].sent = 0 /\ ~ops[i].clean /\ ops[i].via = QS!NoOp BY <1>1, EarlyOp
<1>5. ops' \in Seq(AskOps) /\ DOMAIN ops' = DOMAIN ops /\ ops'[i].sent = ops[i].sent BY <1>3 DEF Moves
<1>6. AskTypes' BY <1>1, <1>5 DEF AskTypes
<1>7. ASSUME NEW e \in entries
      PROVE  EntryOfOwner(e)' /\ WaitersOf(e)' /\ (e.key \notin askOdds'.evicted => StageOf(e)')
  <2>1. EntryOfOwner(e) BY <1>1 DEF LedgerHolds, EntriesFit
  <2>2. e.owner # i /\ e.waiters \cap {} = {} /\ ops[i].pc # "attached" BY <2>1 DEF EntryOfOwner, Flying
  <2> QED BY <1>1, <1>2, <1>3, <2>2, EntryStays
<1>8. EntriesFit' BY <1>1, <1>7 DEF LedgerHolds, EntriesFit, OnePerKey
<1>9. LedgerHolds'
  <2>1. OpFits(i)' BY <1>3, <1>4, <1>5 DEF OpFits
  <2>2. FailureHolds(i)' BY <1>3, <1>4, <1>5 DEF FailureHolds
  <2>3. \A j : Kept(j)' <=> Kept(j) BY DEF Kept
  <2>4. (ops'[i].pc \in Flying \/ ops[i].sent > 0) /\ QKey(i) \notin askOdds'.evicted =>
           Kept(i)' \/ (ops'[i].pc = "told" /\ Behind(ops[i].token))
    BY <1>3, <1>4 DEF Flying
  <2>5. ops'[i].pc \in {"sending", "watching"} => ops[i].pc \in {"sending", "watching"} BY <1>3
  <2>6. known' = known /\ askOdds.evicted \subseteq askOdds'.evicted /\ ops[i].pc # "told" OBVIOUS
  <2> QED BY <1>1, <1>2, <1>3, <1>8, <2>1, <2>2, <2>3, <2>4, <2>5, <2>6, LedgerStep
<1>10. LockFits' BY <1>1, <1>3, LockStays
<1>11. TokensFit' /\ TerminalHolds' /\ SuccessTrue' /\ VerifiedStands'
  <2>1. term' = term /\ known' = known /\ pane'.pending = pane.pending /\ askOdds.evicted \subseteq askOdds'.evicted
        /\ askOdds'.lagged = askOdds.lagged
    OBVIOUS
  <2>2. ops'[i].pc \in {"sending", "watching"} => ops'[i].pc = ops[i].pc BY <1>3
  <2>3. ~ops[i].clean BY <1>4
  <2> QED BY <1>2, <1>3, <2>1, <2>2, <2>3, MovesRest
<1> QED BY <1>6, <1>9, <1>10, <1>11 DEF AnswersInv

LEMMA ReplayAdmits ==
  ASSUME AnswersInv, NEW i \in DOMAIN ops, ops[i].pc \in {"replay", "schedule"}, NEW l \in SUBSET entries,
         UNCHANGED <<term, known, pane>>, askOdds' = QS!Evicts(entries, entries'), entries' = l,
         \/ ops' = QS!Tell(i, "conflict")
         \/ \E e \in l : e.result # QS!Nothing /\ e.key = QKey(i) /\ ops' = [QS!Tell(i, e.result) EXCEPT ![i].via = e.owner]
  PROVE  AnswersInv'
<1>1. AskTypes /\ LedgerHolds BY DEF AnswersInv
<1>2. ops[i].sent = 0 /\ ~ops[i].clean /\ ops[i].via = QS!NoOp /\ ops[i].told = QS!Nothing BY <1>1, EarlyOp
<1>3. /\ Moves(i, {}, "closed") /\ ops'[i].pc = "told" /\ ops'[i].clean = ops[i].clean
      /\ ops'[i].via # QS!NoOp => ops'[i].via \in DOMAIN ops
      /\ FailureHolds(i)'
  <2>1. CASE ops' = QS!Tell(i, "conflict")
    <3>1. "conflict" \in AskPhases BY DEF AskPhases
    <3>2. /\ Moves(i, {}, "closed") /\ ops'[i].pc = "told" /\ ops'[i].told = "conflict" /\ ops'[i].via = ops[i].via
          /\ ops'[i].clean = ops[i].clean
      BY <1>1, <2>1, <3>1, TellMoves
    <3> QED BY <1>2, <3>2 DEF FailureHolds, Failing
  <2>2. ASSUME NEW e \in l, e.result # QS!Nothing, e.key = QKey(i), ops' = [QS!Tell(i, e.result) EXCEPT ![i].via = e.owner]
        PROVE  /\ Moves(i, {}, "closed") /\ ops'[i].pc = "told" /\ ops'[i].clean = ops[i].clean
               /\ ops'[i].via # QS!NoOp => ops'[i].via \in DOMAIN ops
               /\ FailureHolds(i)'
    <3>1. e \in entries /\ e.result \in AskPhases /\ e.owner \in Nat BY <1>1, EntryFields
    <3>2. /\ EntryOfOwner(e) /\ (e.key \notin askOdds.evicted => StageOf(e)) BY <1>1, <3>1 DEF LedgerHolds, EntriesFit
    <3>3. e.owner \in DOMAIN ops /\ e.owner # i /\ e.owner # 0 BY <1>1, <3>2, OpTyped DEF EntryOfOwner, Flying
    <3>4. PICK r : r = ReplayedAs(ops[i], e.result, e.owner) OBVIOUS
    <3>5. ops \in Seq(AskOps) /\ ops[i] \in AskOps BY <1>1, OpTyped DEF AskTypes
    <3>6. ops' = [ops EXCEPT ![i] = r]
      BY <2>2, <3>4, <3>5 DEF QS!Tell, ReplayedAs, AskOps
    <3>7. /\ r \in AskOps /\ r.pc = "told" /\ r.told = e.result
          /\ r.rid = ops[i].rid /\ r.kind = ops[i].kind /\ r.target = ops[i].target /\ r.opt = ops[i].opt
          /\ r.token = ops[i].token /\ r.status = ops[i].status /\ r.keys = ops[i].keys /\ r.sent = ops[i].sent
          /\ r.clean = ops[i].clean /\ r.via = e.owner
      <4>1. PICK s \in AskOps : s = ops[i] BY <3>5
      <4> QED BY <3>1, <3>4, <4>1, ReplayedOp
    <3>8. Moves(i, {}, "closed") /\ ops'[i] = r BY <1>1, <3>6, <3>7, MovesAlone
    <3>9. FailureHolds(i)'
      <4> SUFFICES ASSUME e.result \in Failing, QKey(i)' \notin askOdds'.evicted
                   PROVE  ops'[e.owner].sent = 0 /\ ops'[e.owner].pc = "told"
        BY <3>3, <3>7, <3>8 DEF FailureHolds, QS!NoOp
      <4>1. QKey(i)' = QKey(i) BY <3>8, IdentKey DEF Moves
      <4>2. QKey(i) \notin askOdds.evicted
        <5>1. askOdds.evicted \subseteq askOdds'.evicted BY <1>1, EvictsFacts
        <5> QED BY <4>1, <5>1
      <4>3. StageOf(e) /\ QKey(e.owner) = e.key BY <2>2, <3>2, <4>2 DEF EntryOfOwner
      <4>4. ops[e.owner].pc = "told" /\ ops[e.owner].told = e.result BY <2>2, <4>3 DEF StageOf, Failing
      <4>5. FailuresTrue /\ OpFits(e.owner) BY <1>1, <3>3 DEF LedgerHolds, OpsFit
      <4>6. ops[e.owner].sent = 0
        BY <2>2, <3>3, <4>2, <4>3, <4>4, <4>5 DEF FailuresTrue, OpFits
      <4>7. ops'[e.owner] = ops[e.owner] BY <3>3, <3>8 DEF Moves
      <4> QED BY <4>4, <4>6, <4>7
    <3> QED BY <3>3, <3>7, <3>8, <3>9
  <2> QED BY <2>1, <2>2
<1>4. AdmitsLedger(l, {}) BY DEF AdmitsLedger
<1>5. AdmitsOp(i, {}, l, {}) BY <1>3 DEF AdmitsOp
<1> QED BY <1>4, <1>5, AdmissionKeeps

Attaches(i, l, e) ==
  /\ entries' = (l \ {e}) \cup {[e EXCEPT !.waiters = e.waiters \cup {i}]}
  /\ ops' = [ops EXCEPT ![i].pc = "attached", ![i].via = e.owner]

LEMMA AttachAdmits ==
  ASSUME AnswersInv, NEW i \in DOMAIN ops, ops[i].pc \in {"replay", "schedule"}, NEW l \in SUBSET entries,
         UNCHANGED <<term, known, pane>>, askOdds' = QS!Evicts(entries, entries'),
         NEW e \in l, e.result = QS!Nothing, e.key = QKey(i), Attaches(i, l, e)
  PROVE  AnswersInv'
<1>1. AskTypes /\ LedgerHolds BY DEF AnswersInv
<1>2. ops[i].sent = 0 /\ ~ops[i].clean /\ ops[i].via = QS!NoOp /\ ops[i].told = QS!Nothing BY <1>1, EarlyOp
<1>3. e \in entries /\ e.owner \in Nat /\ e \in LedgerEntries({e.created_at}) /\ e.waiters \in SUBSET Nat
  BY <1>1, EntryFields
<1>4. EntryOfOwner(e) /\ WaitersOf(e) /\ (e.key \notin askOdds.evicted => StageOf(e))
  BY <1>1, <1>3 DEF LedgerHolds, EntriesFit
<1>5. e.owner \in DOMAIN ops /\ e.owner # i /\ ops[e.owner].pc # "attached" BY <1>4 DEF EntryOfOwner, Flying
<1>6. PICK r : r = AttachedAs(ops[i], e.owner) OBVIOUS
<1>7. ops \in Seq(AskOps) /\ ops[i] \in AskOps /\ i \in Nat BY <1>1, OpTyped DEF AskTypes
<1>8. ops' = [ops EXCEPT ![i] = r] BY <1>6, <1>7 DEF AttachedAs, AskOps, Attaches
<1>9. /\ r \in AskOps /\ r.pc = "attached" /\ r.told = ops[i].told
      /\ r.rid = ops[i].rid /\ r.kind = ops[i].kind /\ r.target = ops[i].target /\ r.opt = ops[i].opt
      /\ r.token = ops[i].token /\ r.status = ops[i].status /\ r.keys = ops[i].keys /\ r.sent = ops[i].sent
      /\ r.clean = ops[i].clean /\ r.via = e.owner
  <2>1. PICK s \in AskOps : s = ops[i] BY <1>7
  <2> QED BY <1>3, <1>6, <2>1, AttachedOp
<1>10. Moves(i, {}, "closed") /\ ops'[i] = r BY <1>1, <1>8, <1>9, MovesAlone
<1>11. \A j \in DOMAIN ops : QKey(j)' = QKey(j) /\ QS!hash_payload(ops'[j]) = QS!hash_payload(ops[j])
  BY <1>10, IdentKey DEF Moves
<1>12. PICK x : x = [e EXCEPT !.waiters = e.waiters \cup {i}] OBVIOUS
<1>13. /\ x.key = e.key /\ x.hash = e.hash /\ x.token = e.token /\ x.owner = e.owner /\ x.result = e.result
       /\ x.done = e.done /\ x.waiters = e.waiters \cup {i} /\ EntryTyped(x)
  <2>1. PICK V \in SUBSET Nat : V = e.waiters \cup {i} BY <1>3, <1>7
  <2>2. x = [e EXCEPT !.waiters = V] BY <1>12, <2>1
  <2>3. x \in LedgerEntries({e.created_at}) /\ x.created_at = e.created_at BY <1>3, <2>2 DEF LedgerEntries
  <2> QED BY <1>3, <2>1, <2>2, <2>3 DEF EntryTyped, LedgerEntries
<1>14. ops'[e.owner] = ops[e.owner] /\ DOMAIN ops' = DOMAIN ops BY <1>5, <1>10 DEF Moves
<1>15. EntryOfOwner(x)' BY <1>4, <1>5, <1>11, <1>13, <1>14 DEF EntryOfOwner
<1>16. WaitersOf(x)'
  <2>1. \A w \in e.waiters : w # i /\ w \in DOMAIN ops /\ ops'[w] = ops[w] /\ ops[w].pc = "attached" /\ ops[w].via = e.owner
                             /\ QKey(w) = e.key
    BY <1>4, <1>10 DEF WaitersOf, Moves
  <2>2. ops'[i].pc = "attached" /\ ops'[i].via = e.owner /\ QKey(i)' = e.key BY <1>9, <1>10, <1>11
  <2> QED BY <1>11, <1>13, <1>14, <2>1, <2>2 DEF WaitersOf
<1>17. askOdds.evicted \subseteq askOdds'.evicted BY <1>1, EvictsFacts
<1>18. x.key \notin askOdds'.evicted => StageOf(x)' BY <1>4, <1>13, <1>14, <1>17 DEF StageOf
<1>19. PICK k : k = l \ {e} OBVIOUS
<1>20. \A d \in k : d.key # x.key BY <1>1, <1>3, <1>13, <1>19 DEF LedgerHolds, EntriesFit, OnePerKey
<1>21. NewEntryFits(x) BY <1>13, <1>15, <1>16, <1>18 DEF NewEntryFits
<1>22. AdmitsLedger(k, {x})
  <2>1. entries' = k \cup {x} BY <1>12, <1>19 DEF Attaches
  <2> QED BY <1>19, <1>20, <1>21, <2>1 DEF AdmitsLedger
<1>23. FailureHolds(i)' BY <1>2, <1>9, <1>10 DEF FailureHolds, Failing, QS!Nothing
<1>24. /\ ops'[i].clean = ops[i].clean /\ ops'[i].via \in DOMAIN ops /\ ops'[i].pc = "attached"
       /\ ops'[i].told = QS!Nothing
  BY <1>2, <1>5, <1>9, <1>10
<1>25. AdmitsOp(i, {}, k, {x}) BY <1>10, <1>23, <1>24 DEF AdmitsOp
<1> QED BY <1>22, <1>25, AdmissionKeeps

LEMMA PcMoves ==
  ASSUME AskTypes, NEW i \in DOMAIN ops, NEW pc \in AskStages, ops' = [ops EXCEPT ![i].pc = pc], NEW any
  PROVE  /\ Moves(i, {}, any) /\ ops'[i].pc = pc /\ ops'[i].told = ops[i].told /\ ops'[i].via = ops[i].via
         /\ ops'[i].clean = ops[i].clean
<1>1. ops[i] \in AskOps BY OpTyped
<1>2. PICK r : r = PcAs(ops[i], pc) OBVIOUS
<1>3. ops' = [ops EXCEPT ![i] = r] BY <1>2 DEF PcAs, AskTypes
<1>4. /\ r \in AskOps /\ r.pc = pc /\ r.told = ops[i].told
      /\ r.rid = ops[i].rid /\ r.kind = ops[i].kind /\ r.target = ops[i].target /\ r.opt = ops[i].opt
      /\ r.token = ops[i].token /\ r.status = ops[i].status /\ r.keys = ops[i].keys /\ r.sent = ops[i].sent
      /\ r.clean = ops[i].clean /\ r.via = ops[i].via
  <2>1. PICK s \in AskOps : s = ops[i] BY <1>1
  <2> QED BY <1>2, <2>1, PcOp
<1>5. Moves(i, {}, any) /\ ops'[i] = r BY <1>3, <1>4, MovesAlone
<1> QED BY <1>4, <1>5

(* An entry is removed, and those who wait for it are told so. *)
Closes(i, pc, e) == ops' = QS!Closed([ops EXCEPT ![i].pc = pc], e)

LEMMA ClosedMoves ==
  ASSUME AskTypes, LedgerHolds, NEW i \in DOMAIN ops, ops[i].pc # "attached", NEW pc \in AskStages, NEW e \in entries,
         Closes(i, pc, e)
  PROVE  /\ Moves(i, e.waiters, "closed") /\ ops'[i].pc = pc /\ ops'[i].told = ops[i].told
         /\ ops'[i].via = ops[i].via /\ ops'[i].clean = ops[i].clean
<1>1. ops \in Seq(AskOps) /\ ops[i] \in AskOps BY OpTyped DEF AskTypes
<1>2. PICK r : r = PcAs(ops[i], pc) OBVIOUS
<1>3. /\ r \in AskOps /\ r.pc = pc /\ r.told = ops[i].told
      /\ r.rid = ops[i].rid /\ r.kind = ops[i].kind /\ r.target = ops[i].target /\ r.opt = ops[i].opt
      /\ r.token = ops[i].token /\ r.status = ops[i].status /\ r.keys = ops[i].keys /\ r.sent = ops[i].sent
      /\ r.clean = ops[i].clean /\ r.via = ops[i].via
  <2>1. PICK s \in AskOps : s = ops[i] BY <1>1
  <2> QED BY <1>2, <2>1, PcOp
<1>4. PICK os : os = [ops EXCEPT ![i].pc = pc] OBVIOUS
<1>5. os = [ops EXCEPT ![i] = r] BY <1>1, <1>2, <1>4 DEF PcAs
<1>6. os \in Seq(AskOps) /\ DOMAIN os = DOMAIN ops /\ os[i] = r /\ \A j \in DOMAIN ops : j # i => os[j] = ops[j]
  BY <1>1, <1>3, <1>5
<1>7. PICK phase \in AskPhases : phase = "closed" BY DEF AskPhases
<1>8. ops' = QS!Answered(os, e, phase) BY <1>4, <1>6, <1>7, AnsweredFacts DEF Closes
<1>9. \A w \in e.waiters : w \in DOMAIN ops /\ w # i /\ ops[w].pc = "attached"
  BY DEF LedgerHolds, EntriesFit, WaitersOf
<1>10. PICK W : W = e.waiters OBVIOUS
<1>11. Moves(i, W, phase) /\ ops'[i] = r BY <1>3, <1>6, <1>8, <1>9, <1>10, MovesFrom
<1> QED BY <1>3, <1>7, <1>10, <1>11

LEMMA AdmitKeeps ==
  ASSUME AnswersInv, NEW i \in DOMAIN ops, ops[i].pc \in {"replay", "schedule"}, NEW l \in SUBSET entries,
         NEW next \in {"schedule", "locking"}, next = "locking" => QS!Lookup(l, i) \in {"conflict", "replay", "attach"},
         UNCHANGED <<term, known, pane>>, askOdds' = QS!Evicts(entries, entries'), QS!Admit(i, l, next)
  PROVE  AnswersInv'
<1>1. AskTypes /\ LedgerHolds BY DEF AnswersInv
<1>2. PICK e : e = QS!Find(l, QKey(i)) OBVIOUS
<1>3. /\ QS!Lookup(l, i) \in LookupAnswers
      /\ QS!Lookup(l, i) # "miss" => e \in l /\ e.key = QKey(i)
      /\ QS!Lookup(l, i) = "replay" => e.result # QS!Nothing
      /\ QS!Lookup(l, i) = "attach" => e.result = QS!Nothing
  BY <1>2, LookupFacts
<1>4. ops[i].sent = 0 /\ ~ops[i].clean /\ ops[i].via = QS!NoOp /\ ops[i].told = QS!Nothing BY <1>1, EarlyOp
<1>5. CASE QS!Lookup(l, i) = "conflict"
  <2>1. entries' = l /\ ops' = QS!Tell(i, "conflict") BY <1>5 DEF QS!Admit
  <2> QED BY <2>1, ReplayAdmits
<1>6. CASE QS!Lookup(l, i) = "replay"
  <2>1. entries' = l /\ ops' = [QS!Tell(i, e.result) EXCEPT ![i].via = e.owner] BY <1>2, <1>6 DEF QS!Admit, QKey
  <2>2. e \in l /\ e.result # QS!Nothing /\ e.key = QKey(i) BY <1>3, <1>6
  <2> QED BY <2>1, <2>2, ReplayAdmits
<1>7. CASE QS!Lookup(l, i) = "attach"
  <2>1. Attaches(i, l, e) BY <1>2, <1>7 DEF QS!Admit, QKey, Attaches
  <2>2. e \in l /\ e.result = QS!Nothing /\ e.key = QKey(i) BY <1>3, <1>7
  <2> QED BY <2>1, <2>2, AttachAdmits
<1>8. CASE QS!Lookup(l, i) = "stale"
  <2>1. entries' = QS!Without(l, e.key) /\ ops' = QS!Closed([ops EXCEPT ![i].pc = next], e)
    BY <1>2, <1>8 DEF QS!Admit, QKey
  <2>2. e \in l /\ e \in entries /\ e.key = QKey(i) /\ next = "schedule" BY <1>3, <1>8
  <2>3. "schedule" \in AskStages /\ ops[i].pc # "attached" BY DEF AskStages
  <2>4. /\ Moves(i, e.waiters, "closed") /\ ops'[i].pc = "schedule" /\ ops'[i].told = ops[i].told
        /\ ops'[i].via = ops[i].via /\ ops'[i].clean = ops[i].clean
    BY <1>1, <2>1, <2>2, <2>3, ClosedMoves DEF Closes
  <2>5. PICK k : k = QS!Without(l, e.key) OBVIOUS
  <2>6. k \in SUBSET entries /\ e \notin k BY <2>5 DEF QS!Without
  <2>7. AdmitsLedger(k, {}) BY <2>1, <2>5, <2>6 DEF AdmitsLedger
  <2>8. FailureHolds(i)' BY <1>4, <2>4 DEF FailureHolds, Failing, QS!Nothing
  <2>9. AdmitsOp(i, e.waiters, k, {}) BY <1>4, <2>2, <2>4, <2>6, <2>8 DEF AdmitsOp
  <2> QED BY <2>7, <2>9, AdmissionKeeps
<1>9. CASE QS!Lookup(l, i) = "miss"
  <2>1. entries' = l /\ ops' = [ops EXCEPT ![i].pc = next] BY <1>9 DEF QS!Admit
  <2>2. next = "schedule" /\ "schedule" \in AskStages BY <1>9 DEF AskStages
  <2>3. /\ Moves(i, {}, "closed") /\ ops'[i].pc = "schedule" /\ ops'[i].told = ops[i].told
        /\ ops'[i].via = ops[i].via /\ ops'[i].clean = ops[i].clean
    BY <1>1, <2>1, <2>2, PcMoves
  <2>4. AdmitsLedger(l, {}) BY <2>1 DEF AdmitsLedger
  <2>5. FailureHolds(i)' BY <1>4, <2>3 DEF FailureHolds, Failing, QS!Nothing
  <2>6. AdmitsOp(i, {}, l, {}) BY <1>4, <2>3, <2>5 DEF AdmitsOp
  <2> QED BY <2>4, <2>6, AdmissionKeeps
<1> QED BY <1>3, <1>5, <1>6, <1>7, <1>8, <1>9 DEF LookupAnswers

LEMMA ReplayKeeps ==
  ASSUME AnswersInv, NEW i \in DOMAIN ops, QS!replay(i)
  PROVE  AnswersInv'
<1>1. ops[i].pc \in {"replay", "schedule"} /\ UNCHANGED <<term, known, pane>> BY DEF QS!replay
<1>2. CASE ~QS!Current(i)
  <2>1. ops' = QS!Tell(i, "failed") /\ UNCHANGED <<entries, askOdds>> BY <1>2 DEF QS!replay
  <2> QED BY <1>1, <2>1, RefusedKeeps
<1>3. CASE QS!Current(i)
  <2>1. PICK l : l = QS!prune_locked(entries) OBVIOUS
  <2>2. l \in SUBSET entries BY <2>1, PrunedFewer
  <2>3. QS!Admit(i, l, "schedule") /\ askOdds' = QS!Evicts(entries, entries') BY <1>3, <2>1 DEF QS!replay
  <2>4. PICK next \in {"schedule", "locking"} : next = "schedule" OBVIOUS
  <2> QED BY <1>1, <2>2, <2>3, <2>4, AdmitKeeps
<1> QED BY <1>2, <1>3

(* The entry a request makes. *)
LEMMA EntryMade ==
  ASSUME AskTypes, NEW i \in DOMAIN ops, NEW l, NEW x, x = QS!Entry(l, i)
  PROVE  /\ EntryTyped(x) /\ x.key = QKey(i) /\ x.hash = QS!hash_payload(ops[i]) /\ x.token = ops[i].token
         /\ x.owner = i /\ x.result = QS!Nothing /\ ~x.done /\ x.waiters = {}
<1>1. QKey(i) \in LedgerKeys /\ QS!hash_payload(ops[i]) \in Payloads /\ ops[i].token \in Nat /\ i \in Nat
  BY KeyTyped, OpTyped
<1>2. PICK b \in BOOLEAN : b = FALSE OBVIOUS
<1>3. PICK c : c = 1 + QS!Max({0} \cup {e.created_at : e \in l}) OBVIOUS
<1>4. x = [key |-> QKey(i), hash |-> QS!hash_payload(ops[i]), token |-> ops[i].token, owner |-> i,
           result |-> "nothing", done |-> b, waiters |-> {}, created_at |-> c]
  BY <1>2, <1>3, Zenon DEF QS!Entry, QKey, QS!Nothing
<1>5. "nothing" \in AskPhases /\ {} \in SUBSET Nat BY DEF AskPhases
<1>6. /\ x.key = QKey(i) /\ x.hash = QS!hash_payload(ops[i]) /\ x.token = ops[i].token /\ x.owner = i
      /\ x.result = "nothing" /\ x.waiters = {} /\ x.created_at = c /\ x.done = b
  BY <1>4
<1>7. x \in LedgerEntries({c})
  <2>1. PICK K \in LedgerKeys, H \in Payloads, t \in Nat, V \in SUBSET Nat, p \in AskPhases :
          K = QKey(i) /\ H = QS!hash_payload(ops[i]) /\ t = ops[i].token /\ V = {} /\ p = "nothing"
    BY <1>1, <1>5
  <2>2. x = [key |-> K, hash |-> H, token |-> t, owner |-> i, result |-> p, done |-> b, waiters |-> V, created_at |-> c]
    BY <1>4, <2>1
  <2> QED BY <1>1, <1>2, <2>1, <2>2 DEF LedgerEntries
<1> QED BY <1>2, <1>6, <1>7 DEF EntryTyped, QS!Nothing

LEMMA MakesKeeps ==
  ASSUME AnswersInv, NEW i \in DOMAIN ops, ops[i].pc = "schedule", NEW l \in SUBSET entries, NEW W,
         UNCHANGED <<term, known, pane>>, askOdds' = QS!Evicts(entries, entries'),
         NEW m, NEW x, x = QS!Entry(m, i), entries' = l \cup {x},
         \A d \in l : d.key # QKey(i),
         Moves(i, W, "closed"), ops'[i].pc = "locking", ops'[i].told = ops[i].told,
         ops'[i].via = ops[i].via, ops'[i].clean = ops[i].clean,
         W = {} \/ \E d \in entries : W = d.waiters /\ d \notin l
  PROVE  AnswersInv'
<1>1. AskTypes /\ LedgerHolds BY DEF AnswersInv
<1>2. ops[i].sent = 0 /\ ~ops[i].clean /\ ops[i].via = QS!NoOp /\ ops[i].told = QS!Nothing BY <1>1, EarlyOp
<1>3. /\ EntryTyped(x) /\ x.key = QKey(i) /\ x.hash = QS!hash_payload(ops[i]) /\ x.token = ops[i].token
      /\ x.owner = i /\ x.result = QS!Nothing /\ ~x.done /\ x.waiters = {}
  BY <1>1, EntryMade
<1>4. /\ QKey(i)' = QKey(i) /\ QS!hash_payload(ops'[i]) = QS!hash_payload(ops[i]) /\ ops'[i].token = ops[i].token
      /\ i \in DOMAIN ops'
  BY IdentKey DEF Moves, SameIdent
<1>5. EntryOfOwner(x)' BY <1>3, <1>4 DEF EntryOfOwner, Flying
<1>6. WaitersOf(x)' BY <1>3 DEF WaitersOf
<1>7. StageOf(x)' BY <1>3 DEF StageOf
<1>8. NewEntryFits(x) BY <1>3, <1>5, <1>6, <1>7 DEF NewEntryFits
<1>9. AdmitsLedger(l, {x}) BY <1>3, <1>8 DEF AdmitsLedger
<1>10. \A d \in entries : d.owner # i BY <1>1 DEF LedgerHolds, EntriesFit, EntryOfOwner, Flying
<1>11. FailureHolds(i)' BY <1>2 DEF FailureHolds, Failing, QS!Nothing
<1>12. AdmitsOp(i, W, l, {x}) BY <1>2, <1>3, <1>10, <1>11 DEF AdmitsOp
<1> QED BY <1>9, <1>12, AdmissionKeeps

LEMMA AskScheduleKeeps ==
  ASSUME AnswersInv, NEW i \in DOMAIN ops, QS!schedule(i)
  PROVE  AnswersInv'
<1>1. ops[i].pc = "schedule" /\ UNCHANGED <<term, known, pane>> /\ AskTypes /\ LedgerHolds BY DEF QS!schedule, AnswersInv
<1>2. CASE ~QS!Waiting(ops[i], ops[i].status)
  <2>1. ops' = QS!Tell(i, "failed") /\ UNCHANGED <<entries, askOdds>> BY <1>2 DEF QS!schedule
  <2> QED BY <1>1, <2>1, RefusedKeeps
<1>3. CASE QS!Waiting(ops[i], ops[i].status)
  <2>1. PICK l : l = QS!prune_locked(entries) OBVIOUS
  <2>2. l \in SUBSET entries BY <2>1, PrunedFewer
  <2>3. PICK e : e = QS!Find(l, QKey(i)) OBVIOUS
  <2>4. /\ QS!Lookup(l, i) \in LookupAnswers
        /\ QS!Lookup(l, i) = "miss" <=> ~QS!Has(l, QKey(i))
        /\ QS!Lookup(l, i) # "miss" => e \in l /\ e.key = QKey(i)
    BY <2>3, LookupFacts
  <2>5. PICK x : x = QS!Entry(l, i) OBVIOUS
  <2>6. "locking" \in AskStages /\ ops[i].pc # "attached" BY <1>1 DEF AskStages
  <2>7. CASE QS!Lookup(l, i) = "miss"
    <3>1. entries' = l \cup {x} /\ ops' = [ops EXCEPT ![i].pc = "locking"] /\ askOdds' = QS!Evicts(entries, entries')
      BY <1>3, <2>1, <2>5, <2>7 DEF QS!schedule
    <3>2. \A d \in l : d.key # QKey(i) BY <2>4, <2>7 DEF QS!Has
    <3>3. /\ Moves(i, {}, "closed") /\ ops'[i].pc = "locking" /\ ops'[i].told = ops[i].told
          /\ ops'[i].via = ops[i].via /\ ops'[i].clean = ops[i].clean
      BY <1>1, <2>6, <3>1, PcMoves
    <3>4. PICK W : W = {} OBVIOUS
    <3> QED BY <1>1, <2>2, <2>5, <3>1, <3>2, <3>3, <3>4, MakesKeeps
  <2>8. CASE QS!Lookup(l, i) = "stale"
    <3>1. PICK k : k = QS!Without(l, e.key) OBVIOUS
    <3>2. /\ entries' = k \cup {x} /\ ops' = QS!Closed([ops EXCEPT ![i].pc = "locking"], e)
          /\ askOdds' = QS!Evicts(entries, entries')
      BY <1>3, <2>1, <2>3, <2>5, <2>8, <3>1 DEF QS!schedule, QKey
    <3>3. e \in entries /\ e.key = QKey(i) BY <2>2, <2>4, <2>8
    <3>4. k \in SUBSET entries /\ e \notin k /\ \A d \in k : d.key # QKey(i) BY <2>2, <3>1, <3>3 DEF QS!Without
    <3>5. /\ Moves(i, e.waiters, "closed") /\ ops'[i].pc = "locking" /\ ops'[i].told = ops[i].told
          /\ ops'[i].via = ops[i].via /\ ops'[i].clean = ops[i].clean
      BY <1>1, <2>6, <3>2, <3>3, ClosedMoves DEF Closes
    <3>6. PICK W : W = e.waiters OBVIOUS
    <3> QED BY <1>1, <2>5, <3>2, <3>3, <3>4, <3>5, <3>6, MakesKeeps
  <2>9. CASE QS!Lookup(l, i) \in {"conflict", "replay", "attach"}
    <3>1. QS!Admit(i, l, "locking") /\ askOdds' = QS!Evicts(entries, entries') BY <1>3, <2>1, <2>9 DEF QS!schedule
    <3>2. PICK next \in {"schedule", "locking"} : next = "locking" OBVIOUS
    <3> QED BY <1>1, <2>2, <2>9, <3>1, <3>2, AdmitKeeps
  <2> QED BY <2>4, <2>7, <2>8, <2>9 DEF LookupAnswers
<1> QED BY <1>2, <1>3

-----------------------------------------------------------------------------
(* Responses: a slot is settled *)

(* The slot of a request that runs is its own, unless entries were lost. *)
LEMMA SlotIs ==
  ASSUME AskTypes, LedgerHolds, NEW i \in DOMAIN ops, ops[i].pc \in Flying
  PROVE  /\ QS!Mine(i) => QS!Slot(i) \in entries /\ QS!Slot(i).key = QKey(i) /\ QS!Slot(i).token = ops[i].token
         /\ QKey(i) \notin askOdds.evicted => QS!Mine(i) /\ QS!Slot(i).owner = i
<1>1. QS!Has(entries, QKey(i)) => QS!Slot(i) \in entries /\ QS!Slot(i).key = QKey(i) BY FindIs DEF QS!Slot, QKey
<1>2. QS!Mine(i) <=> QS!Has(entries, QKey(i)) /\ QS!Slot(i).token = ops[i].token BY DEF QS!Mine, QKey
<1>3. ASSUME QKey(i) \notin askOdds.evicted PROVE QS!Mine(i) /\ QS!Slot(i).owner = i
  <2>1. Kept(i) BY <1>3 DEF LedgerHolds, FlightsFit, Flying
  <2>2. PICK e \in entries : e.owner = i BY <2>1 DEF Kept
  <2>3. e.key = QKey(i) /\ e.token = ops[i].token BY <2>2 DEF LedgerHolds, EntriesFit, EntryOfOwner
  <2>4. QS!Has(entries, QKey(i)) BY <2>3 DEF QS!Has
  <2>5. QS!Slot(i) = e BY <1>1, <2>3, <2>4 DEF LedgerHolds, EntriesFit, OnePerKey
  <2> QED BY <1>2, <2>2, <2>3, <2>4, <2>5
<1> QED BY <1>1, <1>2, <1>3

(* What a request becomes when its slot is settled with a phase. *)
SettledAs(i, r, phase) ==
  /\ r \in AskOps
  /\ r.rid = ops[i].rid /\ r.kind = ops[i].kind /\ r.target = ops[i].target /\ r.opt = ops[i].opt
  /\ r.token = ops[i].token /\ r.status = ops[i].status /\ r.sent = ops[i].sent /\ r.keys = ops[i].keys
  /\ r.via = ops[i].via /\ r.clean = ops[i].clean
  /\ \/ r.pc = "told" /\ r.told = phase
     \/ r.pc = "watching" /\ ops[i].pc = "sending" /\ phase = "accepted" /\ r.told = ops[i].told
SlotAs(i, slot, r, phase) ==
  /\ slot.key = QS!Slot(i).key /\ slot.hash = QS!Slot(i).hash /\ slot.token = QS!Slot(i).token
  /\ slot.owner = QS!Slot(i).owner /\ slot.result = phase
  /\ IF r.pc = "told" THEN slot.done ELSE slot.done = QS!Slot(i).done
  /\ EntryTyped(slot)

LEMMA SettleMoves ==
  ASSUME AskTypes, LedgerHolds, NEW i \in DOMAIN ops, ops[i].pc \in Flying, NEW phase \in AskPhases,
         NEW r, SettledAs(i, r, phase), NEW slot, QS!Mine(i) => slot.result = phase, QS!Settles(i, slot, [ops EXCEPT ![i] = r])
  PROVE  /\ ~QS!Mine(i) => Moves(i, {}, phase) /\ entries' = entries
         /\ QS!Mine(i) => Moves(i, QS!Slot(i).waiters, phase) /\ entries' = (entries \ {QS!Slot(i)}) \cup {[slot EXCEPT !.waiters = {}]}
         /\ ops'[i] = r
<1>1. ops \in Seq(AskOps) /\ r \in AskOps BY DEF AskTypes, SettledAs
<1>2. /\ r.rid = ops[i].rid /\ r.kind = ops[i].kind /\ r.target = ops[i].target /\ r.opt = ops[i].opt
      /\ r.token = ops[i].token /\ r.status = ops[i].status /\ r.sent = ops[i].sent /\ r.keys = ops[i].keys
  BY DEF SettledAs
<1>0. PICK os : os = [ops EXCEPT ![i] = r] OBVIOUS
<1>3. os \in Seq(AskOps) /\ DOMAIN os = DOMAIN ops /\ os[i] = r /\ \A j \in DOMAIN ops : j # i => os[j] = ops[j]
  BY <1>0, <1>1
<1>4. CASE ~QS!Mine(i)
  <2>1. entries' = entries /\ ops' = [ops EXCEPT ![i] = r] BY <1>4 DEF QS!Settles
  <2>2. Moves(i, {}, phase) /\ ops'[i] = r BY <1>1, <1>2, <2>1, MovesAlone
  <2> QED BY <1>4, <2>1, <2>2
<1>5. CASE QS!Mine(i)
  <2>1. /\ entries' = (entries \ {QS!Slot(i)}) \cup {[slot EXCEPT !.waiters = {}]}
        /\ ops' = QS!Answered(os, QS!Slot(i), phase)
    BY <1>0, <1>5 DEF QS!Settles
  <2>2. PICK s \in entries : s = QS!Slot(i) BY <1>5, SlotIs
  <2>3. PICK W : W = s.waiters OBVIOUS
  <2>4. \A w \in W : w \in DOMAIN ops /\ w # i /\ ops[w].pc = "attached"
    BY <2>2, <2>3 DEF LedgerHolds, EntriesFit, WaitersOf, Flying
  <2>5. ops' = QS!Answered(os, s, phase) BY <2>1, <2>2
  <2>6. Moves(i, W, phase) /\ ops'[i] = r BY <1>1, <1>2, <1>3, <2>3, <2>4, <2>5, MovesFrom
  <2> QED BY <1>5, <2>1, <2>2, <2>3, <2>6
<1> QED BY <1>4, <1>5

LEMMA SettleLedger ==
  ASSUME AskTypes, LedgerHolds, NEW i \in DOMAIN ops, ops[i].pc \in Flying, NEW phase \in AskPhases, phase # QS!Nothing,
         NEW r, SettledAs(i, r, phase), NEW slot, QS!Mine(i) => SlotAs(i, slot, r, phase), NEW W,
         ops'[i] = r, known' = known, askOdds'.evicted = askOdds.evicted, phase \in Failing => ops[i].sent = 0,
         \/ ~QS!Mine(i) /\ W = {} /\ Moves(i, W, phase) /\ entries' = entries
         \/ /\ QS!Mine(i) /\ W = QS!Slot(i).waiters /\ Moves(i, W, phase)
            /\ entries' = (entries \ {QS!Slot(i)}) \cup {[slot EXCEPT !.waiters = {}]}
  PROVE  LedgerHolds' /\ \A e \in entries' : EntryTyped(e)
<1>1. /\ QS!Mine(i) => QS!Slot(i) \in entries /\ QS!Slot(i).key = QKey(i) /\ QS!Slot(i).token = ops[i].token
      /\ QKey(i) \notin askOdds.evicted => QS!Mine(i) /\ QS!Slot(i).owner = i
  BY SlotIs
<1>2. OpFits(i) /\ ops[i].pc \notin {"attached", "told"} BY DEF LedgerHolds, OpsFit, Flying
<1>3. ops[i].via = QS!NoOp /\ ops[i].told = QS!Nothing BY <1>2 DEF OpFits
<1>4. Moves(i, W, phase) OBVIOUS
<1>5. DOMAIN ops' = DOMAIN ops /\ \A j \in DOMAIN ops : QKey(j)' = QKey(j) /\ QS!hash_payload(ops'[j]) = QS!hash_payload(ops[j])
  BY <1>4, IdentKey DEF Moves
<1>6. /\ ops'[i].pc \in {"told", "watching"} /\ ops'[i].via = QS!NoOp /\ ops'[i].sent = ops[i].sent
      /\ ops'[i].token = ops[i].token
      /\ ops'[i].clean = ops[i].clean /\ (ops'[i].pc = "told" => ops'[i].told = phase)
      /\ (ops'[i].pc = "watching" => ops[i].pc = "sending" /\ phase = "accepted" /\ ops'[i].told = QS!Nothing)
  BY <1>3 DEF SettledAs
<1>7. ASSUME NEW e \in entries, QS!Mine(i) => e # QS!Slot(i)
      PROVE  EntryOfOwner(e)' /\ WaitersOf(e)' /\ (e.key \notin askOdds'.evicted => StageOf(e)')
  <2>1. EntryOfOwner(e) /\ WaitersOf(e) BY DEF LedgerHolds, EntriesFit
  <2>2. e.waiters \cap W = {} BY <1>1, <1>7, OwnersApart
  <2>3. CASE e.owner # i BY <1>2, <1>4, <2>2, <2>3, EntryStays
  <2>4. CASE e.owner = i
    <3>1. e.key = QKey(i) BY <2>1, <2>4 DEF EntryOfOwner
    <3>2. e.key \in askOdds.evicted BY <1>1, <1>7, <3>1 DEF LedgerHolds, EntriesFit, OnePerKey
    <3>3. EntryOfOwner(e)' BY <1>4, <1>5, <1>6, <2>1, <2>4 DEF EntryOfOwner, Flying, Moves, SameIdent
    <3>4. \A w \in e.waiters : w \in DOMAIN ops /\ ops'[w] = ops[w] BY <1>2, <1>4, <2>1, <2>2 DEF WaitersOf, Moves
    <3>5. WaitersOf(e)' BY <1>5, <2>1, <3>4 DEF WaitersOf
    <3> QED BY <3>2, <3>3, <3>5
  <2> QED BY <2>3, <2>4
<1>8. PICK x : x = [slot EXCEPT !.waiters = {}] OBVIOUS
<1>9. ASSUME QS!Mine(i)
      PROVE  /\ EntryTyped(x) /\ EntryOfOwner(x)' /\ WaitersOf(x)' /\ (x.key \notin askOdds'.evicted => StageOf(x)')
             /\ x.key = QKey(i) /\ x.owner = QS!Slot(i).owner
  <2>1. PICK s \in entries : s = QS!Slot(i) /\ s.key = QKey(i) /\ s.token = ops[i].token BY <1>1, <1>9
  <2>2. EntryOfOwner(s) /\ (s.key \notin askOdds.evicted => StageOf(s)) BY DEF LedgerHolds, EntriesFit
  <2>3. /\ slot.key = s.key /\ slot.hash = s.hash /\ slot.token = s.token /\ slot.owner = s.owner /\ slot.result = phase
        /\ (IF r.pc = "told" THEN slot.done ELSE slot.done = s.done) /\ EntryTyped(slot)
    BY <1>9, <2>1 DEF SlotAs
  <2>4. slot \in LedgerEntries({slot.created_at}) BY <2>3 DEF EntryTyped
  <2>5. PICK V \in SUBSET Nat : V = {} OBVIOUS
  <2>6. x = [slot EXCEPT !.waiters = V] BY <1>8, <2>5
  <2>7. x \in LedgerEntries({slot.created_at}) /\ x.created_at = slot.created_at BY <2>4, <2>6 DEF LedgerEntries
  <2>8. /\ x.key = s.key /\ x.hash = s.hash /\ x.token = s.token /\ x.owner = s.owner /\ x.result = phase
        /\ x.done = slot.done /\ x.waiters = {}
    BY <2>3, <2>4, <2>5, <2>6 DEF LedgerEntries
  <2>9. ops[s.owner].pc # "attached" /\ s.owner \in DOMAIN ops BY <2>2 DEF EntryOfOwner, Flying
  <2>10. s.owner = i \/ ops'[s.owner] = ops[s.owner] BY <1>4, <2>9 DEF Moves
  <2>11. EntryOfOwner(x)'
    BY <1>4, <1>5, <1>6, <2>2, <2>8, <2>9, <2>10 DEF EntryOfOwner, Flying, Moves, SameIdent
  <2>12. WaitersOf(x)' BY <2>8 DEF WaitersOf
  <2>13. ASSUME x.key \notin askOdds'.evicted PROVE StageOf(x)'
    <3>1. s.owner = i /\ StageOf(s) BY <1>1, <2>1, <2>2, <2>8, <2>13
    <3>2. CASE ops'[i].pc = "told"
      <4>1. slot.done BY <2>3, <3>2
      <4>2. x.done BY <2>8, <4>1, Zenon
      <4> QED BY <1>6, <2>8, <3>1, <3>2, <4>2 DEF StageOf
    <3>3. CASE ops'[i].pc = "watching"
      <4>1. ~s.done BY <1>6, <3>1, <3>3 DEF StageOf
      <4>2. r.pc # "told" BY <3>3
      <4>3. ~x.done BY <2>3, <2>8, <4>1, <4>2, Zenon
      <4> QED BY <1>6, <2>8, <3>1, <3>3, <4>3 DEF StageOf
    <3> QED BY <1>6, <3>2, <3>3
  <2>14. EntryTyped(x) BY <2>7 DEF EntryTyped
  <2> QED BY <2>1, <2>8, <2>11, <2>12, <2>13, <2>14
<1>10. \A e \in entries' : (e \in entries /\ (QS!Mine(i) => e # QS!Slot(i))) \/ (QS!Mine(i) /\ e = x)
  BY <1>8
<1>11. OnePerKey'
  <2> SUFFICES ASSUME NEW e \in entries', NEW d \in entries', e.key = d.key PROVE e = d BY DEF OnePerKey
  <2>1. \A a, b \in entries : a.key = b.key => a = b BY DEF LedgerHolds, EntriesFit, OnePerKey
  <2>2. CASE e \in entries /\ d \in entries BY <2>1, <2>2
  <2>3. CASE QS!Mine(i) /\ e = x /\ d = x BY <2>3
  <2>4. CASE QS!Mine(i) /\ e = x /\ d \in entries /\ d # QS!Slot(i)
    <3>1. d.key = QKey(i) BY <1>9, <2>4
    <3> QED BY <1>1, <2>1, <2>4, <3>1
  <2>5. CASE QS!Mine(i) /\ d = x /\ e \in entries /\ e # QS!Slot(i)
    <3>1. e.key = QKey(i) BY <1>9, <2>5
    <3> QED BY <1>1, <2>1, <2>5, <3>1
  <2> QED BY <1>10, <2>2, <2>3, <2>4, <2>5
<1>12. EntriesFit' BY <1>7, <1>9, <1>10, <1>11 DEF EntriesFit
<1>13. \A e \in entries' : EntryTyped(e) BY <1>9, <1>10 DEF AskTypes
<1>14. \A j : Kept(j) => Kept(j)'
  <2> SUFFICES ASSUME NEW j, Kept(j) PROVE \E e \in entries' : e.owner = j BY DEF Kept
  <2>1. PICK e \in entries : e.owner = j BY DEF Kept
  <2>2. CASE ~QS!Mine(i) BY <2>1, <2>2
  <2>3. CASE QS!Mine(i) /\ e # QS!Slot(i) BY <2>1, <2>3
  <2>4. CASE QS!Mine(i) /\ e = QS!Slot(i) BY <1>8, <1>9, <2>1, <2>4
  <2> QED BY <2>2, <2>3, <2>4
<1>15. QKey(i) \notin askOdds.evicted => Kept(i) BY <1>1 DEF Kept
<1>16. OpFits(i)' BY <1>2, <1>3, <1>6 DEF OpFits
<1>17. FailureHolds(i)' BY <1>6 DEF FailureHolds, Failing, QS!Nothing
<1>18. \A w \in W : phase \in Failing /\ QKey(w) \notin askOdds'.evicted =>
           ops[w].via # QS!NoOp /\ ops'[ops[w].via].sent = 0 /\ ops'[ops[w].via].pc = "told"
  <2> SUFFICES ASSUME NEW w \in W, phase \in Failing, QKey(w) \notin askOdds'.evicted
               PROVE  ops[w].via # QS!NoOp /\ ops'[ops[w].via].sent = 0 /\ ops'[ops[w].via].pc = "told"
    OBVIOUS
  <2>1. QS!Mine(i) /\ w \in QS!Slot(i).waiters /\ QS!Slot(i) \in entries /\ QS!Slot(i).key = QKey(i) BY <1>1
  <2>2. ops[w].via = QS!Slot(i).owner /\ QKey(w) = QKey(i) BY <2>1 DEF LedgerHolds, EntriesFit, WaitersOf
  <2>3. ops[w].via = i BY <1>1, <2>2
  <2>4. i # QS!NoOp BY OpTyped DEF QS!NoOp
  <2> QED BY <1>6, <2>3, <2>4 DEF Failing
<1>19. (ops'[i].pc \in Flying \/ ops[i].sent > 0) /\ QKey(i) \notin askOdds'.evicted =>
           Kept(i)' \/ (ops'[i].pc = "told" /\ Behind(ops[i].token))
  BY <1>14, <1>15
<1>20. ops'[i].pc \in {"sending", "watching"} => ops[i].pc \in {"sending", "watching"} BY <1>6
<1>21. askOdds.evicted \subseteq askOdds'.evicted /\ ops[i].pc # "told" BY <1>2
<1> QED BY <1>4, <1>12, <1>13, <1>14, <1>16, <1>17, <1>18, <1>19, <1>20, <1>21, LedgerStep

LEMMA FinishLedger ==
  ASSUME AskTypes, LedgerHolds, NEW i \in DOMAIN ops, ops[i].pc \in Flying, NEW phase \in AskPhases, phase # QS!Nothing,
         QS!finish(i, phase), known' = known, askOdds'.evicted = askOdds.evicted, phase \in Failing => ops[i].sent = 0
  PROVE  /\ LedgerHolds' /\ \A e \in entries' : EntryTyped(e)
         /\ \E W : Moves(i, W, phase)
         /\ ops'[i].pc = "told" /\ ops'[i].told = phase /\ ops'[i].clean = ops[i].clean
<1>1. ops[i] \in AskOps /\ ops \in Seq(AskOps) BY OpTyped DEF AskTypes
<1>2. PICK r : r = ToldAs(ops[i], phase) OBVIOUS
<1>3. /\ r \in AskOps /\ r.pc = "told" /\ r.told = phase
      /\ r.rid = ops[i].rid /\ r.kind = ops[i].kind /\ r.target = ops[i].target /\ r.opt = ops[i].opt
      /\ r.token = ops[i].token /\ r.status = ops[i].status /\ r.keys = ops[i].keys /\ r.sent = ops[i].sent
      /\ r.clean = ops[i].clean /\ r.via = ops[i].via
  <2>1. PICK s \in AskOps : s = ops[i] BY <1>1
  <2> QED BY <1>2, <2>1, ToldOp
<1>4. SettledAs(i, r, phase) BY <1>3 DEF SettledAs
<1>5. QS!Tell(i, phase) = [ops EXCEPT ![i] = r] BY <1>1, <1>2 DEF QS!Tell, ToldAs
<1>6. PICK slot : slot = [QS!Slot(i) EXCEPT !.done = TRUE, !.result = phase] OBVIOUS
<1>7. QS!Settles(i, slot, [ops EXCEPT ![i] = r]) BY <1>5, <1>6 DEF QS!finish
<1>8. QS!Mine(i) => SlotAs(i, slot, r, phase)
  <2> SUFFICES ASSUME QS!Mine(i) PROVE SlotAs(i, slot, r, phase) OBVIOUS
  <2>1. QS!Slot(i) \in entries BY SlotIs
  <2>2. PICK s : s = QS!Slot(i) OBVIOUS
  <2>3. s \in LedgerEntries({s.created_at}) BY <2>1, <2>2, EntryFields
  <2>4. PICK b \in BOOLEAN : b = TRUE OBVIOUS
  <2>5. slot = [s EXCEPT !.done = b, !.result = phase] BY <1>6, <2>2, <2>4
  <2>6. /\ slot.key = s.key /\ slot.hash = s.hash /\ slot.token = s.token /\ slot.owner = s.owner /\ slot.result = phase
        /\ slot.done = b /\ slot \in LedgerEntries({s.created_at}) /\ slot.created_at = s.created_at
    BY <2>3, <2>5 DEF LedgerEntries
  <2>7. EntryTyped(slot) BY <2>6 DEF EntryTyped
  <2> QED BY <1>3, <2>2, <2>4, <2>6, <2>7 DEF SlotAs
<1>9. QS!Mine(i) => slot.result = phase BY <1>8 DEF SlotAs
<1>10. /\ ~QS!Mine(i) => Moves(i, {}, phase) /\ entries' = entries
       /\ QS!Mine(i) => Moves(i, QS!Slot(i).waiters, phase) /\ entries' = (entries \ {QS!Slot(i)}) \cup {[slot EXCEPT !.waiters = {}]}
       /\ ops'[i] = r
  BY <1>4, <1>7, <1>9, SettleMoves
<1>11. PICK W : W = IF QS!Mine(i) THEN QS!Slot(i).waiters ELSE {} OBVIOUS
<1>12. Moves(i, W, phase) BY <1>10, <1>11
<1>13. \/ ~QS!Mine(i) /\ W = {} /\ Moves(i, W, phase) /\ entries' = entries
       \/ /\ QS!Mine(i) /\ W = QS!Slot(i).waiters /\ Moves(i, W, phase)
          /\ entries' = (entries \ {QS!Slot(i)}) \cup {[slot EXCEPT !.waiters = {}]}
  BY <1>10, <1>11, <1>12
<1>14. LedgerHolds' /\ \A e \in entries' : EntryTyped(e) BY <1>4, <1>8, <1>10, <1>13, SettleLedger
<1> QED BY <1>3, <1>10, <1>12, <1>14

(* Who has the lock, or takes it while nobody has it, gives it back. *)
LEMMA LockFreed ==
  ASSUME AskTypes, LockFits, NEW i \in DOMAIN ops, ops[i].pc \in {"locking", "reading", "sending"},
         ops[i].pc = "locking" => pane.lock = QS!NoOp, NEW W, NEW phase, Moves(i, W, phase),
         ops'[i].pc \notin {"reading", "sending"}, pane'.lock = QS!NoOp
  PROVE  LockFits'
<1>1. \A j \in DOMAIN ops : j = i \/ ops'[j] = ops[j] \/ ops'[j].pc = "told" BY DEF Moves
<1>2. \A j \in DOMAIN ops : j # i => ops[j].pc \notin {"reading", "sending"}
  <2> SUFFICES ASSUME NEW j \in DOMAIN ops, j # i, ops[j].pc \in {"reading", "sending"} PROVE FALSE OBVIOUS
  <2>1. pane.lock = j /\ j # QS!NoOp BY OpTyped DEF LockFits, QS!NoOp
  <2> QED BY <2>1 DEF LockFits
<1>3. DOMAIN ops' = DOMAIN ops BY DEF Moves
<1> QED BY <1>1, <1>2, <1>3 DEF LockFits

LEMMA FailsKeeps ==
  ASSUME AnswersInv, NEW i \in DOMAIN ops, ops[i].pc \in {"locking", "reading", "sending"},
         ops[i].pc = "locking" => pane.lock = QS!NoOp, NEW phase \in {"failed", "not_started", "dispatched_unknown"},
         QS!Fails(i, phase), term' = term, known' = known, askOdds' = askOdds \/ QS!Cost,
         phase \in Failing => ops[i].sent = 0
  PROVE  AnswersInv'
<1>1. AskTypes /\ LedgerHolds /\ LockFits BY DEF AnswersInv
<1>2. QS!finish(i, phase) /\ pane' = [pane EXCEPT !.lock = QS!NoOp] BY DEF QS!Fails
<1>3. phase \in AskPhases /\ phase # QS!Nothing /\ ops[i].pc \in Flying BY DEF AskPhases, QS!Nothing, Flying
<1>4. /\ askOdds' \in [n : Nat, evicted : SUBSET LedgerKeys, lagged : SUBSET Nat]
      /\ askOdds'.evicted = askOdds.evicted /\ askOdds'.lagged = askOdds.lagged
  BY <1>1, CostFacts DEF AskTypes
<1>5. /\ LedgerHolds' /\ \A e \in entries' : EntryTyped(e)
      /\ \E W : Moves(i, W, phase)
      /\ ops'[i].pc = "told" /\ ops'[i].told = phase /\ ops'[i].clean = ops[i].clean
  BY <1>1, <1>2, <1>3, <1>4, FinishLedger
<1>6. PICK W : Moves(i, W, phase) BY <1>5
<1>7. /\ pane' \in [lock : Nat, pending : [event : Nat, look : Nat, token : Nat]] /\ pane'.lock = QS!NoOp
      /\ pane'.pending = pane.pending
  BY <1>1, <1>2 DEF AskTypes, QS!NoOp
<1>8. AskTypes'
  <2>1. ops' \in Seq(AskOps) BY <1>6 DEF Moves
  <2> QED BY <1>1, <1>4, <1>5, <1>7, <2>1 DEF AskTypes, EntryTyped
<1>9. LockFits' BY <1>1, <1>5, <1>6, <1>7, LockFreed
<1>10. TokensFit' /\ TerminalHolds' /\ SuccessTrue' /\ VerifiedStands'
  <2>1. askOdds.evicted \subseteq askOdds'.evicted /\ ops'[i].pc \notin {"sending", "watching"}
        /\ ops'[i].told \notin {"confirmed", "advanced"}
    BY <1>4, <1>5
  <2> QED BY <1>3, <1>4, <1>5, <1>6, <1>7, <2>1, MovesRest
<1> QED BY <1>5, <1>8, <1>9, <1>10 DEF AnswersInv

(* A request goes on under its own entry. *)
LEMMA LedgerAdvances ==
  ASSUME AskTypes, LedgerHolds, NEW i \in DOMAIN ops, entries' = entries, known' = known,
         askOdds'.evicted = askOdds.evicted, DOMAIN ops' = DOMAIN ops,
         \A j \in DOMAIN ops : j # i => ops'[j] = ops[j],
         SameIdent(i), ops[i].pc \in {"locking", "reading", "sending"}, ops'[i].pc \in {"reading", "sending"},
         OpFits(i)', ops'[i].told = ops[i].told,
         \/ ops'[i].pc # "sending" /\ ops'[i].sent = 0
         \/ Acting(i)
         \/ \A j \in DOMAIN ops : j # i /\ QS!Same(i, j) /\ QKey(i) \notin askOdds.evicted => ~Acting(j)
  PROVE  LedgerHolds'
<1>1. \A j \in DOMAIN ops : QKey(j)' = QKey(j) /\ QS!hash_payload(ops'[j]) = QS!hash_payload(ops[j])
      /\ ops'[j].token = ops[j].token /\ (ops'[j].pc = ops[j].pc \/ j = i)
  BY IdentKey DEF SameIdent
<1>2. EntriesFit'
  <2> SUFFICES ASSUME NEW e \in entries
               PROVE  EntryOfOwner(e)' /\ WaitersOf(e)' /\ (e.key \notin askOdds.evicted => StageOf(e)')
    BY DEF LedgerHolds, EntriesFit, OnePerKey
  <2>1. EntryOfOwner(e) /\ WaitersOf(e) /\ (e.key \notin askOdds.evicted => StageOf(e))
    BY DEF LedgerHolds, EntriesFit
  <2>2. EntryOfOwner(e)' BY <1>1, <2>1 DEF EntryOfOwner, Flying
  <2>3. WaitersOf(e)'
    <3>1. \A w \in e.waiters : w \in DOMAIN ops /\ w # i BY <2>1 DEF WaitersOf
    <3> QED BY <1>1, <2>1, <3>1 DEF WaitersOf
  <2>4. e.key \notin askOdds.evicted => StageOf(e)' BY <1>1, <2>1 DEF StageOf, EntryOfOwner
  <2> QED BY <2>2, <2>3, <2>4
<1>3. FlightsFit'
  <2> SUFFICES ASSUME NEW j \in DOMAIN ops, ops'[j].pc \in Flying \/ ops'[j].sent > 0, QKey(j) \notin askOdds.evicted
               PROVE  Kept(j) \/ (ops'[j].pc = "told" /\ Behind(ops[j].token))
    BY <1>1 DEF FlightsFit, Kept, Behind
  <2>1. CASE j # i BY <2>1 DEF LedgerHolds, FlightsFit
  <2>2. CASE j = i BY <2>2 DEF LedgerHolds, FlightsFit, Flying
  <2> QED BY <2>1, <2>2
<1>4. OneActs'
  <2> SUFFICES ASSUME NEW j \in DOMAIN ops, NEW k \in DOMAIN ops, j # k, QS!Same(j, k)', QKey(j) \notin askOdds.evicted,
                      Acting(j)', Acting(k)'
               PROVE  FALSE
    BY <1>1 DEF OneActs
  <2>1. QS!Same(j, k) /\ QS!Same(k, j) /\ QKey(k) = QKey(j) BY <1>1 DEF QS!Same, QKey
  <2>2. (j # i => Acting(j)) /\ (k # i => Acting(k)) BY DEF Acting
  <2>3. Acting(i)' => (Acting(i) \/ \A m \in DOMAIN ops : m # i /\ QS!Same(i, m) /\ QKey(i) \notin askOdds.evicted => ~Acting(m))
    BY DEF Acting
  <2> QED BY <2>1, <2>2, <2>3 DEF LedgerHolds, OneActs
<1>5. OpsFit'
  <2> SUFFICES ASSUME NEW j \in DOMAIN ops PROVE OpFits(j)' BY DEF OpsFit
  <2>1. CASE j = i BY <2>1
  <2>2. CASE j # i BY <2>2 DEF LedgerHolds, OpsFit, OpFits
  <2> QED BY <2>1, <2>2
<1>6. FailuresTrue'
  <2> SUFFICES ASSUME NEW j \in DOMAIN ops, ops'[j].told \in Failing, QKey(j) \notin askOdds.evicted
               PROVE  IF ops'[j].via = QS!NoOp THEN ops'[j].sent = 0
                        ELSE ops'[ops'[j].via].sent = 0 /\ ops'[ops'[j].via].pc = "told"
    BY <1>1 DEF FailuresTrue
  <2>1. j # i
    <3>1. OpFits(i) /\ QS!Nothing \notin Failing BY DEF LedgerHolds, OpsFit, Failing, QS!Nothing
    <3> QED BY <3>1 DEF OpFits, Failing, QS!Nothing
  <2>2. ops'[j] = ops[j] /\ OpFits(j) BY <2>1 DEF LedgerHolds, OpsFit
  <2>3. IF ops[j].via = QS!NoOp THEN ops[j].sent = 0 ELSE ops[ops[j].via].sent = 0 /\ ops[ops[j].via].pc = "told"
    BY <2>2 DEF LedgerHolds, FailuresTrue
  <2>4. ops[j].via # QS!NoOp => ops[j].via \in DOMAIN ops /\ ops[j].via # i BY <2>2, <2>3 DEF OpFits
  <2> QED BY <2>2, <2>3, <2>4
<1> QED BY <1>2, <1>3, <1>4, <1>5, <1>6 DEF LedgerHolds

LEMMA LocksKeeps ==
  ASSUME AnswersInv, NEW i \in DOMAIN ops, QS!Locks(i)
  PROVE  AnswersInv'
<1>1. AskTypes /\ LedgerHolds /\ LockFits BY DEF AnswersInv
<1>2. ops[i].pc = "locking" /\ pane.lock = QS!NoOp /\ UNCHANGED <<term, known, askOdds>> BY DEF QS!Locks, QS!pane_lock
<1>3. OpFits(i) BY <1>1 DEF LedgerHolds, OpsFit
<1>4. CASE QS!Fails(i, "failed")
  <2>1. ops[i].sent = 0 BY <1>2, <1>3 DEF OpFits
  <2>2. PICK phase \in {"failed", "not_started", "dispatched_unknown"} : phase = "failed" OBVIOUS
  <2> QED BY <1>2, <1>4, <2>1, <2>2, FailsKeeps
<1>5. CASE ops' = [ops EXCEPT ![i].pc = "reading"] /\ pane' = [pane EXCEPT !.lock = i] /\ UNCHANGED entries
  <2>1. "reading" \in AskStages /\ "closed" \in AskPhases BY DEF AskStages, AskPhases
  <2>2. /\ Moves(i, {}, "closed") /\ ops'[i].pc = "reading" /\ ops'[i].told = ops[i].told /\ ops'[i].via = ops[i].via
        /\ ops'[i].clean = ops[i].clean
    BY <1>1, <1>5, <2>1, PcMoves
  <2>3. /\ ops' \in Seq(AskOps) /\ DOMAIN ops' = DOMAIN ops /\ SameIdent(i) /\ ops'[i].sent = ops[i].sent
        /\ \A j \in DOMAIN ops : j # i => ops'[j] = ops[j]
    BY <2>2 DEF Moves
  <2>4. /\ pane' \in [lock : Nat, pending : [event : Nat, look : Nat, token : Nat]] /\ pane'.lock = i
        /\ pane'.pending = pane.pending
    BY <1>1, <1>5, OpTyped DEF AskTypes
  <2>5. AskTypes' BY <1>1, <1>2, <1>5, <2>3, <2>4 DEF AskTypes, EntryTyped
  <2>6. OpFits(i)' BY <1>2, <1>3, <2>2, <2>3 DEF OpFits
  <2>7. LedgerHolds'
    <3>1. ops'[i].pc # "sending" /\ ops'[i].sent = 0 BY <1>2, <1>3, <2>2, <2>3 DEF OpFits
    <3> QED BY <1>1, <1>2, <1>5, <2>2, <2>3, <2>6, <3>1, LedgerAdvances
  <2>8. LockFits'
    <3>1. \A j \in DOMAIN ops : j # 0 BY <1>1, OpTyped
    <3> QED BY <1>1, <1>2, <2>2, <2>3, <2>4, <3>1 DEF LockFits, QS!NoOp
  <2>9. TokensFit' /\ TerminalHolds' /\ SuccessTrue' /\ VerifiedStands'
    <3>1. ops'[i].pc \notin {"sending", "watching"} /\ ~ops[i].clean /\ term' = term /\ known' = known
          /\ askOdds.evicted \subseteq askOdds'.evicted /\ askOdds'.lagged = askOdds.lagged
      BY <1>2, <1>3, <2>2 DEF OpFits
    <3>2. PICK W : W = {} OBVIOUS
    <3>3. Moves(i, W, "closed") BY <2>2, <3>2
    <3> QED BY <2>1, <2>2, <2>4, <3>1, <3>3, MovesRest
  <2> QED BY <2>5, <2>7, <2>8, <2>9 DEF AnswersInv
<1> QED BY <1>4, <1>5 DEF QS!Locks

LEMMA ReadFailsKeeps ==
  ASSUME AnswersInv, NEW i \in DOMAIN ops, QS!ReadFails(i)
  PROVE  AnswersInv'
<1>1. ops[i].pc = "reading" /\ QS!Cost /\ UNCHANGED <<term, known>> BY DEF QS!ReadFails
<1>2. PICK p \in {"not_started", "dispatched_unknown"} : QS!Fails(i, p) BY DEF QS!ReadFails
<1>3. OpFits(i) BY DEF AnswersInv, LedgerHolds, OpsFit
<1>4. ops[i].sent = 0 BY <1>1, <1>3 DEF OpFits
<1>5. p \in {"failed", "not_started", "dispatched_unknown"} BY <1>2
<1> QED BY <1>1, <1>2, <1>4, <1>5, FailsKeeps

-----------------------------------------------------------------------------
(* Responses: the screen is read *)

PlannedAs(r, keys, clean) == [r EXCEPT !.pc = "sending", !.keys = keys, !.clean = clean]

LEMMA PlannedOp ==
  ASSUME NEW r \in AskOps, NEW ks \in Seq(AskKeys), NEW b \in BOOLEAN
  PROVE  /\ PlannedAs(r, ks, b) \in AskOps /\ PlannedAs(r, ks, b).pc = "sending" /\ PlannedAs(r, ks, b).keys = ks
         /\ PlannedAs(r, ks, b).clean = b /\ PlannedAs(r, ks, b).rid = r.rid /\ PlannedAs(r, ks, b).kind = r.kind
         /\ PlannedAs(r, ks, b).target = r.target /\ PlannedAs(r, ks, b).opt = r.opt
         /\ PlannedAs(r, ks, b).token = r.token /\ PlannedAs(r, ks, b).status = r.status
         /\ PlannedAs(r, ks, b).sent = r.sent /\ PlannedAs(r, ks, b).told = r.told /\ PlannedAs(r, ks, b).via = r.via
BY DEF AskOps, AskStages, PlannedAs

(* The keys a plan is made of. *)
LEMMA PlanFacts ==
  ASSUME AskTypes, NEW i \in DOMAIN ops, NEW ks, ks = QS!plan_input(ops[i])
  PROVE  /\ ks \in Seq(AskKeys) /\ ks # <<>>
         /\ \/ ks = <<"Enter">> /\ term.cursor = ops[i].opt
            \/ ks = <<"Down", "Enter">> /\ ops[i].opt = 2
            \/ ks = <<"Up", "Enter">> /\ ops[i].opt = 1
            \/ ks \in {<<"Next">>, <<"Previous">>, <<"Chat">>} /\ ops[i].kind \in {"next", "previous", "clarify"}
<1>1. ops[i].opt \in 1..2 /\ term.cursor \in 1..2 BY OpTyped, TermFields
<1>2. \/ ks = <<"Enter">> /\ term.cursor = ops[i].opt
      \/ ks = <<"Down", "Enter">> /\ ops[i].opt = 2
      \/ ks = <<"Up", "Enter">> /\ ops[i].opt = 1
      \/ ks \in {<<"Next">>, <<"Previous">>, <<"Chat">>} /\ ops[i].kind \in {"next", "previous", "clarify"}
  <2>1. CASE ops[i].kind = "next"
    <3>1. ks = <<"Next">> BY <2>1 DEF QS!plan_input
    <3> QED BY <2>1, <3>1
  <2>2. CASE ops[i].kind = "previous"
    <3>1. ks = <<"Previous">> BY <2>2 DEF QS!plan_input
    <3> QED BY <2>2, <3>1
  <2>3. CASE ops[i].kind = "clarify"
    <3>1. ks = <<"Chat">> BY <2>3 DEF QS!plan_input
    <3> QED BY <2>3, <3>1
  <2>4. CASE ops[i].kind \notin {"next", "previous", "clarify"}
    <3>1. ks = IF ops[i].opt = term.cursor THEN <<"Enter">> ELSE <<IF ops[i].opt = 2 THEN "Down" ELSE "Up", "Enter">>
      BY <2>4 DEF QS!plan_input
    <3>2. CASE ops[i].opt = term.cursor BY <3>1, <3>2
    <3>3. CASE ops[i].opt # term.cursor /\ ops[i].opt = 2 BY <3>1, <3>3
    <3>4. CASE ops[i].opt # term.cursor /\ ops[i].opt # 2
      <4>1. ops[i].opt = 1 BY <1>1, <3>4
      <4>2. ks = <<"Up", "Enter">> BY <3>1, <3>4
      <4> QED BY <4>1, <4>2
    <3> QED BY <3>2, <3>3, <3>4
  <2> QED BY <2>1, <2>2, <2>3, <2>4
<1>3. ks \in Seq(AskKeys) /\ ks # <<>>
  <2>1. \A a, b \in AskKeys : <<a>> \in Seq(AskKeys) /\ <<a>> # <<>> /\ <<a, b>> \in Seq(AskKeys) /\ <<a, b>> # <<>>
    OBVIOUS
  <2>2. {"Enter", "Down", "Up", "Next", "Previous", "Chat"} \subseteq AskKeys BY DEF AskKeys
  <2> QED BY <1>2, <2>1, <2>2
<1> QED BY <1>2, <1>3

LEMMA ReadsKeeps ==
  ASSUME AnswersInv, NEW i \in DOMAIN ops, QS!Reads(i)
  PROVE  AnswersInv'
<1>1. AskTypes /\ LedgerHolds /\ LockFits /\ TokensFit /\ TerminalHolds /\ VerifiedStands /\ SuccessTrue BY DEF AnswersInv
<1>2. ops[i].pc = "reading" /\ UNCHANGED <<term, known>> BY DEF QS!Reads
<1>3. OpFits(i) BY <1>1 DEF LedgerHolds, OpsFit
<1>4. ops[i].sent = 0 /\ ~ops[i].clean /\ ops[i].via = QS!NoOp /\ ops[i].told = QS!Nothing BY <1>2, <1>3 DEF OpFits
<1>5. CASE ~(term.token # QS!Absent /\ QS!Matches(i) /\ QS!token_current(i))
  <2>1. QS!Fails(i, "failed") /\ askOdds' = askOdds BY <1>5 DEF QS!Reads
  <2>2. PICK phase \in {"failed", "not_started", "dispatched_unknown"} : phase = "failed" OBVIOUS
  <2> QED BY <1>2, <1>4, <2>1, <2>2, FailsKeeps
<1>6. CASE term.token # QS!Absent /\ QS!Matches(i) /\ QS!token_current(i)
  <2>1. PICK ks : ks = QS!plan_input(ops[i]) OBVIOUS
  <2>2. PICK b \in BOOLEAN : b = (term.inbox = <<>> /\ term.token = ops[i].token) OBVIOUS
  <2>3. /\ ks \in Seq(AskKeys) /\ ks # <<>>
        /\ \/ ks = <<"Enter">> /\ term.cursor = ops[i].opt
           \/ ks = <<"Down", "Enter">> /\ ops[i].opt = 2
           \/ ks = <<"Up", "Enter">> /\ ops[i].opt = 1
           \/ ks \in {<<"Next">>, <<"Previous">>, <<"Chat">>} /\ ops[i].kind \in {"next", "previous", "clarify"}
    BY <1>1, <2>1, PlanFacts
  <2>4. ops \in Seq(AskOps) /\ ops[i] \in AskOps BY <1>1, OpTyped DEF AskTypes
  <2>5. PICK r : r = PlannedAs(ops[i], ks, b) OBVIOUS
  <2>6. /\ ops' = [ops EXCEPT ![i].pc = "sending", ![i].keys = ks, ![i].clean = b]
        /\ askOdds' = QS!Lags(i) /\ UNCHANGED <<entries, pane>>
    BY <1>6, <2>1, <2>2 DEF QS!Reads
  <2>7. ops' = [ops EXCEPT ![i] = r] BY <2>4, <2>5, <2>6 DEF PlannedAs, AskOps
  <2>8. /\ r \in AskOps /\ r.pc = "sending" /\ r.keys = ks /\ r.clean = b /\ r.told = ops[i].told
        /\ r.rid = ops[i].rid /\ r.kind = ops[i].kind /\ r.target = ops[i].target /\ r.opt = ops[i].opt
        /\ r.token = ops[i].token /\ r.status = ops[i].status /\ r.sent = ops[i].sent /\ r.via = ops[i].via
    <3>1. PICK s \in AskOps : s = ops[i] BY <2>4
    <3>2. ks \in Seq(AskKeys) /\ b \in BOOLEAN BY <2>2, <2>3
    <3>3. r = PlannedAs(s, ks, b) BY <2>5, <3>1
    <3> QED BY <3>1, <3>2, <3>3, PlannedOp
  <2>9. /\ ops' \in Seq(AskOps) /\ DOMAIN ops' = DOMAIN ops /\ ops'[i] = r
        /\ \A j \in DOMAIN ops : j # i => ops'[j] = ops[j]
    BY <2>4, <2>7, <2>8
  <2>10. SameIdent(i) BY <2>8, <2>9 DEF SameIdent
  <2>11. \A j \in DOMAIN ops : SameIdent(j) /\ QKey(j)' = QKey(j) BY <2>9, <2>10, IdentKey DEF SameIdent
  <2>12. /\ askOdds' \in [n : Nat, evicted : SUBSET LedgerKeys, lagged : SUBSET Nat]
         /\ askOdds'.evicted = askOdds.evicted /\ askOdds.lagged \subseteq askOdds'.lagged
         /\ ops[i].kind = "approval" /\ i \notin askOdds'.lagged => known.status = "blocked"
    <3>1. askOdds \in [n : Nat, evicted : SUBSET LedgerKeys, lagged : SUBSET Nat] /\ i \in Nat BY <1>1, OpTyped DEF AskTypes
    <3>2. PICK L \in SUBSET Nat : L = askOdds.lagged \cup {i} BY <3>1
    <3>3. askOdds' = IF ops[i].kind = "approval" /\ known.status # "blocked" THEN [askOdds EXCEPT !.lagged = L] ELSE askOdds
      BY <2>6, <3>2 DEF QS!Lags
    <3>4. CASE ops[i].kind = "approval" /\ known.status # "blocked"
      <4>1. askOdds' = [askOdds EXCEPT !.lagged = L] BY <3>3, <3>4
      <4>2. /\ askOdds' \in [n : Nat, evicted : SUBSET LedgerKeys, lagged : SUBSET Nat]
            /\ askOdds'.evicted = askOdds.evicted /\ askOdds'.lagged = L
        BY <3>1, <4>1
      <4> QED BY <3>2, <4>2
    <3>5. CASE ~(ops[i].kind = "approval" /\ known.status # "blocked") BY <3>1, <3>3, <3>5
    <3> QED BY <3>4, <3>5
  <2>13. AskTypes' BY <1>1, <1>2, <2>6, <2>9, <2>12 DEF AskTypes, EntryTyped
  <2>14. known.token # QS!Absent /\ known.token = ops[i].token BY <1>6 DEF QS!token_current
  <2>15. LedgerHolds'
    <3>1. OpFits(i)' BY <1>4, <2>8, <2>9 DEF OpFits
    <3>2. \A j \in DOMAIN ops : j # i /\ QS!Same(i, j) /\ QKey(i) \notin askOdds.evicted => ~Acting(j)
      <4> SUFFICES ASSUME NEW j \in DOMAIN ops, j # i, QS!Same(i, j), QKey(i) \notin askOdds.evicted, Acting(j)
                   PROVE  FALSE
        OBVIOUS
      <4>1. QKey(j) = QKey(i) /\ ops[j].token = ops[i].token BY DEF QS!Same, QKey
      <4>2. Kept(i) BY <1>1, <1>2 DEF LedgerHolds, FlightsFit, Flying
      <4>3. ~Behind(ops[j].token)
        <5>1. known.token \in Nat BY <1>1 DEF AskTypes
        <5> QED BY <2>14, <4>1, <5>1 DEF Behind
      <4>4. Kept(j) BY <1>1, <4>1, <4>3 DEF LedgerHolds, FlightsFit, Flying, Acting
      <4>5. PICK e \in entries, d \in entries : e.owner = i /\ d.owner = j BY <4>2, <4>4 DEF Kept
      <4>6. e.key = d.key BY <1>1, <4>1, <4>5 DEF LedgerHolds, EntriesFit, EntryOfOwner
      <4> QED BY <1>1, <4>5, <4>6 DEF LedgerHolds, EntriesFit, OnePerKey
    <3>3. ops'[i].pc \in {"reading", "sending"} /\ ops'[i].told = ops[i].told BY <2>8, <2>9
    <3> QED BY <1>1, <1>2, <2>6, <2>9, <2>10, <2>12, <3>1, <3>2, <3>3, LedgerAdvances
  <2>16. TokensFit' BY <1>1, <1>2, <2>9, <2>11 DEF TokensFit, SameIdent, QS!Absent
  <2>17. LockFits' BY <1>1, <1>2, <2>6, <2>8, <2>9 DEF LockFits
  <2>18. \A j \in DOMAIN ops : ops'[j].pc = "sending" => j = i BY <1>1, <1>2, <2>9 DEF LockFits
  <2>19. QS!Shown # QS!Over /\ QS!Ident(QS!Shown) = QS!Ident(ops[i].target) BY <1>6 DEF QS!Matches
  <2>20. ~term.busy /\ term.at # QS!Over /\ QS!Ident(term.at) = QS!Ident(ops[i].target)
    BY <2>19 DEF QS!Shown
  <2>21. ops'[i].clean => term.inbox = <<>> /\ term.token = ops[i].token BY <2>2, <2>8, <2>9
  <2>22. \A m \in DOMAIN term.inbox : term.inbox[m].op \in DOMAIN ops BY <1>1 DEF TerminalHolds, KeysFit
  <2>23. KeysFit'
    <3>1. ASSUME NEW m \in DOMAIN term.inbox, ops'[term.inbox[m].op].clean PROVE ops[term.inbox[m].op].clean
      <4>1. term.inbox # <<>> OBVIOUS
      <4> QED BY <2>9, <2>21, <2>22, <3>1, <4>1
    <3> QED BY <1>1, <1>2, <2>9, <3>1 DEF TerminalHolds, KeysFit
  <2>24. CleanHead' => CleanHead /\ term.inbox[1].op \in DOMAIN ops /\ term.inbox[1].op # i
    <3> SUFFICES ASSUME CleanHead' PROVE CleanHead /\ term.inbox[1].op \in DOMAIN ops /\ term.inbox[1].op # i OBVIOUS
    <3>1. term.inbox # <<>> /\ ops'[term.inbox[1].op].clean BY <1>2 DEF CleanHead
    <3>2. term.inbox[1].op \in DOMAIN ops BY <1>1, <3>1, HeadThere DEF TerminalHolds
    <3>3. term.inbox[1].op # i BY <2>21, <3>1
    <3> QED BY <2>9, <3>1, <3>2, <3>3 DEF CleanHead
  <2>25. \A j \in DOMAIN ops : Aim(j) => Aim(j)'
    BY <1>2, <2>11, <2>12 DEF Aim, SameIdent, QS!Ident, QS!Over
  <2>26. HeadAims' BY <1>1, <1>2, <2>9, <2>24, <2>25 DEF TerminalHolds, HeadAims
  <2>27. Aim(i)' BY <1>2, <2>8, <2>9, <2>12, <2>20 DEF Aim, QS!Ident, QS!Over
  <2>28. SendersPoised'
    <3> SUFFICES ASSUME NEW j \in DOMAIN ops, ops'[j].pc = "sending", ops'[j].clean PROVE Poised(j)'
      BY <2>9 DEF SendersPoised
    <3>1. j = i /\ term'.inbox = <<>> /\ term'.cursor = term.cursor BY <1>2, <2>18, <2>21
    <3>2. ops'[i].keys = ks /\ ops'[i].opt = ops[i].opt /\ ops'[i].kind = ops[i].kind BY <2>8, <2>9
    <3> QED BY <2>3, <2>27, <3>1, <3>2 DEF Poised
  <2>29. EntersLand'
    <3>1. ASSUME NEW j \in DOMAIN ops, Typed(j)' PROVE j # i
      <4>1. ops'[i].pc = "sending" /\ ops'[i].keys # <<>> BY <2>3, <2>8, <2>9
      <4> QED BY <3>1, <4>1 DEF Typed
    <3> QED BY <1>1, <1>2, <2>9, <3>1 DEF TerminalHolds, EntersLand, Typed, EnterComes
  <2>30. SendersSee' BY <1>2, <2>8, <2>9, <2>18, <2>20 DEF SendersSee, QS!Ident, QS!Over
  <2>31. CleanStays' /\ ~term'.astray
    BY <1>1, <1>2, <2>9, <2>14, <2>21 DEF TerminalHolds, CleanStays, QS!Absent
  <2>32. TerminalHolds' BY <2>23, <2>26, <2>28, <2>29, <2>30, <2>31 DEF TerminalHolds
  <2>33. VerifiedStands'
    <3>1. \A j : EnterComes(j)' => EnterComes(j) BY <1>2 DEF EnterComes
    <3>2. \A j \in DOMAIN ops : ops'[j].pc = "watching" => j # i BY <2>8, <2>9
    <3> QED BY <1>1, <1>2, <2>6, <2>9, <2>11, <2>12, <3>1, <3>2 DEF VerifiedStands
  <2>34. SuccessTrue'
    <3>1. \A j \in DOMAIN ops : ops'[j].told \in {"confirmed", "advanced"} => j # i BY <1>4, <2>8, <2>9 DEF QS!Nothing
    <3> QED BY <1>1, <1>2, <2>9, <2>11, <2>12, <3>1 DEF SuccessTrue
  <2> QED BY <2>13, <2>15, <2>16, <2>17, <2>32, <2>33, <2>34 DEF AnswersInv
<1> QED BY <1>5, <1>6

-----------------------------------------------------------------------------
(* Responses: keys go out *)

StrokesOf(b, i) == [j \in DOMAIN b |-> [key |-> b[j], op |-> i]]
Typing(s, b, i) == s \o StrokesOf(b, i)

LEMMA StrokesAppended ==
  ASSUME NEW s \in Seq(Strokes), NEW b \in Seq(AskKeys), NEW i \in Nat
  PROVE  /\ Typing(s, b, i) \in Seq(Strokes) /\ Len(Typing(s, b, i)) = Len(s) + Len(b)
         /\ DOMAIN Typing(s, b, i) = 1..(Len(s) + Len(b))
         /\ \A m \in 1..Len(s) : Typing(s, b, i)[m] = s[m]
         /\ \A m \in 1..Len(b) : Typing(s, b, i)[Len(s) + m] = [key |-> b[m], op |-> i]
<1>1. DOMAIN b = 1..Len(b) /\ Len(b) \in Nat /\ \A m \in 1..Len(b) : b[m] \in AskKeys OBVIOUS
<1>2. PICK t : t = StrokesOf(b, i) OBVIOUS
<1>3. \A m \in 1..Len(b) : [key |-> b[m], op |-> i] \in Strokes BY <1>1 DEF Strokes
<1>4. t \in [1..Len(b) -> Strokes] /\ \A m \in 1..Len(b) : t[m] = [key |-> b[m], op |-> i]
  BY <1>1, <1>2, <1>3 DEF StrokesOf
<1>5. t \in Seq(Strokes) /\ Len(t) = Len(b) BY <1>1, <1>4
<1>6. /\ s \o t \in Seq(Strokes) /\ Len(s \o t) = Len(s) + Len(b)
      /\ DOMAIN (s \o t) = 1..(Len(s) + Len(b))
      /\ \A m \in 1..Len(s) : (s \o t)[m] = s[m]
      /\ \A m \in 1..Len(b) : (s \o t)[Len(s) + m] = t[m]
  BY <1>5
<1> QED BY <1>2, <1>4, <1>6 DEF Typing

LEMMA StrokesBefore ==
  ASSUME NEW s \in Seq(Strokes), NEW b \in Seq(AskKeys), NEW i \in Nat, NEW m \in 1..Len(s)
  PROVE  Typing(s, b, i)[m] = s[m]
<1>1. \A l \in 1..Len(s) : Typing(s, b, i)[l] = s[l] BY StrokesAppended, ZenonT(60)
<1> QED BY <1>1

LEMMA StrokesAfter ==
  ASSUME NEW s \in Seq(Strokes), NEW b \in Seq(AskKeys), NEW i \in Nat, NEW m \in 1..Len(b)
  PROVE  Typing(s, b, i)[Len(s) + m] = [key |-> b[m], op |-> i]
<1>1. \A l \in 1..Len(b) : Typing(s, b, i)[Len(s) + l] = [key |-> b[l], op |-> i] BY StrokesAppended, ZenonT(60)
<1> QED BY <1>1

LEMMA BatchFacts ==
  ASSUME AskTypes, NEW i \in DOMAIN ops, ops[i].keys # <<>>, NEW b, b = QS!Batch(ops[i])
  PROVE  /\ b \in Seq(AskKeys) /\ Len(b) \in 1..Len(ops[i].keys) /\ b[1] = ops[i].keys[1]
         /\ b = ops[i].keys \/ (Len(b) = 1)
         /\ Len(ops[i].keys) \in Nat
<1>1. ops[i].keys \in Seq(AskKeys) BY OpTyped
<1>2. Len(ops[i].keys) \in Nat \ {0} /\ Head(ops[i].keys) = ops[i].keys[1] /\ ops[i].keys[1] \in AskKeys BY <1>1
<1>3. CASE ops[i].kind = "approval"
  <2>1. b = ops[i].keys BY <1>3 DEF QS!Batch
  <2> QED BY <1>1, <1>2, <2>1
<1>4. CASE ops[i].kind # "approval"
  <2>1. b = <<ops[i].keys[1]>> BY <1>2, <1>4 DEF QS!Batch
  <2> QED BY <1>1, <1>2, <2>1
<1> QED BY <1>3, <1>4

(* What a clean sender's keys look like in the inbox, and what is left of    *)
(* them.                                                                     *)
SentShape(i, q, rest) ==
  /\ \A m \in DOMAIN q : q[m].op = i
  /\ Len(q) = 1 \/ Len(q) = 2
  /\ Len(q) = 2 => q[1].key \in {"Down", "Up"} /\ q[2].key = "Enter" /\ rest = <<>>
  /\ Len(q) = 1 => \/ q[1].key = "Enter" /\ rest = <<>>
                   \/ q[1].key \in {"Down", "Up"} /\ rest = <<"Enter">>
                   \/ q[1].key \in {"Next", "Previous", "Chat"} /\ rest = <<>> /\ ops[i].kind \in {"next", "previous", "clarify"}
  /\ q[1].key = "Enter" => term.cursor = ops[i].opt
  /\ q[1].key = "Down" => ops[i].opt = 2
  /\ q[1].key = "Up" => ops[i].opt = 1

Sending(i, b, q, rest) ==
  b = QS!Batch(ops[i]) /\ q = Typing(term.inbox, b, i) /\ rest = SubSeq(ops[i].keys, Len(b) + 1, Len(ops[i].keys))

LEMMA SendShapes ==
  ASSUME AskTypes, TerminalHolds, NEW i \in DOMAIN ops, ops[i].pc = "sending", ops[i].clean, ops[i].keys # <<>>,
         NEW b, NEW q, NEW rest, Sending(i, b, q, rest)
  PROVE  SentShape(i, q, rest)
<1>1. Poised(i) BY DEF TerminalHolds, SendersPoised
<1>2. /\ b \in Seq(AskKeys) /\ Len(b) \in 1..Len(ops[i].keys) /\ b[1] = ops[i].keys[1]
      /\ b = ops[i].keys \/ (Len(b) = 1)
      /\ Len(ops[i].keys) \in Nat
  BY BatchFacts DEF Sending
<1>3. term.inbox \in Seq(Strokes) /\ i \in Nat /\ ops[i].keys \in Seq(AskKeys) BY TermFields, OpTyped
<1>4. /\ Len(q) = Len(term.inbox) + Len(b) /\ DOMAIN q = 1..(Len(term.inbox) + Len(b))
      /\ \A m \in 1..Len(term.inbox) : q[m] = term.inbox[m]
      /\ \A m \in 1..Len(b) : q[Len(term.inbox) + m] = [key |-> b[m], op |-> i]
  <2>1. PICK s \in Seq(Strokes) : s = term.inbox BY <1>3
  <2>2. q = Typing(s, b, i) BY <2>1 DEF Sending
  <2>3. b \in Seq(AskKeys) /\ i \in Nat BY <1>2, <1>3
  <2>4. Len(Typing(s, b, i)) = Len(s) + Len(b) BY <2>3, StrokesAppended
  <2>5. DOMAIN Typing(s, b, i) = 1..(Len(s) + Len(b)) BY <2>3, StrokesAppended
  <2>6. \A m \in 1..Len(s) : Typing(s, b, i)[m] = s[m] BY <2>3, StrokesBefore
  <2>7. \A m \in 1..Len(b) : Typing(s, b, i)[Len(s) + m] = [key |-> b[m], op |-> i] BY <2>3, StrokesAfter
  <2> QED BY <2>1, <2>2, <2>4, <2>5, <2>6, <2>7
<1>5. Len(term.inbox) \in Nat /\ DOMAIN term.inbox = 1..Len(term.inbox) BY <1>3
<1>6. \A m \in DOMAIN q : q[m].op = i
  <2> SUFFICES ASSUME NEW m \in DOMAIN q PROVE q[m].op = i OBVIOUS
  <2>1. CASE m \in 1..Len(term.inbox) BY <1>1, <1>4, <1>5, <2>1 DEF Poised
  <2>2. CASE m \notin 1..Len(term.inbox)
    <3>1. PICK n \in 1..Len(b) : m = Len(term.inbox) + n
      <4>1. m - Len(term.inbox) \in 1..Len(b) BY <1>2, <1>4, <1>5, <2>2
      <4> QED BY <1>4, <1>5, <4>1
    <3>2. q[m] = [key |-> b[n], op |-> i] BY <1>4, <3>1
    <3> QED BY <3>2
  <2> QED BY <2>1, <2>2
<1>7. CASE ops[i].keys = <<"Enter">> /\ term.inbox = <<>> /\ term.cursor = ops[i].opt
  <2>1. Len(b) = 1 /\ Len(term.inbox) = 0 /\ b[1] = "Enter" BY <1>2, <1>7
  <2>2. rest = <<>> BY <1>7, <2>1 DEF Sending
  <2>3. Len(q) = 1 /\ q[1].key = "Enter" BY <1>4, <2>1
  <2> QED BY <1>6, <1>7, <2>2, <2>3 DEF SentShape
<1>8. CASE ops[i].keys = <<"Enter">> /\ Len(term.inbox) = 1 /\ term.inbox[1].key \in {"Down", "Up"}
  <2>1. Len(b) = 1 /\ b[1] = "Enter" BY <1>2, <1>8
  <2>2. rest = <<>> BY <1>8, <2>1 DEF Sending
  <2>3. Len(q) = 2 /\ q[1] = term.inbox[1] /\ q[2].key = "Enter" BY <1>4, <1>8, <2>1
  <2>4. CleanHead /\ term.inbox[1].op = i BY <1>1, <1>5, <1>8 DEF CleanHead, Poised
  <2>5. (term.inbox[1].key = "Down" => ops[i].opt = 2) /\ (term.inbox[1].key = "Up" => ops[i].opt = 1)
    BY <2>4 DEF TerminalHolds, HeadAims
  <2> QED BY <1>6, <1>8, <2>2, <2>3, <2>5 DEF SentShape
<1>9. ASSUME NEW k \in {"Down", "Up"}, term.inbox = <<>>, ops[i].keys = <<k, "Enter">>,
             ops[i].opt = IF k = "Down" THEN 2 ELSE 1
      PROVE  SentShape(i, q, rest)
  <2>1. Len(term.inbox) = 0 /\ b[1] = k /\ Len(ops[i].keys) = 2 /\ ops[i].keys[2] = "Enter" BY <1>2, <1>9
  <2>2. CASE b = ops[i].keys
    <3>1. Len(b) = 2 /\ b[2] = "Enter" /\ rest = <<>> BY <1>9, <2>1, <2>2 DEF Sending
    <3>2. Len(q) = 2 /\ q[1].key = k /\ q[2].key = "Enter" BY <1>4, <2>1, <3>1
    <3> QED BY <1>6, <1>9, <3>1, <3>2 DEF SentShape
  <2>3. CASE Len(b) = 1
    <3>1. rest = <<"Enter">>
      <4>1. rest = SubSeq(ops[i].keys, 2, 2) BY <1>9, <2>1, <2>3 DEF Sending
      <4>2. rest \in Seq(AskKeys) /\ Len(rest) = 1 /\ rest[1] = ops[i].keys[2] BY <1>3, <2>1, <4>1
      <4> QED BY <2>1, <4>2
    <3>2. Len(q) = 1 /\ q[1].key = k BY <1>4, <2>1, <2>3
    <3> QED BY <1>6, <1>9, <3>1, <3>2 DEF SentShape
  <2> QED BY <1>2, <2>2, <2>3
<1>10. CASE /\ term.inbox = <<>> /\ ops[i].keys \in {<<"Next">>, <<"Previous">>, <<"Chat">>}
            /\ ops[i].kind \in {"next", "previous", "clarify"}
  <2>1. PICK k \in {"Next", "Previous", "Chat"} : ops[i].keys = <<k>> BY <1>10
  <2>2. Len(b) = 1 /\ Len(term.inbox) = 0 /\ b[1] = k BY <1>2, <1>10, <2>1
  <2>3. rest = <<>> BY <2>1, <2>2 DEF Sending
  <2>4. Len(q) = 1 /\ q[1].key = k BY <1>4, <2>2
  <2> QED BY <1>6, <1>10, <2>1, <2>3, <2>4 DEF SentShape
<1> QED BY <1>1, <1>7, <1>8, <1>9, <1>10 DEF Poised

(* The requests after keys went out: no other sends, and the sender goes on  *)
(* with the rest or is told something.                                       *)
SenderMoves(i, rest) ==
  /\ DOMAIN ops' = DOMAIN ops
  /\ \A j \in DOMAIN ops : SameIdent(j) /\ ops'[j].clean = ops[j].clean
  /\ \A j \in DOMAIN ops : j # i /\ ops'[j].pc \in {"sending", "watching"} => ops'[j].pc = ops[j].pc
  /\ ops'[i].pc = "told" \/ (ops'[i].pc = "sending" /\ ops'[i].keys = rest)

LEMMA SendsTerm ==
  ASSUME AskTypes, NEW i \in DOMAIN ops, ops[i].keys # <<>>, term.token # QS!Absent,
         NEW b, NEW q, NEW rest, Sending(i, b, q, rest), QS!Sends(i, b)
  PROVE  /\ term' \in AskTerms /\ term'.inbox = q /\ term'.flow = term.flow /\ term'.alike = term.alike
         /\ term'.token = term.token /\ term'.at = term.at /\ term'.cursor = term.cursor /\ term'.busy = term.busy
         /\ term'.landed = term.landed /\ term'.astray = term.astray
<1>1. q \in Seq(Strokes)
  <2>1. b \in Seq(AskKeys) BY BatchFacts DEF Sending
  <2>2. term.inbox \in Seq(Strokes) /\ i \in Nat BY OpTyped, TermFields
  <2> QED BY <2>1, <2>2, StrokesAppended DEF Sending
<1>2. term' = [term EXCEPT !.inbox = q] BY DEF QS!Sends, Sending, Typing, StrokesOf
<1>3. term \in AskTerms BY TermFields
<1> QED BY <1>1, <1>2, <1>3 DEF AskTerms

LEMMA SendsTerminal ==
  ASSUME AskTypes, TerminalHolds, LockFits, NEW i \in DOMAIN ops, ops[i].pc = "sending", ops[i].keys # <<>>,
         term.token # QS!Absent, NEW b, NEW q, NEW rest, Sending(i, b, q, rest), QS!Sends(i, b), SenderMoves(i, rest),
         known' = known, askOdds'.lagged = askOdds.lagged
  PROVE  /\ TerminalHolds' /\ \A j \in DOMAIN ops : j # i /\ EnterComes(j)' => EnterComes(j)
<1>1. /\ term'.inbox = q /\ term'.flow = term.flow /\ term'.alike = term.alike
      /\ term'.token = term.token /\ term'.at = term.at /\ term'.cursor = term.cursor /\ term'.busy = term.busy
      /\ term'.landed = term.landed /\ term'.astray = term.astray
  BY SendsTerm
<1>2. /\ DOMAIN ops' = DOMAIN ops
      /\ \A j \in DOMAIN ops : SameIdent(j) /\ ops'[j].clean = ops[j].clean
      /\ \A j \in DOMAIN ops : j # i /\ ops'[j].pc \in {"sending", "watching"} => ops'[j].pc = ops[j].pc
      /\ ops'[i].pc = "told" \/ (ops'[i].pc = "sending" /\ ops'[i].keys = rest)
  BY DEF SenderMoves
<1>3. \A j \in DOMAIN ops : ops'[j].pc = "sending" => j = i BY <1>2 DEF LockFits
<1>4. term.inbox \in Seq(Strokes) /\ i \in Nat /\ b \in Seq(AskKeys) /\ Len(b) \in Nat \ {0}
  <2>1. b \in Seq(AskKeys) /\ Len(b) \in 1..Len(ops[i].keys) /\ Len(ops[i].keys) \in Nat BY BatchFacts DEF Sending
  <2> QED BY <2>1, TermFields, OpTyped
<1> DEFINE n == Len(term.inbox)
<1>5. n \in Nat /\ DOMAIN term.inbox = 1..n BY <1>4
<1>6. /\ DOMAIN q = 1..(n + Len(b))
      /\ \A m \in 1..n : q[m] = term.inbox[m]
      /\ \A m \in 1..Len(b) : q[n + m] = [key |-> b[m], op |-> i]
  <2>1. q = Typing(term.inbox, b, i) BY DEF Sending
  <2>2. DOMAIN q = 1..(n + Len(b)) BY <1>4, <2>1, StrokesAppended
  <2>3. PICK s \in Seq(Strokes) : s = term.inbox BY <1>4
  <2>4. b \in Seq(AskKeys) /\ i \in Nat BY <1>4
  <2>5. \A m \in 1..Len(s) : Typing(s, b, i)[m] = s[m] BY <2>4, StrokesBefore
  <2>6. \A m \in 1..Len(b) : Typing(s, b, i)[Len(s) + m] = [key |-> b[m], op |-> i] BY <2>4, StrokesAfter
  <2> QED BY <2>1, <2>2, <2>3, <2>5, <2>6
<1> HIDE DEF n
<1>7. \A m \in DOMAIN q : m \in 1..n \/ (m \notin 1..n /\ q[m].op = i)
  <2> SUFFICES ASSUME NEW m \in DOMAIN q, m \notin 1..n PROVE q[m].op = i OBVIOUS
  <2>1. m - n \in 1..Len(b) /\ n + (m - n) = m BY <1>4, <1>5, <1>6
  <2>2. q[m] = [key |-> b[m - n], op |-> i] BY <1>6, <2>1
  <2> QED BY <2>2
<1>8. \A m \in DOMAIN term.inbox : term.inbox[m].op \in DOMAIN ops BY DEF TerminalHolds, KeysFit
<1>9. ops[i].clean => SentShape(i, q, rest) BY SendShapes
<1>10. KeysFit'
  <2>1. \A m \in DOMAIN q : q[m].op \in DOMAIN ops BY <1>5, <1>6, <1>7, <1>8
  <2>2. ASSUME NEW m \in DOMAIN q, ops[q[m].op].clean
        PROVE  /\ \A l \in 1..m : q[l].op = q[m].op
               /\ m # 1 => m = 2 /\ q[1].key \in {"Down", "Up"} /\ q[2].key = "Enter"
    <3>1. CASE q[m].op = i
      <4>1. SentShape(i, q, rest) BY <1>9, <2>2, <3>1
      <4>2. \A l \in 1..m : l \in DOMAIN q BY <1>4, <1>5, <1>6
      <4>3. m \in 1..Len(q)
        <5>1. q \in Seq(Strokes)
          <6>1. q = Typing(term.inbox, b, i) BY DEF Sending
          <6> QED BY <1>4, <6>1, StrokesAppended
        <5> QED BY <5>1
      <4> QED BY <3>1, <4>1, <4>2, <4>3 DEF SentShape
    <3>2. CASE q[m].op # i
      <4>1. m \in 1..n BY <1>7, <3>2
      <4>2. q[m] = term.inbox[m] /\ ops[term.inbox[m].op].clean /\ m \in DOMAIN term.inbox BY <1>5, <1>6, <2>2, <4>1
      <4>3. /\ \A l \in 1..m : term.inbox[l].op = term.inbox[m].op
            /\ m # 1 => m = 2 /\ term.inbox[1].key \in {"Down", "Up"} /\ term.inbox[2].key = "Enter"
        BY <4>2 DEF TerminalHolds, KeysFit
      <4>4. \A l \in 1..m : q[l] = term.inbox[l] BY <1>5, <1>6, <4>1
      <4>5. m # 1 => q[1] = term.inbox[1] /\ q[2] = term.inbox[2] BY <1>5, <4>1, <4>3, <4>4
      <4> QED BY <4>2, <4>3, <4>4, <4>5
    <3> QED BY <3>1, <3>2
  <2>3. \A m \in DOMAIN q : ops'[q[m].op].clean = ops[q[m].op].clean BY <1>2, <2>1
  <2> QED BY <1>1, <1>2, <2>1, <2>2, <2>3 DEF KeysFit
<1>11. \A j \in DOMAIN ops : Aim(j) => Aim(j)' BY <1>1, <1>2 DEF Aim, SameIdent, QS!Ident, QS!Over
<1>12. ops[i].clean => Aim(i) BY DEF TerminalHolds, SendersPoised, Poised
<1>13. CleanHead' => \/ term.inbox # <<>> /\ CleanHead /\ q[1] = term.inbox[1] /\ term.inbox[1].op \in DOMAIN ops
                     \/ q[1].op = i /\ ops[i].clean
  <2> SUFFICES ASSUME CleanHead'
               PROVE  \/ term.inbox # <<>> /\ CleanHead /\ q[1] = term.inbox[1] /\ term.inbox[1].op \in DOMAIN ops
                      \/ q[1].op = i /\ ops[i].clean
    OBVIOUS
  <2>1. ops'[q[1].op].clean BY <1>1 DEF CleanHead
  <2>2. CASE term.inbox = <<>>
    <3>1. 1 \in DOMAIN q /\ 1 \notin 1..n BY <1>4, <1>5, <1>6, <2>2
    <3>2. q[1].op = i BY <1>7, <3>1
    <3> QED BY <1>2, <2>1, <3>2
  <2>3. CASE term.inbox # <<>>
    <3>1. 1 \in 1..n /\ term.inbox[1].op \in DOMAIN ops BY <1>5, <2>3, HeadThere DEF TerminalHolds
    <3>2. q[1] = term.inbox[1] BY <1>6, <3>1
    <3> QED BY <1>2, <2>1, <2>3, <3>1, <3>2 DEF CleanHead
  <2> QED BY <2>2, <2>3
<1>14. HeadAims'
  <2> SUFFICES ASSUME CleanHead'
               PROVE  /\ Aim(q[1].op)' /\ (q[1].key = "Enter" => term.cursor = ops'[q[1].op].opt)
                      /\ (q[1].key = "Down" => ops'[q[1].op].opt = 2) /\ (q[1].key = "Up" => ops'[q[1].op].opt = 1)
    <3>1. PICK k : k = q[1].op OBVIOUS
    <3> QED BY <1>1 DEF HeadAims
  <2>1. CASE term.inbox # <<>> /\ CleanHead /\ q[1] = term.inbox[1] /\ term.inbox[1].op \in DOMAIN ops
    BY <1>2, <1>11, <2>1 DEF TerminalHolds, HeadAims, SameIdent
  <2>2. CASE q[1].op = i /\ ops[i].clean
    BY <1>2, <1>9, <1>11, <1>12, <2>2 DEF SentShape, SameIdent
  <2> QED BY <1>13, <2>1, <2>2
<1>15. SendersPoised'
  <2> SUFFICES ASSUME NEW j \in DOMAIN ops, ops'[j].pc = "sending", ops'[j].clean PROVE Poised(j)'
    BY <1>2 DEF SendersPoised
  <2>1. j = i /\ ops[i].clean /\ ops'[i].keys = rest BY <1>2, <1>3
  <2>2. SentShape(i, q, rest) /\ Aim(i)' BY <1>9, <1>11, <1>12, <2>1
  <2>3. rest # <<>> => Len(q) = 1 /\ q[1].key \in {"Down", "Up"} /\ rest = <<"Enter">> BY <2>2 DEF SentShape
  <2> QED BY <1>1, <2>1, <2>2, <2>3 DEF Poised, SentShape
<1>16. \A j \in DOMAIN ops : EnterComes(j) => EnterComes(j)'
  <2>1. \A m \in DOMAIN term.inbox : m \in DOMAIN q /\ q[m] = term.inbox[m] BY <1>4, <1>5, <1>6
  <2> QED BY <1>1, <2>1 DEF EnterComes
<1>17. EntersLand'
  <2> SUFFICES ASSUME NEW j \in DOMAIN ops, Typed(j)', ops'[j].clean, ops'[j].kind \in Choosing
               PROVE  j \in term'.landed \/ EnterComes(j)'
    BY <1>2 DEF EntersLand
  <2>1. ops[j].clean /\ ops[j].kind \in Choosing BY <1>2 DEF SameIdent
  <2>2. CASE j # i
    <3>1. Typed(j) BY <1>2, <1>3, <2>2 DEF Typed
    <3> QED BY <1>1, <1>16, <2>1, <3>1 DEF TerminalHolds, EntersLand
  <2>3. CASE j = i
    <3>1. rest = <<>> BY <1>2, <2>3 DEF Typed
    <3>2. SentShape(i, q, rest) BY <1>9, <2>1, <2>3
    <3>3. q \in Seq(Strokes)
      <4>1. q = Typing(term.inbox, b, i) BY DEF Sending
      <4> QED BY <1>4, <4>1, StrokesAppended
    <3>4. \E m \in DOMAIN q : q[m].op = i /\ q[m].key = "Enter"
      <4>1. CASE Len(q) = 2 BY <3>2, <3>3, <4>1 DEF SentShape
      <4>2. CASE Len(q) = 1 BY <2>1, <2>3, <3>1, <3>2, <3>3, <4>2 DEF SentShape, Choosing
      <4> QED BY <3>2, <4>1, <4>2 DEF SentShape
    <3> QED BY <1>1, <2>3, <3>4 DEF EnterComes
  <2> QED BY <2>2, <2>3
<1>18. SendersSee'
  <2> SUFFICES ASSUME CleanHead', NEW j \in DOMAIN ops, ops'[j].pc = "sending"
               PROVE  QS!Ident(ops[j].target) = QS!Ident(term.at)
    BY <1>1, <1>2 DEF SendersSee, SameIdent, QS!Ident, QS!Over
  <2>1. j = i BY <1>3
  <2>2. CASE CleanHead BY <2>1, <2>2 DEF TerminalHolds, SendersSee
  <2>3. CASE ops[i].clean BY <1>12, <2>1, <2>3 DEF Aim
  <2> QED BY <1>13, <2>2, <2>3
<1>19. CleanStays' /\ ~term'.astray BY <1>1, <1>2 DEF TerminalHolds, CleanStays
<1>20. TerminalHolds' BY <1>10, <1>14, <1>15, <1>17, <1>18, <1>19 DEF TerminalHolds
<1>21. \A j \in DOMAIN ops : j # i /\ EnterComes(j)' => EnterComes(j)
  <2> SUFFICES ASSUME NEW j \in DOMAIN ops, j # i, EnterComes(j)' PROVE EnterComes(j) OBVIOUS
  <2>1. PICK m \in DOMAIN q : q[m].op = j /\ q[m].key = "Enter" BY <1>1 DEF EnterComes
  <2>2. m \in DOMAIN term.inbox /\ q[m] = term.inbox[m] BY <1>5, <1>6, <1>7, <2>1
  <2> QED BY <2>1, <2>2 DEF EnterComes
<1> QED BY <1>20, <1>21

SentAs(r, n, keys) == [r EXCEPT !.sent = n, !.keys = keys]

LEMMA SentOp ==
  ASSUME NEW r \in AskOps, NEW n \in Nat, NEW ks \in Seq(AskKeys)
  PROVE  /\ SentAs(r, n, ks) \in AskOps /\ SentAs(r, n, ks).sent = n /\ SentAs(r, n, ks).keys = ks
         /\ SentAs(r, n, ks).pc = r.pc /\ SentAs(r, n, ks).clean = r.clean /\ SentAs(r, n, ks).rid = r.rid
         /\ SentAs(r, n, ks).kind = r.kind /\ SentAs(r, n, ks).target = r.target /\ SentAs(r, n, ks).opt = r.opt
         /\ SentAs(r, n, ks).token = r.token /\ SentAs(r, n, ks).status = r.status
         /\ SentAs(r, n, ks).told = r.told /\ SentAs(r, n, ks).via = r.via
BY DEF AskOps, SentAs

LEMMA SendStepKeeps ==
  ASSUME AnswersInv, NEW i \in DOMAIN ops, QS!SendStep(i)
  PROVE  AnswersInv'
<1>1. AskTypes /\ LedgerHolds /\ LockFits /\ TokensFit /\ TerminalHolds /\ VerifiedStands /\ SuccessTrue BY DEF AnswersInv
<1>2. ops[i].pc = "sending" /\ ops[i].keys # <<>> /\ UNCHANGED <<known, askOdds>> BY DEF QS!SendStep
<1>3. ops[i].sent \in Nat BY <1>1, OpTyped
<1>4. ASSUME NEW p \in {"failed", "not_started"}, QS!Fails(i, IF ops[i].sent > 0 THEN "dispatched_unknown" ELSE p), term' = term
      PROVE  AnswersInv'
  <2>1. PICK phase \in {"failed", "not_started", "dispatched_unknown"} : phase = IF ops[i].sent > 0 THEN "dispatched_unknown" ELSE p
    OBVIOUS
  <2>2. QS!Fails(i, phase) BY <1>4, <2>1
  <2>3. phase \in Failing => ops[i].sent = 0 BY <1>3, <2>1 DEF Failing
  <2>4. known' = known /\ askOdds' = askOdds /\ ops[i].pc \in {"locking", "reading", "sending"} /\ ops[i].pc # "locking" BY <1>2
  <2> QED BY <1>4, <2>2, <2>3, <2>4, FailsKeeps
<1>5. CASE ops[i].kind # "approval" /\ ~QS!token_current(i)
  <2>1. QS!Fails(i, IF ops[i].sent > 0 THEN "dispatched_unknown" ELSE "failed") /\ term' = term BY <1>5 DEF QS!SendStep
  <2> QED BY <1>4, <2>1
<1>6. CASE ~(ops[i].kind # "approval" /\ ~QS!token_current(i)) /\ term.token = QS!Absent
  <2>1. QS!Fails(i, IF ops[i].sent > 0 THEN "dispatched_unknown" ELSE "not_started") /\ term' = term BY <1>6 DEF QS!SendStep
  <2> QED BY <1>4, <2>1
<1>7. CASE ~(ops[i].kind # "approval" /\ ~QS!token_current(i)) /\ term.token # QS!Absent
  <2>1. PICK b, q, rest : Sending(i, b, q, rest) BY DEF Sending
  <2>2. /\ QS!Sends(i, b) /\ UNCHANGED <<entries, pane>>
        /\ ops' = [ops EXCEPT ![i].sent = ops[i].sent + Len(b), ![i].keys = rest]
    <3>1. b = QS!Batch(ops[i]) /\ rest = SubSeq(ops[i].keys, Len(b) + 1, Len(ops[i].keys)) BY <2>1 DEF Sending
    <3>2. i \in DOMAIN ops /\ ops \in Seq(AskOps) /\ ops[i] \in AskOps BY <1>1, OpTyped DEF AskTypes
    <3>3. /\ QS!Sends(i, b) /\ UNCHANGED <<entries, pane>>
          /\ ops' = [ops EXCEPT ![i].sent = @ + Len(b), ![i].keys = SubSeq(@, Len(b) + 1, Len(@))]
      BY <1>7, <3>1 DEF QS!SendStep
    <3> QED BY <3>1, <3>2, <3>3 DEF AskOps
  <2>3. rest \in Seq(AskKeys) /\ Len(b) \in Nat
    <3>1. ops[i].keys \in Seq(AskKeys) /\ Len(ops[i].keys) \in Nat BY <1>1, OpTyped
    <3>2. b = QS!Batch(ops[i]) BY <2>1 DEF Sending
    <3>3. Len(b) \in 1..Len(ops[i].keys) BY <1>1, <1>2, <3>2, BatchFacts
    <3>4. Len(b) + 1 \in Nat \ {0} /\ Len(b) \in Nat BY <3>1, <3>3
    <3>5. rest = SubSeq(ops[i].keys, Len(b) + 1, Len(ops[i].keys)) BY <2>1 DEF Sending
    <3> QED BY <3>1, <3>4, <3>5
  <2>4. PICK n \in Nat : n = ops[i].sent + Len(b) BY <1>3, <2>3
  <2>5. ops \in Seq(AskOps) /\ ops[i] \in AskOps BY <1>1, OpTyped DEF AskTypes
  <2>6. PICK r : r = SentAs(ops[i], n, rest) OBVIOUS
  <2>7. ops' = [ops EXCEPT ![i] = r] BY <2>2, <2>4, <2>5, <2>6 DEF SentAs, AskOps
  <2>8. /\ r \in AskOps /\ r.pc = "sending" /\ r.keys = rest /\ r.clean = ops[i].clean /\ r.told = ops[i].told
        /\ r.rid = ops[i].rid /\ r.kind = ops[i].kind /\ r.target = ops[i].target /\ r.opt = ops[i].opt
        /\ r.token = ops[i].token /\ r.status = ops[i].status /\ r.via = ops[i].via
    <3>1. PICK s \in AskOps : s = ops[i] BY <2>5
    <3> QED BY <1>2, <2>3, <2>6, <3>1, SentOp
  <2>9. /\ ops' \in Seq(AskOps) /\ DOMAIN ops' = DOMAIN ops /\ ops'[i] = r
        /\ \A j \in DOMAIN ops : j # i => ops'[j] = ops[j]
    BY <2>5, <2>7, <2>8
  <2>10. SameIdent(i) BY <2>8, <2>9 DEF SameIdent
  <2>11. \A j \in DOMAIN ops : SameIdent(j) /\ QKey(j)' = QKey(j) BY <2>9, <2>10, IdentKey DEF SameIdent
  <2>12. SenderMoves(i, rest) BY <2>8, <2>9, <2>11 DEF SenderMoves
  <2>13. /\ TerminalHolds' /\ \A j \in DOMAIN ops : j # i /\ EnterComes(j)' => EnterComes(j)
    BY <1>1, <1>2, <1>7, <2>1, <2>2, <2>12, SendsTerminal
  <2>14. term' \in AskTerms /\ term'.alike = term.alike /\ term'.token = term.token /\ term'.landed = term.landed
    BY <1>1, <1>2, <1>7, <2>1, <2>2, SendsTerm
  <2>15. AskTypes' BY <1>1, <1>2, <2>2, <2>9, <2>14 DEF AskTypes, EntryTyped
  <2>16. LedgerHolds'
    <3>1. OpFits(i) BY <1>1 DEF LedgerHolds, OpsFit
    <3>2. OpFits(i)' BY <1>2, <2>8, <2>9, <3>1 DEF OpFits
    <3>3. Acting(i) /\ ops'[i].pc \in {"reading", "sending"} /\ ops'[i].told = ops[i].told BY <1>2, <2>8, <2>9 DEF Acting
    <3>4. entries' = entries /\ known' = known /\ askOdds'.evicted = askOdds.evicted BY <1>2, <2>2
    <3> QED BY <1>1, <1>2, <2>9, <2>10, <3>2, <3>3, <3>4, LedgerAdvances
  <2>17. TokensFit' BY <1>1, <1>2, <2>9, <2>11, <2>14 DEF TokensFit, SameIdent, QS!Absent
  <2>18. LockFits' BY <1>1, <1>2, <2>2, <2>8, <2>9 DEF LockFits
  <2>19. VerifiedStands'
    <3>1. \A j \in DOMAIN ops : ops'[j].pc = "watching" => j # i BY <2>8, <2>9
    <3> QED BY <1>1, <1>2, <2>2, <2>9, <2>11, <2>13, <2>14, <3>1 DEF VerifiedStands
  <2>20. SuccessTrue' BY <1>1, <1>2, <2>8, <2>9, <2>11, <2>14 DEF SuccessTrue
  <2> QED BY <2>13, <2>15, <2>16, <2>17, <2>18, <2>19, <2>20 DEF AnswersInv
<1> QED BY <1>5, <1>6, <1>7

LEMMA SendFailsKeeps ==
  ASSUME AnswersInv, NEW i \in DOMAIN ops, QS!SendFails(i)
  PROVE  AnswersInv'
<1>1. AskTypes /\ LedgerHolds /\ LockFits /\ TokensFit /\ TerminalHolds /\ VerifiedStands /\ SuccessTrue BY DEF AnswersInv
<1>2. ops[i].pc = "sending" /\ ops[i].keys # <<>> /\ term.token # QS!Absent /\ QS!Cost /\ known' = known BY DEF QS!SendFails
<1>3. ops[i].sent \in Nat BY <1>1, OpTyped
<1>4. PICK p \in {"not_started", "dispatched_unknown"}, applied \in BOOLEAN :
        /\ applied => p = "dispatched_unknown"
        /\ IF applied THEN QS!Sends(i, QS!Batch(ops[i])) ELSE UNCHANGED term
        /\ QS!Fails(i, IF ops[i].sent > 0 THEN "dispatched_unknown" ELSE p)
  BY DEF QS!SendFails
<1>5. PICK phase \in {"failed", "not_started", "dispatched_unknown"} : phase = IF ops[i].sent > 0 THEN "dispatched_unknown" ELSE p
  BY <1>4
<1>6. QS!Fails(i, phase) /\ (applied => phase = "dispatched_unknown") BY <1>4, <1>5
<1>7. phase \in Failing => ops[i].sent = 0 BY <1>3, <1>5 DEF Failing
<1>8. ops[i].pc \in {"locking", "reading", "sending"} /\ ops[i].pc # "locking" BY <1>2
<1>9. CASE ~applied
  <2>1. term' = term BY <1>4, <1>9
  <2> QED BY <1>2, <1>6, <1>7, <1>8, <2>1, FailsKeeps
<1>10. CASE applied
  <2>1. PICK b, q, rest : Sending(i, b, q, rest) BY DEF Sending
  <2>2. QS!Sends(i, b) BY <1>4, <1>10, <2>1 DEF Sending
  <2>3. QS!finish(i, phase) /\ pane' = [pane EXCEPT !.lock = QS!NoOp] BY <1>6 DEF QS!Fails
  <2>4. phase \in AskPhases /\ phase # QS!Nothing /\ ops[i].pc \in Flying BY <1>2 DEF AskPhases, QS!Nothing, Flying
  <2>5. /\ askOdds' \in [n : Nat, evicted : SUBSET LedgerKeys, lagged : SUBSET Nat]
        /\ askOdds'.evicted = askOdds.evicted /\ askOdds'.lagged = askOdds.lagged
    BY <1>1, <1>2, CostFacts
  <2>6. /\ LedgerHolds' /\ \A e \in entries' : EntryTyped(e)
        /\ \E W : Moves(i, W, phase)
        /\ ops'[i].pc = "told" /\ ops'[i].told = phase /\ ops'[i].clean = ops[i].clean
    BY <1>1, <1>2, <1>7, <2>3, <2>4, <2>5, FinishLedger
  <2>7. PICK W : Moves(i, W, phase) BY <2>6
  <2>8. /\ ops' \in Seq(AskOps) /\ DOMAIN ops' = DOMAIN ops /\ \A j \in DOMAIN ops : SameIdent(j)
        /\ \A j \in DOMAIN ops : j # i /\ j \notin W => ops'[j] = ops[j]
        /\ \A j \in W : /\ j \in DOMAIN ops /\ ops[j].pc = "attached" /\ ops'[j].pc = "told"
                        /\ ops'[j].told = phase /\ ops'[j].via = ops[j].via /\ ops'[j].clean = ops[j].clean
    BY <2>7 DEF Moves
  <2>9. \A j \in DOMAIN ops : /\ ops'[j].clean = ops[j].clean /\ QKey(j)' = QKey(j)
                              /\ j # i /\ ops'[j].pc \in {"sending", "watching"} => ops'[j].pc = ops[j].pc
    <3> SUFFICES ASSUME NEW j \in DOMAIN ops
                 PROVE  /\ ops'[j].clean = ops[j].clean /\ QKey(j)' = QKey(j)
                        /\ j # i /\ ops'[j].pc \in {"sending", "watching"} => ops'[j].pc = ops[j].pc
      OBVIOUS
    <3>1. QKey(j)' = QKey(j) BY <2>8, IdentKey
    <3>2. CASE j = i BY <2>6, <3>1, <3>2
    <3>3. CASE j \in W BY <2>8, <3>1, <3>3
    <3>4. CASE j # i /\ j \notin W BY <2>8, <3>1, <3>4
    <3> QED BY <3>2, <3>3, <3>4
  <2>10. SenderMoves(i, rest) BY <2>6, <2>8, <2>9 DEF SenderMoves
  <2>11. /\ TerminalHolds' /\ \A j \in DOMAIN ops : j # i /\ EnterComes(j)' => EnterComes(j)
    BY <1>1, <1>2, <2>1, <2>2, <2>5, <2>10, SendsTerminal
  <2>12. term' \in AskTerms /\ term'.alike = term.alike /\ term'.token = term.token /\ term'.landed = term.landed
    BY <1>1, <1>2, <2>1, <2>2, SendsTerm
  <2>13. /\ pane' \in [lock : Nat, pending : [event : Nat, look : Nat, token : Nat]] /\ pane'.lock = QS!NoOp
         /\ pane'.pending = pane.pending
    BY <1>1, <2>3 DEF AskTypes, QS!NoOp
  <2>14. AskTypes' BY <1>1, <1>2, <2>5, <2>6, <2>8, <2>12, <2>13 DEF AskTypes, EntryTyped
  <2>15. TokensFit' BY <1>1, <1>2, <2>8, <2>12 DEF TokensFit, SameIdent, QS!Absent
  <2>16. LockFits' BY <1>1, <1>8, <2>6, <2>7, <2>13, LockFreed
  <2>17. VerifiedStands'
    <3>1. \A j \in DOMAIN ops : ops'[j].pc = "watching" => j # i BY <2>6
    <3> QED BY <1>1, <2>5, <2>8, <2>9, <2>11, <2>12, <2>13, <3>1 DEF VerifiedStands, SameIdent
  <2>18. SuccessTrue'
    <3>1. \A j \in DOMAIN ops : ops'[j].told \in {"confirmed", "advanced"} => j # i /\ j \notin W
      BY <1>6, <1>10, <2>6, <2>8
    <3> QED BY <1>1, <2>5, <2>8, <2>9, <2>12, <3>1 DEF SuccessTrue
  <2> QED BY <2>6, <2>11, <2>14, <2>15, <2>16, <2>17, <2>18 DEF AnswersInv
<1> QED BY <1>9, <1>10

-----------------------------------------------------------------------------
(* Responses: the keys are out *)

(* The keys of a clean request that its Enter ends are in front, and its     *)
(* prompt is still there.                                                    *)
LEMMA EnterAims ==
  ASSUME AskTypes, TerminalHolds, NEW i \in DOMAIN ops, ops[i].clean, EnterComes(i)
  PROVE  CleanHead /\ term.inbox[1].op = i /\ Aim(i)
<1>1. PICK m \in DOMAIN term.inbox : term.inbox[m].op = i BY DEF EnterComes
<1>2. term.inbox \in Seq(Strokes) BY DEF AskTypes, AskTerms
<1>3. m \in Nat /\ 1 \in 1..m /\ term.inbox # <<>> BY <1>1, <1>2
<1>4. term.inbox[1].op = i BY <1>1, <1>3 DEF TerminalHolds, KeysFit
<1>5. CleanHead BY <1>3, <1>4 DEF CleanHead
<1> QED BY <1>4, <1>5 DEF TerminalHolds, HeadAims

(* Two requests under way with the same key are one. *)
LEMMA FlightsApart ==
  ASSUME AskTypes, LedgerHolds, NEW i \in DOMAIN ops, NEW j \in DOMAIN ops, ops[i].pc \in Flying, ops[j].pc \in Flying,
         QKey(i) = QKey(j), QKey(i) \notin askOdds.evicted
  PROVE  i = j
<1>1. QS!Slot(i).owner = i /\ QS!Slot(j).owner = j BY SlotIs
<1>2. QS!Slot(i) = QS!Slot(j) BY DEF QS!Slot, QKey
<1> QED BY <1>1, <1>2

LEMMA ApprovalKey ==
  ASSUME NEW i, NEW j, ops[i].kind = "approval", ops[j].kind = "approval", ops[i].target = ops[j].target
  PROVE  QKey(i) = QKey(j)
BY DEF QKey, QS!question_ledger_key

LEMMA IdentPlain ==
  ASSUME ~term.alike, NEW p
  PROVE  QS!Ident(p) = p
BY DEF QS!Ident

(* A request goes on to watch, and nobody else starts to send. *)
Watches(i) ==
  /\ DOMAIN ops' = DOMAIN ops /\ ops[i].pc = "sending" /\ ops[i].keys = <<>> /\ ops'[i].pc = "watching"
  /\ \A j \in DOMAIN ops :
       /\ SameIdent(j) /\ ops'[j].clean = ops[j].clean /\ ops'[j].keys = ops[j].keys
       /\ ops'[j].pc \in {"sending", "watching"} => ops'[j].pc = ops[j].pc \/ j = i

LEMMA TerminalWatches ==
  ASSUME AskTypes, TerminalHolds, NEW i \in DOMAIN ops, Watches(i), term' = term, known' = known, askOdds' = askOdds
  PROVE  TerminalHolds'
<1>0. \A m \in DOMAIN term.inbox : term.inbox[m].op \in DOMAIN ops BY DEF TerminalHolds, KeysFit
<1>1. KeysFit' BY <1>0 DEF TerminalHolds, KeysFit, Watches
<1>2. CleanHead' => CleanHead /\ term.inbox[1].op \in DOMAIN ops
  BY HeadThere DEF TerminalHolds, CleanHead, Watches
<1>3. \A j \in DOMAIN ops : Aim(j) => Aim(j)' BY DEF Aim, Watches, SameIdent, QS!Ident, QS!Over
<1>4. HeadAims' BY <1>2, <1>3 DEF TerminalHolds, HeadAims, Watches, SameIdent
<1>5. SendersPoised'
  <2> SUFFICES ASSUME NEW j \in DOMAIN ops, ops[j].pc = "sending", ops[j].clean PROVE Poised(j)'
    BY DEF SendersPoised, Watches
  <2>1. Poised(j) BY DEF TerminalHolds, SendersPoised
  <2> QED BY <1>3, <2>1 DEF Poised, Watches, SameIdent
<1>6. EntersLand'
  <2>1. \A j \in DOMAIN ops : Typed(j)' => Typed(j) BY DEF Typed, Watches
  <2>2. \A j \in DOMAIN ops : EnterComes(j) => EnterComes(j)' BY DEF EnterComes
  <2> QED BY <2>1, <2>2 DEF TerminalHolds, EntersLand, Watches, SameIdent
<1>7. SendersSee'
  <2>1. \A j \in DOMAIN ops : ops'[j].pc = "sending" => ops[j].pc = "sending" BY DEF Watches
  <2> QED BY <1>2, <2>1 DEF TerminalHolds, SendersSee, Watches, SameIdent, QS!Ident, QS!Over
<1>8. CleanStays' /\ ~term'.astray BY DEF TerminalHolds, CleanStays, Watches
<1> QED BY <1>1, <1>4, <1>5, <1>6, <1>7, <1>8 DEF TerminalHolds

Verified(i) ==
  IF ops[i].kind = "approval"
    THEN [event |-> ops[i].target, look |-> QS!Ident(ops[i].target), token |-> ops[i].token]
    ELSE pane.pending

LEMMA AcceptsKeeps ==
  ASSUME AnswersInv, NEW i \in DOMAIN ops, QS!Accepts(i)
  PROVE  AnswersInv'
<1>1. AskTypes /\ LedgerHolds /\ LockFits /\ TokensFit /\ TerminalHolds /\ VerifiedStands /\ SuccessTrue BY DEF AnswersInv
<1>2. ops[i].pc = "sending" /\ ops[i].keys = <<>> /\ term' = term /\ known' = known /\ askOdds' = askOdds BY DEF QS!Accepts
<1>3. /\ QS!mark_accepted(i, [ops EXCEPT ![i].pc = "watching"])
      /\ pane' = [lock |-> QS!NoOp, pending |-> Verified(i)]
  BY DEF QS!Accepts, Verified
<1>4. ops \in Seq(AskOps) /\ ops[i] \in AskOps /\ ops[i].pc \in Flying BY <1>1, <1>2, OpTyped DEF AskTypes, Flying
<1>5. PICK r : r = PcAs(ops[i], "watching") OBVIOUS
<1>6. /\ r \in AskOps /\ r.pc = "watching" /\ r.told = ops[i].told
      /\ r.rid = ops[i].rid /\ r.kind = ops[i].kind /\ r.target = ops[i].target /\ r.opt = ops[i].opt
      /\ r.token = ops[i].token /\ r.status = ops[i].status /\ r.keys = ops[i].keys /\ r.sent = ops[i].sent
      /\ r.clean = ops[i].clean /\ r.via = ops[i].via
  <2>1. PICK s \in AskOps : s = ops[i] BY <1>4
  <2>2. "watching" \in AskStages BY DEF AskStages
  <2> QED BY <1>5, <2>1, <2>2, PcOp
<1>7. PICK phase \in AskPhases : phase = "accepted" BY DEF AskPhases
<1>8. SettledAs(i, r, phase) BY <1>2, <1>6, <1>7 DEF SettledAs
<1>9. [ops EXCEPT ![i].pc = "watching"] = [ops EXCEPT ![i] = r] BY <1>4, <1>5 DEF PcAs
<1>10. PICK slot : slot = [QS!Slot(i) EXCEPT !.result = phase] OBVIOUS
<1>11. QS!Settles(i, slot, [ops EXCEPT ![i] = r]) BY <1>3, <1>7, <1>9, <1>10 DEF QS!mark_accepted
<1>12. QS!Mine(i) => SlotAs(i, slot, r, phase)
  <2> SUFFICES ASSUME QS!Mine(i) PROVE SlotAs(i, slot, r, phase) OBVIOUS
  <2>1. QS!Slot(i) \in entries BY <1>1, <1>4, SlotIs
  <2>2. PICK s : s = QS!Slot(i) OBVIOUS
  <2>3. s \in LedgerEntries({s.created_at}) BY <1>1, <2>1, <2>2, EntryFields
  <2>4. slot = [s EXCEPT !.result = phase] BY <1>10, <2>2
  <2>5. /\ slot.key = s.key /\ slot.hash = s.hash /\ slot.token = s.token /\ slot.owner = s.owner /\ slot.result = phase
        /\ slot.done = s.done /\ slot \in LedgerEntries({s.created_at}) /\ slot.created_at = s.created_at
    BY <2>3, <2>4 DEF LedgerEntries
  <2>6. EntryTyped(slot) BY <2>5 DEF EntryTyped
  <2> QED BY <1>6, <2>2, <2>5, <2>6 DEF SlotAs
<1>13. QS!Mine(i) => slot.result = phase BY <1>12 DEF SlotAs
<1>14. /\ ~QS!Mine(i) => Moves(i, {}, phase) /\ entries' = entries
       /\ QS!Mine(i) => Moves(i, QS!Slot(i).waiters, phase) /\ entries' = (entries \ {QS!Slot(i)}) \cup {[slot EXCEPT !.waiters = {}]}
       /\ ops'[i] = r
  BY <1>1, <1>4, <1>8, <1>11, <1>13, SettleMoves
<1>15. PICK W : W = IF QS!Mine(i) THEN QS!Slot(i).waiters ELSE {} OBVIOUS
<1>16. Moves(i, W, phase) BY <1>14, <1>15
<1>17. \/ ~QS!Mine(i) /\ W = {} /\ Moves(i, W, phase) /\ entries' = entries
       \/ /\ QS!Mine(i) /\ W = QS!Slot(i).waiters /\ Moves(i, W, phase)
          /\ entries' = (entries \ {QS!Slot(i)}) \cup {[slot EXCEPT !.waiters = {}]}
  BY <1>14, <1>15, <1>16
<1>18. LedgerHolds' /\ \A e \in entries' : EntryTyped(e)
  <2>1. phase # QS!Nothing /\ phase \notin Failing BY <1>7 DEF QS!Nothing, Failing
  <2>2. ops'[i] = r /\ askOdds'.evicted = askOdds.evicted BY <1>2, <1>14
  <2> QED BY <1>1, <1>2, <1>4, <1>8, <1>12, <1>17, <2>1, <2>2, SettleLedger
<1>19. /\ ops' \in Seq(AskOps) /\ DOMAIN ops' = DOMAIN ops
       /\ \A j \in DOMAIN ops : SameIdent(j) /\ ops'[j].keys = ops[j].keys
       /\ \A j \in DOMAIN ops : j # i /\ j \notin W => ops'[j] = ops[j]
       /\ \A j \in W : /\ j \in DOMAIN ops /\ j # i /\ ops[j].pc = "attached" /\ ops'[j].pc = "told"
                       /\ ops'[j].told = phase /\ ops'[j].clean = ops[j].clean
  BY <1>16 DEF Moves
<1>20. Watches(i)
  <2> SUFFICES ASSUME NEW j \in DOMAIN ops
               PROVE  /\ ops'[j].clean = ops[j].clean
                      /\ ops'[j].pc \in {"sending", "watching"} => ops'[j].pc = ops[j].pc \/ j = i
    BY <1>2, <1>6, <1>14, <1>19 DEF Watches
  <2>1. CASE j = i BY <1>6, <1>14, <2>1
  <2>2. CASE j \in W BY <1>19, <2>2
  <2>3. CASE j # i /\ j \notin W BY <1>19, <2>3
  <2> QED BY <2>1, <2>2, <2>3
<1>21. TerminalHolds' BY <1>1, <1>2, <1>20, TerminalWatches
<1>22. \A j \in DOMAIN ops : QKey(j)' = QKey(j) BY <1>19, IdentKey
<1>23. pane'.lock = QS!NoOp /\ pane'.pending = Verified(i) /\ pane' \in [lock : Nat, pending : [event : Nat, look : Nat, token : Nat]]
  <2>1. ops[i].target \in 1..2 /\ ops[i].token \in Nat BY <1>1, OpTyped
  <2>2. QS!Ident(ops[i].target) \in Nat BY <2>1 DEF QS!Ident
  <2>3. pane.pending \in [event : Nat, look : Nat, token : Nat] BY <1>1 DEF AskTypes
  <2>4. Verified(i) \in [event : Nat, look : Nat, token : Nat] BY <2>1, <2>2, <2>3 DEF Verified
  <2> QED BY <1>3, <2>4 DEF QS!NoOp
<1>24. AskTypes' BY <1>1, <1>2, <1>18, <1>19, <1>23 DEF AskTypes, EntryTyped
<1>25. LockFits'
  <2>1. ops'[i].pc \notin {"reading", "sending"} BY <1>6, <1>14
  <2>2. ops[i].pc \in {"locking", "reading", "sending"} /\ ops[i].pc # "locking" BY <1>2
  <2> QED BY <1>1, <1>16, <1>23, <2>1, <2>2, LockFreed
<1>26. TokensFit' BY <1>1, <1>2, <1>19 DEF TokensFit, SameIdent, QS!Absent
<1>27. VerifiedStands'
  <2> SUFFICES ASSUME NEW j \in DOMAIN ops, ops'[j].pc = "watching", ops[j].clean, ops[j].kind = "approval", ~term.alike,
                      QKey(j) \notin askOdds.evicted, EnterComes(j)
               PROVE  /\ pane'.pending.event = ops[j].target /\ pane'.pending.token = ops[j].token
                      /\ pane'.pending.look = ops[j].target
    BY <1>2, <1>20, <1>22 DEF VerifiedStands, Watches, SameIdent, EnterComes
  <2>1. CASE j = i
    <3>1. QS!Ident(ops[i].target) = ops[i].target BY IdentPlain
    <3> QED BY <1>23, <2>1, <3>1 DEF Verified
  <2>2. CASE j # i
    <3>1. ops[j].pc = "watching" BY <1>20, <2>2 DEF Watches
    <3>2. CleanHead /\ Aim(j) BY <1>1, EnterAims
    <3>3. QS!Ident(ops[i].target) = QS!Ident(term.at) /\ QS!Ident(term.at) = QS!Ident(ops[j].target)
      BY <1>1, <1>2, <3>2 DEF TerminalHolds, SendersSee, Aim
    <3>4. ops[i].target = ops[j].target BY <3>3, IdentPlain
    <3>5. ops[i].kind # "approval"
      <4> SUFFICES ASSUME ops[i].kind = "approval" PROVE FALSE OBVIOUS
      <4>1. QKey(i) = QKey(j) BY <3>4, ApprovalKey
      <4>2. ops[j].pc \in Flying BY <3>1 DEF Flying
      <4> QED BY <1>1, <1>4, <2>2, <4>1, <4>2, FlightsApart
    <3>6. pane'.pending = pane.pending BY <1>23, <3>5 DEF Verified
    <3> QED BY <1>1, <3>1, <3>6 DEF VerifiedStands
  <2> QED BY <2>1, <2>2
<1>28. SuccessTrue'
  <2>1. \A j \in DOMAIN ops : ops'[j].told \in {"confirmed", "advanced"} => ops'[j].told = ops[j].told /\ (j = i \/ ops'[j] = ops[j])
    BY <1>6, <1>7, <1>14, <1>19
  <2>2. ops'[i].via = ops[i].via BY <1>6, <1>14
  <2> QED BY <1>1, <1>2, <1>19, <1>20, <1>22, <2>1, <2>2 DEF SuccessTrue, Watches, SameIdent
<1> QED BY <1>18, <1>21, <1>24, <1>25, <1>26, <1>27, <1>28 DEF AnswersInv

-----------------------------------------------------------------------------
(* Responses: the watch *)

(* A request that is told that its keys answered the prompt had them do so,  *)
(* for all that the claim is made of.                                        *)
SuccessHolds(i, phase) ==
  /\ phase \in {"confirmed", "advanced"} /\ ops[i].kind \in Choosing /\ ops[i].clean /\ ~term.alike
  /\ QKey(i) \notin askOdds.evicted /\ i \notin askOdds.lagged
  => i \in term.landed

(* What is still to be read while the watch looks. *)
LEMMA StillThere ==
  ASSUME AnswersInv, NEW i \in DOMAIN ops, ops[i].pc = "watching", ops[i].clean, ops[i].kind \in Choosing, ~term.alike,
         QKey(i) \notin askOdds.evicted, i \notin askOdds.lagged, i \notin term.landed
  PROVE  /\ QS!Shown = ops[i].target /\ QS!Shown # QS!Over /\ known.token # QS!Absent
         /\ ops[i].kind = "approval" =>
              /\ known.status = "blocked" /\ pane.pending.event = ops[i].target /\ pane.pending.token = ops[i].token
<1>1. AskTypes /\ TokensFit /\ TerminalHolds /\ VerifiedStands BY DEF AnswersInv
<1>2. EnterComes(i) BY <1>1 DEF TerminalHolds, EntersLand, Typed
<1>3. Aim(i) BY <1>1, <1>2, EnterAims
<1>4. ~term.busy /\ term.at # QS!Over /\ term.at = ops[i].target
  BY <1>3, IdentPlain DEF Aim
<1>5. term.token # QS!Absent BY <1>1 DEF TerminalHolds, CleanStays
<1>6. QS!Shown = ops[i].target /\ QS!Shown # QS!Over BY <1>4 DEF QS!Shown
<1>7. ops[i].kind = "approval" =>
        /\ known.status = "blocked" /\ pane.pending.event = ops[i].target /\ pane.pending.token = ops[i].token
  BY <1>1, <1>2, <1>3 DEF Aim, VerifiedStands
<1> QED BY <1>1, <1>5, <1>6, <1>7 DEF TokensFit

LEMMA EndsKeeps ==
  ASSUME AnswersInv, NEW i \in DOMAIN ops, ops[i].pc = "watching",
         NEW phase \in {"confirmed", "advanced", "navigated", "unexpected", "unconfirmed"},
         QS!Ends(i, phase), UNCHANGED <<term, known, askOdds>>, SuccessHolds(i, phase)
  PROVE  AnswersInv'
<1>1. AskTypes /\ LedgerHolds /\ LockFits /\ VerifiedStands BY DEF AnswersInv
<1>2. PICK p \in {"accepted", "confirmed", "advanced", "navigated", "unexpected", "unconfirmed"} :
        QS!finish(i, p) /\ (p = "accepted" \/ p = phase) /\ (pane' = pane \/ QS!clear_pending_approval(i))
  <2>1. CASE QS!Mine(i) BY <2>1 DEF QS!Ends
  <2>2. CASE ~QS!Mine(i)
    <3>1. entries' = entries /\ ops' = QS!Tell(i, "accepted") /\ pane' = pane BY <2>2 DEF QS!Ends
    <3>2. QS!finish(i, "accepted") BY <2>2, <3>1 DEF QS!finish, QS!Settles
    <3> QED BY <3>1, <3>2
  <2> QED BY <2>1, <2>2
<1>3. p \in AskPhases /\ p # QS!Nothing /\ p \notin Failing /\ ops[i].pc \in Flying
  BY DEF AskPhases, QS!Nothing, Flying, Failing
<1>4. /\ LedgerHolds' /\ \A e \in entries' : EntryTyped(e)
      /\ \E W : Moves(i, W, p)
      /\ ops'[i].pc = "told" /\ ops'[i].told = p /\ ops'[i].clean = ops[i].clean
  BY <1>1, <1>2, <1>3, FinishLedger
<1>5. PICK W : Moves(i, W, p) BY <1>4
<1>6. /\ pane'.lock = pane.lock /\ pane' \in [lock : Nat, pending : [event : Nat, look : Nat, token : Nat]]
      /\ pane'.pending = pane.pending \/ (ops[i].kind = "approval" /\ pane.pending.look = QS!Ident(ops[i].target))
  <2>1. pane \in [lock : Nat, pending : [event : Nat, look : Nat, token : Nat]] BY <1>1 DEF AskTypes
  <2>2. CASE pane' = pane BY <2>1, <2>2
  <2>3. CASE QS!clear_pending_approval(i)
    <3>1. QS!NoPending \in [event : Nat, look : Nat, token : Nat] BY DEF QS!NoPending, QS!Absent
    <3>2. PICK x \in [event : Nat, look : Nat, token : Nat] :
            /\ pane' = [pane EXCEPT !.pending = x]
            /\ x = pane.pending \/ (ops[i].kind = "approval" /\ pane.pending.look = QS!Ident(ops[i].target))
      BY <2>1, <2>3, <3>1 DEF QS!clear_pending_approval
    <3> QED BY <2>1, <3>2
  <2> QED BY <1>2, <2>2, <2>3
<1>7. AskTypes'
  <2>1. ops' \in Seq(AskOps) BY <1>5 DEF Moves
  <2> QED BY <1>1, <1>4, <1>6, <2>1 DEF AskTypes, EntryTyped
<1>8. LockFits'
  <2>1. ops[i].pc \notin {"reading", "sending"} /\ ops'[i].pc \notin {"reading", "sending"} BY <1>4
  <2> QED BY <1>1, <1>5, <1>6, <2>1, LockStays
<1>9. TokensFit' /\ TerminalHolds' /\ SuccessTrue' /\ Quiet /\ (pane'.pending = pane.pending => VerifiedStands')
  <2>1. ops'[i].pc \in {"sending", "watching"} => ops'[i].pc = ops[i].pc BY <1>4
  <2>2. askOdds.evicted \subseteq askOdds'.evicted /\ askOdds'.lagged = askOdds.lagged /\ term' = term /\ known' = known
    OBVIOUS
  <2>3. ops'[i].told \in {"confirmed", "advanced"} /\ ops'[i].via = QS!NoOp /\ ops[i].clean =>
          (ops[i].kind \in Choosing /\ ~term.alike /\ QKey(i) \notin askOdds'.evicted
             /\ i \notin askOdds'.lagged => i \in term.landed)
    BY <1>2, <1>4 DEF SuccessHolds
  <2> QED BY <1>3, <1>4, <1>5, <2>1, <2>2, <2>3, MovesRest
<1>10. VerifiedStands'
  <2>1. \A j \in DOMAIN ops : QKey(j)' = QKey(j) BY <1>9, IdentKey DEF Quiet
  <2> SUFFICES ASSUME NEW j \in DOMAIN ops, ops'[j].pc = "watching", ops[j].clean, ops[j].kind = "approval", ~term.alike,
                      QKey(j) \notin askOdds.evicted, EnterComes(j)
               PROVE  /\ pane'.pending.event = ops[j].target /\ pane'.pending.token = ops[j].token
                      /\ pane'.pending.look = ops[j].target
    BY <1>9, <2>1 DEF VerifiedStands, Quiet, SameIdent, EnterComes
  <2>2. ops[j].pc = "watching" /\ j # i BY <1>4, <1>9 DEF Quiet
  <2>3. /\ pane.pending.event = ops[j].target /\ pane.pending.token = ops[j].token
        /\ pane.pending.look = ops[j].target
    BY <1>1, <2>2 DEF VerifiedStands
  <2>4. CASE pane'.pending = pane.pending BY <2>3, <2>4
  <2>5. CASE ops[i].kind = "approval" /\ pane.pending.look = QS!Ident(ops[i].target)
    <3>1. ops[i].target = ops[j].target BY <2>3, <2>5, IdentPlain
    <3>2. QKey(i) = QKey(j) BY <2>5, <3>1, ApprovalKey
    <3>3. ops[j].pc \in Flying BY <2>2 DEF Flying
    <3> QED BY <1>1, <1>3, <2>2, <3>2, <3>3, FlightsApart
  <2> QED BY <1>6, <2>4, <2>5
<1> QED BY <1>4, <1>7, <1>8, <1>9, <1>10 DEF AnswersInv

LEMMA QuestionEnds ==
  ASSUME NEW r, NEW now
  PROVE  QS!finish_question_watch(r, now) \in {"confirmed", "advanced", "navigated", "unexpected", "unconfirmed"}
<1>1. CASE r.kind \in {"next", "previous"}
  <2>1. ~(r.kind = "answer" /\ now # QS!Over) BY <1>1
  <2> QED BY <1>1, <2>1 DEF QS!finish_question_watch
<1>2. CASE r.kind \notin {"next", "previous"} /\ r.kind = "answer" /\ now # QS!Over BY <1>2 DEF QS!finish_question_watch
<1>3. CASE r.kind \notin {"next", "previous"} /\ ~(r.kind = "answer" /\ now # QS!Over) BY <1>3 DEF QS!finish_question_watch
<1> QED BY <1>1, <1>2, <1>3

LEMMA WatchQuestionKeeps ==
  ASSUME AnswersInv, NEW i \in DOMAIN ops, QS!watch_question(i)
  PROVE  AnswersInv'
<1>1. ops[i].pc = "watching" /\ UNCHANGED <<term, known, askOdds>> BY DEF QS!watch_question
<1>2. PICK now : /\ QS!Ends(i, QS!finish_question_watch(ops[i], now))
                 /\ known.token = QS!Absent \/ QS!Shown # ops[i].target
  BY DEF QS!watch_question
<1>3. PICK phase \in {"confirmed", "advanced", "navigated", "unexpected", "unconfirmed"} :
        phase = QS!finish_question_watch(ops[i], now)
  BY QuestionEnds
<1>4. SuccessHolds(i, phase) BY <1>1, <1>2, StillThere DEF SuccessHolds
<1> QED BY <1>1, <1>2, <1>3, <1>4, EndsKeeps

LEMMA WatchApprovalKeeps ==
  ASSUME AnswersInv, NEW i \in DOMAIN ops, QS!watch_approval(i)
  PROVE  AnswersInv'
<1>1. ops[i].pc = "watching" /\ ops[i].kind = "approval" /\ UNCHANGED <<term, known, askOdds>> /\ QS!Ends(i, "confirmed")
  BY DEF QS!watch_approval
<1>2. \/ known.token = QS!Absent \/ known.status # "blocked"
      \/ QS!pending_approval(ops[i].token).event # ops[i].target
      \/ QS!Shown = QS!Over \/ QS!Ident(QS!Shown) # QS!Ident(ops[i].target)
  BY DEF QS!watch_approval
<1>3. PICK phase \in {"confirmed", "advanced", "navigated", "unexpected", "unconfirmed"} : phase = "confirmed" OBVIOUS
<1>4. SuccessHolds(i, phase)
  <2> SUFFICES ASSUME ops[i].kind \in Choosing, ops[i].clean, ~term.alike, QKey(i) \notin askOdds.evicted,
                      i \notin askOdds.lagged, i \notin term.landed
               PROVE  FALSE
    BY DEF SuccessHolds
  <2>1. /\ QS!Shown = ops[i].target /\ QS!Shown # QS!Over /\ known.token # QS!Absent
        /\ known.status = "blocked" /\ pane.pending.event = ops[i].target /\ pane.pending.token = ops[i].token
    BY <1>1, StillThere
  <2>2. QS!pending_approval(ops[i].token).event = ops[i].target BY <2>1 DEF QS!pending_approval
  <2> QED BY <1>2, <2>1, <2>2
<1> QED BY <1>1, <1>3, <1>4, EndsKeeps

LEMMA WatchTimesOutKeeps ==
  ASSUME AnswersInv, NEW i \in DOMAIN ops, QS!WatchTimesOut(i)
  PROVE  AnswersInv'
<1>1. ops[i].pc = "watching" /\ UNCHANGED <<term, known, askOdds>> BY DEF QS!WatchTimesOut
<1>2. CASE QS!Shown # QS!Over \/ ops[i].kind = "approval"
  <2>1. QS!Ends(i, "unconfirmed") BY <1>2 DEF QS!WatchTimesOut
  <2>2. PICK phase \in {"confirmed", "advanced", "navigated", "unexpected", "unconfirmed"} : phase = "unconfirmed" OBVIOUS
  <2>3. SuccessHolds(i, phase) BY <2>2 DEF SuccessHolds
  <2> QED BY <1>1, <2>1, <2>2, <2>3, EndsKeeps
<1>3. CASE ~(QS!Shown # QS!Over \/ ops[i].kind = "approval")
  <2>1. QS!Ends(i, QS!finish_question_watch(ops[i], QS!Over)) BY <1>3 DEF QS!WatchTimesOut
  <2>2. PICK phase \in {"confirmed", "advanced", "navigated", "unexpected", "unconfirmed"} :
          phase = QS!finish_question_watch(ops[i], QS!Over)
    BY QuestionEnds
  <2>3. SuccessHolds(i, phase) BY <1>1, <1>3, StillThere DEF SuccessHolds
  <2> QED BY <1>1, <2>1, <2>2, <2>3, EndsKeeps
<1> QED BY <1>2, <1>3

(* A request is told, and with it those who wait for an entry that goes. *)
TellCloses(i, e) == ops' = QS!Closed(QS!Tell(i, "accepted"), e)

LEMMA ToldClosedMoves ==
  ASSUME AskTypes, LedgerHolds, NEW i \in DOMAIN ops, ops[i].pc # "attached", NEW e \in entries, TellCloses(i, e)
  PROVE  /\ Moves(i, e.waiters, "closed") /\ ops'[i].pc = "told" /\ ops'[i].told = "accepted"
         /\ ops'[i].via = ops[i].via /\ ops'[i].clean = ops[i].clean
<1>1. ops[i] \in AskOps /\ "accepted" \in AskPhases BY OpTyped DEF AskPhases
<1>2. PICK r : r = ToldAs(ops[i], "accepted") OBVIOUS
<1>3. /\ r \in AskOps /\ r.pc = "told" /\ r.told = "accepted"
      /\ r.rid = ops[i].rid /\ r.kind = ops[i].kind /\ r.target = ops[i].target /\ r.opt = ops[i].opt
      /\ r.token = ops[i].token /\ r.status = ops[i].status /\ r.keys = ops[i].keys /\ r.sent = ops[i].sent
      /\ r.clean = ops[i].clean /\ r.via = ops[i].via
  <2>1. PICK s \in AskOps : s = ops[i] BY <1>1
  <2> QED BY <1>1, <1>2, <2>1, ToldOp
<1>4. PICK os : os = QS!Tell(i, "accepted") OBVIOUS
<1>5. os \in Seq(AskOps) /\ DOMAIN os = DOMAIN ops /\ os[i] = r /\ \A j \in DOMAIN ops : j # i => os[j] = ops[j]
  BY <1>1, <1>2, <1>4, TellFacts
<1>6. PICK phase \in AskPhases : phase = "closed" BY DEF AskPhases
<1>7. ops' = QS!Answered(os, e, phase) BY <1>4, <1>5, <1>6, AnsweredFacts DEF TellCloses
<1>8. \A w \in e.waiters : w \in DOMAIN ops /\ w # i /\ ops[w].pc = "attached"
  BY DEF LedgerHolds, EntriesFit, WaitersOf
<1>9. PICK W : W = e.waiters OBVIOUS
<1>10. Moves(i, W, phase) /\ ops'[i] = r BY <1>3, <1>5, <1>7, <1>8, <1>9, MovesFrom
<1> QED BY <1>3, <1>6, <1>9, <1>10

LEMMA WatchAbortsKeeps ==
  ASSUME AnswersInv, NEW i \in DOMAIN ops, QS!WatchAborts(i)
  PROVE  AnswersInv'
<1>1. AskTypes /\ LedgerHolds /\ LockFits /\ TokensFit BY DEF AnswersInv
<1>2. /\ ops[i].pc = "watching" /\ known.token # QS!Absent /\ known.token # ops[i].token /\ QS!dropped(i)
      /\ term' = term /\ known' = known /\ pane' = pane
  BY DEF QS!WatchAborts
<1>3. Behind(ops[i].token)
  <2>1. ops[i].token \in Nat /\ known.token \in Nat BY <1>1, OpTyped DEF AskTypes
  <2>2. ops[i].token <= known.token BY <1>1, <1>2 DEF TokensFit
  <2> QED BY <1>2, <2>1, <2>2 DEF Behind
<1>4. PICK key : key = QKey(i) OBVIOUS
<1>5. /\ entries' = QS!Without(entries, key)
      /\ ops' = IF QS!Has(entries, key) THEN QS!Closed(QS!Tell(i, "accepted"), QS!Slot(i)) ELSE QS!Tell(i, "accepted")
      /\ askOdds' = IF QS!Has(entries, key) /\ QS!Slot(i).owner # i
                      THEN [askOdds EXCEPT !.evicted = askOdds.evicted \cup {key}] ELSE askOdds
  BY <1>2, <1>4 DEF QS!dropped, QKey
<1>6. \A e \in entries : e \in entries' <=> e.key # key BY <1>5 DEF QS!Without
<1>7. \A e \in entries' : e \in entries /\ e.key # key BY <1>5 DEF QS!Without
<1>8. QS!Has(entries, key) => QS!Slot(i) \in entries /\ QS!Slot(i).key = key BY <1>4, FindIs DEF QS!Slot, QKey
<1>9. /\ askOdds' \in [n : Nat, evicted : SUBSET LedgerKeys, lagged : SUBSET Nat]
      /\ askOdds.evicted \subseteq askOdds'.evicted /\ askOdds'.lagged = askOdds.lagged
      /\ QS!Has(entries, key) /\ QS!Slot(i).owner # i => key \in askOdds'.evicted
  <2>1. askOdds \in [n : Nat, evicted : SUBSET LedgerKeys, lagged : SUBSET Nat] /\ key \in LedgerKeys
    BY <1>1, <1>4, KeyTyped DEF AskTypes
  <2>2. PICK K \in SUBSET LedgerKeys : K = askOdds.evicted \cup {key} BY <2>1
  <2>3. CASE QS!Has(entries, key) /\ QS!Slot(i).owner # i
    <3>1. askOdds' = [askOdds EXCEPT !.evicted = K] BY <1>5, <2>2, <2>3
    <3>2. /\ askOdds' \in [n : Nat, evicted : SUBSET LedgerKeys, lagged : SUBSET Nat]
          /\ askOdds'.evicted = K /\ askOdds'.lagged = askOdds.lagged
      BY <2>1, <3>1
    <3> QED BY <2>2, <3>2
  <2>4. CASE ~(QS!Has(entries, key) /\ QS!Slot(i).owner # i)
    <3>1. askOdds' = askOdds BY <1>5, <2>4
    <3> QED BY <2>1, <2>4, <3>1
  <2> QED BY <2>3, <2>4
<1>10. PICK W : W = IF QS!Has(entries, key) THEN QS!Slot(i).waiters ELSE {} OBVIOUS
<1>11. /\ Moves(i, W, "closed") /\ ops'[i].pc = "told" /\ ops'[i].told = "accepted"
       /\ ops'[i].via = ops[i].via /\ ops'[i].clean = ops[i].clean
  <2>1. CASE QS!Has(entries, key)
    <3>1. PICK s \in entries : s = QS!Slot(i) BY <1>8, <2>1
    <3>2. TellCloses(i, s) BY <1>5, <2>1, <3>1 DEF TellCloses
    <3>3. ops[i].pc # "attached" BY <1>2
    <3>4. /\ Moves(i, s.waiters, "closed") /\ ops'[i].pc = "told" /\ ops'[i].told = "accepted"
          /\ ops'[i].via = ops[i].via /\ ops'[i].clean = ops[i].clean
      BY <1>1, <3>2, <3>3, ToldClosedMoves
    <3> QED BY <1>10, <2>1, <3>1, <3>4
  <2>2. CASE ~QS!Has(entries, key)
    <3>1. ops' = QS!Tell(i, "accepted") /\ W = {} BY <1>5, <1>10, <2>2
    <3>2. "accepted" \in AskPhases BY DEF AskPhases
    <3>3. /\ Moves(i, {}, "closed") /\ ops'[i].pc = "told" /\ ops'[i].told = "accepted"
          /\ ops'[i].via = ops[i].via /\ ops'[i].clean = ops[i].clean
      BY <1>1, <3>1, <3>2, TellMoves
    <3> QED BY <3>1, <3>3
  <2> QED BY <2>1, <2>2
<1>12. PICK phase \in AskPhases : phase = "closed" BY DEF AskPhases
<1>13. Moves(i, W, phase) BY <1>11, <1>12
<1>14. ASSUME NEW e \in entries'
       PROVE  EntryOfOwner(e)' /\ WaitersOf(e)' /\ (e.key \notin askOdds'.evicted => StageOf(e)')
  <2>1. e \in entries /\ e.key # key BY <1>7
  <2>2. EntryOfOwner(e) BY <1>1, <2>1 DEF LedgerHolds, EntriesFit
  <2>3. e.owner # i BY <1>4, <2>1, <2>2 DEF EntryOfOwner
  <2>4. e.waiters \cap W = {} BY <1>1, <1>8, <1>10, <2>1, OwnersApart
  <2>5. ops[i].pc # "attached" BY <1>2
  <2> QED BY <1>1, <1>9, <1>13, <2>1, <2>3, <2>4, <2>5, EntryStays
<1>15. EntriesFit' BY <1>1, <1>7, <1>14 DEF LedgerHolds, EntriesFit, OnePerKey
<1>16. \A j \in DOMAIN ops : j # i /\ Kept(j) /\ QKey(j) \notin askOdds'.evicted => Kept(j)'
  <2> SUFFICES ASSUME NEW j \in DOMAIN ops, j # i, Kept(j), QKey(j) \notin askOdds'.evicted
               PROVE  \E e \in entries' : e.owner = j
    BY DEF Kept
  <2>1. PICK e \in entries : e.owner = j BY DEF Kept
  <2>2. e.key = QKey(j) BY <1>1, <2>1 DEF LedgerHolds, EntriesFit, EntryOfOwner
  <2>3. e.key # key
    <3> SUFFICES ASSUME e.key = key PROVE FALSE OBVIOUS
    <3>1. QS!Has(entries, key) BY DEF QS!Has
    <3>2. e = QS!Slot(i) BY <1>1, <1>8, <3>1 DEF LedgerHolds, EntriesFit, OnePerKey
    <3> QED BY <1>9, <2>1, <2>2, <3>1, <3>2
  <2> QED BY <1>6, <2>1, <2>3
<1>17. \A w \in W : phase \in Failing /\ QKey(w) \notin askOdds'.evicted =>
         ops[w].via # QS!NoOp /\ ops'[ops[w].via].sent = 0 /\ ops'[ops[w].via].pc = "told"
  <2> SUFFICES ASSUME NEW w \in W, QKey(w) \notin askOdds'.evicted PROVE FALSE OBVIOUS
  <2>1. PICK s \in entries : s = QS!Slot(i) /\ s.key = key /\ w \in s.waiters /\ QS!Has(entries, key) BY <1>8, <1>10
  <2>2. WaitersOf(s) /\ (s.key \notin askOdds.evicted => StageOf(s)) BY <1>1 DEF LedgerHolds, EntriesFit
  <2>3. QKey(w) = key /\ s.result = QS!Nothing BY <2>1, <2>2 DEF WaitersOf
  <2>4. s.owner = i /\ s.key \notin askOdds.evicted BY <1>9, <2>1, <2>3
  <2> QED BY <1>2, <2>2, <2>3, <2>4 DEF StageOf
<1>18. LedgerHolds'
  <2>1. OpFits(i) BY <1>1 DEF LedgerHolds, OpsFit
  <2>2. ops'[i].sent = ops[i].sent /\ DOMAIN ops' = DOMAIN ops BY <1>13 DEF Moves
  <2>3. OpFits(i)' BY <1>2, <1>11, <2>1, <2>2 DEF OpFits
  <2>4. FailureHolds(i)' BY <1>11 DEF FailureHolds, Failing
  <2>5. ops'[i].pc \in {"sending", "watching"} => ops[i].pc \in {"sending", "watching"} BY <1>11
  <2>6. (ops'[i].pc \in Flying \/ ops[i].sent > 0) /\ QKey(i) \notin askOdds'.evicted =>
          Kept(i)' \/ (ops'[i].pc = "told" /\ Behind(ops[i].token))
    BY <1>3, <1>11
  <2>7. ops[i].pc # "told" BY <1>2
  <2> QED BY <1>1, <1>2, <1>9, <1>13, <1>15, <1>16, <1>17, <2>3, <2>4, <2>5, <2>6, <2>7, LedgerStep
<1>19. AskTypes'
  <2>1. ops' \in Seq(AskOps) BY <1>13 DEF Moves
  <2>2. \A e \in entries' : EntryTyped(e) BY <1>1, <1>7 DEF AskTypes
  <2> QED BY <1>1, <1>2, <1>9, <2>1, <2>2 DEF AskTypes, EntryTyped
<1>20. LockFits'
  <2>1. ops[i].pc \notin {"reading", "sending"} /\ ops'[i].pc \notin {"reading", "sending"} BY <1>2, <1>11
  <2> QED BY <1>1, <1>2, <1>13, <2>1, LockStays
<1>21. TokensFit' /\ TerminalHolds' /\ SuccessTrue' /\ VerifiedStands'
  <2>1. /\ ops'[i].pc \in {"sending", "watching"} => ops'[i].pc = ops[i].pc
        /\ ops'[i].told \notin {"confirmed", "advanced"}
    BY <1>11
  <2> QED BY <1>2, <1>9, <1>11, <1>12, <1>13, <2>1, MovesRest
<1> QED BY <1>18, <1>19, <1>20, <1>21 DEF AnswersInv

-----------------------------------------------------------------------------
(* Responses: the theorem *)

LEMMA AnswersStart ==
  ASSUME QS!Init
  PROVE  AnswersInv
<1>1. PICK flow \in QS!Flows, alike \in BOOLEAN :
        term = [flow |-> flow, alike |-> alike, token |-> 1, at |-> 1, cursor |-> 1, busy |-> FALSE,
                inbox |-> <<>>, landed |-> {}, astray |-> FALSE]
  BY DEF QS!Init
<1>2. /\ known = [token |-> 1, status |-> "blocked"] /\ entries = {} /\ ops = <<>>
      /\ pane = [lock |-> QS!NoOp, pending |-> QS!NoPending]
      /\ askOdds = [n |-> 0, evicted |-> {}, lagged |-> {}]
  BY DEF QS!Init
<1>3. flow \in {"question", "approval"} BY DEF QS!Flows
<1>4. PICK no \in BOOLEAN : no = FALSE OBVIOUS
<1>5. term = [flow |-> flow, alike |-> alike, token |-> 1, at |-> 1, cursor |-> 1, busy |-> no,
              inbox |-> <<>>, landed |-> {}, astray |-> no]
  BY <1>1, <1>4
<1>6. term \in AskTerms BY <1>3, <1>5 DEF AskTerms
<1>7. term.inbox = <<>> /\ term.token = 1 /\ term.astray = no BY <1>5
<1>8. AskTypes BY <1>2, <1>6 DEF AskTypes, AskStatuses, QS!NoOp, QS!NoPending, QS!Absent
<1>9. LedgerHolds
  BY <1>2 DEF LedgerHolds, EntriesFit, OnePerKey, FlightsFit, OneActs, OpsFit, FailuresTrue
<1>10. TokensFit /\ LockFits BY <1>2, <1>7 DEF TokensFit, LockFits, QS!Absent, QS!NoOp
<1>11. ~term.astray BY <1>4, <1>7, Zenon
<1>12. DOMAIN term.inbox = {} BY <1>7
<1>13. TerminalHolds
  BY <1>2, <1>7, <1>11, <1>12 DEF TerminalHolds, KeysFit, HeadAims, CleanHead, SendersPoised, EntersLand, SendersSee, CleanStays
<1>14. VerifiedStands /\ SuccessTrue BY <1>2 DEF VerifiedStands, SuccessTrue
<1> QED BY <1>8, <1>9, <1>10, <1>13, <1>14 DEF AnswersInv

LEMMA AnswersStutter ==
  ASSUME AnswersInv, UNCHANGED QS!askVars
  PROVE  AnswersInv'
<1>1. /\ term' = term /\ known' = known /\ entries' = entries /\ pane' = pane /\ ops' = ops /\ askOdds' = askOdds
  BY DEF QS!askVars
<1>2. AskTypes /\ LedgerHolds /\ LockFits /\ TokensFit /\ TerminalHolds /\ VerifiedStands /\ SuccessTrue BY DEF AnswersInv
<1>3. AskTypes' BY <1>1, <1>2 DEF AskTypes, EntryTyped
<1>4. OpsStand BY <1>1 DEF OpsStand, SameIdent
<1>5. LedgerHolds' BY <1>1, <1>2, <1>4, LedgerStands DEF Behind, BehindNext
<1>6. TokensFit' /\ LockFits' BY <1>1, <1>2 DEF TokensFit, LockFits
<1>7. Quiet BY <1>1 DEF Quiet, SameIdent
<1>8. TerminalHolds' BY <1>1, <1>2, <1>7, TerminalStands
<1>9. VerifiedStands' BY <1>1, <1>2, <1>7, VerifiedStays
<1>10. SuccessTrue' BY <1>1, <1>2, <1>7, SuccessStays
<1> QED BY <1>3, <1>5, <1>6, <1>8, <1>9, <1>10 DEF AnswersInv

LEMMA AnswersStep ==
  ASSUME AnswersInv, QS!Next
  PROVE  AnswersInv'
<1>1. CASE QS!AgentReads BY <1>1, AgentReadsKeeps
<1>2. CASE QS!AgentPaints BY <1>2, AgentPaintsKeeps
<1>3. CASE QS!Hand BY <1>3, HandKeeps
<1>4. CASE QS!Rebind BY <1>4, RebindKeeps
<1>5. CASE QS!Replace BY <1>5, ReplaceKeeps
<1>6. CASE QS!Close BY <1>6, CloseKeeps
<1>7. CASE QS!Publish BY <1>7, PublishKeeps
<1>8. ASSUME NEW kind \in AskKinds, NEW opt \in 1..2, QS!Request(kind, opt) PROVE AnswersInv' BY <1>8, AskRequestKeeps
<1>9. ASSUME NEW i \in DOMAIN ops, QS!Retry(i) PROVE AnswersInv' BY <1>9, RetryKeeps
<1>10. ASSUME NEW i \in DOMAIN ops, QS!Op(i) PROVE AnswersInv'
  <2>1. CASE QS!replay(i) BY <2>1, ReplayKeeps
  <2>2. CASE QS!schedule(i) BY <2>2, AskScheduleKeeps
  <2>3. CASE QS!Locks(i) BY <2>3, LocksKeeps
  <2>4. CASE QS!Reads(i) BY <2>4, ReadsKeeps
  <2>5. CASE QS!ReadFails(i) BY <2>5, ReadFailsKeeps
  <2>6. CASE QS!SendStep(i) BY <2>6, SendStepKeeps
  <2>7. CASE QS!SendFails(i) BY <2>7, SendFailsKeeps
  <2>8. CASE QS!Accepts(i) BY <2>8, AcceptsKeeps
  <2>9. CASE QS!WatchAborts(i) BY <2>9, WatchAbortsKeeps
  <2>10. CASE QS!watch_question(i) BY <2>10, WatchQuestionKeeps
  <2>11. CASE QS!watch_approval(i) BY <2>11, WatchApprovalKeeps
  <2>12. CASE QS!WatchTimesOut(i) BY <2>12, WatchTimesOutKeeps
  <2> QED BY <1>10, <2>1, <2>2, <2>3, <2>4, <2>5, <2>6, <2>7, <2>8, <2>9, <2>10, <2>11, <2>12 DEF QS!Op
<1> QED BY <1>1, <1>2, <1>3, <1>4, <1>5, <1>6, <1>7, <1>8, <1>9, <1>10 DEF QS!Next

LEMMA AnswersFollow ==
  ASSUME AnswersInv
  PROVE  QS!KeysSentOnce /\ QS!LandsAsMeant /\ QS!ToldIsTrue
<1>1. AskTypes /\ LedgerHolds /\ TerminalHolds /\ SuccessTrue BY DEF AnswersInv
<1>2. QS!KeysSentOnce
  <2> SUFFICES ASSUME NEW i \in DOMAIN ops, NEW j \in DOMAIN ops, i < j, QS!Same(i, j), ops[i].sent > 0, ops[j].sent > 0,
                      QKey(i) \notin askOdds.evicted
               PROVE  FALSE
    BY DEF QS!KeysSentOnce, QKey
  <2>1. i # j
    <3>1. i \in Nat /\ j \in Nat BY <1>1, OpTyped
    <3> QED BY <3>1
  <2> QED BY <1>1, <2>1 DEF LedgerHolds, OneActs, Acting
<1>3. QS!LandsAsMeant BY <1>1 DEF TerminalHolds, QS!LandsAsMeant
<1>4. QS!ToldIsTrue
  <2>1. ASSUME NEW i \in DOMAIN ops, ops[i].told \in {"failed", "not_started", "closed"}, QKey(i) \notin askOdds.evicted
        PROVE  ops[IF ops[i].via = QS!NoOp THEN i ELSE ops[i].via].sent = 0
    BY <1>1, <2>1 DEF LedgerHolds, FailuresTrue, Failing
  <2>2. ASSUME NEW i \in DOMAIN ops, ops[i].told \in {"confirmed", "advanced"}, ops[i].via = QS!NoOp,
               ops[i].kind \in {"answer", "approval"}, ops[i].clean, ~term.alike, QKey(i) \notin askOdds.evicted,
               i \notin askOdds.lagged
        PROVE  i \in term.landed
    BY <1>1, <2>2 DEF SuccessTrue, Choosing
  <2> QED BY <2>1, <2>2 DEF QS!ToldIsTrue, QKey
<1> QED BY <1>2, <1>3, <1>4

(* Questions and approvals: the keys of a request are sent once within a     *)
(* lifetime of the pane, reach the prompt they were planned for, and what a  *)
(* phone is told of them is true (replay, schedule, Flight, the effects and  *)
(* the watches of actions/questions.rs), whatever the kinds asked, the       *)
(* number of requests, the bound of the ledger and the odds.                 *)
THEOREM AnswersAlwaysHold == QS!Spec => []AnswersHold
<1>1. QS!Init => AnswersInv BY AnswersStart
<1>2. AnswersInv /\ [QS!Next]_QS!askVars => AnswersInv' BY AnswersStep, AnswersStutter
<1>3. AnswersInv => AnswersHold BY AnswersFollow DEF AnswersHold
<1> QED BY <1>1, <1>2, <1>3, PTL DEF QS!Spec

=============================================================================
