--------------------------- MODULE ServicesFiles_proofs ---------------------------
(***************************************************************************)
(* Proofs about reading aloud, as the services run it: a cancel that came   *)
(* in time silences its request, in whatever order the two tasks run, and   *)
(* once all is done the topology's facts are the languages that can be      *)
(* spoken.                                                                  *)
(*                                                                          *)
(* The first rests on what stands for a cancel: a flagged entry of the map  *)
(* until the request has failed or answered.  The second on what a change   *)
(* may rely on while it is the only one: the runtime it asks is the one it  *)
(* saw, and nobody else touches the voices.                                 *)
(*                                                                          *)
(* Proofs about uploads: a staged session is always one somebody will end,  *)
(* and a published file is recorded wherever it has to be.  They rest on    *)
(* how a run of a batch is tied to one session: a begin is under way once,  *)
(* while its batch waits for it, and all else the run sent names the        *)
(* session its batch names, if it still names one.                          *)
(***************************************************************************)
EXTENDS ServicesFiles, FiniteSets, Sequences, TLAPS

Tasks == 1 .. MaxSpeechTasks

-----------------------------------------------------------------------------
(* Types *)

Installing == {"download", "swap", "model", "config"}
Removing == {"unmodel", "unconfig"}
Places ==
  {"none", "catalog", "probing", "engine", "running", "ended", "failed", "change", "recatalog",
   "reprobing", "publish", "done"} \cup Installing \cup Removing
Kinds == {"none", "speak", "install", "remove", "cli_install", "cli_remove", "cli_reinstall"}
Tongues == Languages \cup SystemVoices

TaskRecords ==
  [kind : Kinds, key : Utterances \cup {SPE!Free}, lang : Languages \cup {SPE!Free}, at : Places,
   read : SUBSET Languages, voices : SUBSET Tongues, seq : Nat,
   gave : {"nothing", "refused", "audio", "error", "changed"}]
Registrations == [seq : Nat, cancelled : BOOLEAN, live : BOOLEAN]

Lucks ==
  [odds : Nat, asked : SUBSET Utterances, early : SUBSET Utterances, deaf : BOOLEAN,
   overlap : BOOLEAN, excused : BOOLEAN]

SpeechTypes ==
  /\ talk \in [Tasks -> TaskRecords]
  /\ DOMAIN reqs \subseteq Utterances /\ reqs \in [DOMAIN reqs -> Registrations]
  /\ vox \in [Languages -> SUBSET SPE!Pair]
  /\ rt \in [binary : {"none", "piper"}, probe : {"new", "ready", "unready"}, mutex : Tasks \cup {SPE!Free}]
  /\ facts \in SUBSET Tongues
  /\ luck \in Lucks

-----------------------------------------------------------------------------
(* The invariant *)

(* An utterance belongs to one request, and only requests are spoken. *)
Owned == \A i, j \in Tasks : talk[i].key # SPE!Free /\ talk[i].key = talk[j].key => i = j

KindsFit ==
  \A i \in Tasks :
    /\ talk[i].kind = "speak" <=> talk[i].key # SPE!Free
    /\ talk[i].kind = "none" <=> talk[i].at = "none"
    /\ talk[i].at \in {"engine", "running", "ended", "failed"} => talk[i].kind = "speak"
    /\ talk[i].at \in {"change", "recatalog", "reprobing", "publish"} \cup Installing \cup Removing =>
         talk[i].kind # "speak"

(* What stands for a cancel that came in time. *)
Standing(u) ==
  \/ u \in DOMAIN reqs /\ reqs[u].cancelled
  \/ \E i \in Tasks : talk[i].key = u /\ talk[i].at \in {"failed", "done"}

Heeds ==
  /\ \A u \in luck.early : Standing(u)
  /\ \A i \in Tasks : talk[i].at = "ended" => talk[i].key \notin luck.early
  /\ SPE!CancelHeeded

(* Nothing failed, nothing changed from outside and no two changes overlapped. *)
Clean == ~luck.overlap /\ ~luck.excused
Active(i) == SPE!IsChange(talk[i]) /\ talk[i].at \notin {"none", "done"}
OnlyChanges ==
  /\ \A i \in Tasks : talk[i].kind \in {"none", "speak", "install", "remove"}
  /\ \A i, j \in Tasks : Active(i) /\ Active(j) => i = j

RuntimeKnown ==
  /\ rt.binary = "piper" => rt.probe \in {"new", "ready"}
  /\ \A i \in Tasks : /\ talk[i].at \in {"probing", "reprobing"} => rt.binary = "piper"
                      /\ talk[i].at \in {"download", "swap"} => rt.binary = "none"

Spoken == SPE!languages_in(SPE!piper_voices, rt.binary = "piper")
Untouched == \A i \in Tasks : Active(i) => talk[i].at \in {"catalog", "probing", "change"}
FactsHold ==
  /\ Untouched => facts = Spoken
  /\ \A i \in Tasks : /\ talk[i].at = "reprobing" => talk[i].read = SPE!piper_voices
                      /\ talk[i].at = "publish" => talk[i].voices = Spoken

CleanHolds == Clean => OnlyChanges /\ RuntimeKnown /\ FactsHold

SpeechInv == SpeechTypes /\ Owned /\ KindsFit /\ Heeds /\ CleanHolds

-----------------------------------------------------------------------------
(* Steps *)

LEMMA GoesIs ==
  ASSUME SpeechTypes, NEW i \in Tasks, NEW t \in TaskRecords, SPE!Goes(i, t)
  PROVE  /\ talk' \in [Tasks -> TaskRecords] /\ talk'[i] = t
         /\ \A j \in Tasks \ {i} : talk'[j] = talk[j]
BY DEF SpeechTypes, SPE!Goes

(* A step of task i as to the cancels. *)
LEMMA HeedsStays ==
  ASSUME SpeechInv, NEW i \in Tasks, \A j \in Tasks \ {i} : talk'[j] = talk[j],
         talk'[i].key = talk[i].key \/ talk[i].at = "none",
         talk[i].at # "done", talk[i].at = "failed" => talk'[i].at = "done",
         \A u \in DOMAIN reqs : reqs[u].cancelled =>
           \/ u \in DOMAIN reqs' /\ reqs'[u].cancelled
           \/ u = talk'[i].key /\ talk'[i].at \in {"failed", "done"},
         luck'.early = luck.early, ~luck'.deaf,
         talk'[i].at = "ended" => talk'[i].key \notin luck.early
  PROVE  Heeds'
<1>1. \A u \in luck'.early : Standing(u)'
  <2> SUFFICES ASSUME NEW u \in luck.early PROVE Standing(u)'
    OBVIOUS
  <2>1. Standing(u)
    BY DEF SpeechInv, Heeds
  <2>2. CASE u \in DOMAIN reqs /\ reqs[u].cancelled
    BY <2>2 DEF Standing
  <2>3. CASE \E j \in Tasks : talk[j].key = u /\ talk[j].at \in {"failed", "done"}
    <3>1. PICK j \in Tasks : talk[j].key = u /\ talk[j].at \in {"failed", "done"}
      BY <2>3
    <3>2. talk'[j].key = u /\ talk'[j].at \in {"failed", "done"}
      BY <3>1
    <3> QED BY <3>2 DEF Standing
  <2> QED BY <2>1, <2>2, <2>3 DEF Standing
<1>2. \A j \in Tasks : talk'[j].at = "ended" => talk'[j].key \notin luck'.early
  BY DEF SpeechInv, Heeds
<1> QED BY <1>1, <1>2 DEF Heeds, SPE!CancelHeeded

(* A step of a request that changes nothing of the voices. *)
LEMMA SpeakingStays ==
  ASSUME SpeechInv, NEW i \in Tasks, \A j \in Tasks \ {i} : talk'[j] = talk[j],
         talk[i].kind \in {"none", "speak"}, talk'[i].kind = "speak",
         Clean' => Clean, UNCHANGED <<vox, facts>>,
         Clean' => /\ rt'.binary = rt.binary /\ (rt'.probe = rt.probe \/ rt'.probe = "ready")
                   /\ talk'[i].at = "probing" => rt.binary = "piper",
         talk'[i].at \in {"catalog", "probing", "engine", "running", "ended", "failed", "done"}
  PROVE  CleanHolds'
<1> SUFFICES ASSUME Clean' PROVE OnlyChanges' /\ RuntimeKnown' /\ FactsHold'
  BY DEF CleanHolds
<1>1. OnlyChanges /\ RuntimeKnown /\ FactsHold /\ Clean
  BY DEF SpeechInv, CleanHolds
<1>2. \A j \in Tasks : Active(j)' <=> Active(j)
  BY DEF Active, SPE!IsChange
<1>3. OnlyChanges'
  BY <1>1, <1>2 DEF OnlyChanges
<1>4. RuntimeKnown'
  BY <1>1 DEF RuntimeKnown
<1>5. SPE!piper_voices' = SPE!piper_voices
  BY DEF SPE!piper_voices
<1>6. Spoken' = Spoken
  BY <1>5 DEF Spoken, SPE!languages_in
<1>7. Untouched' => Untouched
  BY <1>2 DEF Untouched, Active, SPE!IsChange
<1>8. FactsHold'
  BY <1>1, <1>5, <1>6, <1>7 DEF FactsHold
<1> QED BY <1>3, <1>4, <1>8

(* A step of the one change that is under way. *)
LEMMA ChangingStays ==
  ASSUME SpeechInv, NEW i \in Tasks, \A j \in Tasks \ {i} : talk'[j] = talk[j],
         talk'[i].kind = talk[i].kind, talk[i].kind # "speak", talk[i].at \notin {"none", "done"},
         Clean' => Clean,
         Clean' => /\ rt'.binary = "piper" => rt'.probe \in {"new", "ready"}
                   /\ rt'.binary = rt.binary \/ rt'.binary = "piper"
                   /\ talk'[i].at \in {"probing", "reprobing"} => rt'.binary = "piper"
                   /\ talk'[i].at \in {"download", "swap"} => rt'.binary = "none"
                   /\ talk'[i].at \in {"catalog", "probing", "change", "none", "done"} => facts' = Spoken'
                   /\ talk'[i].at = "reprobing" => talk'[i].read = SPE!piper_voices'
                   /\ talk'[i].at = "publish" => talk'[i].voices = Spoken'
  PROVE  CleanHolds'
<1> SUFFICES ASSUME Clean' PROVE OnlyChanges' /\ RuntimeKnown' /\ FactsHold'
  BY DEF CleanHolds
<1>1. OnlyChanges /\ RuntimeKnown /\ FactsHold /\ Clean
  BY DEF SpeechInv, CleanHolds
<1>2. Active(i)
  BY <1>1 DEF SpeechInv, KindsFit, OnlyChanges, Active, SPE!IsChange
<1>3. \A j \in Tasks \ {i} : ~Active(j) /\ ~Active(j)'
  BY <1>1, <1>2 DEF OnlyChanges, Active, SPE!IsChange
<1>4. \A j \in Tasks \ {i} : talk'[j].at \notin {"download", "swap", "reprobing", "publish"}
  BY <1>1, <1>3 DEF SpeechInv, KindsFit, OnlyChanges, Active, SPE!IsChange, Installing
<1>5. OnlyChanges'
  BY <1>1, <1>3 DEF OnlyChanges
<1>6. RuntimeKnown'
  BY <1>1, <1>4 DEF RuntimeKnown
<1>7. FactsHold'
  <2>1. Untouched' => facts' = Spoken'
    <3> SUFFICES ASSUME Untouched' PROVE facts' = Spoken'
      OBVIOUS
    <3>1. talk'[i].at \in {"catalog", "probing", "change", "none", "done"}
      BY <1>2 DEF Untouched, Active, SPE!IsChange
    <3> QED BY <3>1
  <2> QED BY <1>4, <2>1 DEF FactsHold
<1> QED BY <1>5, <1>6, <1>7

LEMMA TaskType ==
  ASSUME NEW kind \in Kinds, NEW key \in Utterances \cup {SPE!Free}, NEW lang \in Languages \cup {SPE!Free}
  PROVE  /\ SPE!Task(kind, key, lang) \in TaskRecords
         /\ SPE!Task(kind, key, lang).at = "catalog"
         /\ SPE!Task(kind, key, lang).kind = kind /\ SPE!Task(kind, key, lang).key = key
BY DEF SPE!Task, TaskRecords, Places

LEMMA MovedType ==
  ASSUME NEW t \in TaskRecords, NEW at \in Places
  PROVE  /\ [t EXCEPT !.at = at] \in TaskRecords /\ [t EXCEPT !.at = at].at = at
         /\ [t EXCEPT !.at = at].kind = t.kind /\ [t EXCEPT !.at = at].key = t.key
BY DEF TaskRecords

LEMMA CostType ==
  ASSUME NEW l \in Lucks
  PROVE  /\ SPE!Cost(l) \in Lucks /\ SPE!Cost(l).early = l.early /\ SPE!Cost(l).deaf = l.deaf
         /\ SPE!Cost(l).overlap = l.overlap /\ SPE!Cost(l).excused = l.excused
         /\ [SPE!Cost(l) EXCEPT !.excused = TRUE] \in Lucks
         /\ [SPE!Cost(l) EXCEPT !.excused = TRUE].early = l.early
         /\ [SPE!Cost(l) EXCEPT !.excused = TRUE].deaf = l.deaf
         /\ [SPE!Cost(l) EXCEPT !.excused = TRUE].excused
<1>1. /\ SPE!Cost(l) \in Lucks /\ SPE!Cost(l).early = l.early /\ SPE!Cost(l).deaf = l.deaf
      /\ SPE!Cost(l).overlap = l.overlap /\ SPE!Cost(l).excused = l.excused
  BY DEF SPE!Cost, Lucks
<1> DEFINE c == SPE!Cost(l)
<1>2. c \in Lucks
  BY <1>1
<1> HIDE DEF c
<1>3. /\ [c EXCEPT !.excused = TRUE] \in Lucks /\ [c EXCEPT !.excused = TRUE].early = c.early
      /\ [c EXCEPT !.excused = TRUE].deaf = c.deaf /\ [c EXCEPT !.excused = TRUE].excused
  BY <1>2 DEF Lucks
<1> QED BY <1>1, <1>3 DEF c

LEMMA DoneType ==
  ASSUME NEW t \in TaskRecords, NEW gave \in {"nothing", "refused", "audio", "error", "changed"}
  PROVE  /\ SPE!Done(t, gave) \in TaskRecords /\ SPE!Done(t, gave).at = "done"
         /\ SPE!Done(t, gave).kind = t.kind /\ SPE!Done(t, gave).key = t.key
BY DEF SPE!Done, TaskRecords, Places

(* Where nothing is being changed the facts are right. *)
LEMMA FactsOfRest ==
  ASSUME SpeechInv, Clean, \A i \in Tasks : ~Active(i)
  PROVE  facts = Spoken
BY DEF SpeechInv, CleanHolds, FactsHold, Untouched

LEMMA ArrivesKeeps ==
  ASSUME SpeechInv, SPE!Arrives
  PROVE  SpeechInv'
<1>1. PICK i \in Tasks :
        /\ talk[i].at = "none"
        /\ \/ \E u \in Utterances, l \in Languages :
                /\ \A j \in Tasks : talk[j].key # u
                /\ SPE!Goes(i, SPE!Task("speak", u, l)) /\ UNCHANGED luck
           \/ \E l \in Languages, kind \in {"install", "remove"} :
                /\ SPE!Goes(i, SPE!Task(kind, SPE!Free, l))
                /\ luck' = [luck EXCEPT !.overlap = @ \/ \E j \in Tasks : j # i /\ SPE!IsChange(talk[j]) /\ talk[j].at # "done"]
           \/ \E l \in Languages, kind \in {"cli_install", "cli_remove", "cli_reinstall"} :
                /\ SPE!Goes(i, [SPE!Task(kind, SPE!Free, l) EXCEPT !.at = IF kind = "cli_reinstall" THEN "download" ELSE "change"])
                /\ luck' = [SPE!Cost(luck) EXCEPT !.excused = TRUE]
  BY DEF SPE!Arrives, Tasks
<1>2. UNCHANGED <<reqs, vox, rt, facts>>
  BY DEF SPE!Arrives
<1>3. talk[i].kind = "none" /\ talk[i].key = SPE!Free
  BY <1>1 DEF SpeechInv, KindsFit
<1>4. SpeechTypes
  BY DEF SpeechInv
<1>5. ASSUME NEW u \in Utterances, NEW l \in Languages, \A j \in Tasks : talk[j].key # u,
             SPE!Goes(i, SPE!Task("speak", u, l)), UNCHANGED luck
      PROVE  SpeechInv'
  <2>1. /\ SPE!Task("speak", u, l) \in TaskRecords /\ SPE!Task("speak", u, l).at = "catalog"
        /\ SPE!Task("speak", u, l).kind = "speak" /\ SPE!Task("speak", u, l).key = u
    BY TaskType DEF Kinds
  <2>2. /\ talk' \in [Tasks -> TaskRecords] /\ \A j \in Tasks \ {i} : talk'[j] = talk[j]
        /\ talk'[i].at = "catalog" /\ talk'[i].kind = "speak" /\ talk'[i].key = u
    BY <1>4, <1>5, <2>1, GoesIs
  <2>3. SpeechTypes'
    BY <1>2, <1>4, <1>5, <2>2 DEF SpeechTypes
  <2>4. Owned' /\ KindsFit'
    BY <1>3, <1>5, <2>2 DEF SpeechInv, Owned, KindsFit, Installing, Removing
  <2>5. Heeds'
    <3>1. ~luck'.deaf
      BY <1>5 DEF SpeechInv, Heeds, SPE!CancelHeeded
    <3> QED BY <1>1, <1>2, <1>5, <2>2, <3>1, HeedsStays
  <2>6. CleanHolds'
    <3>1. Clean' => Clean
      BY <1>5 DEF Clean
    <3> QED BY <1>2, <1>3, <2>2, <3>1, SpeakingStays
  <2> QED BY <2>3, <2>4, <2>5, <2>6 DEF SpeechInv
<1>6. ASSUME NEW l \in Languages, NEW kind \in {"install", "remove"},
             SPE!Goes(i, SPE!Task(kind, SPE!Free, l)),
             luck' = [luck EXCEPT !.overlap = @ \/ \E j \in Tasks : j # i /\ SPE!IsChange(talk[j]) /\ talk[j].at # "done"]
      PROVE  SpeechInv'
  <2>1. /\ SPE!Task(kind, SPE!Free, l) \in TaskRecords /\ SPE!Task(kind, SPE!Free, l).at = "catalog"
        /\ SPE!Task(kind, SPE!Free, l).kind = kind /\ SPE!Task(kind, SPE!Free, l).key = SPE!Free
    BY <1>6, TaskType DEF Kinds
  <2>2. /\ talk' \in [Tasks -> TaskRecords] /\ \A j \in Tasks \ {i} : talk'[j] = talk[j]
        /\ talk'[i].at = "catalog" /\ talk'[i].kind = kind /\ talk'[i].key = SPE!Free
    BY <1>4, <1>6, <2>1, GoesIs
  <2>3. /\ luck' \in Lucks
        /\ luck'.early = luck.early /\ luck'.deaf = luck.deaf
        /\ Clean' => Clean /\ \A j \in Tasks \ {i} : ~Active(j)
    BY <1>4, <1>6 DEF SpeechTypes, Lucks, Clean, Active
  <2>4. SpeechTypes'
    BY <1>2, <1>4, <2>2, <2>3 DEF SpeechTypes
  <2>5. Owned' /\ KindsFit'
    BY <1>3, <1>6, <2>2 DEF SpeechInv, Owned, KindsFit, Installing, Removing
  <2>6. Heeds'
    <3>1. ~luck'.deaf
      BY <2>3 DEF SpeechInv, Heeds, SPE!CancelHeeded
    <3> QED BY <1>1, <1>2, <1>3, <2>2, <2>3, <3>1, HeedsStays
  <2>7. CleanHolds'
    <3> SUFFICES ASSUME Clean' PROVE OnlyChanges' /\ RuntimeKnown' /\ FactsHold'
      BY DEF CleanHolds
    <3>1. OnlyChanges /\ RuntimeKnown /\ FactsHold /\ Clean
      BY <2>3 DEF SpeechInv, CleanHolds
    <3>2. ~Active(i)
      BY <1>1 DEF Active
    <3>3. facts = Spoken
      BY <2>3, <3>1, <3>2, FactsOfRest
    <3>4. \A j \in Tasks \ {i} : ~Active(j)'
      BY <2>2, <2>3 DEF Active, SPE!IsChange
    <3>5. OnlyChanges'
      BY <1>6, <2>2, <3>1, <3>4 DEF OnlyChanges
    <3>6. RuntimeKnown'
      BY <1>2, <2>2, <3>1 DEF RuntimeKnown
    <3>7. Spoken' = Spoken /\ SPE!piper_voices' = SPE!piper_voices
      BY <1>2 DEF Spoken, SPE!languages_in, SPE!piper_voices
    <3>8. FactsHold'
      BY <1>2, <2>2, <3>1, <3>3, <3>7 DEF FactsHold
    <3> QED BY <3>5, <3>6, <3>8
  <2> QED BY <2>4, <2>5, <2>6, <2>7 DEF SpeechInv
<1>7. ASSUME NEW l \in Languages, NEW kind \in {"cli_install", "cli_remove", "cli_reinstall"},
             NEW at \in {"download", "change"},
             SPE!Goes(i, [SPE!Task(kind, SPE!Free, l) EXCEPT !.at = at]),
             luck' = [SPE!Cost(luck) EXCEPT !.excused = TRUE]
      PROVE  SpeechInv'
  <2>1. at \in Places
    BY DEF Places, Installing
  <2>9. /\ SPE!Task(kind, SPE!Free, l) \in TaskRecords
        /\ SPE!Task(kind, SPE!Free, l).kind = kind /\ SPE!Task(kind, SPE!Free, l).key = SPE!Free
    BY <1>7, TaskType DEF Kinds
  <2>2. /\ [SPE!Task(kind, SPE!Free, l) EXCEPT !.at = at] \in TaskRecords
        /\ [SPE!Task(kind, SPE!Free, l) EXCEPT !.at = at].at = at
        /\ [SPE!Task(kind, SPE!Free, l) EXCEPT !.at = at].kind = kind
        /\ [SPE!Task(kind, SPE!Free, l) EXCEPT !.at = at].key = SPE!Free
    BY <2>1, <2>9, MovedType
  <2>3. /\ talk' \in [Tasks -> TaskRecords] /\ \A j \in Tasks \ {i} : talk'[j] = talk[j]
        /\ talk'[i].at = at /\ talk'[i].kind = kind /\ talk'[i].key = SPE!Free
    BY <1>4, <1>7, <2>2, GoesIs
  <2>4. luck' \in Lucks /\ luck'.early = luck.early /\ luck'.deaf = luck.deaf /\ luck'.excused
    BY <1>4, <1>7, CostType DEF SpeechTypes
  <2>5. SpeechTypes'
    BY <1>2, <1>4, <2>3, <2>4 DEF SpeechTypes
  <2>6. Owned' /\ KindsFit'
    BY <1>3, <1>7, <2>3 DEF SpeechInv, Owned, KindsFit, Installing, Removing
  <2>7. Heeds'
    <3>1. ~luck'.deaf
      BY <2>4 DEF SpeechInv, Heeds, SPE!CancelHeeded
    <3> QED BY <1>1, <1>2, <1>3, <2>3, <2>4, <3>1, HeedsStays
  <2>8. CleanHolds'
    BY <2>4 DEF CleanHolds, Clean
  <2> QED BY <2>5, <2>6, <2>7, <2>8 DEF SpeechInv
<1> QED BY <1>1, <1>5, <1>6, <1>7

LEMMA CancelKeeps ==
  ASSUME SpeechInv, SPE!cancel_speech
  PROVE  SpeechInv'
<1>1. PICK u \in Utterances : SPE!cancel(u)
  BY DEF SPE!cancel_speech
<1>2. UNCHANGED <<talk, vox, rt, facts>>
  BY DEF SPE!cancel_speech
<1>3. SpeechTypes /\ Heeds
  BY DEF SpeechInv
<1> DEFINE stays == IF SPE!Cardinality(DOMAIN reqs) >= MaxInFlight THEN DOMAIN reqs \ SPE!Tombstones ELSE DOMAIN reqs
           passed == \E i \in Tasks : talk[i].key = u /\ talk[i].at \in {"ended", "failed", "done"}
           gone == DOMAIN reqs \ DOMAIN reqs'
           tombstone == [seq |-> 0, cancelled |-> TRUE, live |-> FALSE]
<1>9. /\ u \in DOMAIN reqs => reqs' = [reqs EXCEPT ![u].cancelled = TRUE] /\ luck' = SPE!Asked(u, {})
      /\ u \notin DOMAIN reqs /\ SPE!Cardinality(stays) >= MaxInFlight =>
           /\ reqs' = [k \in stays |-> reqs[k]]
           /\ luck' = [luck EXCEPT !.asked = @ \cup {u}, !.early = @ \cap stays]
      /\ u \notin DOMAIN reqs /\ ~(SPE!Cardinality(stays) >= MaxInFlight) =>
           /\ reqs' = [k \in stays \cup {u} |-> IF k \in stays THEN reqs[k] ELSE tombstone]
           /\ luck' = SPE!Asked(u, DOMAIN reqs \ stays)
  BY <1>1, Zenon DEF SPE!cancel
<1>10. stays \subseteq DOMAIN reqs
  OBVIOUS
<1> HIDE DEF stays
<1>4. /\ DOMAIN reqs' \subseteq Utterances /\ reqs' \in [DOMAIN reqs' -> Registrations]
      /\ luck' \in Lucks /\ luck'.deaf = luck.deaf /\ luck'.overlap = luck.overlap /\ luck'.excused = luck.excused
      /\ \A k \in DOMAIN reqs \cap DOMAIN reqs' : reqs[k].cancelled => reqs'[k].cancelled
      /\ \A v \in luck'.early : \/ v \in luck.early /\ v \notin gone
                                \/ v = u /\ ~passed /\ u \in DOMAIN reqs' /\ reqs'[u].cancelled
  <2>1. CASE u \in DOMAIN reqs
    <3>1. reqs' = [reqs EXCEPT ![u].cancelled = TRUE] /\ luck' = SPE!Asked(u, {})
      BY <1>9, <2>1
    <3>2. DOMAIN reqs' = DOMAIN reqs /\ reqs' \in [DOMAIN reqs' -> Registrations] /\ reqs'[u].cancelled
      BY <1>3, <2>1, <3>1 DEF SpeechTypes, Registrations
    <3>3. \A k \in DOMAIN reqs : reqs[k].cancelled => reqs'[k].cancelled
      BY <1>3, <2>1, <3>1 DEF SpeechTypes, Registrations
    <3>4. luck' = [luck EXCEPT !.asked = @ \cup {u}, !.early = (@ \ {}) \cup (IF passed THEN {} ELSE {u})]
      BY <3>1 DEF SPE!Asked, Tasks
    <3> QED BY <1>3, <2>1, <3>2, <3>3, <3>4 DEF SpeechTypes, Lucks
  <2>2. CASE u \notin DOMAIN reqs /\ SPE!Cardinality(stays) >= MaxInFlight
    <3>1. /\ reqs' = [k \in stays |-> reqs[k]]
          /\ luck' = [luck EXCEPT !.asked = @ \cup {u}, !.early = @ \cap stays]
      BY <1>9, <2>2
    <3> QED BY <1>3, <1>10, <3>1 DEF SpeechTypes, Lucks
  <2>3. CASE u \notin DOMAIN reqs /\ ~(SPE!Cardinality(stays) >= MaxInFlight)
    <3>1. /\ reqs' = [k \in stays \cup {u} |-> IF k \in stays THEN reqs[k] ELSE tombstone]
          /\ luck' = SPE!Asked(u, DOMAIN reqs \ stays)
      BY <1>9, <2>3
    <3>2. stays \subseteq DOMAIN reqs
      BY <1>10
    <3>3. luck' = [luck EXCEPT !.asked = @ \cup {u},
                               !.early = (@ \ (DOMAIN reqs \ stays)) \cup (IF passed THEN {} ELSE {u})]
      BY <3>1 DEF SPE!Asked, Tasks
    <3>4. DOMAIN reqs' = stays \cup {u} /\ u \notin stays /\ reqs'[u].cancelled
      BY <2>3, <3>1, <3>2
    <3>5. \A k \in stays : reqs'[k] = reqs[k]
      BY <3>1
    <3>6. reqs' \in [DOMAIN reqs' -> Registrations]
      BY <1>3, <3>1, <3>2 DEF SpeechTypes, Registrations
    <3>7. luck' \in Lucks /\ luck'.deaf = luck.deaf /\ luck'.overlap = luck.overlap /\ luck'.excused = luck.excused
      BY <1>3, <3>3 DEF SpeechTypes, Lucks
    <3>8. \A v \in luck'.early : (v \in luck.early /\ v \notin (DOMAIN reqs \ stays)) \/ (v = u /\ ~passed)
      <4>1. luck'.early = (luck.early \ (DOMAIN reqs \ stays)) \cup (IF passed THEN {} ELSE {u})
        BY <1>3, <3>3 DEF SpeechTypes, Lucks
      <4> HIDE DEF passed
      <4> QED BY <4>1
    <3> QED BY <1>3, <3>2, <3>4, <3>5, <3>6, <3>7, <3>8 DEF SpeechTypes
  <2> QED BY <2>1, <2>2, <2>3
<1>5. SpeechTypes'
  BY <1>2, <1>3, <1>4 DEF SpeechTypes
<1>6. Owned' /\ KindsFit'
  BY <1>2 DEF SpeechInv, Owned, KindsFit
<1>7. Heeds'
  <2>1. \A v \in luck'.early : Standing(v)'
    BY <1>2, <1>3, <1>4 DEF Heeds, Standing
  <2>2. \A i \in Tasks : talk'[i].at = "ended" => talk'[i].key \notin luck'.early
    BY <1>2, <1>3, <1>4 DEF Heeds
  <2> QED BY <1>3, <1>4, <2>1, <2>2 DEF Heeds, SPE!CancelHeeded
<1>8. CleanHolds'
  BY <1>2, <1>4 DEF SpeechInv, CleanHolds, Clean, OnlyChanges, Active, SPE!IsChange, RuntimeKnown, FactsHold,
                    Untouched, Spoken, SPE!languages_in, SPE!piper_voices
<1> QED BY <1>5, <1>6, <1>7, <1>8 DEF SpeechInv

-----------------------------------------------------------------------------
(* The catalog *)

LEMMA SpokenSame ==
  ASSUME vox' = vox, rt'.binary = rt.binary
  PROVE  Spoken' = Spoken /\ SPE!piper_voices' = SPE!piper_voices
BY DEF Spoken, SPE!languages_in, SPE!piper_voices

LEMMA FactsOfStart ==
  ASSUME SpeechInv, Clean, NEW i \in Tasks, talk[i].kind # "speak",
         talk[i].at \in {"catalog", "probing", "change"}
  PROVE  facts = Spoken
<1>1. OnlyChanges /\ FactsHold
  BY DEF SpeechInv, CleanHolds
<1>2. Active(i)
  BY <1>1 DEF SpeechInv, KindsFit, OnlyChanges, Active, SPE!IsChange
<1>3. Untouched
  BY <1>1, <1>2 DEF OnlyChanges, Untouched
<1> QED BY <1>1, <1>3 DEF FactsHold

(* What task i's step leaves in place whatever it does. *)
LEMMA StepKeeps ==
  ASSUME SpeechInv, NEW i \in Tasks, talk' \in [Tasks -> TaskRecords],
         \A j \in Tasks \ {i} : talk'[j] = talk[j],
         talk'[i].kind = talk[i].kind, talk'[i].key = talk[i].key,
         talk[i].at # "none", talk'[i].at # "none",
         talk'[i].at \in {"engine", "running", "ended", "failed"} => talk[i].kind = "speak",
         talk'[i].at \in {"change", "recatalog", "reprobing", "publish"} \cup Installing \cup Removing =>
           talk[i].kind # "speak"
  PROVE  Owned' /\ KindsFit'
<1>1. Owned'
  BY DEF SpeechInv, Owned
<1>2. KindsFit'
  BY DEF SpeechInv, KindsFit
<1> QED BY <1>1, <1>2

LEMMA AfterCatalogKeeps ==
  ASSUME SpeechInv, NEW i \in Tasks, NEW langs \in SUBSET Tongues, SPE!AfterCatalog(i, talk[i], langs),
         talk[i].at \in {"catalog", "recatalog", "probing", "reprobing"},
         vox' = vox,
         rt' \in [binary : {"none", "piper"}, probe : {"new", "ready", "unready"}, mutex : Tasks \cup {SPE!Free}],
         rt'.binary = rt.binary,
         luck' \in Lucks, luck'.early = luck.early, luck'.deaf = luck.deaf, Clean' => Clean,
         Clean' => rt'.probe = rt.probe \/ rt'.probe = "ready",
         Clean' /\ talk[i].at \in {"recatalog", "reprobing"} => langs = Spoken
  PROVE  SpeechInv'
<1> DEFINE t == talk[i]
<1>1. SpeechTypes /\ KindsFit /\ t \in TaskRecords
  BY DEF SpeechInv, SpeechTypes
<1>2. ~luck'.deaf
  BY DEF SpeechInv, Heeds, SPE!CancelHeeded
<1>3. Spoken' = Spoken
  BY SpokenSame
<1>4. ASSUME t.kind = "speak", t.lang \in langs,
             SPE!Goes(i, [t EXCEPT !.at = "engine", !.seq = i, !.voices = {}]), SPE!register(t.key, i),
             UNCHANGED facts
      PROVE  SpeechInv'
  <2>1. /\ [t EXCEPT !.at = "engine", !.seq = i, !.voices = {}] \in TaskRecords
        /\ [t EXCEPT !.at = "engine", !.seq = i, !.voices = {}].at = "engine"
        /\ [t EXCEPT !.at = "engine", !.seq = i, !.voices = {}].kind = t.kind
        /\ [t EXCEPT !.at = "engine", !.seq = i, !.voices = {}].key = t.key
    <3>1. i \in Nat
      BY DEF Tasks
    <3> HIDE DEF t
    <3> QED BY <1>1, <3>1 DEF TaskRecords, Places
  <2>2. /\ talk' \in [Tasks -> TaskRecords] /\ \A j \in Tasks \ {i} : talk'[j] = talk[j]
        /\ talk'[i].at = "engine" /\ talk'[i].kind = t.kind /\ talk'[i].key = t.key
    BY <1>1, <1>4, <2>1, GoesIs
  <2>3. t.key \in Utterances
    BY <1>1, <1>4 DEF KindsFit, TaskRecords
  <2>4. /\ DOMAIN reqs' = DOMAIN reqs \cup {t.key}
        /\ \A k \in DOMAIN reqs \ {t.key} : reqs'[k] = reqs[k]
        /\ reqs'[t.key] = [seq |-> i, cancelled |-> t.key \in DOMAIN reqs /\ reqs[t.key].cancelled, live |-> TRUE]
    BY <1>4 DEF SPE!register
  <2>5. reqs'[t.key] \in Registrations
    <3>1. i \in Nat
      BY DEF Tasks
    <3>2. (t.key \in DOMAIN reqs /\ reqs[t.key].cancelled) \in BOOLEAN
      OBVIOUS
    <3> QED BY <2>4, <3>1, <3>2 DEF Registrations
  <2>6. reqs' \in [DOMAIN reqs' -> Registrations]
    <3>1. \A k \in DOMAIN reqs' : reqs'[k] \in Registrations
      BY <1>1, <2>4, <2>5 DEF SpeechTypes
    <3>2. reqs' = [k \in DOMAIN reqs' |-> reqs'[k]]
      BY <1>4 DEF SPE!register
    <3> QED BY <3>1, <3>2
  <2>7. SpeechTypes'
    BY <1>1, <1>4, <2>2, <2>3, <2>4, <2>6 DEF SpeechTypes
  <2>8. Owned' /\ KindsFit'
    BY <1>4, <2>2, StepKeeps DEF Installing, Removing
  <2>9. Heeds'
    <3>1. \A u \in DOMAIN reqs : reqs[u].cancelled => u \in DOMAIN reqs' /\ reqs'[u].cancelled
      <4>1. reqs'[t.key].cancelled = (t.key \in DOMAIN reqs /\ reqs[t.key].cancelled)
        BY <2>4
      <4> QED BY <2>4, <4>1
    <3> QED BY <1>2, <2>2, <3>1, HeedsStays
  <2>10. CleanHolds'
    BY <1>4, <2>2, SpeakingStays
  <2> QED BY <2>7, <2>8, <2>9, <2>10 DEF SpeechInv
<1>5. ASSUME t.kind = "speak", SPE!Goes(i, SPE!Done(t, "refused")), UNCHANGED <<reqs, facts>>
      PROVE  SpeechInv'
  <2>1. /\ talk' \in [Tasks -> TaskRecords] /\ \A j \in Tasks \ {i} : talk'[j] = talk[j]
        /\ talk'[i].at = "done" /\ talk'[i].kind = t.kind /\ talk'[i].key = t.key
    BY <1>1, <1>5, DoneType, GoesIs
  <2>2. SpeechTypes'
    BY <1>1, <1>5, <2>1 DEF SpeechTypes
  <2>3. Owned' /\ KindsFit'
    BY <1>5, <2>1, StepKeeps DEF Installing, Removing
  <2>4. Heeds'
    BY <1>2, <1>5, <2>1, HeedsStays
  <2>5. CleanHolds'
    BY <1>5, <2>1, SpeakingStays
  <2> QED BY <2>2, <2>3, <2>4, <2>5 DEF SpeechInv
<1>6. ASSUME t.kind # "speak", NEW at \in {"change", "publish"},
             SPE!Goes(i, [t EXCEPT !.at = at, !.voices = langs]), UNCHANGED <<reqs, facts>>,
             at = "change" => t.at \in {"catalog", "probing"},
             at = "publish" => ~(SPE!IsChange(t) /\ t.at \in {"catalog", "probing"})
      PROVE  SpeechInv'
  <2>1. /\ [t EXCEPT !.at = at, !.voices = langs] \in TaskRecords
        /\ [t EXCEPT !.at = at, !.voices = langs].at = at
        /\ [t EXCEPT !.at = at, !.voices = langs].kind = t.kind
        /\ [t EXCEPT !.at = at, !.voices = langs].key = t.key
        /\ [t EXCEPT !.at = at, !.voices = langs].voices = langs
    BY <1>1, <1>6 DEF TaskRecords, Places
  <2>2. /\ talk' \in [Tasks -> TaskRecords] /\ \A j \in Tasks \ {i} : talk'[j] = talk[j]
        /\ talk'[i].at = at /\ talk'[i].kind = t.kind /\ talk'[i].key = t.key /\ talk'[i].voices = langs
    BY <1>1, <1>6, <2>1, GoesIs
  <2>3. SpeechTypes'
    BY <1>1, <1>6, <2>2 DEF SpeechTypes
  <2>4. Owned' /\ KindsFit'
    BY <1>6, <2>2, StepKeeps DEF Installing, Removing
  <2>5. Heeds'
    BY <1>2, <1>6, <2>2, HeedsStays
  <2>6. CleanHolds'
    <3>1. Clean' => OnlyChanges /\ RuntimeKnown /\ Clean
      BY DEF SpeechInv, CleanHolds
    <3>2. Clean' => SPE!IsChange(t)
      BY <1>1, <1>6, <3>1 DEF OnlyChanges, KindsFit, SPE!IsChange
    <3>3. Clean' /\ at = "publish" => langs = Spoken'
      BY <1>3, <1>6, <3>2
    <3>4. Clean' /\ at = "change" => facts' = Spoken'
      BY <1>3, <1>6, <3>1, FactsOfStart
    <3>5. Clean' => (rt'.binary = "piper" => rt'.probe \in {"new", "ready"})
      BY <3>1 DEF RuntimeKnown
    <3> QED BY <1>6, <2>2, <3>1, <3>3, <3>4, <3>5, ChangingStays
  <2> QED BY <2>3, <2>4, <2>5, <2>6 DEF SpeechInv
<1>7. CASE t.kind = "speak"
  <2>1. /\ IF t.lang \in langs
             THEN /\ SPE!Goes(i, [t EXCEPT !.at = "engine", !.seq = i, !.voices = {}])
                  /\ SPE!register(t.key, i)
             ELSE SPE!Goes(i, SPE!Done(t, "refused")) /\ UNCHANGED reqs
        /\ UNCHANGED facts
    BY <1>7 DEF SPE!AfterCatalog, SPE!IsChange
  <2> QED BY <1>4, <1>5, <1>7, <2>1
<1>8. CASE t.kind # "speak" /\ SPE!IsChange(t) /\ t.at \in {"catalog", "probing"}
  <2>1. SPE!Goes(i, [t EXCEPT !.at = "change", !.voices = langs]) /\ UNCHANGED <<reqs, facts>>
    BY <1>8 DEF SPE!AfterCatalog
  <2> QED BY <1>6, <1>8, <2>1
<1>9. CASE t.kind # "speak" /\ ~(SPE!IsChange(t) /\ t.at \in {"catalog", "probing"})
  <2>1. SPE!Goes(i, [t EXCEPT !.at = "publish", !.voices = langs]) /\ UNCHANGED <<reqs, facts>>
    BY <1>9 DEF SPE!AfterCatalog, SPE!published
  <2> QED BY <1>6, <1>9, <2>1
<1> QED BY <1>7, <1>8, <1>9

LEMMA CatalogKeeps ==
  ASSUME SpeechInv, NEW i \in Tasks, SPE!Catalog(i)
  PROVE  SpeechInv'
<1> DEFINE t == talk[i]
<1>1. SpeechTypes /\ KindsFit /\ t \in TaskRecords /\ t.at \in {"catalog", "recatalog"}
  BY DEF SpeechInv, SpeechTypes, SPE!Catalog
<1>2. UNCHANGED <<vox, rt, luck>>
  BY DEF SPE!Catalog
<1>3. Spoken' = Spoken /\ SPE!piper_voices' = SPE!piper_voices
  BY <1>2, SpokenSame
<1>4. SPE!piper_voices \in SUBSET Languages
  BY DEF SPE!piper_voices
<1>5. ~luck'.deaf /\ (Clean' => Clean)
  BY <1>2 DEF SpeechInv, Heeds, SPE!CancelHeeded, Clean
<1>6. CASE SPE!Probed = "new"
  <2> DEFINE at == IF t.at = "catalog" THEN "probing" ELSE "reprobing"
             r == [t EXCEPT !.at = at, !.read = SPE!piper_voices]
  <2>1. SPE!Goes(i, r) /\ UNCHANGED <<reqs, facts>>
    BY <1>6 DEF SPE!Catalog
  <2>2. at \in {"probing", "reprobing"} /\ (at = "probing" <=> t.at = "catalog")
    BY <1>1
  <2> HIDE DEF t, at
  <2>3. r \in TaskRecords /\ r.at = at /\ r.kind = t.kind /\ r.key = t.key /\ r.read = SPE!piper_voices
    BY <1>1, <1>4, <2>2 DEF TaskRecords, Places
  <2> HIDE DEF r
  <2>4. /\ talk' \in [Tasks -> TaskRecords] /\ \A j \in Tasks \ {i} : talk'[j] = talk[j]
        /\ talk'[i].at = at /\ talk'[i].kind = t.kind /\ talk'[i].key = t.key
        /\ talk'[i].read = SPE!piper_voices
    BY <1>1, <2>1, <2>3, GoesIs
  <2> USE DEF t
  <2>5. SpeechTypes'
    BY <1>1, <1>2, <2>1, <2>4 DEF SpeechTypes
  <2>6. t.kind = "speak" => at = "probing"
    BY <1>1, <2>2 DEF KindsFit
  <2>7. Owned' /\ KindsFit'
    BY <1>1, <2>2, <2>4, <2>6, StepKeeps DEF Installing, Removing
  <2>8. Heeds'
    BY <1>1, <1>2, <1>5, <2>1, <2>2, <2>4, HeedsStays
  <2>9. rt.binary = "piper"
    BY <1>1, <1>6 DEF SPE!Probed, SpeechTypes
  <2>10. CASE t.kind = "speak"
    <3>1. CleanHolds'
      BY <1>2, <1>5, <2>1, <2>4, <2>6, <2>9, <2>10, SpeakingStays
    <3> QED BY <2>5, <2>7, <2>8, <3>1 DEF SpeechInv
  <2>11. CASE t.kind # "speak"
    <3>1. Clean' => rt'.probe \in {"new", "ready"}
      BY <1>2, <1>5, <2>9 DEF SpeechInv, CleanHolds, RuntimeKnown
    <3>2. Clean' /\ at = "probing" => facts' = Spoken'
      BY <1>1, <1>3, <1>5, <2>1, <2>2, <2>11, FactsOfStart
    <3>3. CleanHolds'
      BY <1>1, <1>2, <1>3, <1>5, <2>2, <2>4, <2>9, <2>11, <3>1, <3>2, ChangingStays
    <3> QED BY <2>5, <2>7, <2>8, <3>3 DEF SpeechInv
  <2> QED BY <2>10, <2>11
<1>7. CASE SPE!Probed # "new"
  <2> DEFINE langs == SPE!languages_in(SPE!piper_voices, SPE!Probed = "ready")
  <2>1. SPE!AfterCatalog(i, talk[i], langs)
    BY <1>7 DEF SPE!Catalog
  <2>2. langs \in SUBSET Tongues
    BY <1>4 DEF SPE!languages_in, Tongues
  <2>3. Clean' => (SPE!Probed = "ready" <=> rt.binary = "piper")
    BY <1>1, <1>5, <1>7 DEF SpeechInv, SpeechTypes, CleanHolds, RuntimeKnown, SPE!Probed
  <2>4. Clean' => langs = Spoken
    BY <2>3 DEF Spoken, SPE!languages_in
  <2>5. /\ rt' \in [binary : {"none", "piper"}, probe : {"new", "ready", "unready"}, mutex : Tasks \cup {SPE!Free}]
        /\ luck' \in Lucks
    BY <1>1, <1>2 DEF SpeechTypes
  <2> HIDE DEF langs
  <2> QED BY <1>1, <1>2, <1>5, <2>1, <2>2, <2>4, <2>5, AfterCatalogKeeps
<1> QED BY <1>6, <1>7

LEMMA ProbeKeeps ==
  ASSUME SpeechInv, NEW i \in Tasks, SPE!Probe(i)
  PROVE  SpeechInv'
<1> DEFINE t == talk[i]
<1>1. SpeechTypes /\ t \in TaskRecords /\ t.at \in {"probing", "reprobing"} /\ vox' = vox
  BY DEF SpeechInv, SpeechTypes, SPE!Probe
<1>2. PICK s \in SPE!Starts(luck) :
        rt' = SPE!Recorded(s.ready) /\ luck' = s.luck /\ SPE!AfterCatalog(i, t, SPE!languages_in(t.read, s.ready))
  BY DEF SPE!Probe
<1> DEFINE langs == SPE!languages_in(t.read, s.ready)
<1>3. \/ rt.binary = "none" /\ s.luck = luck /\ s.ready = FALSE
      \/ s.luck = luck /\ s.ready = TRUE
      \/ s.luck = [SPE!Cost(luck) EXCEPT !.excused = TRUE] /\ s.ready = FALSE
  <2> DEFINE fast == [ready |-> TRUE, luck |-> luck]
             slow == [ready |-> FALSE, luck |-> [SPE!Cost(luck) EXCEPT !.excused = TRUE]]
             none == [ready |-> FALSE, luck |-> luck]
  <2>1. (rt.binary = "none" /\ s = none) \/ s = fast \/ s = slow
    BY <1>2 DEF SPE!Starts
  <2>2. /\ fast.luck = luck /\ fast.ready = TRUE /\ none.luck = luck /\ none.ready = FALSE
        /\ slow.luck = [SPE!Cost(luck) EXCEPT !.excused = TRUE] /\ slow.ready = FALSE
    BY Zenon
  <2> HIDE DEF fast, slow, none
  <2> QED BY <2>1, <2>2
<1>4. /\ luck' \in Lucks /\ luck'.early = luck.early /\ luck'.deaf = luck.deaf
      /\ Clean' => luck' = luck /\ (s.ready = TRUE \/ rt.binary = "none")
  BY <1>1, <1>2, <1>3, CostType DEF SpeechTypes, Clean
<1>5. Clean' => Clean /\ rt.binary = "piper"
  BY <1>1, <1>4 DEF Clean, SpeechInv, CleanHolds, RuntimeKnown
<1>6. Clean' => s.ready = TRUE
  BY <1>4, <1>5
<1>7. /\ rt' \in [binary : {"none", "piper"}, probe : {"new", "ready", "unready"}, mutex : Tasks \cup {SPE!Free}]
      /\ rt'.binary = rt.binary /\ (s.ready = TRUE => rt'.probe = "ready")
  BY <1>1, <1>2 DEF SpeechTypes, SPE!Recorded
<1>8. langs \in SUBSET Tongues
  BY <1>1 DEF SPE!languages_in, Tongues, TaskRecords
<1>9. Clean' /\ t.at = "reprobing" => langs = Spoken
  BY <1>5, <1>6 DEF SpeechInv, CleanHolds, FactsHold, Spoken, SPE!languages_in
<1> QED BY <1>1, <1>2, <1>4, <1>5, <1>6, <1>7, <1>8, <1>9, AfterCatalogKeeps

-----------------------------------------------------------------------------
(* The engine's process *)

LEMMA SynthesizeKeeps ==
  ASSUME SpeechInv, NEW i \in Tasks, SPE!Synthesize(i)
  PROVE  SpeechInv'
<1> DEFINE t == talk[i]
           at == IF SPE!select_engine(t.lang) THEN "running" ELSE "failed"
<1>1. SpeechTypes /\ KindsFit /\ t \in TaskRecords /\ t.at = "engine"
  BY DEF SpeechInv, SpeechTypes, SPE!Synthesize
<1>2. SPE!Goes(i, [t EXCEPT !.at = at]) /\ UNCHANGED <<reqs, vox, rt, facts, luck>>
  BY DEF SPE!Synthesize
<1>3. at \in {"running", "failed"} /\ at \in Places
  BY DEF Places
<1> HIDE DEF at
<1>4. /\ talk' \in [Tasks -> TaskRecords] /\ \A j \in Tasks \ {i} : talk'[j] = talk[j]
      /\ talk'[i].at = at /\ talk'[i].kind = t.kind /\ talk'[i].key = t.key
  <2>1. /\ [t EXCEPT !.at = at] \in TaskRecords /\ [t EXCEPT !.at = at].at = at
        /\ [t EXCEPT !.at = at].kind = t.kind /\ [t EXCEPT !.at = at].key = t.key
    BY <1>1, <1>3, MovedType
  <2> QED BY <1>1, <1>2, <2>1, GoesIs
<1>5. t.kind = "speak"
  BY <1>1 DEF KindsFit
<1>6. SpeechTypes'
  BY <1>1, <1>2, <1>4 DEF SpeechTypes
<1>7. Owned' /\ KindsFit'
  BY <1>1, <1>3, <1>4, <1>5, StepKeeps DEF Installing, Removing
<1>8. ~luck'.deaf /\ (Clean' => Clean)
  BY <1>2 DEF SpeechInv, Heeds, SPE!CancelHeeded, Clean
<1>9. Heeds'
  BY <1>1, <1>2, <1>3, <1>4, <1>8, HeedsStays
<1>10. CleanHolds'
  BY <1>2, <1>3, <1>4, <1>5, <1>8, SpeakingStays
<1> QED BY <1>6, <1>7, <1>9, <1>10 DEF SpeechInv

LEMMA PollChildKeeps ==
  ASSUME SpeechInv, NEW i \in Tasks, SPE!PollChild(i)
  PROVE  SpeechInv'
<1> DEFINE t == talk[i]
<1>1. SpeechTypes /\ KindsFit /\ t \in TaskRecords /\ t.at = "running"
  BY DEF SpeechInv, SpeechTypes, SPE!PollChild
<1>2. UNCHANGED <<reqs, vox, rt, facts>>
  BY DEF SPE!PollChild
<1>3. PICK at \in {"failed", "ended"} :
        /\ SPE!Goes(i, [t EXCEPT !.at = at])
        /\ at = "ended" => ~SPE!Cancelled(t)
        /\ luck' = luck \/ luck' = SPE!Cost(luck)
  BY DEF SPE!PollChild
<1>4. /\ luck' \in Lucks /\ luck'.early = luck.early /\ luck'.deaf = luck.deaf
      /\ luck'.overlap = luck.overlap /\ luck'.excused = luck.excused
  BY <1>1, <1>3, CostType DEF SpeechTypes
<1>5. at \in Places
  BY DEF Places
<1>6. /\ talk' \in [Tasks -> TaskRecords] /\ \A j \in Tasks \ {i} : talk'[j] = talk[j]
      /\ talk'[i].at = at /\ talk'[i].kind = t.kind /\ talk'[i].key = t.key
  <2>1. /\ [t EXCEPT !.at = at] \in TaskRecords /\ [t EXCEPT !.at = at].at = at
        /\ [t EXCEPT !.at = at].kind = t.kind /\ [t EXCEPT !.at = at].key = t.key
    BY <1>1, <1>5, MovedType
  <2> QED BY <1>1, <1>3, <2>1, GoesIs
<1>7. t.kind = "speak" /\ t.key # SPE!Free
  BY <1>1 DEF KindsFit
<1>8. SpeechTypes'
  BY <1>1, <1>2, <1>4, <1>6 DEF SpeechTypes
<1>9. Owned' /\ KindsFit'
  BY <1>1, <1>6, <1>7, StepKeeps DEF Installing, Removing
<1>10. ~luck'.deaf /\ (Clean' => Clean)
  BY <1>4 DEF SpeechInv, Heeds, SPE!CancelHeeded, Clean
<1>11. at = "ended" => t.key \notin luck.early
  <2> SUFFICES ASSUME at = "ended", t.key \in luck.early PROVE FALSE
    OBVIOUS
  <2>1. Standing(t.key)
    BY DEF SpeechInv, Heeds
  <2>2. \A j \in Tasks : talk[j].key = t.key => j = i
    BY <1>7 DEF SpeechInv, Owned
  <2>3. t.key \in DOMAIN reqs /\ reqs[t.key].cancelled
    BY <1>1, <2>1, <2>2 DEF Standing
  <2> QED BY <1>3, <2>3 DEF SPE!Cancelled
<1>12. Heeds'
  BY <1>1, <1>2, <1>4, <1>6, <1>10, <1>11, HeedsStays
<1>13. CleanHolds'
  BY <1>2, <1>6, <1>7, <1>10, SpeakingStays
<1> QED BY <1>8, <1>9, <1>12, <1>13 DEF SpeechInv

LEMMA AnswersKeeps ==
  ASSUME SpeechInv, NEW i \in Tasks, SPE!Answers(i)
  PROVE  SpeechInv'
<1> DEFINE t == talk[i]
<1>1. SpeechTypes /\ KindsFit /\ t \in TaskRecords /\ t.at \in {"failed", "ended"}
  BY DEF SpeechInv, SpeechTypes, SPE!Answers
<1>2. SPE!finish(t) /\ UNCHANGED <<vox, rt, facts>>
  BY DEF SPE!Answers
<1>3. PICK gave \in {"audio", "error"} :
        /\ SPE!Goes(i, SPE!Done(t, gave))
        /\ luck' = [luck EXCEPT !.deaf = @ \/ (t.at = "ended" /\ gave = "audio" /\ t.key \in luck.early)]
  <2>1. PICK clip \in [ok : BOOLEAN, size : {0, SPE!Halvings, SPE!Halvings + 1}] :
          LET audio == t.at = "ended" /\ SPE!parse_pcm16_mono(clip) /\ SPE!decimate(clip) IN
          /\ SPE!Goes(i, SPE!Done(t, IF audio THEN "audio" ELSE "error"))
          /\ luck' = [luck EXCEPT !.deaf = @ \/ (audio /\ t.key \in luck.early)]
    BY DEF SPE!Answers
  <2> DEFINE audio == t.at = "ended" /\ SPE!parse_pcm16_mono(clip) /\ SPE!decimate(clip)
  <2>2. /\ SPE!Goes(i, SPE!Done(t, IF audio THEN "audio" ELSE "error"))
        /\ luck' = [luck EXCEPT !.deaf = @ \/ (audio /\ t.key \in luck.early)]
        /\ audio => t.at = "ended"
    BY <2>1
  <2> HIDE DEF audio
  <2>3. CASE audio
    BY <2>2, <2>3
  <2>4. CASE ~audio
    BY <2>2, <2>4
  <2> QED BY <2>3, <2>4
<1>4. t.at = "ended" => t.key \notin luck.early
  BY DEF SpeechInv, Heeds
<1>5. ~luck.deaf /\ luck \in Lucks
  BY <1>1 DEF SpeechInv, Heeds, SPE!CancelHeeded, SpeechTypes
<1>6. /\ luck' \in Lucks /\ luck'.early = luck.early /\ ~luck'.deaf
      /\ luck'.overlap = luck.overlap /\ luck'.excused = luck.excused
  BY <1>3, <1>4, <1>5 DEF Lucks
<1>7. /\ talk' \in [Tasks -> TaskRecords] /\ \A j \in Tasks \ {i} : talk'[j] = talk[j]
      /\ talk'[i].at = "done" /\ talk'[i].kind = t.kind /\ talk'[i].key = t.key
  BY <1>1, <1>3, DoneType, GoesIs
<1>8. t.kind = "speak"
  BY <1>1 DEF KindsFit
<1>9. /\ DOMAIN reqs' \subseteq DOMAIN reqs /\ \A k \in DOMAIN reqs' : reqs'[k] = reqs[k]
      /\ \A k \in DOMAIN reqs : k # t.key => k \in DOMAIN reqs'
      /\ reqs' \in [DOMAIN reqs' -> Registrations]
  BY <1>1, <1>2 DEF SPE!finish, SpeechTypes
<1>10. SpeechTypes'
  BY <1>1, <1>2, <1>6, <1>7, <1>9 DEF SpeechTypes
<1>11. Owned' /\ KindsFit'
  BY <1>1, <1>7, <1>8, StepKeeps DEF Installing, Removing
<1>12. Heeds'
  <2>1. \A u \in DOMAIN reqs : reqs[u].cancelled =>
          (u \in DOMAIN reqs' /\ reqs'[u].cancelled) \/ (u = talk'[i].key /\ talk'[i].at \in {"failed", "done"})
    BY <1>7, <1>9
  <2> QED BY <1>1, <1>6, <1>7, <2>1, HeedsStays
<1>13. CleanHolds'
  <2>1. Clean' => Clean
    BY <1>6 DEF Clean
  <2> QED BY <1>2, <1>7, <1>8, <2>1, SpeakingStays
<1> QED BY <1>10, <1>11, <1>12, <1>13 DEF SpeechInv

-----------------------------------------------------------------------------
(* Changes *)

(* A change's step under install_mu, or a failure, given what the step does  *)
(* to the runtime while nothing but this change is under way.                *)
LEMMA ChangeMoves ==
  ASSUME SpeechInv, NEW i \in Tasks, NEW t \in TaskRecords, SPE!Goes(i, t),
         talk[i].at \in {"change"} \cup Installing \cup Removing,
         t.at \in {"recatalog", "done"} \cup Installing \cup Removing,
         t.kind = talk[i].kind, t.key = talk[i].key,
         UNCHANGED <<reqs, facts>>,
         vox' \in [Languages -> SUBSET SPE!Pair],
         rt' \in [binary : {"none", "piper"}, probe : {"new", "ready", "unready"}, mutex : Tasks \cup {SPE!Free}],
         luck' \in Lucks, luck'.early = luck.early, luck'.deaf = luck.deaf, Clean' => Clean,
         Clean' /\ SPE!IsChange(talk[i]) /\ RuntimeKnown =>
           /\ rt'.binary = "piper" => rt'.probe \in {"new", "ready"}
           /\ rt'.binary = rt.binary \/ rt'.binary = "piper"
           /\ t.at \in {"download", "swap"} => rt'.binary = "none"
           /\ t.at # "done"
  PROVE  SpeechInv'
<1>1. SpeechTypes /\ KindsFit
  BY DEF SpeechInv
<1>2. /\ talk' \in [Tasks -> TaskRecords] /\ \A j \in Tasks \ {i} : talk'[j] = talk[j] /\ talk'[i] = t
  BY <1>1, GoesIs
<1>3. talk[i].kind # "speak" /\ talk[i].at \notin {"none", "done", "failed"}
  BY <1>1 DEF KindsFit, Installing, Removing
<1>4. t.at \notin {"none", "engine", "running", "ended", "failed", "probing", "reprobing", "catalog", "change", "publish"}
  BY DEF Installing, Removing
<1>5. SpeechTypes'
  BY <1>1, <1>2 DEF SpeechTypes
<1>6. talk'[i] = t
  BY <1>1, GoesIs
<1>7. Owned' /\ KindsFit'
  BY <1>2, <1>3, <1>4, <1>6, StepKeeps
<1>8. ~luck'.deaf
  BY DEF SpeechInv, Heeds, SPE!CancelHeeded
<1>9. Heeds'
  BY <1>2, <1>3, <1>4, <1>6, <1>8, HeedsStays
<1>10. CleanHolds'
  <2>1. Clean' => OnlyChanges /\ RuntimeKnown
    BY DEF SpeechInv, CleanHolds
  <2>2. Clean' => SPE!IsChange(talk[i])
    BY <1>1, <1>3, <2>1 DEF OnlyChanges, KindsFit, SPE!IsChange
  <2> QED BY <1>2, <1>3, <1>4, <1>6, <2>1, <2>2, ChangingStays
<1> QED BY <1>5, <1>7, <1>9, <1>10 DEF SpeechInv

LEMMA ChangeKeeps ==
  ASSUME SpeechInv, NEW i \in Tasks, SPE!Change(i)
  PROVE  SpeechInv'
<1> DEFINE t == talk[i]
           RtType == [binary : {"none", "piper"}, probe : {"new", "ready", "unready"}, mutex : Tasks \cup {SPE!Free}]
<1>1. t \in TaskRecords /\ UNCHANGED <<reqs, facts>> /\ luck \in Lucks /\ vox \in [Languages -> SUBSET SPE!Pair]
  BY DEF SpeechInv, SpeechTypes, SPE!Change
<1>2. rt \in RtType
  BY DEF SpeechInv, SpeechTypes
<1>3. ASSUME NEW at \in Places
      PROVE  /\ [t EXCEPT !.at = at] \in TaskRecords /\ [t EXCEPT !.at = at].at = at
             /\ [t EXCEPT !.at = at].kind = t.kind /\ [t EXCEPT !.at = at].key = t.key
  BY <1>1, MovedType
<1>4. Installing \cup Removing \cup {"recatalog", "done", "change"} \subseteq Places
  BY DEF Places
<1>5. /\ luck.early = luck.early /\ (luck' = luck => (Clean' => Clean))
      /\ SPE!Leaves(i, t, rt) \in RtType /\ SPE!Leaves(i, t, rt).binary = rt.binary
      /\ SPE!Leaves(i, t, rt).probe = rt.probe
      /\ SPE!Holds(i, t, rt) \in RtType /\ SPE!Holds(i, t, rt).binary = rt.binary
      /\ SPE!Holds(i, t, rt).probe = rt.probe
  BY <1>2 DEF SPE!Leaves, SPE!Holds, Clean
<1>6. ASSUME t.at = "change", rt' = SPE!Holds(i, t, rt), UNCHANGED <<vox, luck>>,
             NEW at \in {"unmodel", "model", "download"}, SPE!Goes(i, [t EXCEPT !.at = at]),
             at = "download" => ~(rt.binary # "none" /\ (~SPE!Local(t) \/ rt.probe # "unready"))
      PROVE  SpeechInv'
  <2>1. at \in Installing \cup Removing
    BY DEF Installing, Removing
  <2>2. SPE!IsChange(t) /\ RuntimeKnown =>
          /\ rt'.binary = "piper" => rt'.probe \in {"new", "ready"}
          /\ at \in {"download", "swap"} => rt'.binary = "none"
    BY <1>2, <1>5, <1>6 DEF SPE!Local, RuntimeKnown
  <2> QED BY ZenonT(30), <1>1, <1>3, <1>4, <1>5, <1>6, <2>1, <2>2, ChangeMoves
<1>7. ASSUME t.at = "download", SPE!Goes(i, [t EXCEPT !.at = "swap"]), rt' = [rt EXCEPT !.binary = "none"],
             UNCHANGED <<vox, luck>>
      PROVE  SpeechInv'
  <2>1. rt' \in RtType /\ rt'.binary = "none"
    BY <1>2, <1>7
  <2>2. RuntimeKnown => rt.binary = "none"
    BY <1>7 DEF RuntimeKnown
  <2> QED BY <1>1, <1>3, <1>4, <1>5, <1>7, <2>1, <2>2, ChangeMoves DEF Installing
<1>8. ASSUME t.at = "swap", NEW at \in {"done", "model"}, SPE!Goes(i, [t EXCEPT !.at = at]),
             at = "done" => t.kind = "cli_reinstall",
             rt' = [rt EXCEPT !.binary = "piper", !.probe = IF SPE!Local(t) THEN "new" ELSE @],
             UNCHANGED <<vox, luck>>
      PROVE  SpeechInv'
  <2>1. rt' \in RtType /\ rt'.binary = "piper" /\ (SPE!Local(t) => rt'.probe = "new")
    BY <1>2, <1>8
  <2>2. SPE!IsChange(t) => SPE!Local(t) /\ at # "done"
    BY <1>8 DEF SPE!IsChange, SPE!Local
  <2> QED BY ZenonT(30), <1>1, <1>3, <1>4, <1>5, <1>8, <2>1, <2>2, ChangeMoves DEF Installing
<1>9. ASSUME t.at \in {"model", "unmodel"}, NEW at \in {"config", "unconfig"}, SPE!Goes(i, [t EXCEPT !.at = at]),
             UNCHANGED <<rt, luck>>, vox' \in [Languages -> SUBSET SPE!Pair]
      PROVE  SpeechInv'
  <2>1. RuntimeKnown => (rt'.binary = "piper" => rt'.probe \in {"new", "ready"})
    BY <1>9 DEF RuntimeKnown
  <2> QED BY ZenonT(30), <1>1, <1>2, <1>3, <1>4, <1>5, <1>9, <2>1, ChangeMoves DEF Installing, Removing
<1>10. ASSUME t.at \in {"config", "unconfig"}, SPE!Goes(i, [t EXCEPT !.at = SPE!After(t)]),
              rt' = SPE!Leaves(i, t, rt), UNCHANGED luck, vox' \in [Languages -> SUBSET SPE!Pair]
       PROVE  SpeechInv'
  <2>1. SPE!After(t) \in {"recatalog", "done"} /\ (SPE!IsChange(t) => SPE!After(t) = "recatalog")
    BY DEF SPE!After, SPE!Local
  <2>2. RuntimeKnown => (rt'.binary = "piper" => rt'.probe \in {"new", "ready"})
    BY <1>5, <1>10 DEF RuntimeKnown
  <2> QED BY ZenonT(30), <1>1, <1>3, <1>4, <1>5, <1>10, <2>1, <2>2, ChangeMoves DEF Installing, Removing
<1>11. ASSUME t.at \in Installing \cup Removing, SPE!Fails(i, t)
       PROVE  SpeechInv'
  <2>1. /\ SPE!Done(t, "error") \in TaskRecords /\ SPE!Done(t, "error").at = "done"
        /\ SPE!Done(t, "error").kind = t.kind /\ SPE!Done(t, "error").key = t.key
    BY <1>1, DoneType
  <2>2. luck' \in Lucks /\ luck'.early = luck.early /\ luck'.deaf = luck.deaf /\ ~Clean'
    BY <1>1, <1>11, CostType DEF SPE!Fails, Clean
  <2>3. SPE!Goes(i, SPE!Done(t, "error")) /\ rt' = SPE!Leaves(i, t, rt) /\ vox' = vox
    BY <1>11 DEF SPE!Fails
  <2> QED BY <1>1, <1>5, <1>11, <2>1, <2>2, <2>3, ChangeMoves
<1>12. ASSUME NEW file \in SPE!Pair
       PROVE  /\ SPE!download(t.lang, file) => vox' \in [Languages -> SUBSET SPE!Pair]
              /\ SPE!remove_file(t.lang, file) => vox' \in [Languages -> SUBSET SPE!Pair]
  BY <1>1 DEF SPE!download, SPE!remove_file
<1>13. "model" \in SPE!Pair /\ "config" \in SPE!Pair
  BY DEF SPE!Pair
<1>14. CASE SPE!install_runtime(i, t) /\ UNCHANGED <<vox, luck>>
  BY <1>7, <1>8, <1>14 DEF SPE!install_runtime
<1>15. CASE t.at = "change" /\ UNCHANGED <<vox, luck>> /\ rt' = SPE!Holds(i, t, rt)
            /\ SPE!Goes(i, [t EXCEPT !.at =
                 IF ~(t.kind \in {"install", "cli_install"}) THEN "unmodel"
                   ELSE IF rt.binary # "none" /\ (~SPE!Local(t) \/ rt.probe # "unready") THEN "model" ELSE "download"])
  <2> DEFINE at == IF ~(t.kind \in {"install", "cli_install"}) THEN "unmodel"
                     ELSE IF rt.binary # "none" /\ (~SPE!Local(t) \/ rt.probe # "unready") THEN "model" ELSE "download"
  <2>1. at \in {"unmodel", "model", "download"}
        /\ (at = "download" => ~(rt.binary # "none" /\ (~SPE!Local(t) \/ rt.probe # "unready")))
    OBVIOUS
  <2>2. SPE!Goes(i, [t EXCEPT !.at = at])
    BY <1>15
  <2> HIDE DEF at
  <2> QED BY <1>6, <1>15, <2>1, <2>2
<1>16. CASE t.at \in Installing \cup Removing /\ SPE!Fails(i, t)
  BY <1>11, <1>16
<1>17. CASE t.at = "model" /\ SPE!Goes(i, [t EXCEPT !.at = "config"]) /\ UNCHANGED <<rt, luck>> /\ SPE!download(t.lang, "model")
  BY <1>9, <1>12, <1>13, <1>17
<1>18. CASE t.at = "unmodel" /\ SPE!Goes(i, [t EXCEPT !.at = "unconfig"]) /\ UNCHANGED <<rt, luck>> /\ SPE!remove_file(t.lang, "model")
  BY <1>9, <1>12, <1>13, <1>18
<1>19. CASE t.at = "config" /\ SPE!Goes(i, [t EXCEPT !.at = SPE!After(t)]) /\ UNCHANGED luck
            /\ SPE!download(t.lang, "config") /\ rt' = SPE!Leaves(i, t, rt)
  BY <1>10, <1>12, <1>13, <1>19
<1>20. CASE t.at = "unconfig" /\ SPE!Goes(i, [t EXCEPT !.at = SPE!After(t)]) /\ UNCHANGED luck
            /\ SPE!remove_file(t.lang, "config") /\ rt' = SPE!Leaves(i, t, rt)
  BY <1>10, <1>12, <1>13, <1>20
<1> QED BY <1>14, <1>15, <1>16, <1>17, <1>18, <1>19, <1>20 DEF SPE!Change, Installing, Removing

LEMMA PublishKeeps ==
  ASSUME SpeechInv, NEW i \in Tasks, SPE!Publish(i)
  PROVE  SpeechInv'
<1> DEFINE t == talk[i]
<1>1. SpeechTypes /\ KindsFit /\ t \in TaskRecords /\ t.at = "publish" /\ t.kind # "speak"
  BY DEF SpeechInv, SpeechTypes, KindsFit, SPE!Publish
<1>2. facts' = t.voices /\ SPE!Goes(i, SPE!Done(t, "changed")) /\ UNCHANGED <<reqs, vox, rt, luck>>
  BY DEF SPE!Publish
<1>3. /\ talk' \in [Tasks -> TaskRecords] /\ \A j \in Tasks \ {i} : talk'[j] = talk[j]
      /\ talk'[i].at = "done" /\ talk'[i].kind = t.kind /\ talk'[i].key = t.key
  BY <1>1, <1>2, DoneType, GoesIs
<1>4. SpeechTypes'
  BY <1>1, <1>2, <1>3 DEF SpeechTypes, TaskRecords
<1>5. Owned' /\ KindsFit'
  BY <1>1, <1>3, StepKeeps DEF Installing, Removing
<1>6. ~luck'.deaf /\ (Clean' => Clean)
  BY <1>2 DEF SpeechInv, Heeds, SPE!CancelHeeded, Clean
<1>7. Heeds'
  BY <1>1, <1>2, <1>3, <1>6, HeedsStays
<1>8. CleanHolds'
  <2>1. Clean' => RuntimeKnown /\ t.voices = Spoken
    BY <1>1, <1>6 DEF SpeechInv, CleanHolds, FactsHold
  <2>2. Spoken' = Spoken
    BY <1>2, SpokenSame
  <2> QED BY <1>1, <1>2, <1>3, <1>6, <2>1, <2>2, ChangingStays DEF RuntimeKnown
<1> QED BY <1>4, <1>5, <1>7, <1>8 DEF SpeechInv

-----------------------------------------------------------------------------
(* The theorem *)

LEMMA SpeechStarts ==
  ASSUME SPE!Init
  PROVE  SpeechInv
<1>1. /\ SPE!Task("none", SPE!Free, SPE!Free) \in TaskRecords
      /\ SPE!Task("none", SPE!Free, SPE!Free).kind = "none" /\ SPE!Task("none", SPE!Free, SPE!Free).key = SPE!Free
  BY TaskType DEF Kinds
<1>2. "none" \in Places
  BY DEF Places
<1> DEFINE r == [SPE!Task("none", SPE!Free, SPE!Free) EXCEPT !.at = "none"]
<1>3. r \in TaskRecords /\ r.at = "none" /\ r.kind = "none" /\ r.key = SPE!Free
  BY <1>1, <1>2, MovedType
<1>4. talk = [i \in Tasks |-> r]
  BY DEF SPE!Init, Tasks
<1> HIDE DEF r
<1>5. /\ talk \in [Tasks -> TaskRecords]
      /\ \A i \in Tasks : talk[i].at = "none" /\ talk[i].kind = "none" /\ talk[i].key = SPE!Free
  BY <1>3, <1>4
<1>6. /\ DOMAIN reqs = {} /\ reqs \in [DOMAIN reqs -> Registrations]
  BY DEF SPE!Init
<1>7. /\ luck.early = {} /\ ~luck.deaf /\ luck \in Lucks
  <2>1. luck = [odds |-> 0, asked |-> {}, early |-> {}, deaf |-> FALSE, overlap |-> FALSE, excused |-> FALSE]
    BY DEF SPE!Init
  <2> QED BY <2>1 DEF Lucks
<1>8. facts = Spoken /\ vox \in [Languages -> SUBSET SPE!Pair]
  BY DEF SPE!Init, Spoken
<1>9. facts \in SUBSET Tongues
  BY <1>8 DEF Spoken, SPE!languages_in, SPE!piper_voices, Tongues
<1>10. /\ rt \in [binary : {"none", "piper"}, probe : {"new", "ready", "unready"}, mutex : Tasks \cup {SPE!Free}]
       /\ rt.probe = "new"
  BY DEF SPE!Init
<1>11. SpeechTypes
  BY <1>5, <1>6, <1>7, <1>8, <1>9, <1>10 DEF SpeechTypes
<1>12. Owned /\ KindsFit /\ Heeds
  BY <1>5, <1>7 DEF Owned, KindsFit, Heeds, SPE!CancelHeeded, Installing, Removing
<1>13. CleanHolds
  BY <1>5, <1>8, <1>10 DEF CleanHolds, OnlyChanges, RuntimeKnown, FactsHold, Active, SPE!IsChange
<1> QED BY <1>11, <1>12, <1>13 DEF SpeechInv

(* For any number of requests, voices and failures: no audio answers a        *)
(* request whose cancel came before its process ended and was kept (poll,     *)
(* cancel, register); and once every request is done the topology's facts are *)
(* the languages the relay speaks, unless changes overlapped or failed, or    *)
(* the voices changed outside the relay (change_speech_voice).                *)
THEOREM SpeechAlwaysAccounted == SPE!Spec => []SpeechAccounted
<1>1. SPE!Init => SpeechInv
  BY SpeechStarts
<1>2. SpeechInv /\ [SPE!Next]_SPE!speechVars => SpeechInv'
  <2> SUFFICES ASSUME SpeechInv, [SPE!Next]_SPE!speechVars PROVE SpeechInv'
    OBVIOUS
  <2>1. CASE UNCHANGED SPE!speechVars
    <3>1. UNCHANGED <<talk, reqs, vox, rt, facts, luck>>
      BY <2>1 DEF SPE!speechVars
    <3>2. SpeechTypes' /\ Owned' /\ KindsFit'
      BY <3>1 DEF SpeechInv, SpeechTypes, Owned, KindsFit
    <3>3. Heeds'
      BY <3>1 DEF SpeechInv, Heeds, Standing, SPE!CancelHeeded
    <3>4. CleanHolds'
      BY <3>1 DEF SpeechInv, CleanHolds, Clean, OnlyChanges, Active, SPE!IsChange, RuntimeKnown, FactsHold,
                  Untouched, Spoken, SPE!languages_in, SPE!piper_voices
    <3> QED BY <3>2, <3>3, <3>4 DEF SpeechInv
  <2>2. CASE SPE!Next
    <3>3. ASSUME NEW i \in Tasks,
                 SPE!Catalog(i) \/ SPE!Probe(i) \/ SPE!Synthesize(i) \/ SPE!PollChild(i) \/ SPE!Answers(i)
                   \/ SPE!Change(i) \/ SPE!Publish(i)
          PROVE  SpeechInv'
      BY <3>3, CatalogKeeps, ProbeKeeps, SynthesizeKeeps, PollChildKeeps, AnswersKeeps, ChangeKeeps,
         PublishKeeps
    <3> QED BY <2>2, <3>3, ArrivesKeeps, CancelKeeps DEF SPE!Next, Tasks
  <2> QED BY <2>1, <2>2
<1>3. SpeechInv => SpeechAccounted
  <2> SUFFICES ASSUME SpeechInv PROVE SPE!CancelHeeded /\ SPE!FactsFollowVoices
    BY DEF SpeechAccounted
  <2>1. SPE!CancelHeeded
    BY DEF SpeechInv, Heeds
  <2>2. SPE!FactsFollowVoices
    <3> SUFFICES ASSUME \A i \in Tasks : talk[i].at \in {"none", "done"}, Clean
                 PROVE  facts = SPE!languages_in(SPE!piper_voices, SPE!Probed \in {"new", "ready"})
      BY DEF SPE!FactsFollowVoices, Tasks, Clean
    <3>1. facts = Spoken
      BY FactsOfRest DEF Active
    <3>2. SPE!Probed \in {"new", "ready"} <=> rt.binary = "piper"
      BY DEF SpeechInv, SpeechTypes, CleanHolds, RuntimeKnown, SPE!Probed
    <3> QED BY <3>1, <3>2 DEF Spoken, SPE!languages_in
  <2> QED BY <2>1, <2>2
<1> QED BY <1>1, <1>2, <1>3, PTL DEF SPE!Spec

-----------------------------------------------------------------------------
(* Uploads: types *)

UpStates == {"idle", "begin", "send", "chunk", "finish", "restart", "interrupted"}
UpKinds == {"begin", "chunk", "finish", "cancel"}
UpRefs == Nat \X Nat
UpTargets == Batches \X Nat
UpBatch == [at : UpStates, id : Nat, n : Nat, run : Nat, dismissed : BOOLEAN]
UpJob == [b : Batches, kind : UpKinds, id : Nat, n : Nat, target : UpTargets, run : Nat,
          at : {"sent", "start", "staged"}, seen : Nat]
UpAnswer == [b : Batches, kind : UpKinds, ok : BOOLEAN, id : Nat, n : Nat, run : Nat, of : Nat]
UpPending == [b : Batches, file : Nat, next : Nat, n : Nat, run : Nat]
UpStore == [staged : SUBSET Nat, objects : SUBSET UpRefs, index : SUBSET UpRefs]
UpMishap == [odds : Nat, ids : Nat, runs : Nat, excused : SUBSET Nat, over : SUBSET UpRefs,
             told : SUBSET UpRefs, crossed : BOOLEAN]
UpSession(s) == DOMAIN s = {"target", "sequence", "current", "body", "late"} /\ s.target \in UpTargets
UpManager(u) ==
  /\ u = [sessions |-> u.sessions, tombs |-> u.tombs, recs |-> u.recs]
  /\ DOMAIN u.sessions \subseteq Nat \ {0} /\ u.recs \subseteq UpRefs
  /\ \A id \in DOMAIN u.sessions : UpSession(u.sessions[id]) /\ u.sessions[id].sequence \in Nat

RelayTypes == UpManager(upl) /\ store \in UpStore /\ mishap \in UpMishap
TrafficTypes == jobs \subseteq UpJob /\ answers \subseteq UpAnswer
PhoneTypes == batch \in [Batches -> UpBatch] /\ fifo \in Seq(UpPending) /\ row \in [Batches -> Nat]

-----------------------------------------------------------------------------
(* Uploads: the invariant *)

(* Identifiers and runs are handed out in order. *)
Numbered ==
  /\ \A id \in UP!Ids : id <= mishap.ids
  /\ \A b \in Batches : batch[b].id <= mishap.ids /\ batch[b].run <= mishap.runs
  /\ \A j \in jobs : j.id <= mishap.ids /\ j.run <= mishap.runs
  /\ \A a \in answers : a.id <= mishap.ids /\ a.run <= mishap.runs

(* A target is of a generation that was. *)
Aimed ==
  /\ \A id \in UP!Ids : upl.sessions[id].target[2] <= row[upl.sessions[id].target[1]]
  /\ \A j \in jobs : j.target[1] = j.b /\ j.target[2] <= row[j.b]

BatchesFit ==
  \A b \in Batches :
    /\ batch[b].dismissed => batch[b].at \in {"begin", "interrupted"} /\ batch[b].id = 0
    /\ batch[b].at = "begin" => batch[b].id = 0

(* A pending chunk is of a batch that waits for it, which has no other. *)
FifoFits ==
  /\ \A i \in 1 .. Len(fifo) : batch[fifo[i].b].at = "chunk"
  /\ \A i, k \in 1 .. Len(fifo) : fifo[i].b = fifo[k].b => i = k

(* A begin is of a batch that waits for it, and is under way once. *)
BeginsFit ==
  /\ \A j \in jobs : j.kind = "begin" => batch[j.b].at = "begin" /\ batch[j.b].run = j.run
  /\ \A a \in answers : a.kind = "begin" => batch[a.b].at = "begin" /\ batch[a.b].run = a.run
  /\ \A j, k \in jobs : j.kind = "begin" /\ k.kind = "begin" /\ j.b = k.b => j = k
  /\ \A a, c \in answers : a.kind = "begin" /\ c.kind = "begin" /\ a.b = c.b => a = c
  /\ \A j \in jobs, a \in answers : j.kind = "begin" /\ a.kind = "begin" => j.b # a.b

(* A run has one session: whatever else it sent is about that one. *)
RunsFit ==
  /\ \A j \in jobs : j.run = batch[j.b].run /\ j.kind # "begin" =>
       batch[j.b].at # "begin" /\ batch[j.b].id \in {0, j.id}
  /\ \A a \in answers : a.run = batch[a.b].run /\ a.kind # "begin" => batch[a.b].at # "begin"

(* A session that no cancel need look for. *)
Lost(id, b) == id \notin UP!Ids \/ upl.sessions[id].target # <<b, row[b]>>

(* A cancel or a successful finish that was answered left no session of the  *)
(* current target; a cancel under way names the target of its session.       *)
AnswersFit ==
  /\ \A a \in answers : a.kind = "cancel" /\ a.run = batch[a.b].run /\ batch[a.b].id # 0 =>
       Lost(batch[a.b].id, a.b)
  /\ \A a \in answers : a.kind = "finish" /\ a.ok =>
       a.id \notin UP!Ids /\ (a.run = batch[a.b].run => batch[a.b].id \in {0, a.id})
  /\ \A j \in jobs : j.kind = "cancel" /\ ~Lost(j.id, j.b) => j.target = <<j.b, row[j.b]>>

(* A session that is not excused is known to its batch, or the answer that    *)
(* names it or a cancel that will end it is under way.                       *)
Known(id, b) ==
  \/ batch[b].id = id
  \/ \E a \in answers : a.kind = "begin" /\ a.ok /\ a.id = id /\ a.b = b
  \/ \E j \in jobs : j.kind = "cancel" /\ j.id = id /\ j.target = <<b, row[b]>>
AllKnown ==
  \A id \in UP!Ids \ mishap.excused, b \in Batches :
    upl.sessions[id].target = <<b, row[b]>> => Known(id, b)

(* What is recorded is on disk and in the index, and what was told, or is     *)
(* about to be, is recorded until its lifetime is over.                      *)
Recorded ==
  /\ upl.recs \subseteq store.objects /\ upl.recs \subseteq store.index
  /\ mishap.told \ mishap.over \subseteq upl.recs
  /\ \A a \in answers : a.kind = "finish" /\ a.ok => UP!Refs(a.id) \ mishap.over \subseteq upl.recs

UploadTypes == RelayTypes /\ TrafficTypes /\ PhoneTypes
UploadFits == Numbered /\ Aimed /\ BatchesFit /\ FifoFits /\ BeginsFit /\ RunsFit /\ AnswersFit /\ AllKnown
UploadInv == UploadTypes /\ UploadFits /\ Recorded

-----------------------------------------------------------------------------
(* Uploads: requests on the relay *)

(* A request moves on within its task. *)
LEMMA MoveKeeps ==
  ASSUME UploadInv, NEW j \in jobs, NEW k \in UpJob,
         k.b = j.b, k.kind = j.kind, k.id = j.id, k.target = j.target, k.run = j.run,
         jobs' = (jobs \ {j}) \cup {k},
         UNCHANGED <<upl, store, answers, batch, fifo, row, mishap>>
  PROVE  UploadInv'
<1>1. UploadTypes'
  BY DEF UploadInv, UploadTypes, RelayTypes, TrafficTypes, PhoneTypes
<1>2. Numbered' /\ Aimed' /\ BatchesFit' /\ FifoFits'
  BY DEF UploadInv, UploadFits, Numbered, Aimed, BatchesFit, FifoFits, UP!Ids
<1>3. BeginsFit' /\ RunsFit'
  BY DEF UploadInv, UploadFits, BeginsFit, RunsFit
<1>4. AnswersFit'
  BY DEF UploadInv, UploadFits, AnswersFit, Lost, UP!Ids
<1>5. AllKnown'
  BY DEF UploadInv, UploadFits, AllKnown, Known, UP!Ids
<1>6. Recorded'
  BY DEF UploadInv, Recorded, UP!Refs
<1> QED BY <1>1, <1>2, <1>3, <1>4, <1>5, <1>6 DEF UploadInv, UploadFits

(* What every answered request but a begin does to the invariant: sessions   *)
(* only go, and a cancel leaves none of its target.                          *)
Thins(u) ==
  /\ DOMAIN u.sessions \subseteq UP!Ids
  /\ \A id \in DOMAIN u.sessions : u.sessions[id].target = upl.sessions[id].target
Excuses ==
  /\ mishap'.ids = mishap.ids /\ mishap'.runs = mishap.runs
  /\ mishap.excused \subseteq mishap'.excused

LEMMA AnswerKeeps ==
  ASSUME UploadInv, NEW j \in jobs, UploadTypes', j.kind # "begin",
         jobs' = jobs \ {j}, Thins(upl'), Excuses, UNCHANGED <<batch, fifo, row>>,
         NEW a, a.b = j.b, a.kind = j.kind, a.run = j.run, a.id \in {0, j.id},
         answers' \in {answers, answers \cup {a}},
         j.kind = "cancel" => j.id \notin UP!Ids' \/ upl.sessions[j.id].target # j.target,
         j.kind = "finish" /\ a.ok => a.id = j.id /\ j.id \notin UP!Ids'
  PROVE  UploadFits'
<1>1. /\ UP!Ids' \subseteq UP!Ids
      /\ \A id \in UP!Ids' : upl'.sessions[id].target = upl.sessions[id].target
      /\ \A x \in answers' : x \in answers \/ x = a
      /\ \A id, b : Lost(id, b) => Lost(id, b)'
  BY DEF Thins, UP!Ids, Lost
<1>2. Numbered' /\ Aimed' /\ BatchesFit' /\ FifoFits'
  BY <1>1 DEF UploadInv, UploadFits, Numbered, Aimed, BatchesFit, FifoFits, Excuses, UploadTypes, RelayTypes, UpMishap
<1>3. BeginsFit' /\ RunsFit'
  BY <1>1 DEF UploadInv, UploadFits, BeginsFit, RunsFit
<1>4. AnswersFit'
  <2>1. j.kind = "cancel" => Lost(j.id, j.b)'
    BY <1>1 DEF UploadInv, UploadFits, AnswersFit, Lost
  <2>2. j.kind = "cancel" /\ j.run = batch[j.b].run /\ batch[j.b].id # 0 => Lost(batch[j.b].id, j.b)'
    BY <2>1 DEF UploadInv, UploadFits, RunsFit
  <2>3. j.kind = "finish" /\ a.ok /\ j.run = batch[j.b].run => batch[j.b].id \in {0, a.id}
    BY DEF UploadInv, UploadFits, RunsFit
  <2> QED BY <1>1, <2>2, <2>3 DEF UploadInv, UploadFits, AnswersFit
<1>5. AllKnown'
  <2> SUFFICES ASSUME NEW id \in UP!Ids' \ mishap'.excused, NEW b \in Batches,
                      upl'.sessions[id].target = <<b, row[b]>>
               PROVE  Known(id, b)'
    BY DEF AllKnown
  <2>1. Known(id, b) /\ upl.sessions[id].target = <<b, row[b]>>
    BY <1>1 DEF UploadInv, UploadFits, AllKnown, Excuses
  <2>2. j.kind = "cancel" /\ j.id = id => j.target # <<b, row[b]>>
    BY <2>1
  <2> QED BY <2>1, <2>2, <1>1 DEF Known
<1> QED BY <1>2, <1>3, <1>4, <1>5 DEF UploadFits

LEMMA AnswerType ==
  ASSUME NEW j \in UpJob, NEW ok \in BOOLEAN, NEW id \in Nat, NEW n \in Nat
  PROVE  LET a == UP!Answer(j, ok, id, n) IN
         /\ a \in UpAnswer
         /\ a.b = j.b /\ a.kind = j.kind /\ a.run = j.run /\ a.id = id /\ a.ok = ok
BY DEF UP!Answer, UpJob, UpAnswer

LEMMA ExcusedType ==
  ASSUME mishap \in UpMishap, NEW ids \in SUBSET Nat, UP!Excused(ids)
  PROVE  /\ mishap' \in UpMishap
         /\ Excuses /\ mishap'.told = mishap.told /\ mishap'.over = mishap.over
         /\ ids \subseteq mishap'.excused
<1>0. mishap.odds \in Nat /\ mishap.excused \in SUBSET Nat
  BY DEF UpMishap
<1>1. mishap.odds + 1 \in Nat /\ (mishap.excused \cup ids) \in SUBSET Nat
  <2>1. mishap.odds + 1 \in Nat
    BY <1>0
  <2>2. (mishap.excused \cup ids) \in SUBSET Nat
    BY <1>0, Zenon
  <2> QED BY <2>1, <2>2
<1>2. mishap' = [mishap EXCEPT !.odds = mishap.odds + 1, !.excused = mishap.excused \cup ids]
  BY DEF UP!Excused
<1>3. mishap' \in UpMishap
  BY <1>1, <1>2 DEF UpMishap
<1> QED BY <1>1, <1>2, <1>3 DEF UpMishap, Excuses

LEMMA CostsType ==
  ASSUME mishap \in UpMishap, UP!Costs
  PROVE  /\ mishap' \in UpMishap /\ Excuses
         /\ mishap'.told = mishap.told /\ mishap'.over = mishap.over /\ mishap'.excused = mishap.excused
<1>1. mishap.odds + 1 \in Nat
  BY DEF UpMishap
<1>2. mishap' = [mishap EXCEPT !.odds = mishap.odds + 1]
  BY DEF UP!Costs
<1>3. mishap' \in UpMishap
  BY <1>1, <1>2 DEF UpMishap
<1> QED BY <1>1, <1>2, <1>3 DEF UpMishap, Excuses

LEMMA ReplyFacts ==
  ASSUME UploadInv, NEW j \in jobs, NEW ok \in BOOLEAN, NEW id \in Nat, NEW n \in Nat,
         UP!Reply(j, ok, id, n)
  PROVE  /\ jobs' = jobs \ {j}
         /\ answers' \in {answers, answers \cup {UP!Answer(j, ok, id, n)}}
         /\ mishap' \in UpMishap /\ Excuses /\ TrafficTypes'
         /\ mishap'.told = mishap.told /\ mishap'.over = mishap.over
<1>1. j \in UpJob /\ j.id \in Nat /\ mishap \in UpMishap
  BY DEF UploadInv, UploadTypes, TrafficTypes, RelayTypes, UpJob
<1>2. {id, j.id} \in SUBSET Nat
  BY <1>1
<1>3. /\ jobs' = jobs \ {j}
      /\ answers' \in {answers, answers \cup {UP!Answer(j, ok, id, n)}}
      /\ UNCHANGED mishap \/ UP!Excused({id, j.id})
  BY DEF UP!Reply
<1>4. UP!Answer(j, ok, id, n) \in UpAnswer
  BY <1>1, AnswerType
<1>5. TrafficTypes'
  BY <1>3, <1>4 DEF UploadInv, UploadTypes, TrafficTypes
<1>6. /\ mishap' \in UpMishap /\ Excuses
      /\ mishap'.told = mishap.told /\ mishap'.over = mishap.over
  BY <1>1, <1>2, <1>3, ExcusedType DEF Excuses
<1> QED BY <1>3, <1>5, <1>6

(* A request that publishes nothing is answered. *)
LEMMA DoneKeeps ==
  ASSUME UploadInv, NEW j \in jobs, j.kind # "begin", NEW ok \in BOOLEAN, NEW id \in {0, j.id}, NEW n \in Nat,
         UP!Reply(j, ok, id, n), UpManager(upl'), Thins(upl'), upl'.recs = upl.recs,
         store' \in UpStore, store'.objects = store.objects, store'.index = store.index,
         UNCHANGED <<batch, fifo, row>>,
         j.kind = "cancel" => j.id \notin UP!Ids' \/ upl.sessions[j.id].target # j.target,
         j.kind = "finish" => ~ok
  PROVE  UploadInv'
<1> DEFINE a == UP!Answer(j, ok, id, n)
<1>1. j \in UpJob /\ id \in Nat
  BY DEF UploadInv, UploadTypes, TrafficTypes, UpJob
<1>2. /\ jobs' = jobs \ {j} /\ answers' \in {answers, answers \cup {a}}
      /\ mishap' \in UpMishap /\ Excuses /\ TrafficTypes'
      /\ mishap'.told = mishap.told /\ mishap'.over = mishap.over
  BY <1>1, ReplyFacts
<1>3. a.b = j.b /\ a.kind = j.kind /\ a.run = j.run /\ a.id = id /\ a.ok = ok
  BY <1>1, AnswerType
<1> HIDE DEF a
<1>4. UploadTypes'
  BY <1>2 DEF UploadInv, UploadTypes, RelayTypes, PhoneTypes
<1>5. UploadFits'
  BY <1>2, <1>3, <1>4, AnswerKeeps
<1>6. Recorded'
  <2>1. \A x \in answers' : x \in answers \/ x = a
    BY <1>2
  <2> QED BY <2>1, <1>2, <1>3 DEF UploadInv, Recorded, UP!Refs
<1> QED BY <1>4, <1>5, <1>6 DEF UploadInv

LEMMA DroppedType ==
  ASSUME UpManager(upl), NEW id
  PROVE  LET u == UP!Dropped(upl, id) IN
         /\ UpManager(u) /\ Thins(u) /\ u.recs = upl.recs /\ id \notin DOMAIN u.sessions
<1> DEFINE f == [i \in DOMAIN upl.sessions \ {id} |-> upl.sessions[i]]
<1>1. UP!Dropped(upl, id) = [sessions |-> f, tombs |-> upl.tombs, recs |-> upl.recs]
  BY DEF UP!Dropped, UP!Without, UpManager
<1>2. /\ DOMAIN f = DOMAIN upl.sessions \ {id}
      /\ \A i \in DOMAIN f : f[i] = upl.sessions[i]
  OBVIOUS
<1> HIDE DEF f
<1> QED BY <1>1, <1>2 DEF UpManager, Thins, UP!Ids

LEMMA DiscardedType ==
  ASSUME UpManager(upl), NEW id
  PROVE  LET u == UP!discard_locked(upl, id) IN
         /\ UpManager(u) /\ Thins(u) /\ u.recs = upl.recs /\ id \notin DOMAIN u.sessions
         /\ UP!Ids \subseteq DOMAIN u.sessions \cup {id}
<1>1. CASE id \notin DOMAIN upl.sessions
  BY <1>1 DEF UP!discard_locked, Thins, UP!Ids
<1>2. CASE id \in DOMAIN upl.sessions
  <2> DEFINE d == UP!Dropped(upl, id)
             t == UP!With(d.tombs, id, upl.sessions[id].target)
  <2>1. UpManager(d) /\ Thins(d) /\ d.recs = upl.recs /\ id \notin DOMAIN d.sessions
    BY DroppedType
  <2>2. DOMAIN d.sessions = UP!Ids \ {id}
    BY DEF UP!Dropped, UP!Without, UpManager, UP!Ids
  <2>3. UP!discard_locked(upl, id) = [d EXCEPT !.tombs = t]
    BY <1>2 DEF UP!discard_locked
  <2> HIDE DEF d, t
  <2>4. [d EXCEPT !.tombs = t] = [sessions |-> d.sessions, tombs |-> t, recs |-> d.recs]
    BY <2>1 DEF UpManager
  <2> QED BY <2>1, <2>2, <2>3, <2>4 DEF UpManager, Thins
<1> QED BY <1>1, <1>2

LEMMA UnstagedType ==
  ASSUME store \in UpStore, NEW id, UP!Unstaged(id)
  PROVE  store' \in UpStore /\ store'.objects = store.objects /\ store'.index = store.index
<1>1. store' = [store EXCEPT !.staged = store.staged \ {id}]
  BY DEF UP!Unstaged
<1>2. store.staged \ {id} \in SUBSET Nat
  BY DEF UpStore
<1> QED BY <1>1, <1>2 DEF UpStore

LEMMA CancelFacts ==
  ASSUME UpManager(upl), store \in UpStore, NEW id, NEW target, UP!cancel(id, target)
  PROVE  /\ UpManager(upl') /\ Thins(upl') /\ upl'.recs = upl.recs
         /\ store' \in UpStore /\ store'.objects = store.objects /\ store'.index = store.index
         /\ id \notin UP!Ids' \/ upl.sessions[id].target # target
<1>1. CASE UP!CancelOutcome(id, target) = "ok"
  <2>1. upl' = UP!discard_locked(upl, id) /\ UP!Unstaged(id)
    BY <1>1 DEF UP!cancel
  <2> QED BY <2>1, DiscardedType, UnstagedType DEF UP!Ids
<1>2. CASE UP!CancelOutcome(id, target) # "ok"
  <2>1. upl' = upl /\ store' = store
    BY <1>2 DEF UP!cancel
  <2>2. id \notin UP!Ids \/ upl.sessions[id].target # target
    BY <1>2 DEF UP!CancelOutcome
  <2> QED BY <2>1, <2>2 DEF Thins, UP!Ids
<1> QED BY <1>1, <1>2

LEMMA RouteKeeps ==
  ASSUME UploadInv, NEW j \in jobs, UP!Route(j), UNCHANGED <<batch, fifo, row>>
  PROVE  UploadInv'
<1> DEFINE k == [j EXCEPT !.at = "start", !.seen = row[j.b]]
<1>1. j \in UpJob /\ row[j.b] \in Nat
  BY DEF UploadInv, UploadTypes, TrafficTypes, PhoneTypes, UpJob
<1>2. k \in UpJob
  BY <1>1 DEF UpJob
<1>3. k.b = j.b /\ k.kind = j.kind /\ k.id = j.id /\ k.target = j.target /\ k.run = j.run
  BY <1>1 DEF UpJob
<1>4. jobs' = (jobs \ {j}) \cup {k} /\ UNCHANGED <<upl, store, answers, mishap>>
  BY DEF UP!Route
<1> HIDE DEF k
<1> QED BY <1>2, <1>3, <1>4, MoveKeeps

LEMMA StagedTargetKeeps ==
  ASSUME UploadInv, NEW j \in jobs, UP!staged_target(j), UNCHANGED <<batch, fifo, row>>
  PROVE  UploadInv'
<1>1. j \in UpJob /\ j.kind = "chunk" /\ UpManager(upl) /\ store \in UpStore
  BY DEF UploadInv, UploadTypes, TrafficTypes, RelayTypes, UP!staged_target
<1>2. CASE j.id \in UP!Ids /\ ~upl.sessions[j.id].late
  <2> DEFINE k == [j EXCEPT !.at = "staged"]
  <2>1. k \in UpJob
    BY <1>1 DEF UpJob
  <2>2. k.b = j.b /\ k.kind = j.kind /\ k.id = j.id /\ k.target = j.target /\ k.run = j.run
    BY <1>1 DEF UpJob
  <2>3. jobs' = (jobs \ {j}) \cup {k} /\ UNCHANGED <<upl, store, answers, mishap>>
    BY <1>2 DEF UP!staged_target
  <2> HIDE DEF k
  <2> QED BY <2>1, <2>2, <2>3, MoveKeeps
<1>3. CASE ~(j.id \in UP!Ids /\ ~upl.sessions[j.id].late)
  <2>1. upl' = UP!Dropped(upl, j.id) /\ UP!Unstaged(j.id) /\ UP!Reply(j, FALSE, 0, 0)
    BY <1>3 DEF UP!staged_target, UP!NoId
  <2>2. /\ UpManager(upl') /\ Thins(upl') /\ upl'.recs = upl.recs
        /\ store' \in UpStore /\ store'.objects = store.objects /\ store'.index = store.index
    BY <1>1, <2>1, DroppedType, UnstagedType
  <2>3. FALSE \in BOOLEAN /\ 0 \in {0, j.id} /\ 0 \in Nat
    OBVIOUS
  <2> QED BY <1>1, <2>1, <2>2, <2>3, DoneKeeps
<1> QED BY <1>2, <1>3

LEMMA StoredType ==
  ASSUME UpManager(upl), NEW id \in UP!Ids, NEW chunk
  PROVE  LET s == UP!Stored(upl.sessions[id], chunk)
             u == [upl EXCEPT !.sessions[id] = s]
         IN  /\ s.sequence \in Nat
             /\ UpManager(u) /\ Thins(u) /\ u.recs = upl.recs
<1> DEFINE o == upl.sessions[id]
           s == UP!Stored(o, chunk)
           f == [upl.sessions EXCEPT ![id] = s]
<1>1. UpSession(o) /\ o.sequence \in Nat
  BY DEF UpManager, UP!Ids
<1>2. s.sequence \in Nat /\ s.target = o.target /\ DOMAIN s = DOMAIN o
  BY <1>1 DEF UP!Stored, UpSession
<1> HIDE DEF s
<1>3. UpSession(s)
  BY <1>1, <1>2 DEF UpSession
<1>4. DOMAIN f = UP!Ids /\ f[id] = s /\ \A i \in DOMAIN f : i # id => f[i] = upl.sessions[i]
  BY DEF UP!Ids
<1> HIDE DEF f
<1>5. [upl EXCEPT !.sessions = f] = [sessions |-> f, tombs |-> upl.tombs, recs |-> upl.recs]
  BY DEF UpManager
<1>6. UpManager([upl EXCEPT !.sessions = f]) /\ Thins([upl EXCEPT !.sessions = f])
  BY <1>2, <1>3, <1>4, <1>5 DEF UpManager, Thins, UP!Ids
<1> QED BY <1>2, <1>5, <1>6 DEF f, s

LEMMA ChunkKeeps ==
  ASSUME UploadInv, NEW j \in jobs, UP!chunk_binary(j), UNCHANGED <<batch, fifo, row>>
  PROVE  UploadInv'
<1>1. j \in UpJob /\ j.kind = "chunk" /\ UpManager(upl) /\ store \in UpStore
  BY DEF UploadInv, UploadTypes, TrafficTypes, RelayTypes, UP!chunk_binary
<1> DEFINE Ends(ok, n) ==
             /\ UP!Reply(j, ok, 0, n) /\ UpManager(upl') /\ Thins(upl') /\ upl'.recs = upl.recs
             /\ store' \in UpStore /\ store'.objects = store.objects /\ store'.index = store.index
<1>2. \E ok \in BOOLEAN, n \in Nat : Ends(ok, n)
  <2>1. CASE j.id \notin UP!Ids
    <3>1. UP!Reply(j, FALSE, 0, 0) /\ upl' = upl /\ store' = store
      BY <2>1 DEF UP!chunk_binary, UP!NoId
    <3>2. Ends(FALSE, 0)
      BY <1>1, <3>1 DEF Thins, UP!Ids
    <3> QED BY <3>2
  <2>2. CASE j.id \in UP!Ids /\ ~UP!validate_upload_target(j, upl.sessions[j.id].target)
    <3>1. UP!cancel(j.id, upl.sessions[j.id].target) /\ UP!Reply(j, FALSE, 0, 0)
      BY <2>2 DEF UP!chunk_binary, UP!NoId
    <3>2. Ends(FALSE, 0)
      BY <1>1, <3>1, CancelFacts
    <3> QED BY <3>2
  <2>3. CASE /\ j.id \in UP!Ids /\ UP!validate_upload_target(j, upl.sessions[j.id].target)
             /\ upl.sessions[j.id].late
    <3>1. upl' = UP!Dropped(upl, j.id) /\ UP!Unstaged(j.id) /\ UP!Reply(j, FALSE, 0, 0)
      BY <2>3 DEF UP!chunk_binary, UP!NoId
    <3>2. Ends(FALSE, 0)
      BY <1>1, <3>1, DroppedType, UnstagedType
    <3> QED BY <3>2
  <2>4. CASE /\ j.id \in UP!Ids /\ UP!validate_upload_target(j, upl.sessions[j.id].target)
             /\ ~upl.sessions[j.id].late /\ ~UP!InOrder(upl.sessions[j.id], j.n)
    <3>1. upl' = UP!discard_locked(upl, j.id) /\ UP!Unstaged(j.id) /\ UP!Reply(j, FALSE, 0, 0)
      BY <2>4 DEF UP!chunk_binary, UP!NoId, UP!refused
    <3>2. Ends(FALSE, 0)
      BY <1>1, <3>1, DiscardedType, UnstagedType
    <3> QED BY <3>2
  <2>5. CASE /\ j.id \in UP!Ids /\ UP!validate_upload_target(j, upl.sessions[j.id].target)
             /\ ~upl.sessions[j.id].late /\ UP!InOrder(upl.sessions[j.id], j.n)
    <3> DEFINE s == UP!Stored(upl.sessions[j.id], <<j.b, j.run, j.n>>)
    <3>1. upl' = [upl EXCEPT !.sessions[j.id] = s] /\ store' = store /\ UP!Reply(j, TRUE, 0, s.sequence)
      BY <2>5 DEF UP!chunk_binary, UP!NoId
    <3>2. s.sequence \in Nat /\ UpManager(upl') /\ Thins(upl') /\ upl'.recs = upl.recs
      BY <1>1, <2>5, <3>1, StoredType
    <3> HIDE DEF s
    <3>3. Ends(TRUE, s.sequence)
      BY <1>1, <3>1, <3>2
    <3> QED BY <3>2, <3>3
  <2> QED BY <2>1, <2>2, <2>3, <2>4, <2>5
<1>3. PICK ok \in BOOLEAN, n \in Nat : Ends(ok, n)
  BY <1>2
<1>4. 0 \in {0, j.id}
  OBVIOUS
<1> QED BY <1>1, <1>3, <1>4, DoneKeeps

LEMMA CancelActKeeps ==
  ASSUME UploadInv, NEW j \in jobs, UP!upload_cancel(j), UNCHANGED <<batch, fifo, row>>
  PROVE  UploadInv'
<1> DEFINE ok == UP!CancelOutcome(j.id, j.target) = "ok"
<1>1. j \in UpJob /\ j.kind = "cancel" /\ UpManager(upl) /\ store \in UpStore
  BY DEF UploadInv, UploadTypes, TrafficTypes, RelayTypes, UP!upload_cancel
<1>2. UP!cancel(j.id, j.target) /\ UP!Reply(j, ok, 0, 0)
  BY DEF UP!upload_cancel, UP!NoId
<1>3. ok \in BOOLEAN
  BY Zenon
<1>4. 0 \in {0, j.id} /\ 0 \in Nat
  OBVIOUS
<1> HIDE DEF ok
<1>5. /\ UpManager(upl') /\ Thins(upl') /\ upl'.recs = upl.recs
      /\ store' \in UpStore /\ store'.objects = store.objects /\ store'.index = store.index
      /\ j.id \notin UP!Ids' \/ upl.sessions[j.id].target # j.target
  BY <1>1, <1>2, CancelFacts
<1> QED BY <1>1, <1>2, <1>3, <1>4, <1>5, DoneKeeps

LEMMA RefsType ==
  ASSUME NEW id \in Nat
  PROVE  UP!Refs(id) \subseteq UpRefs
BY BatchAssumption DEF UP!Refs, UpRefs

LEMMA FinishKeeps ==
  ASSUME UploadInv, NEW j \in jobs, UP!upload_finish(j), UNCHANGED <<batch, fifo, row>>
  PROVE  UploadInv'
<1>1. /\ j \in UpJob /\ j.kind = "finish" /\ UpManager(upl) /\ store \in UpStore /\ mishap \in UpMishap
      /\ j.id \in Nat
  BY DEF UploadInv, UploadTypes, TrafficTypes, RelayTypes, UP!upload_finish, UpJob
<1>2. FALSE \in BOOLEAN /\ TRUE \in BOOLEAN /\ 0 \in {0, j.id} /\ 0 \in Nat
  OBVIOUS
<1> DEFINE lock == UP!lock_session(j.id, j.target)
<1>3. CASE ~UP!validate_upload_target(j, j.target)
  <2>1. UP!cancel(j.id, j.target) /\ UP!Reply(j, FALSE, 0, 0)
    BY <1>3 DEF UP!upload_finish, UP!NoId
  <2>2. /\ UpManager(upl') /\ Thins(upl') /\ upl'.recs = upl.recs
        /\ store' \in UpStore /\ store'.objects = store.objects /\ store'.index = store.index
    BY <1>1, <2>1, CancelFacts
  <2> QED BY <1>1, <1>2, <2>1, <2>2, DoneKeeps
<1>4. CASE UP!validate_upload_target(j, j.target) /\ lock # "ok"
  <2>1. UP!Reply(j, FALSE, 0, 0)
    BY <1>4 DEF UP!upload_finish, UP!NoId
  <2>2. \/ upl' = UP!Dropped(upl, j.id) /\ UP!Unstaged(j.id)
        \/ upl' = upl /\ store' = store
    BY <1>4 DEF UP!upload_finish
  <2>3. /\ UpManager(upl') /\ Thins(upl') /\ upl'.recs = upl.recs
        /\ store' \in UpStore /\ store'.objects = store.objects /\ store'.index = store.index
    BY <1>1, <2>2, DroppedType, UnstagedType DEF Thins, UP!Ids
  <2> QED BY <1>1, <1>2, <2>1, <2>3, DoneKeeps
<1>5. CASE UP!validate_upload_target(j, j.target) /\ lock = "ok"
  <2>1. PICK defect : 
          IF ~UP!verify_session(upl.sessions[j.id], j.b, j.run, defect)
          THEN /\ UP!refused(j.id) /\ jobs' = jobs \ {j}
               /\ answers' = answers \cup {UP!Answer(j, FALSE, 0, 0)}
               /\ (IF defect = "none" THEN UNCHANGED mishap ELSE UP!Costs)
          ELSE \E outcome \in {"ok", "failed", "unsynced"} :
               LET kept == outcome \in {"ok", "unsynced", "unwritten"} IN
               /\ upl' = [UP!discard_locked(upl, j.id) EXCEPT
                            !.recs = IF kept THEN @ \cup UP!Refs(j.id) ELSE @]
               /\ store' = [staged |-> store.staged \ {j.id},
                            objects |-> IF kept THEN store.objects \cup UP!Refs(j.id) ELSE store.objects,
                            index |-> IF outcome \in {"ok", "unsynced"} THEN upl.recs \cup UP!Refs(j.id)
                                        ELSE store.index]
               /\ jobs' = jobs \ {j}
               /\ answers' = answers \cup {UP!Answer(j, outcome \in {"ok", "unwritten"}, j.id, 0)}
               /\ IF outcome = "ok" THEN UNCHANGED mishap ELSE UP!Costs
    BY <1>5 DEF UP!upload_finish, UP!publish, UP!NoId
  <2>2. CASE ~UP!verify_session(upl.sessions[j.id], j.b, j.run, defect)
    <3> DEFINE a == UP!Answer(j, FALSE, 0, 0)
    <3>1. /\ upl' = UP!discard_locked(upl, j.id) /\ UP!Unstaged(j.id)
          /\ jobs' = jobs \ {j} /\ answers' = answers \cup {a}
          /\ UNCHANGED mishap \/ UP!Costs
      BY <2>1, <2>2 DEF UP!refused
    <3>2. a \in UpAnswer /\ a.b = j.b /\ a.kind = j.kind /\ a.run = j.run /\ a.id = 0 /\ ~a.ok
      BY <1>1, <1>2 DEF UP!Answer, UpJob, UpAnswer
    <3> HIDE DEF a
    <3>3. /\ UpManager(upl') /\ Thins(upl') /\ upl'.recs = upl.recs
          /\ store' \in UpStore /\ store'.objects = store.objects /\ store'.index = store.index
      BY <1>1, <3>1, DiscardedType, UnstagedType
    <3>4. /\ mishap' \in UpMishap /\ Excuses
          /\ mishap'.told = mishap.told /\ mishap'.over = mishap.over
      BY <1>1, <3>1, CostsType DEF Excuses
    <3>5. UploadTypes'
      BY <3>1, <3>2, <3>3, <3>4 DEF UploadInv, UploadTypes, RelayTypes, TrafficTypes, PhoneTypes
    <3>6. answers' \in {answers, answers \cup {a}} /\ a.id \in {0, j.id}
      BY <3>1, <3>2
    <3>7. UploadFits'
      BY <1>1, <3>1, <3>2, <3>3, <3>4, <3>5, <3>6, AnswerKeeps
    <3>8. Recorded'
      BY <3>1, <3>2, <3>3, <3>4 DEF UploadInv, Recorded, UP!Refs
    <3> QED BY <3>5, <3>7, <3>8 DEF UploadInv
  <2>3. CASE UP!verify_session(upl.sessions[j.id], j.b, j.run, defect)
    <3>1. PICK outcome \in {"ok", "failed", "unsynced"} :
               LET kept == outcome \in {"ok", "unsynced", "unwritten"} IN
               /\ upl' = [UP!discard_locked(upl, j.id) EXCEPT
                            !.recs = IF kept THEN @ \cup UP!Refs(j.id) ELSE @]
               /\ store' = [staged |-> store.staged \ {j.id},
                            objects |-> IF kept THEN store.objects \cup UP!Refs(j.id) ELSE store.objects,
                            index |-> IF outcome \in {"ok", "unsynced"} THEN upl.recs \cup UP!Refs(j.id)
                                        ELSE store.index]
               /\ jobs' = jobs \ {j}
               /\ answers' = answers \cup {UP!Answer(j, outcome \in {"ok", "unwritten"}, j.id, 0)}
               /\ IF outcome = "ok" THEN UNCHANGED mishap ELSE UP!Costs
      BY <2>1, <2>3
    <3> DEFINE kept == outcome \in {"ok", "unsynced"}
               refs == IF kept THEN UP!Refs(j.id) ELSE {}
               told0 == outcome \in {"ok", "unwritten"}
               a == UP!Answer(j, told0, j.id, 0)
               d == UP!discard_locked(upl, j.id)
    <3>2. told0 \in BOOLEAN
      OBVIOUS
    <3>3. told0 <=> outcome = "ok"
      BY <3>1
    <3> HIDE DEF told0
    <3>4. a \in UpAnswer /\ a.b = j.b /\ a.kind = j.kind /\ a.run = j.run /\ a.id = j.id /\ a.ok = told0
      BY <1>1, <1>2, <3>2, AnswerType
    <3>5. /\ UpManager(d) /\ Thins(d) /\ d.recs = upl.recs /\ j.id \notin DOMAIN d.sessions
      BY <1>1, DiscardedType
    <3>6. UP!Refs(j.id) \subseteq UpRefs
      BY <1>1, RefsType
    <3>7. /\ upl' = [d EXCEPT !.recs = upl.recs \cup refs]
          /\ store' = [staged |-> store.staged \ {j.id}, objects |-> store.objects \cup refs,
                       index |-> IF kept THEN upl.recs \cup refs ELSE store.index]
          /\ jobs' = jobs \ {j} /\ answers' = answers \cup {a}
          /\ UNCHANGED mishap \/ UP!Costs
      <4> HIDE DEF d
      <4>1. upl' = [d EXCEPT !.recs = IF kept THEN d.recs \cup UP!Refs(j.id) ELSE d.recs]
        BY <3>1 DEF d
      <4>2. (IF kept THEN d.recs \cup UP!Refs(j.id) ELSE d.recs) = upl.recs \cup refs
        BY <3>5
      <4>3. (IF kept THEN store.objects \cup UP!Refs(j.id) ELSE store.objects) = store.objects \cup refs
        OBVIOUS
      <4>4. (IF kept THEN upl.recs \cup UP!Refs(j.id) ELSE store.index)
              = IF kept THEN upl.recs \cup refs ELSE store.index
        OBVIOUS
      <4>5. store' = [staged |-> store.staged \ {j.id},
                      objects |-> IF kept THEN store.objects \cup UP!Refs(j.id) ELSE store.objects,
                      index |-> IF kept THEN upl.recs \cup UP!Refs(j.id) ELSE store.index]
        BY <3>1
      <4>6. jobs' = jobs \ {j} /\ answers' = answers \cup {a} /\ (UNCHANGED mishap \/ UP!Costs)
        BY <3>1 DEF told0
      <4> HIDE DEF kept, refs, a
      <4> QED BY <4>1, <4>2, <4>3, <4>4, <4>5, <4>6
    <3>8. refs \subseteq UpRefs /\ (kept => refs = UP!Refs(j.id)) /\ (~kept => refs = {})
      BY <3>6
    <3>9. told0 => kept
      BY <3>3
    <3> HIDE DEF d, a, refs, kept
    <3>10. /\ upl'.recs = upl.recs \cup refs /\ upl'.sessions = d.sessions /\ upl'.tombs = d.tombs
           /\ upl' = [sessions |-> upl'.sessions, tombs |-> upl'.tombs, recs |-> upl'.recs]
      BY <3>5, <3>7 DEF UpManager
    <3>11. UpManager(upl') /\ Thins(upl') /\ j.id \notin UP!Ids'
      BY <1>1, <3>5, <3>8, <3>10 DEF UpManager, Thins, UP!Ids
    <3>12. /\ store' \in UpStore /\ store'.objects = store.objects \cup refs
           /\ store'.index = IF kept THEN upl.recs \cup refs ELSE store.index
      BY <1>1, <3>7, <3>8 DEF UpStore, UpManager
    <3>13. /\ mishap' \in UpMishap /\ Excuses
           /\ mishap'.told = mishap.told /\ mishap'.over = mishap.over
      BY <1>1, <3>7, CostsType DEF Excuses
    <3>14. UploadTypes'
      BY <3>4, <3>7, <3>11, <3>12, <3>13 DEF UploadInv, UploadTypes, RelayTypes, TrafficTypes, PhoneTypes
    <3>15. answers' \in {answers, answers \cup {a}} /\ a.id \in {0, j.id}
      BY <3>4, <3>7
    <3>16. UploadFits'
      BY <1>1, <3>4, <3>7, <3>11, <3>13, <3>14, <3>15, AnswerKeeps
    <3>17. Recorded'
      <4>1. upl'.recs \subseteq store'.objects /\ upl'.recs \subseteq store'.index
        BY <3>8, <3>10, <3>12 DEF UploadInv, Recorded
      <4>2. a.ok => UP!Refs(a.id) \subseteq upl'.recs
        BY <3>4, <3>8, <3>9, <3>10
      <4> QED BY <4>1, <4>2, <3>7, <3>10, <3>13 DEF UploadInv, Recorded, UP!Refs
    <3> QED BY <3>14, <3>16, <3>17 DEF UploadInv
  <2> QED BY <2>2, <2>3
<1> QED BY <1>3, <1>4, <1>5

(* A begin is answered: with a new session, whose answer names it unless it  *)
(* was lost, or with none.                                                   *)
LEMMA BeginAnswerKeeps ==
  ASSUME UploadInv, NEW j \in jobs, j.kind = "begin", UploadTypes', jobs' = jobs \ {j},
         mishap'.runs = mishap.runs, mishap.ids <= mishap'.ids, mishap.excused \subseteq mishap'.excused,
         mishap'.told = mishap.told, mishap'.over = mishap.over,
         NEW a \in UpAnswer, a.b = j.b, a.kind = j.kind, a.run = j.run, a.id <= mishap'.ids,
         answers' \in {answers, answers \cup {a}},
         \A id \in UP!Ids' :
           \/ id \in UP!Ids /\ upl'.sessions[id].target = upl.sessions[id].target
           \/ /\ mishap.ids < id /\ id <= mishap'.ids /\ upl'.sessions[id].target = j.target
              /\ id \in mishap'.excused \/ (answers' = answers \cup {a} /\ a.ok /\ a.id = id),
         upl'.recs = upl.recs, store'.objects = store.objects, store'.index = store.index,
         UNCHANGED <<batch, fifo, row>>
  PROVE  UploadInv'
<1>0. mishap.ids \in Nat /\ mishap'.ids \in Nat /\ UP!Ids \subseteq Nat /\ UP!Ids' \subseteq Nat
  BY DEF UploadInv, UploadTypes, RelayTypes, UpMishap, UpManager, UP!Ids
<1>1. /\ \A x \in answers' : x \in answers \/ x = a
      /\ \A id \in UP!Ids' : id <= mishap.ids =>
           id \in UP!Ids /\ upl'.sessions[id].target = upl.sessions[id].target
      /\ answers \subseteq answers'
  BY <1>0
<1>2. \A id \in Nat : \A b : id <= mishap.ids /\ Lost(id, b) => Lost(id, b)'
  BY <1>1 DEF Lost
<1>3. /\ \A b \in Batches : batch[b].id \in Nat /\ batch[b].id <= mishap.ids
      /\ \A k \in jobs : k.id \in Nat /\ k.id <= mishap.ids /\ k.b \in Batches
      /\ \A x \in answers : x.id \in Nat /\ x.id <= mishap.ids /\ x.b \in Batches
  BY DEF UploadInv, UploadTypes, TrafficTypes, PhoneTypes, UpJob, UpAnswer, UpBatch, UploadFits, Numbered
<1>4. Numbered'
  BY <1>0, <1>1, <1>3 DEF UploadInv, UploadFits, Numbered
<1>5. Aimed' /\ BatchesFit' /\ FifoFits'
  BY <1>0, <1>1 DEF UploadInv, UploadFits, Aimed, BatchesFit, FifoFits
<1>6. BeginsFit' /\ RunsFit'
  BY <1>1 DEF UploadInv, UploadFits, BeginsFit, RunsFit
<1>7. AnswersFit'
  BY <1>1, <1>2, <1>3 DEF UploadInv, UploadFits, AnswersFit
<1>8. AllKnown'
  <2> SUFFICES ASSUME NEW id \in UP!Ids' \ mishap'.excused, NEW b \in Batches,
                      upl'.sessions[id].target = <<b, row[b]>>
               PROVE  Known(id, b)'
    BY DEF AllKnown
  <2>1. CASE id \in UP!Ids /\ upl'.sessions[id].target = upl.sessions[id].target
    <3>1. Known(id, b)
      BY <2>1 DEF UploadInv, UploadFits, AllKnown
    <3> QED BY <3>1, <1>1 DEF Known
  <2>2. CASE answers' = answers \cup {a} /\ a.ok /\ a.id = id /\ upl'.sessions[id].target = j.target
    <3>1. j.b = b
      BY <2>2 DEF UploadInv, UploadFits, Aimed
    <3> QED BY <2>2, <3>1 DEF Known
  <2> QED BY <2>1, <2>2
<1>9. Recorded'
  BY <1>1 DEF UploadInv, Recorded, UP!Refs
<1> QED BY <1>4, <1>5, <1>6, <1>7, <1>8, <1>9 DEF UploadInv, UploadFits

LEMMA BeginKeeps ==
  ASSUME UploadInv, NEW j \in jobs, UP!upload_begin(j), UNCHANGED <<batch, fifo, row>>
  PROVE  UploadInv'
<1> DEFINE id == mishap.ids + 1
           s == [target |-> j.target, sequence |-> 0, current |-> 0, body |-> <<>>, late |-> FALSE]
           f == UP!With([i \in UP!Ids \ UP!Expired |-> upl.sessions[i]], id, s)
<1>1. /\ j \in UpJob /\ j.kind = "begin" /\ UpManager(upl) /\ store \in UpStore /\ mishap \in UpMishap
      /\ j.target \in UpTargets /\ jobs' = jobs \ {j}
  BY DEF UploadInv, UploadTypes, TrafficTypes, RelayTypes, UP!upload_begin, UpJob
<1>2. FALSE \in BOOLEAN /\ TRUE \in BOOLEAN /\ 0 \in Nat
  OBVIOUS
<1>3. /\ mishap.ids \in Nat /\ id \in Nat /\ mishap.ids <= mishap.ids /\ mishap.ids < id /\ id # 0
      /\ mishap.odds + 1 \in Nat
  BY <1>1 DEF UpMishap
<1>4. CASE ~UP!validate_upload_target(j, j.target) \/ UP!Full \/ ~UP!normalize_spec("text")
  <2> DEFINE a == UP!Answer(j, FALSE, 0, 0)
  <2>1. UNCHANGED <<upl, store, mishap>> /\ answers' = answers \cup {a}
    BY <1>4 DEF UP!upload_begin, UP!NoId
  <2>2. a \in UpAnswer /\ a.b = j.b /\ a.kind = j.kind /\ a.run = j.run /\ a.id = 0
    BY <1>1, <1>2 DEF UP!Answer, UpJob, UpAnswer
  <2> HIDE DEF a
  <2>3. UploadTypes'
    BY <1>1, <2>1, <2>2 DEF UploadInv, UploadTypes, RelayTypes, TrafficTypes, PhoneTypes
  <2>4. answers' \in {answers, answers \cup {a}} /\ a.id <= mishap'.ids /\ UP!Ids' = UP!Ids
    BY <1>3, <2>1, <2>2 DEF UP!Ids
  <2> QED BY <1>1, <1>3, <2>1, <2>2, <2>3, <2>4, BeginAnswerKeeps
<1>5. CASE ~(~UP!validate_upload_target(j, j.target) \/ UP!Full \/ ~UP!normalize_spec("text"))
  <2> DEFINE a == UP!Answer(j, TRUE, id, 0)
  <2>1. /\ upl' = [upl EXCEPT !.sessions = f]
        /\ store' = [store EXCEPT !.staged = (store.staged \ UP!Expired) \cup {id}]
        /\ \/ answers' = answers \cup {a} /\ mishap' = [mishap EXCEPT !.ids = id]
           \/ /\ answers' = answers
              /\ mishap' = [mishap EXCEPT !.ids = id, !.odds = mishap.odds + 1,
                                          !.excused = mishap.excused \cup {id}]
    BY <1>5 DEF UP!upload_begin
  <2>2. a \in UpAnswer /\ a.b = j.b /\ a.kind = j.kind /\ a.run = j.run /\ a.id = id /\ a.ok
    <3> HIDE DEF id
    <3> QED BY <1>1, <1>2, <1>3 DEF UP!Answer, UpJob, UpAnswer
  <2> HIDE DEF a
  <2>3. /\ DOMAIN f = (UP!Ids \ UP!Expired) \cup {id}
        /\ \A i \in DOMAIN f : i # id => f[i] = upl.sessions[i] /\ i \in UP!Ids
        /\ f[id] = s
    BY DEF UP!With
  <2>4. UpSession(s) /\ s.sequence \in Nat /\ s.target = j.target
    BY <1>1 DEF UpSession
  <2> HIDE DEF f, s
  <2>5. upl' = [sessions |-> f, tombs |-> upl.tombs, recs |-> upl.recs]
    BY <1>1, <2>1 DEF UpManager
  <2>6. UpManager(upl') /\ UP!Ids' = DOMAIN f /\ upl'.sessions = f /\ upl'.recs = upl.recs
    BY <1>1, <1>3, <2>3, <2>4, <2>5 DEF UpManager, UP!Ids
  <2>7. store' \in UpStore /\ store'.objects = store.objects /\ store'.index = store.index
    <3>1. ((store.staged \ UP!Expired) \cup {id}) \in SUBSET Nat
      BY <1>1, <1>3 DEF UpStore
    <3> QED BY <1>1, <2>1, <3>1 DEF UpStore
  <2>8. mishap.excused \cup {id} \in SUBSET Nat
    BY <1>1, <1>3 DEF UpMishap
  <2>9. mishap' \in UpMishap
    BY <1>1, <1>3, <2>1, <2>8 DEF UpMishap
  <2>10. /\ mishap'.ids = id /\ mishap'.runs = mishap.runs /\ mishap.excused \subseteq mishap'.excused
         /\ mishap'.told = mishap.told /\ mishap'.over = mishap.over
         /\ id \in mishap'.excused \/ answers' = answers \cup {a}
    <3> HIDE DEF id
    <3>1. CASE answers' = answers \cup {a} /\ mishap' = [mishap EXCEPT !.ids = id]
      BY <1>1, <3>1 DEF UpMishap
    <3>2. CASE mishap' = [mishap EXCEPT !.ids = id, !.odds = mishap.odds + 1,
                                        !.excused = mishap.excused \cup {id}]
      <4> DEFINE e == mishap.excused \cup {id}
      <4>1. mishap.excused \subseteq e /\ id \in e
        OBVIOUS
      <4> HIDE DEF e
      <4>2. mishap' = [mishap EXCEPT !.ids = id, !.odds = mishap.odds + 1, !.excused = e]
        BY <3>2 DEF e
      <4> QED BY <1>1, <4>1, <4>2 DEF UpMishap
    <3> QED BY <2>1, <3>1, <3>2
  <2>11. answers' \in {answers, answers \cup {a}}
    BY <2>1
  <2>12. UploadTypes'
    BY <1>1, <2>2, <2>6, <2>7, <2>9, <2>11 DEF UploadInv, UploadTypes, RelayTypes, TrafficTypes, PhoneTypes
  <2>13. mishap.ids <= mishap'.ids /\ a.id <= mishap'.ids /\ id <= mishap'.ids
    BY <1>3, <2>2, <2>10
  <2>14. \A i \in UP!Ids' :
           \/ i \in UP!Ids /\ upl'.sessions[i].target = upl.sessions[i].target
           \/ /\ mishap.ids < i /\ i <= mishap'.ids /\ upl'.sessions[i].target = j.target
              /\ i \in mishap'.excused \/ (answers' = answers \cup {a} /\ a.ok /\ a.id = i)
    BY <1>3, <2>2, <2>3, <2>4, <2>6, <2>10, <2>13
  <2> HIDE DEF id
  <2> QED BY <1>1, <2>2, <2>6, <2>7, <2>10, <2>11, <2>12, <2>13, <2>14, BeginAnswerKeeps
<1> QED BY <1>4, <1>5

LEMMA RunKeeps ==
  ASSUME UploadInv, NEW j \in jobs, UP!Run(j)
  PROVE  UploadInv'
BY RouteKeeps, BeginKeeps, StagedTargetKeeps, ChunkKeeps, FinishKeeps, CancelActKeeps DEF UP!Run

-----------------------------------------------------------------------------
(* Uploads: what happens to the relay *)

LEMMA ThinningKeeps ==
  ASSUME UploadInv, UploadTypes', Thins(upl'), Excuses, UNCHANGED <<jobs, answers, batch, fifo, row>>
  PROVE  UploadFits'
<1>1. /\ UP!Ids' \subseteq UP!Ids
      /\ \A id \in UP!Ids' : upl'.sessions[id].target = upl.sessions[id].target
      /\ \A id, b : Lost(id, b) => Lost(id, b)'
  BY DEF Thins, UP!Ids, Lost
<1>2. Numbered' /\ Aimed' /\ BatchesFit' /\ FifoFits'
  BY <1>1 DEF UploadInv, UploadFits, Numbered, Aimed, BatchesFit, FifoFits, Excuses
<1>3. BeginsFit' /\ RunsFit'
  BY DEF UploadInv, UploadFits, BeginsFit, RunsFit
<1>4. AnswersFit'
  BY <1>1 DEF UploadInv, UploadFits, AnswersFit
<1>5. AllKnown'
  BY SMTT(30), <1>1 DEF UploadInv, UploadFits, AllKnown, Known, Excuses
<1> QED BY <1>2, <1>3, <1>4, <1>5 DEF UploadFits

LEMMA LapsesKeeps ==
  ASSUME UploadInv, UP!Lapses
  PROVE  UploadInv'
<1>1. UpManager(upl) /\ store \in UpStore /\ mishap \in UpMishap
  BY DEF UploadInv, UploadTypes, RelayTypes
<1>2. UNCHANGED <<store, jobs, answers, batch, fifo, row>>
  BY DEF UP!Lapses
<1>3. CASE \E id \in UP!Ids : upl' = [upl EXCEPT !.sessions[id].late = TRUE] /\ UP!Excused({id})
  <2>1. PICK id \in UP!Ids : upl' = [upl EXCEPT !.sessions[id].late = TRUE] /\ UP!Excused({id})
    BY <1>3
  <2> DEFINE o == upl.sessions[id]
             s == [o EXCEPT !.late = TRUE]
             f == [upl.sessions EXCEPT ![id] = s]
  <2>2. UpSession(o) /\ o.sequence \in Nat /\ id \in Nat
    BY <1>1 DEF UpManager, UP!Ids
  <2>3. s.sequence \in Nat /\ s.target = o.target /\ DOMAIN s = DOMAIN o
    BY <2>2 DEF UpSession
  <2> HIDE DEF s
  <2>4. UpSession(s)
    BY <2>2, <2>3 DEF UpSession
  <2>5. DOMAIN f = UP!Ids /\ f[id] = s /\ \A i \in DOMAIN f : i # id => f[i] = upl.sessions[i]
    BY DEF UP!Ids
  <2> HIDE DEF f
  <2>6. upl' = [sessions |-> f, tombs |-> upl.tombs, recs |-> upl.recs]
    BY <1>1, <2>1 DEF UpManager, f, s
  <2>7. UpManager(upl') /\ Thins(upl') /\ upl'.recs = upl.recs
    BY <1>1, <2>3, <2>4, <2>5, <2>6 DEF UpManager, Thins, UP!Ids
  <2>8. {id} \in SUBSET Nat
    BY <2>2
  <2>9. mishap' \in UpMishap /\ Excuses /\ mishap'.told = mishap.told /\ mishap'.over = mishap.over
    BY <1>1, <2>1, <2>8, ExcusedType
  <2>10. UploadTypes'
    BY <1>1, <1>2, <2>7, <2>9 DEF UploadInv, UploadTypes, RelayTypes, TrafficTypes, PhoneTypes
  <2>11. UploadFits'
    BY <1>2, <2>7, <2>9, <2>10, ThinningKeeps
  <2>12. Recorded'
    BY <1>2, <2>7, <2>9 DEF UploadInv, Recorded, UP!Refs
  <2> QED BY <2>10, <2>11, <2>12 DEF UploadInv
<1>4. CASE \E o \in store.objects \ mishap.over :
             /\ mishap' = [mishap EXCEPT !.odds = @ + 1, !.over = @ \cup {o}]
             /\ UNCHANGED upl
  <2>1. PICK o \in store.objects \ mishap.over :
             /\ mishap' = [mishap EXCEPT !.odds = mishap.odds + 1, !.over = mishap.over \cup {o}]
             /\ UNCHANGED upl
    BY <1>4
  <2> DEFINE over == mishap.over \cup {o}
  <2>2. mishap.odds + 1 \in Nat /\ over \in SUBSET UpRefs /\ mishap.over \subseteq over
    BY <1>1, <2>1 DEF UpMishap, UpStore
  <2>3. mishap' = [mishap EXCEPT !.odds = mishap.odds + 1, !.over = over]
    BY <2>1
  <2> HIDE DEF over
  <2>4. mishap' \in UpMishap
    BY <1>1, <2>2, <2>3 DEF UpMishap
  <2>5. Excuses /\ mishap'.told = mishap.told /\ mishap.over \subseteq mishap'.over
    BY <1>1, <2>2, <2>3 DEF UpMishap, Excuses
  <2>6. UploadTypes' /\ Thins(upl')
    BY <1>1, <1>2, <2>1, <2>4 DEF UploadInv, UploadTypes, RelayTypes, TrafficTypes, PhoneTypes, Thins, UP!Ids
  <2>7. UploadFits'
    BY <1>2, <2>5, <2>6, ThinningKeeps
  <2>8. Recorded'
    BY <1>2, <2>1, <2>5 DEF UploadInv, Recorded, UP!Refs
  <2> QED BY <2>6, <2>7, <2>8 DEF UploadInv
<1> QED BY <1>3, <1>4 DEF UP!Lapses

LEMMA CleansKeeps ==
  ASSUME UploadInv, UP!Cleans
  PROVE  UploadInv'
<1> DEFINE recs == upl.recs \ UP!ExpiredFiles
           lost == {o \in store.objects : o \notin recs /\ o \in mishap.over}
           objects == (store.objects \ UP!ExpiredFiles) \ lost
           f == [i \in UP!Ids \ UP!Expired |-> upl.sessions[i]]
<1>1. UpManager(upl) /\ store \in UpStore /\ mishap \in UpMishap
  BY DEF UploadInv, UploadTypes, RelayTypes
<1>2. UNCHANGED <<jobs, answers, batch, fifo, row, mishap>>
  BY DEF UP!Cleans
<1>3. PICK wrote \in BOOLEAN :
        store' = [staged |-> store.staged \ UP!Expired, objects |-> objects,
                  index |-> IF UP!ExpiredFiles # {} /\ wrote THEN recs ELSE store.index]
  BY DEF UP!Cleans, UP!cleanup
<1>4. upl' = [upl EXCEPT !.sessions = f, !.recs = recs]
  BY DEF UP!Cleans, UP!cleanup
<1>5. DOMAIN f \subseteq UP!Ids /\ \A i \in DOMAIN f : f[i] = upl.sessions[i]
  OBVIOUS
<1>6. /\ recs \subseteq upl.recs /\ upl.recs \ mishap.over \subseteq recs
      /\ objects \subseteq store.objects
      /\ upl.recs \subseteq store.objects => recs \subseteq objects
  BY DEF UP!ExpiredFiles
<1> HIDE DEF recs, objects, f
<1>7. upl' = [sessions |-> f, tombs |-> upl.tombs, recs |-> recs]
  BY <1>1, <1>4 DEF UpManager
<1>8. UpManager(upl') /\ Thins(upl') /\ upl'.recs = recs
  BY <1>1, <1>5, <1>6, <1>7 DEF UpManager, Thins, UP!Ids
<1>9. store'.objects = objects /\ store'.index \in {recs, store.index}
  BY <1>3
<1>10. store' \in UpStore
  <2>1. store.staged \ UP!Expired \in SUBSET Nat
    BY <1>1 DEF UpStore
  <2>2. recs \in SUBSET UpRefs /\ objects \in SUBSET UpRefs /\ store.index \in SUBSET UpRefs
    BY <1>1, <1>6 DEF UpStore, UpManager
  <2> QED BY <1>3, <2>1, <2>2 DEF UpStore
<1>11. UploadTypes' /\ Excuses
  BY <1>1, <1>2, <1>8, <1>10 DEF UploadInv, UploadTypes, RelayTypes, TrafficTypes, PhoneTypes, Excuses
<1>12. UploadFits'
  BY <1>2, <1>8, <1>11, ThinningKeeps
<1>13. Recorded'
  BY <1>2, <1>6, <1>8, <1>9 DEF UploadInv, Recorded, UP!Refs
<1> QED BY <1>11, <1>12, <1>13 DEF UploadInv

LEMMA RestartKeeps ==
  ASSUME UploadInv, UP!Restart
  PROVE  UploadInv'
<1>1. /\ UpManager(upl) /\ store \in UpStore /\ mishap \in UpMishap
      /\ jobs \subseteq UpJob /\ batch \in [Batches -> UpBatch]
  BY DEF UploadInv, UploadTypes, RelayTypes, TrafficTypes, PhoneTypes
<1>2. /\ UP!Excused({batch[b].id : b \in Batches})
      /\ jobs' = {} /\ answers' = {} /\ fifo' = <<>> /\ batch' = UP!Interrupted(batch) /\ UNCHANGED row
  BY DEF UP!Restart
<1>3. PICK orphans \in {{}} \cup {UP!Refs(j.id) : j \in {k \in jobs : k.kind = "finish" /\ k.id \in UP!Ids}} :
        LET objects == store.objects \cup orphans
            recs == UP!load_attachments(objects)
        IN  /\ upl' = [sessions |-> [i \in {} |-> 0], tombs |-> [i \in {} |-> 0], recs |-> recs]
            /\ store' = [staged |-> {}, objects |-> objects \ (mishap.over \ recs), index |-> recs]
  BY DEF UP!Restart, UP!NoId
<1> DEFINE objects == store.objects \cup orphans
           recs == UP!load_attachments(objects)
           left == objects \ (mishap.over \ recs)
<1>4. orphans \subseteq UpRefs
  <2>1. \A j \in jobs : j.id \in Nat
    BY <1>1 DEF UpJob
  <2> QED BY <2>1, RefsType
<1>5. recs \in SUBSET UpRefs /\ left \in SUBSET UpRefs /\ recs \subseteq left
  BY <1>1, <1>4 DEF UpStore, UP!load_attachments
<1>6. \A r \in upl.recs \ mishap.over : r \in recs
  BY DEF UploadInv, Recorded, UP!load_attachments
<1>7. /\ upl' = [sessions |-> [i \in {} |-> 0], tombs |-> [i \in {} |-> 0], recs |-> recs]
      /\ store' = [staged |-> {}, objects |-> left, index |-> recs]
  BY <1>3
<1> HIDE DEF objects, recs, left
<1>8. UpManager(upl') /\ UP!Ids' = {} /\ upl'.recs = recs
  BY <1>5, <1>7 DEF UpManager, UP!Ids
<1>9. store' \in UpStore /\ store'.objects = left /\ store'.index = recs
  BY <1>5, <1>7 DEF UpStore
<1>10. {batch[b].id : b \in Batches} \in SUBSET Nat
  BY <1>1 DEF UpBatch
<1>11. mishap' \in UpMishap /\ Excuses /\ mishap'.told = mishap.told /\ mishap'.over = mishap.over
  BY <1>1, <1>2, <1>10, ExcusedType
<1>12. /\ batch' \in [Batches -> UpBatch]
       /\ \A b \in Batches : /\ batch'[b].id = batch[b].id /\ batch'[b].run = batch[b].run
                             /\ batch'[b].dismissed = batch[b].dismissed
                             /\ batch'[b].at \in {"idle", "interrupted"}
                             /\ batch'[b].at = "idle" => batch[b].at = "idle"
  <2> DEFINE s(b) == IF batch[b].at = "idle" THEN batch[b] ELSE [batch[b] EXCEPT !.at = "interrupted"]
  <2>1. ASSUME NEW b \in Batches
        PROVE  /\ s(b) \in UpBatch /\ s(b).id = batch[b].id /\ s(b).run = batch[b].run
               /\ s(b).dismissed = batch[b].dismissed
               /\ s(b).at \in {"idle", "interrupted"}
               /\ s(b).at = "idle" => batch[b].at = "idle"
    <3>1. batch[b] \in UpBatch
      BY <1>1
    <3> QED BY <3>1 DEF UpBatch, UpStates
  <2>2. batch' = [b \in Batches |-> s(b)]
    BY <1>2 DEF UP!Interrupted
  <2> HIDE DEF s
  <2> QED BY <2>1, <2>2
<1>13. UploadTypes'
  BY <1>2, <1>8, <1>9, <1>11, <1>12 DEF UploadInv, UploadTypes, RelayTypes, TrafficTypes, PhoneTypes
<1>14. Numbered' /\ Aimed' /\ BatchesFit' /\ FifoFits'
  BY <1>2, <1>8, <1>11, <1>12 DEF UploadInv, UploadFits, Numbered, Aimed, BatchesFit, FifoFits, Excuses
<1>15. BeginsFit' /\ RunsFit' /\ AnswersFit' /\ AllKnown'
  BY <1>2, <1>8 DEF BeginsFit, RunsFit, AnswersFit, AllKnown
<1>16. Recorded'
  BY <1>2, <1>5, <1>6, <1>8, <1>9, <1>11 DEF UploadInv, Recorded
<1> QED BY <1>13, <1>14, <1>15, <1>16 DEF UploadInv, UploadFits

LEMMA TargetMovesKeeps ==
  ASSUME UploadInv, UP!TargetMoves
  PROVE  UploadInv'
<1>1. PICK m \in Batches : row' = [row EXCEPT ![m] = row[m] + 1] /\ UP!Costs
  BY DEF UP!TargetMoves
<1>2. UNCHANGED <<upl, store, jobs, answers, batch, fifo>>
  BY DEF UP!TargetMoves
<1>3. UpManager(upl) /\ mishap \in UpMishap /\ row \in [Batches -> Nat] /\ jobs \subseteq UpJob
  BY DEF UploadInv, UploadTypes, RelayTypes, PhoneTypes, TrafficTypes
<1>4. /\ row' \in [Batches -> Nat] /\ \A b \in Batches : row[b] <= row'[b]
      /\ row[m] < row'[m] /\ \A b \in Batches : b # m => row'[b] = row[b]
  BY <1>1, <1>3
<1>5. /\ mishap' \in UpMishap /\ Excuses
      /\ mishap'.told = mishap.told /\ mishap'.over = mishap.over /\ mishap'.excused = mishap.excused
  BY <1>1, <1>3, CostsType
<1>6. UploadTypes'
  BY <1>2, <1>4, <1>5 DEF UploadInv, UploadTypes, RelayTypes, TrafficTypes, PhoneTypes
<1>7. /\ \A id \in UP!Ids : upl.sessions[id].target \in UpTargets /\ upl.sessions[id].target # <<m, row'[m]>>
      /\ \A j \in jobs : j.target \in UpTargets /\ j.b \in Batches
  BY <1>3, <1>4 DEF UploadInv, UploadFits, Aimed, UpManager, UpSession, UpTargets, UpJob, UP!Ids
<1>8. /\ \A id : \A b \in Batches : Lost(id, b) => Lost(id, b)'
      /\ \A id : Lost(id, m)' /\ UP!Ids' = UP!Ids
  BY <1>2, <1>4, <1>7 DEF Lost, UP!Ids
<1>9. Numbered' /\ BatchesFit' /\ FifoFits' /\ BeginsFit' /\ RunsFit'
  BY <1>2, <1>5 DEF UploadInv, UploadFits, Numbered, BatchesFit, FifoFits, BeginsFit, RunsFit, Excuses, UP!Ids
<1>10. Aimed'
  BY <1>2, <1>3, <1>4, <1>7, <1>8 DEF UploadInv, UploadFits, Aimed, UpTargets
<1>11. AnswersFit'
  <2>1. \A a \in answers : a.b \in Batches
    BY DEF UploadInv, UploadTypes, TrafficTypes, UpAnswer
  <2> QED BY <1>2, <1>4, <1>7, <1>8, <2>1 DEF UploadInv, UploadFits, AnswersFit, Lost
<1>12. AllKnown'
  <2> SUFFICES ASSUME NEW id \in UP!Ids \ mishap.excused, NEW b \in Batches,
                      upl.sessions[id].target = <<b, row'[b]>>
               PROVE  Known(id, b)'
    BY <1>2, <1>5, <1>8 DEF AllKnown
  <2>1. row'[b] = row[b]
    BY <1>4, <1>7
  <2>2. Known(id, b)
    BY <2>1 DEF UploadInv, UploadFits, AllKnown
  <2> QED BY <1>2, <2>1, <2>2 DEF Known
<1>13. Recorded'
  BY <1>2, <1>5 DEF UploadInv, Recorded, UP!Refs
<1> QED BY <1>6, <1>9, <1>10, <1>11, <1>12, <1>13 DEF UploadInv, UploadFits

-----------------------------------------------------------------------------
(* Uploads: the phone *)

(* What a step of one batch does to the invariant: the session it named stays *)
(* known, and what is under way for it is about the session it names.        *)
BatchStep(b, s) ==
  /\ batch' = [batch EXCEPT ![b] = s]
  /\ s.id <= mishap.ids /\ s.run = batch[b].run /\ s.at # "begin"
  /\ s.dismissed => s.at = "interrupted" /\ s.id = 0
  /\ jobs \subseteq jobs' /\ answers' \subseteq answers /\ UNCHANGED <<upl, row>> /\ Excuses
  /\ \A j \in jobs' \ jobs : /\ j.b = b /\ j.kind # "begin" /\ j.target = <<b, row[b]>> /\ j.run = s.run
                             /\ j.id <= mishap.ids
  /\ \A j \in jobs' : j.b = b /\ j.run = s.run => j.kind # "begin" /\ s.id \in {0, j.id}
  /\ \A a \in answers' : a.b = b /\ a.run = s.run =>
       /\ a.kind # "begin"
       /\ a.kind = "finish" /\ a.ok => s.id \in {0, a.id}
       /\ a.kind = "cancel" /\ s.id # 0 => Lost(s.id, b)
  /\ \A a \in answers \ answers' : a.b # b => a.kind # "begin"
  /\ \A id \in UP!Ids \ mishap.excused : upl.sessions[id].target = <<b, row[b]>> => Known(id, b)'

LEMMA PhoneKeeps ==
  ASSUME UploadInv, UploadTypes', FifoFits', NEW b \in Batches, NEW s \in UpBatch, BatchStep(b, s)
  PROVE  UploadFits'
<1> USE DEF BatchStep
<1>1. /\ batch \in [Batches -> UpBatch] /\ \A j \in jobs' : j.b \in Batches /\ \A a \in answers : a.b \in Batches
      /\ mishap'.ids = mishap.ids /\ mishap'.runs = mishap.runs
  BY DEF UploadInv, UploadTypes, PhoneTypes, TrafficTypes, UpJob, UpAnswer, Excuses
<1>2. batch'[b] = s /\ \A c \in Batches : c # b => batch'[c] = batch[c]
  BY <1>1
<1>3. UP!Ids' = UP!Ids /\ \A id, c : Lost(id, c)' <=> Lost(id, c)
  BY DEF UP!Ids, Lost
<1>4. Numbered'
  BY <1>1, <1>2, <1>3 DEF UploadInv, UploadFits, Numbered
<1>5. Aimed'
  BY <1>1, <1>3 DEF UploadInv, UploadFits, Aimed, UploadTypes, PhoneTypes
<1>6. BatchesFit'
  BY <1>2 DEF UploadInv, UploadFits, BatchesFit
<1>7. BeginsFit'
  <2>1. \A j \in jobs' : j.kind = "begin" => j \in jobs /\ j.b # b
    BY DEF UploadInv, UploadFits, BeginsFit
  <2>2. \A a \in answers' : a.kind = "begin" => a \in answers /\ a.b # b
    BY DEF UploadInv, UploadFits, BeginsFit
  <2> QED BY <1>1, <1>2, <2>1, <2>2 DEF UploadInv, UploadFits, BeginsFit
<1>8. RunsFit'
  BY <1>1, <1>2 DEF UploadInv, UploadFits, RunsFit
<1>9. AnswersFit'
  BY <1>1, <1>2, <1>3 DEF UploadInv, UploadFits, AnswersFit
<1>10. AllKnown'
  <2> SUFFICES ASSUME NEW id \in UP!Ids \ mishap.excused, NEW c \in Batches, c # b,
                      upl.sessions[id].target = <<c, row[c]>>
               PROVE  Known(id, c)'
    BY <1>3 DEF AllKnown, Excuses
  <2>1. Known(id, c)
    BY DEF UploadInv, UploadFits, AllKnown
  <2> QED BY <1>2, <2>1 DEF Known
<1> QED BY <1>4, <1>5, <1>6, <1>7, <1>8, <1>9, <1>10 DEF UploadFits

LEMMA JobType ==
  ASSUME UploadInv, NEW b \in Batches, NEW kind \in UpKinds, NEW id \in Nat, NEW n \in Nat
  PROVE  LET j == UP!Job(b, kind, id, n) IN
         /\ j \in UpJob
         /\ j.b = b /\ j.kind = kind /\ j.id = id /\ j.target = <<b, row[b]>> /\ j.run = batch[b].run
<1>1. row[b] \in Nat /\ batch[b].run \in Nat
  BY DEF UploadInv, UploadTypes, PhoneTypes, UpBatch
<1> QED BY <1>1 DEF UP!Job, UpJob, UpTargets

LEMMA RemoveFacts ==
  ASSUME NEW S, NEW q \in Seq(S), NEW i \in 1 .. Len(q)
  PROVE  LET r == UP!RemoveAt(q, i) IN
         /\ r \in Seq(S) /\ Len(r) = Len(q) - 1
         /\ \A k \in 1 .. Len(r) : r[k] = IF k < i THEN q[k] ELSE q[k + 1]
<1> DEFINE f == SubSeq(q, 1, i - 1)
           g == SubSeq(q, i + 1, Len(q))
<1>0. Len(q) \in Nat /\ i \in Nat /\ 1 <= i /\ i <= Len(q)
  OBVIOUS
<1>1. f \in Seq(S) /\ Len(f) = i - 1 /\ \A k \in 1 .. i - 1 : f[k] = q[k]
  BY <1>0
<1>2. g \in Seq(S) /\ Len(g) = Len(q) - i /\ \A k \in 1 .. Len(q) - i : g[k] = q[k + i]
  <2>1. CASE i = Len(q)
    BY <1>0, <2>1
  <2>2. CASE i < Len(q)
    BY <1>0, <2>2
  <2> QED BY <1>0, <2>1, <2>2
<1>3. UP!RemoveAt(q, i) = f \o g
  BY DEF UP!RemoveAt
<1> HIDE DEF f, g
<1>4. /\ f \o g \in Seq(S) /\ Len(f \o g) = Len(f) + Len(g)
      /\ \A k \in 1 .. Len(f) + Len(g) : (f \o g)[k] = IF k <= Len(f) THEN f[k] ELSE g[k - Len(f)]
  <2>1. Len(f) \in Nat /\ Len(g) \in Nat
    BY <1>1, <1>2
  <2>2. f \o g \in Seq(S) /\ Len(f \o g) = Len(f) + Len(g)
    <3>1. f \in Seq(S) /\ g \in Seq(S)
      BY <1>1, <1>2
    <3>2. f \o g \in Seq(S)
      BY <3>1
    <3>3. Len(f \o g) = Len(f) + Len(g)
      BY <3>1
    <3> QED BY <3>2, <3>3
  <2>3. ASSUME NEW k \in 1 .. Len(f) + Len(g)
        PROVE  (f \o g)[k] = IF k <= Len(f) THEN f[k] ELSE g[k - Len(f)]
    BY <1>1, <1>2, <2>1
  <2> QED BY <2>2, <2>3
<1>5. Len(f) + Len(g) = Len(q) - 1
  BY <1>0, <1>1, <1>2
<1>6. ASSUME NEW k \in 1 .. Len(q) - 1
      PROVE  (f \o g)[k] = IF k < i THEN q[k] ELSE q[k + 1]
  <2>1. CASE k < i
    BY <1>0, <1>1, <1>4, <1>5, <2>1
  <2>2. CASE k >= i
    <3>1. (f \o g)[k] = g[k - (i - 1)] /\ k - (i - 1) \in 1 .. Len(q) - i
      BY <1>0, <1>1, <1>2, <1>4, <1>5, <2>2
    <3>2. k - (i - 1) + i = k + 1
      BY <1>0
    <3> QED BY <1>2, <3>1, <3>2, <2>2, <1>0
  <2>3. k < i \/ k >= i
    BY <1>0
  <2> QED BY <2>1, <2>2, <2>3
<1> QED BY <1>3, <1>4, <1>5, <1>6

(* Taking a batch's chunk out of the queue leaves the others in order. *)
LEMMA RemovedFacts ==
  ASSUME UploadInv, NEW b \in Batches, fifo' = UP!removeBinaryPending(b),
         \A c \in Batches : c # b => batch'[c] = batch[c]
  PROVE  fifo' \in Seq(UpPending) /\ FifoFits'
<1> DEFINE at == {i \in DOMAIN fifo : fifo[i].b = b}
<1>1. fifo \in Seq(UpPending) /\ DOMAIN fifo = 1 .. Len(fifo)
  BY DEF UploadInv, UploadTypes, PhoneTypes
<1>2. \A i \in 1 .. Len(fifo) : fifo[i] \in UpPending /\ fifo[i].b \in Batches
  <2>1. \A i \in 1 .. Len(fifo) : fifo[i] \in UpPending
    BY <1>1
  <2> QED BY <2>1 DEF UpPending
<1>3. CASE at = {}
  <2>1. fifo' = fifo
    BY <1>3 DEF UP!removeBinaryPending
  <2>2. \A i \in 1 .. Len(fifo) : fifo[i].b # b
    BY <1>1, <1>3
  <2> QED BY <1>1, <1>2, <2>1, <2>2 DEF UploadInv, UploadFits, FifoFits
<1>4. CASE at # {}
  <2> DEFINE i == CHOOSE k \in at : TRUE
  <2>1. i \in at
    BY <1>4
  <2>2. fifo' = UP!RemoveAt(fifo, i)
    BY <1>4 DEF UP!removeBinaryPending
  <2>3. i \in 1 .. Len(fifo) /\ fifo[i].b = b
    BY <1>1, <2>1
  <2> HIDE DEF i
  <2>4. /\ fifo' \in Seq(UpPending) /\ Len(fifo') = Len(fifo) - 1
        /\ \A k \in 1 .. Len(fifo') : fifo'[k] = IF k < i THEN fifo[k] ELSE fifo[k + 1]
    BY ZenonT(30), <1>1, <2>2, <2>3, RemoveFacts
  <2> DEFINE from(k) == IF k < i THEN k ELSE k + 1
  <2>5. /\ Len(fifo) \in Nat /\ Len(fifo') \in Nat
        /\ \A k \in 1 .. Len(fifo') : from(k) \in 1 .. Len(fifo) /\ from(k) # i /\ fifo'[k] = fifo[from(k)]
        /\ \A k, l \in 1 .. Len(fifo') : from(k) = from(l) => k = l
    BY <1>1, <2>3, <2>4
  <2> HIDE DEF from
  <2>6. \A k \in 1 .. Len(fifo') : fifo'[k].b # b /\ batch[fifo'[k].b].at = "chunk" /\ fifo'[k].b \in Batches
    BY <1>2, <2>3, <2>5 DEF UploadInv, UploadFits, FifoFits
  <2>7. \A k, l \in 1 .. Len(fifo') : fifo'[k].b = fifo'[l].b => k = l
    BY <2>5 DEF UploadInv, UploadFits, FifoFits
  <2> QED BY <2>4, <2>6, <2>7 DEF FifoFits
<1> QED BY <1>3, <1>4

(* A batch sends a request about the session it has. *)
LEMMA SendKeeps ==
  ASSUME UploadInv, NEW b \in Batches, NEW kind \in UpKinds \ {"begin"}, NEW n \in Nat,
         NEW to \in {"chunk", "finish", "restart"}, batch[b].at # "begin", ~batch[b].dismissed,
         batch' = [batch EXCEPT ![b].at = to], jobs' = jobs \cup {UP!Job(b, kind, batch[b].id, n)},
         fifo' \in Seq(UpPending), FifoFits', UNCHANGED <<upl, store, answers, row, mishap>>
  PROVE  UploadInv'
<1> DEFINE s == [batch[b] EXCEPT !.at = to]
           k == UP!Job(b, kind, batch[b].id, n)
<1>1. batch[b] \in UpBatch /\ batch[b].id \in Nat /\ kind \in UpKinds /\ batch \in [Batches -> UpBatch]
  BY DEF UploadInv, UploadTypes, PhoneTypes, UpBatch
<1>2. k \in UpJob /\ k.b = b /\ k.kind = kind /\ k.id = batch[b].id /\ k.target = <<b, row[b]>> /\ k.run = batch[b].run
  BY <1>1, JobType
<1>3. s \in UpBatch
  BY <1>1 DEF UpBatch, UpStates
<1>4. /\ s.id = batch[b].id /\ s.run = batch[b].run /\ s.at = to /\ s.dismissed = batch[b].dismissed
  BY <1>1 DEF UpBatch
<1>5. batch' = [batch EXCEPT ![b] = s] /\ jobs' = jobs \cup {k}
  OBVIOUS
<1> HIDE DEF s, k
<1>6. batch' \in [Batches -> UpBatch] /\ batch'[b] = s
  BY <1>1, <1>3, <1>5
<1>7. UploadTypes' /\ Excuses
  BY <1>2, <1>5, <1>6 DEF UploadInv, UploadTypes, RelayTypes, TrafficTypes, PhoneTypes, Excuses
<1>8. s.id <= mishap.ids
  BY <1>4 DEF UploadInv, UploadFits, Numbered
<1>9. /\ \A j \in jobs : j.b = b => j.kind # "begin" /\ (j.run = s.run => s.id \in {0, j.id})
      /\ \A a \in answers : a.b = b => a.kind # "begin"
  BY <1>4 DEF UploadInv, UploadFits, BeginsFit, RunsFit
<1>10. \A a \in answers : a.b = b /\ a.run = s.run =>
         /\ a.kind = "finish" /\ a.ok => s.id \in {0, a.id}
         /\ a.kind = "cancel" /\ s.id # 0 => Lost(s.id, b)
  BY <1>4 DEF UploadInv, UploadFits, AnswersFit
<1>11. \A id \in UP!Ids \ mishap.excused : upl.sessions[id].target = <<b, row[b]>> => Known(id, b)'
  <2> SUFFICES ASSUME NEW id \in UP!Ids \ mishap.excused, upl.sessions[id].target = <<b, row[b]>>
               PROVE  Known(id, b)'
    OBVIOUS
  <2>1. Known(id, b)
    BY DEF UploadInv, UploadFits, AllKnown
  <2> QED BY <1>4, <1>5, <1>6, <2>1 DEF Known
<1>12. \A j \in jobs' : j \in jobs \/ j = k
  BY <1>5
<1>13. UploadFits'
  <2>1. jobs \subseteq jobs' /\ answers' = answers /\ answers' \subseteq answers /\ UNCHANGED <<upl, row>>
    BY <1>5
  <2>2. \A j \in jobs' \ jobs : /\ j.b = b /\ j.kind # "begin" /\ j.target = <<b, row[b]>> /\ j.run = s.run
                                /\ j.id <= mishap.ids
    BY <1>2, <1>4, <1>8, <1>12
  <2>3. \A j \in jobs' : j.b = b /\ j.run = s.run => j.kind # "begin" /\ s.id \in {0, j.id}
    BY <1>2, <1>4, <1>9, <1>12
  <2>4. \A a \in answers' : a.b = b /\ a.run = s.run =>
           /\ a.kind # "begin"
           /\ a.kind = "finish" /\ a.ok => s.id \in {0, a.id}
           /\ a.kind = "cancel" /\ s.id # 0 => Lost(s.id, b)
    BY <2>1, <1>9, <1>10
  <2>5. \A a \in answers \ answers' : a.b # b => a.kind # "begin"
    BY <2>1
  <2>6. s.at # "begin" /\ ~s.dismissed /\ s.run = batch[b].run
    BY <1>4
  <2>7. BatchStep(b, s)
    BY <1>5, <1>7, <1>8, <1>11, <2>1, <2>2, <2>3, <2>4, <2>5, <2>6 DEF BatchStep
  <2> QED BY <1>3, <1>7, <2>7, PhoneKeeps
<1>14. Recorded'
  BY DEF UploadInv, Recorded, UP!Refs
<1> QED BY <1>7, <1>13, <1>14 DEF UploadInv

LEMMA ChunkSentKeeps ==
  ASSUME UploadInv, NEW b \in Batches, UP!uploadBinaryChunk(b)
  PROVE  UploadInv'
<1> DEFINE p == [b |-> b, file |-> UP!FileOf(batch[b].n), next |-> batch[b].n + 1, n |-> batch[b].n,
                 run |-> batch[b].run]
<1>1. /\ batch[b].at = "send" /\ batch' = [batch EXCEPT ![b].at = "chunk"]
      /\ fifo' = Append(fifo, p)
      /\ jobs' = jobs \cup {UP!Job(b, "chunk", batch[b].id, batch[b].n)}
      /\ UNCHANGED <<upl, store, answers, row, mishap>>
  BY DEF UP!uploadBinaryChunk
<1>2. /\ batch \in [Batches -> UpBatch] /\ batch[b].n \in Nat /\ batch[b].run \in Nat /\ fifo \in Seq(UpPending)
      /\ ~batch[b].dismissed
  BY <1>1 DEF UploadInv, UploadTypes, PhoneTypes, UpBatch, UploadFits, BatchesFit
<1>3. UP!FileOf(batch[b].n) \in Nat
  BY <1>2, BatchAssumption DEF UP!FileOf
<1>4. p \in UpPending /\ p.b = b
  BY <1>2, <1>3 DEF UpPending
<1> HIDE DEF p
<1>5. /\ fifo' \in Seq(UpPending) /\ Len(fifo') = Len(fifo) + 1 /\ Len(fifo) \in Nat
      /\ \A i \in 1 .. Len(fifo) : fifo'[i] = fifo[i]
      /\ fifo'[Len(fifo) + 1] = p
  BY <1>1, <1>2, <1>4
<1>6. \A i \in 1 .. Len(fifo) : fifo[i].b \in Batches /\ fifo[i].b # b
  <2>1. \A i \in 1 .. Len(fifo) : fifo[i] \in UpPending
    BY <1>2
  <2> QED BY <2>1, <1>1 DEF UpPending, UploadInv, UploadFits, FifoFits
<1>7. batch'[b].at = "chunk" /\ \A c \in Batches : c # b => batch'[c] = batch[c]
  BY <1>1, <1>2 DEF UpBatch
<1>8. FifoFits'
  <2>1. \A i \in 1 .. Len(fifo') : i \in 1 .. Len(fifo) \/ i = Len(fifo) + 1
    BY <1>5
  <2> QED BY <1>4, <1>5, <1>6, <1>7, <2>1 DEF UploadInv, UploadFits, FifoFits
<1>9. "chunk" \in UpKinds \ {"begin"} /\ "chunk" \in {"chunk", "finish", "restart"}
  BY DEF UpKinds
<1> QED BY <1>1, <1>2, <1>5, <1>8, <1>9, SendKeeps

LEMMA FinishSentKeeps ==
  ASSUME UploadInv, NEW b \in Batches, UP!uploadFinish(b)
  PROVE  UploadInv'
<1>1. /\ batch[b].at = "send" /\ batch' = [batch EXCEPT ![b].at = "finish"]
      /\ jobs' = jobs \cup {UP!Job(b, "finish", batch[b].id, 0)}
      /\ UNCHANGED <<upl, store, answers, fifo, row, mishap>>
  BY DEF UP!uploadFinish
<1>2. /\ batch \in [Batches -> UpBatch] /\ fifo \in Seq(UpPending) /\ ~batch[b].dismissed
  BY <1>1 DEF UploadInv, UploadTypes, PhoneTypes, UploadFits, BatchesFit
<1>3. \A i \in 1 .. Len(fifo) : fifo[i].b # b
  BY <1>1 DEF UploadInv, UploadFits, FifoFits
<1>4. FifoFits'
  <2>1. \A i \in 1 .. Len(fifo) : fifo[i] \in UpPending
    BY <1>2
  <2>2. \A i \in 1 .. Len(fifo) : batch'[fifo[i].b] = batch[fifo[i].b]
    BY <1>1, <1>2, <1>3, <2>1 DEF UpPending
  <2> QED BY <1>1, <2>2 DEF UploadInv, UploadFits, FifoFits
<1>5. /\ "finish" \in UpKinds \ {"begin"} /\ "finish" \in {"chunk", "finish", "restart"} /\ 0 \in Nat
      /\ fifo' \in Seq(UpPending)
  BY <1>1, <1>2 DEF UpKinds
<1> QED BY <1>1, <1>2, <1>4, <1>5, SendKeeps

LEMMA BatchKeeps ==
  ASSUME UploadInv, NEW b \in Batches, NEW s \in UpBatch, BatchStep(b, s), jobs' \subseteq UpJob,
         fifo' \in Seq(UpPending), FifoFits', mishap' \in UpMishap, UNCHANGED store, Recorded'
  PROVE  UploadInv'
<1>1. batch' \in [Batches -> UpBatch] /\ answers' \subseteq UpAnswer /\ UNCHANGED <<upl, row>>
  BY DEF BatchStep, UploadInv, UploadTypes, PhoneTypes, TrafficTypes
<1>2. UploadTypes'
  BY <1>1 DEF UploadInv, UploadTypes, RelayTypes, TrafficTypes, PhoneTypes
<1>3. UploadFits'
  BY <1>2, PhoneKeeps
<1> QED BY <1>2, <1>3 DEF UploadInv

LEMMA FifoStays ==
  ASSUME UploadInv, NEW b \in Batches, batch[b].at # "chunk", fifo' = fifo,
         \A c \in Batches : c # b => batch'[c] = batch[c]
  PROVE  fifo' \in Seq(UpPending) /\ FifoFits'
<1>1. fifo \in Seq(UpPending)
  BY DEF UploadInv, UploadTypes, PhoneTypes
<1>2. \A i \in 1 .. Len(fifo) : fifo[i] \in UpPending
  BY <1>1
<1>3. \A i \in 1 .. Len(fifo) : fifo[i].b \in Batches /\ fifo[i].b # b
  BY <1>2 DEF UpPending, UploadInv, UploadFits, FifoFits
<1> QED BY <1>1, <1>3 DEF UploadInv, UploadFits, FifoFits

LEMMA UploadKeeps ==
  ASSUME UploadInv, NEW b \in Batches, UP!upload(b)
  PROVE  UploadInv'
<1> DEFINE r == mishap.runs + 1
<1>1. /\ batch[b] \in UpBatch /\ batch[b].id \in Nat /\ batch \in [Batches -> UpBatch]
      /\ mishap \in UpMishap /\ batch[b].at \in {"idle", "interrupted"}
  BY DEF UploadInv, UploadTypes, PhoneTypes, RelayTypes, UpBatch, UP!upload
<1>2. UNCHANGED <<upl, store, answers, fifo, row>>
  BY DEF UP!upload
<1>3. CASE batch[b].id # 0
  <2>1. /\ batch' = [batch EXCEPT ![b].at = "restart"]
        /\ jobs' = jobs \cup {UP!Job(b, "cancel", batch[b].id, 0)}
    BY <1>3 DEF UP!upload, UP!NoId
  <2>2. mishap' = mishap
    BY <1>1, <1>3 DEF UP!upload, UP!NoId, UpMishap
  <2>3. ~batch[b].dismissed
    BY <1>3 DEF UploadInv, UploadFits, BatchesFit
  <2>4. \A c \in Batches : c # b => batch'[c] = batch[c]
    BY <1>1, <2>1
  <2>5. fifo' \in Seq(UpPending) /\ FifoFits'
    BY <1>1, <1>2, <2>4, FifoStays
  <2>6. "cancel" \in UpKinds \ {"begin"} /\ "restart" \in {"chunk", "finish", "restart"} /\ 0 \in Nat
    BY DEF UpKinds
  <2> QED BY <1>1, <1>2, <2>1, <2>2, <2>3, <2>5, <2>6, SendKeeps
<1>4. CASE batch[b].id = 0
  <2> DEFINE s == [UP!NoBatch EXCEPT !.at = "begin", !.run = r]
             k == [UP!Job(b, "begin", 0, 0) EXCEPT !.run = r]
  <2>1. /\ batch' = [batch EXCEPT ![b] = s] /\ jobs' = jobs \cup {k}
        /\ mishap' = [mishap EXCEPT !.runs = r]
    BY <1>4 DEF UP!upload, UP!NoId
  <2>2. r \in Nat /\ mishap.runs < r /\ mishap.runs \in Nat
    BY <1>1 DEF UpMishap
  <2> HIDE DEF r
  <2>3. s \in UpBatch /\ s.at = "begin" /\ s.run = r /\ s.id = 0 /\ ~s.dismissed
    BY <2>2 DEF UP!NoBatch, UpBatch, UpStates, UP!NoId
  <2>4. k \in UpJob /\ k.b = b /\ k.kind = "begin" /\ k.id = 0 /\ k.target = <<b, row[b]>> /\ k.run = r
    <3>1. "begin" \in UpKinds /\ 0 \in Nat
      BY DEF UpKinds
    <3> DEFINE o == UP!Job(b, "begin", 0, 0)
    <3>2. o \in UpJob /\ o.b = b /\ o.kind = "begin" /\ o.id = 0 /\ o.target = <<b, row[b]>>
      BY <3>1, JobType
    <3> HIDE DEF o
    <3>3. [o EXCEPT !.run = r] \in UpJob
      BY <2>2, <3>2 DEF UpJob
    <3> QED BY <3>2, <3>3 DEF UpJob, o
  <2> HIDE DEF s, k
  <2>5. mishap' \in UpMishap
    BY <1>1, <2>1, <2>2 DEF UpMishap
  <2>6. /\ mishap'.ids = mishap.ids /\ mishap'.runs = r /\ mishap'.excused = mishap.excused
        /\ mishap'.told = mishap.told /\ mishap'.over = mishap.over
    BY <1>1, <2>1 DEF UpMishap
  <2>7. batch'[b] = s /\ batch' \in [Batches -> UpBatch] /\ \A c \in Batches : c # b => batch'[c] = batch[c]
    BY <1>1, <2>1, <2>3
  <2>8. fifo' \in Seq(UpPending) /\ FifoFits'
    BY <1>1, <1>2, <2>7, FifoStays
  <2>9. UploadTypes'
    BY <1>2, <2>1, <2>4, <2>5, <2>7, <2>8 DEF UploadInv, UploadTypes, RelayTypes, TrafficTypes, PhoneTypes
  <2>10. /\ UP!Ids' = UP!Ids /\ \A id, c : Lost(id, c)' <=> Lost(id, c)
         /\ \A j \in jobs' : j \in jobs \/ j = k
         /\ \A j \in jobs : j.b \in Batches /\ j.id \in Nat /\ j.run \in Nat /\ j.run <= mishap.runs /\ j.run # r
         /\ \A a \in answers : a.b \in Batches /\ a.run \in Nat /\ a.run <= mishap.runs /\ a.run # r
         /\ \A c \in Batches : batch[c].run \in Nat /\ batch[c].run <= mishap.runs /\ batch[c].id <= mishap.ids
    <3>1. UP!Ids' = UP!Ids /\ \A id, c : Lost(id, c)' <=> Lost(id, c)
      BY <1>2 DEF UP!Ids, Lost
    <3>2. \A j \in jobs : j.b \in Batches /\ j.id \in Nat /\ j.run \in Nat /\ j.run <= mishap.runs
      BY DEF UploadInv, UploadTypes, TrafficTypes, UpJob, UploadFits, Numbered
    <3>3. \A a \in answers : a.b \in Batches /\ a.run \in Nat /\ a.run <= mishap.runs
      BY DEF UploadInv, UploadTypes, TrafficTypes, UpAnswer, UploadFits, Numbered
    <3>4. \A c \in Batches : batch[c].run \in Nat /\ batch[c].run <= mishap.runs /\ batch[c].id <= mishap.ids
      BY DEF UploadInv, UploadTypes, PhoneTypes, UpBatch, UploadFits, Numbered
    <3> QED BY <2>1, <2>2, <3>1, <3>2, <3>3, <3>4
  <2>11. Numbered'
    <3>1. mishap.ids \in Nat /\ 0 <= mishap.ids
      BY <1>1 DEF UpMishap
    <3> QED BY <1>2, <2>2, <2>3, <2>4, <2>6, <2>7, <2>10, <3>1 DEF UploadInv, UploadFits, Numbered
  <2>12. Aimed'
    <3>1. row[b] \in Nat
      BY DEF UploadInv, UploadTypes, PhoneTypes
    <3> QED BY <1>2, <2>4, <2>10, <3>1 DEF UploadInv, UploadFits, Aimed
  <2>13. BatchesFit'
    BY <2>3, <2>7 DEF UploadInv, UploadFits, BatchesFit
  <2>14. BeginsFit'
    <3>1. /\ \A j \in jobs : j.kind = "begin" => j.b # b
          /\ \A a \in answers : a.kind = "begin" => a.b # b
      BY <1>1 DEF UploadInv, UploadFits, BeginsFit
    <3> QED BY <1>2, <2>3, <2>4, <2>7, <2>10, <3>1 DEF UploadInv, UploadFits, BeginsFit
  <2>15. RunsFit'
    BY <1>2, <2>3, <2>4, <2>7, <2>10 DEF UploadInv, UploadFits, RunsFit
  <2>16. AnswersFit'
    BY <1>2, <2>3, <2>4, <2>7, <2>10 DEF UploadInv, UploadFits, AnswersFit
  <2>17. AllKnown'
    <3> SUFFICES ASSUME NEW id \in UP!Ids \ mishap.excused, NEW c \in Batches,
                        upl.sessions[id].target = <<c, row[c]>>
                 PROVE  Known(id, c)'
      BY <1>2, <2>6, <2>10 DEF AllKnown
    <3>1. Known(id, c)
      BY DEF UploadInv, UploadFits, AllKnown
    <3>2. id # 0
      BY DEF UploadInv, UploadTypes, RelayTypes, UpManager, UP!Ids
    <3> QED BY <1>2, <1>4, <2>1, <2>7, <3>1, <3>2 DEF Known
  <2>18. Recorded'
    BY <1>2, <2>6 DEF UploadInv, Recorded, UP!Refs
  <2> QED BY <2>8, <2>9, <2>11, <2>12, <2>13, <2>14, <2>15, <2>16, <2>17, <2>18 DEF UploadInv, UploadFits
<1> QED BY <1>3, <1>4

(* The cleared batch, and a batch whose session is interrupted. *)
Cleared(b) == [UP!NoBatch EXCEPT !.run = batch[b].run]
Broken(b) == [batch[b] EXCEPT !.at = "interrupted"]

LEMMA ClearedType ==
  ASSUME UploadInv, NEW b \in Batches
  PROVE  /\ Cleared(b) \in UpBatch
         /\ Cleared(b).id = 0 /\ Cleared(b).run = batch[b].run /\ Cleared(b).at = "idle" /\ ~Cleared(b).dismissed
         /\ Broken(b) \in UpBatch
         /\ Broken(b).id = batch[b].id /\ Broken(b).run = batch[b].run /\ Broken(b).at = "interrupted"
         /\ Broken(b).dismissed = batch[b].dismissed
<1>1. batch[b] \in UpBatch /\ batch[b].run \in Nat
  BY DEF UploadInv, UploadTypes, PhoneTypes, UpBatch
<1>2. Cleared(b) \in UpBatch
  BY <1>1 DEF Cleared, UP!NoBatch, UP!NoId, UpBatch, UpStates
<1>3. Broken(b) \in UpBatch
  BY <1>1 DEF Broken, UpBatch, UpStates
<1> QED BY <1>1, <1>2, <1>3 DEF Cleared, Broken, UP!NoBatch, UP!NoId, UpBatch

(* What the invariant says of one batch that is not starting. *)
LEMMA BatchFacts ==
  ASSUME UploadInv, NEW b \in Batches, batch[b].at # "begin"
  PROVE  /\ \A j \in jobs : j.b = b => j.kind # "begin" /\ (j.run = batch[b].run => batch[b].id \in {0, j.id})
         /\ \A a \in answers : a.b = b => a.kind # "begin"
         /\ \A a \in answers : a.b = b /\ a.run = batch[b].run =>
              /\ a.kind = "finish" /\ a.ok => batch[b].id \in {0, a.id}
              /\ a.kind = "cancel" /\ batch[b].id # 0 => Lost(batch[b].id, b)
         /\ batch[b].id \in Nat /\ batch[b].id <= mishap.ids
         /\ batch[b].dismissed => batch[b].at = "interrupted" /\ batch[b].id = 0
<1>1. batch[b].id \in Nat /\ batch[b].id <= mishap.ids
  BY DEF UploadInv, UploadTypes, PhoneTypes, UpBatch, UploadFits, Numbered
<1>2. batch[b].dismissed => batch[b].at = "interrupted" /\ batch[b].id = 0
  BY DEF UploadInv, UploadFits, BatchesFit
<1> QED BY <1>1, <1>2 DEF UploadInv, UploadFits, BeginsFit, RunsFit, AnswersFit

LEMMA DismissKeeps ==
  ASSUME UploadInv, NEW b \in Batches, UP!dismiss(b)
  PROVE  UploadInv'
<1>1. /\ batch \in [Batches -> UpBatch] /\ mishap \in UpMishap /\ batch[b] \in UpBatch /\ batch[b].id \in Nat
  BY DEF UploadInv, UploadTypes, PhoneTypes, RelayTypes, UpBatch
<1>2. fifo' = UP!removeBinaryPending(b) /\ UP!Costs /\ UNCHANGED <<upl, store, answers, row>>
  BY DEF UP!dismiss
<1>3. /\ mishap' \in UpMishap /\ Excuses
      /\ mishap'.told = mishap.told /\ mishap'.over = mishap.over /\ mishap'.excused = mishap.excused
  BY <1>1, <1>2, CostsType
<1>4. \A c \in Batches : c # b => batch'[c] = batch[c]
  BY <1>1 DEF UP!dismiss
<1>5. fifo' \in Seq(UpPending) /\ FifoFits'
  BY <1>2, <1>4, RemovedFacts
<1>6. Recorded'
  BY <1>2, <1>3 DEF UploadInv, Recorded, UP!Refs
<1>7. CASE batch[b].at = "begin"
  <2> DEFINE s == [batch[b] EXCEPT !.dismissed = TRUE]
  <2>1. batch[b].id = 0
    BY <1>7 DEF UploadInv, UploadFits, BatchesFit
  <2>2. batch' = [batch EXCEPT ![b] = s] /\ jobs' = jobs
    BY <1>7, <2>1 DEF UP!dismiss, UP!NoId
  <2>3. s \in UpBatch
    BY <1>1 DEF UpBatch
  <2>4. s.at = batch[b].at /\ s.id = batch[b].id /\ s.run = batch[b].run
    BY <1>1 DEF UpBatch
  <2> HIDE DEF s
  <2>5. /\ batch' \in [Batches -> UpBatch]
        /\ \A c \in Batches : /\ batch'[c].at = batch[c].at /\ batch'[c].id = batch[c].id
                              /\ batch'[c].run = batch[c].run
    BY <1>1, <2>2, <2>3, <2>4
  <2>6. UploadTypes'
    BY <1>2, <1>3, <1>5, <2>2, <2>5 DEF UploadInv, UploadTypes, RelayTypes, TrafficTypes, PhoneTypes
  <2>7. /\ UP!Ids' = UP!Ids /\ \A id, c : Lost(id, c)' <=> Lost(id, c)
        /\ \A j \in jobs : j.b \in Batches
        /\ \A a \in answers : a.b \in Batches
    BY <1>2 DEF UP!Ids, Lost, UploadInv, UploadTypes, TrafficTypes, UpJob, UpAnswer
  <2>8. Numbered' /\ Aimed'
    BY <1>2, <1>3, <2>2, <2>5, <2>7 DEF UploadInv, UploadFits, Numbered, Aimed, Excuses
  <2>9. BatchesFit'
    BY <1>4, <1>7, <2>1, <2>5 DEF UploadInv, UploadFits, BatchesFit
  <2>10. BeginsFit' /\ RunsFit'
    BY <1>2, <2>2, <2>5, <2>7 DEF UploadInv, UploadFits, BeginsFit, RunsFit
  <2>11. AnswersFit'
    BY <1>2, <2>2, <2>5, <2>7 DEF UploadInv, UploadFits, AnswersFit
  <2>12. AllKnown'
    <3> SUFFICES ASSUME NEW id \in UP!Ids \ mishap.excused, NEW c \in Batches,
                        upl.sessions[id].target = <<c, row[c]>>
                 PROVE  Known(id, c)'
      BY <1>2, <1>3, <2>7 DEF AllKnown
    <3>1. Known(id, c)
      BY DEF UploadInv, UploadFits, AllKnown
    <3> QED BY <1>2, <2>2, <2>5, <3>1 DEF Known
  <2> QED BY <1>5, <1>6, <2>6, <2>8, <2>9, <2>10, <2>11, <2>12 DEF UploadInv, UploadFits
<1>8. CASE batch[b].at # "begin"
  <2> DEFINE k == UP!Job(b, "cancel", batch[b].id, 0)
  <2>1. /\ batch' = [batch EXCEPT ![b] = Cleared(b)]
        /\ jobs' = IF batch[b].id = 0 THEN jobs ELSE jobs \cup {k}
    BY <1>8 DEF UP!dismiss, UP!NoId, Cleared
  <2>2. /\ k \in UpJob /\ k.b = b /\ k.kind = "cancel" /\ k.id = batch[b].id /\ k.target = <<b, row[b]>>
        /\ k.run = batch[b].run
    <3>1. "cancel" \in UpKinds /\ 0 \in Nat
      BY DEF UpKinds
    <3> QED BY <1>1, <3>1, JobType
  <2> HIDE DEF k
  <2> DEFINE s == Cleared(b)
  <2>3. s \in UpBatch /\ s.id = 0 /\ s.run = batch[b].run /\ s.at = "idle" /\ ~s.dismissed
    BY ClearedType
  <2>4. /\ \A j \in jobs : j.b = b => j.kind # "begin"
        /\ \A a \in answers : a.b = b => a.kind # "begin"
        /\ batch[b].id <= mishap.ids
    BY <1>8, BatchFacts
  <2>5. 0 <= mishap.ids
    BY <1>1 DEF UpMishap
  <2>6. jobs \subseteq jobs' /\ (\A j \in jobs' : j \in jobs \/ j = k) /\ jobs' \subseteq UpJob
    BY <2>1, <2>2 DEF UploadInv, UploadTypes, TrafficTypes
  <2> HIDE DEF s
  <2>7. \A id \in UP!Ids \ mishap.excused : upl.sessions[id].target = <<b, row[b]>> => Known(id, b)'
    <3> SUFFICES ASSUME NEW id \in UP!Ids \ mishap.excused, upl.sessions[id].target = <<b, row[b]>>
                 PROVE  Known(id, b)'
      OBVIOUS
    <3>1. Known(id, b) /\ id # 0
      BY DEF UploadInv, UploadFits, AllKnown, UploadTypes, RelayTypes, UpManager, UP!Ids
    <3> QED BY <1>2, <2>1, <2>2, <2>4, <3>1 DEF Known
  <2>8. BatchStep(b, s)
    <3>1. batch' = [batch EXCEPT ![b] = s]
      BY <2>1 DEF s
    <3>2. answers' = answers
      BY <1>2
    <3> QED BY <1>2, <1>3, <2>2, <2>3, <2>4, <2>5, <2>6, <2>7, <3>1, <3>2 DEF BatchStep
  <2> QED BY <1>2, <1>3, <1>5, <1>6, <2>3, <2>6, <2>8, BatchKeeps
<1> QED BY <1>7, <1>8

LEMMA TimesOutKeeps ==
  ASSUME UploadInv, NEW b \in Batches, UP!TimesOut(b)
  PROVE  UploadInv'
<1>1. /\ batch \in [Batches -> UpBatch] /\ mishap \in UpMishap /\ jobs \subseteq UpJob
  BY DEF UploadInv, UploadTypes, PhoneTypes, RelayTypes, TrafficTypes
<1>2. /\ fifo' = UP!removeBinaryPending(b) /\ UNCHANGED <<upl, store, jobs, answers, row, mishap>>
      /\ batch' = [batch EXCEPT ![b] = IF batch[b].dismissed THEN Cleared(b) ELSE Broken(b)]
      /\ (\A j \in jobs : j.b # b) /\ (\A a \in answers : a.b # b)
  BY DEF UP!TimesOut, Cleared, Broken
<1> DEFINE s == IF batch[b].dismissed THEN Cleared(b) ELSE Broken(b)
<1>3. /\ s \in UpBatch /\ s.run = batch[b].run /\ s.at \in {"idle", "interrupted"} /\ ~s.dismissed
      /\ s.id = batch[b].id
  BY ClearedType DEF UploadInv, UploadFits, BatchesFit
<1>4. batch' = [batch EXCEPT ![b] = s]
  BY <1>2
<1> HIDE DEF s
<1>5. batch'[b] = s /\ \A c \in Batches : c # b => batch'[c] = batch[c]
  BY <1>1, <1>4
<1>6. fifo' \in Seq(UpPending) /\ FifoFits'
  BY <1>2, <1>5, RemovedFacts
<1>7. Recorded' /\ mishap' \in UpMishap /\ jobs' \subseteq UpJob
  BY <1>1, <1>2 DEF UploadInv, Recorded, UP!Refs
<1>8. \A id \in UP!Ids \ mishap.excused : upl.sessions[id].target = <<b, row[b]>> => Known(id, b)'
  <2> SUFFICES ASSUME NEW id \in UP!Ids \ mishap.excused, upl.sessions[id].target = <<b, row[b]>>
               PROVE  Known(id, b)'
    OBVIOUS
  <2>1. Known(id, b)
    BY DEF UploadInv, UploadFits, AllKnown
  <2> QED BY <1>2, <1>3, <1>5, <2>1 DEF Known
<1>9. BatchStep(b, s)
  <2>1. s.id <= mishap.ids
    BY <1>3 DEF UploadInv, UploadFits, Numbered
  <2>2. UNCHANGED <<upl, row>> /\ jobs' = jobs /\ answers' = answers /\ Excuses
    BY <1>2 DEF Excuses
  <2> QED BY <1>2, <1>3, <1>4, <1>8, <2>1, <2>2 DEF BatchStep
<1> QED BY <1>2, <1>3, <1>6, <1>7, <1>9, BatchKeeps

(* An answer that changes no batch: it is not a begin's. *)
LEMMA IgnoredKeeps ==
  ASSUME UploadInv, NEW a \in answers, a.kind # "begin", answers' = answers \ {a},
         UNCHANGED <<upl, store, jobs, batch, fifo, row>>, mishap' \in UpMishap, Excuses, Recorded'
  PROVE  UploadInv'
<1>1. UploadTypes'
  BY DEF UploadInv, UploadTypes, RelayTypes, TrafficTypes, PhoneTypes
<1>2. /\ UP!Ids' = UP!Ids /\ \A id, c : Lost(id, c)' <=> Lost(id, c)
      /\ mishap'.ids = mishap.ids /\ mishap'.runs = mishap.runs
  BY DEF UP!Ids, Lost, Excuses
<1>3. Numbered' /\ Aimed' /\ BatchesFit' /\ FifoFits'
  BY <1>2 DEF UploadInv, UploadFits, Numbered, Aimed, BatchesFit, FifoFits
<1>4. BeginsFit' /\ RunsFit' /\ AnswersFit'
  BY <1>2 DEF UploadInv, UploadFits, BeginsFit, RunsFit, AnswersFit
<1>5. AllKnown'
  <2> SUFFICES ASSUME NEW id \in UP!Ids \ mishap.excused, NEW c \in Batches,
                      upl.sessions[id].target = <<c, row[c]>>
               PROVE  Known(id, c)'
    BY <1>2 DEF AllKnown, Excuses
  <2>1. Known(id, c)
    BY DEF UploadInv, UploadFits, AllKnown
  <2> QED BY <2>1 DEF Known
<1> QED BY <1>1, <1>3, <1>4, <1>5 DEF UploadInv, UploadFits

LEMMA ToldFacts ==
  ASSUME UploadInv, NEW a \in answers, UP!resolveUpload(a)
  PROVE  mishap' \in UpMishap /\ Excuses /\ Recorded' /\ mishap'.excused = mishap.excused
<1>1. /\ mishap \in UpMishap /\ a.id \in Nat /\ answers' = answers \ {a} /\ UNCHANGED <<upl, store>>
      /\ mishap' = IF a.kind = "finish" /\ a.ok THEN [mishap EXCEPT !.told = mishap.told \cup UP!Refs(a.id)]
                     ELSE mishap
  BY DEF UploadInv, UploadTypes, RelayTypes, TrafficTypes, UpAnswer, UP!resolveUpload
<1>2. CASE a.kind = "finish" /\ a.ok
  <2> DEFINE t == mishap.told \cup UP!Refs(a.id)
  <2>1. UP!Refs(a.id) \subseteq UpRefs
    BY <1>1, RefsType
  <2>2. t \in SUBSET UpRefs
    BY <1>1, <2>1 DEF UpMishap
  <2>3. t \ mishap.over \subseteq upl.recs
    BY <1>2 DEF UploadInv, Recorded
  <2>4. mishap' = [mishap EXCEPT !.told = t]
    BY <1>1, <1>2
  <2> HIDE DEF t
  <2>5. mishap' \in UpMishap
    BY <1>1, <2>2, <2>4 DEF UpMishap
  <2>6. Excuses /\ mishap'.told = t /\ mishap'.over = mishap.over /\ mishap'.excused = mishap.excused
    BY <1>1, <2>4 DEF UpMishap, Excuses
  <2>7. Recorded'
    BY <1>1, <2>3, <2>6 DEF UploadInv, Recorded, UP!Refs
  <2> QED BY <2>5, <2>6, <2>7
<1>3. CASE ~(a.kind = "finish" /\ a.ok)
  <2>1. mishap' = mishap
    BY <1>1, <1>3
  <2> QED BY <1>1, <2>1 DEF UploadInv, Recorded, UP!Refs, Excuses
<1> QED BY <1>2, <1>3

LEMMA ResolveKeeps ==
  ASSUME UploadInv, NEW a \in answers, UP!resolveUpload(a)
  PROVE  UploadInv'
<1> DEFINE b == a.b
<1>1. /\ batch \in [Batches -> UpBatch] /\ jobs \subseteq UpJob /\ a \in UpAnswer /\ b \in Batches
      /\ a.id \in Nat /\ batch[b] \in UpBatch /\ batch[b].id \in Nat /\ mishap.ids \in Nat
  BY DEF UploadInv, UploadTypes, PhoneTypes, RelayTypes, TrafficTypes, UpAnswer, UpBatch, UpMishap
<1>2. answers' = answers \ {a} /\ UNCHANGED <<upl, store, fifo, row>> /\ a.kind # "chunk"
  BY DEF UP!resolveUpload
<1>3. mishap' \in UpMishap /\ Excuses /\ Recorded' /\ mishap'.excused = mishap.excused
  BY ToldFacts
<1>4. a.id <= mishap.ids /\ batch[b].id <= mishap.ids
  BY <1>1 DEF UploadInv, UploadFits, Numbered
<1>5. CASE a.kind = "begin"
  <2>1. batch[b].at = "begin" /\ a.run = batch[b].run /\ batch[b].id = 0
    BY <1>1, <1>5 DEF UploadInv, UploadFits, BeginsFit, BatchesFit
  <2> DEFINE o == batch[b]
             s == IF o.dismissed THEN Cleared(b)
                  ELSE IF a.ok THEN [o EXCEPT !.at = "send", !.id = a.id] ELSE Broken(b)
             k == UP!Job(b, "cancel", a.id, 0)
  <2>2. /\ batch' = [batch EXCEPT ![b] = s]
        /\ jobs' = IF o.dismissed /\ a.ok THEN jobs \cup {k} ELSE jobs
    BY <1>5, <2>1 DEF UP!resolveUpload, UP!LateBegin, Cleared, Broken
  <2>3. /\ k \in UpJob /\ k.b = b /\ k.kind = "cancel" /\ k.id = a.id /\ k.target = <<b, row[b]>>
        /\ k.run = batch[b].run
    <3>1. "cancel" \in UpKinds /\ 0 \in Nat
      BY DEF UpKinds
    <3> HIDE DEF b
    <3> QED BY <1>1, <3>1, JobType
  <2> HIDE DEF k
  <2>4. s \in UpBatch
    <3>1. [o EXCEPT !.at = "send", !.id = a.id] \in UpBatch
      BY <1>1 DEF UpBatch, UpStates
    <3> QED BY <1>1, <3>1, ClearedType
  <2>5. /\ s.run = o.run /\ s.at # "begin" /\ ~s.dismissed /\ s.id \in {0, a.id}
        /\ ~o.dismissed /\ a.ok => s.id = a.id
    <3>1. LET u == [o EXCEPT !.at = "send", !.id = a.id] IN
          u.run = o.run /\ u.at = "send" /\ u.id = a.id /\ u.dismissed = o.dismissed
      BY <1>1 DEF UpBatch
    <3> QED BY <1>1, <2>1, <3>1, ClearedType
  <2> HIDE DEF s
  <2>6. batch'[b] = s /\ \A c \in Batches : c # b => batch'[c] = batch[c]
    BY <1>1, <2>2
  <2>7. /\ \A j \in jobs : j.b = b => j.run # s.run \/ j.kind = "begin"
        /\ \A j \in jobs : j.kind = "begin" => j.b # b
        /\ \A x \in answers' : x.b = b => x.kind # "begin" /\ x.run # s.run
    BY <1>2, <1>5, <2>1, <2>5 DEF UploadInv, UploadFits, RunsFit, BeginsFit
  <2>8. jobs \subseteq jobs' /\ (\A j \in jobs' : j \in jobs \/ (j = k /\ s.id = 0)) /\ jobs' \subseteq UpJob
    <3>1. o.dismissed => s.id = 0
      BY <1>1, ClearedType DEF s
    <3> QED BY <1>1, <2>2, <2>3, <3>1
  <2>9. \A id \in UP!Ids \ mishap.excused : upl.sessions[id].target = <<b, row[b]>> => Known(id, b)'
    <3> SUFFICES ASSUME NEW id \in UP!Ids \ mishap.excused, upl.sessions[id].target = <<b, row[b]>>
                 PROVE  Known(id, b)'
      OBVIOUS
    <3>1. Known(id, b) /\ id # 0
      BY <1>1 DEF UploadInv, UploadFits, AllKnown, UploadTypes, RelayTypes, UpManager, UP!Ids
    <3>2. CASE a.ok /\ a.id = id
      BY <1>2, <2>2, <2>3, <2>5, <2>6, <3>2 DEF Known
    <3>3. CASE ~(a.ok /\ a.id = id)
      BY <1>2, <2>1, <2>8, <3>1, <3>3 DEF Known
    <3> QED BY <3>2, <3>3
  <2>10. BatchStep(b, s)
    <3>1. s.id <= mishap.ids
      BY <1>1, <1>4, <2>5
    <3>2. answers' \subseteq answers /\ \A x \in answers \ answers' : x.b = b
      BY <1>2
    <3>3. \A j \in jobs' \ jobs : /\ j.b = b /\ j.kind # "begin" /\ j.target = <<b, row[b]>> /\ j.run = s.run
                                  /\ j.id <= mishap.ids
      BY <1>4, <2>3, <2>5, <2>8
    <3>4. \A j \in jobs' : j.b = b /\ j.run = s.run => j.kind # "begin" /\ s.id \in {0, j.id}
      BY <2>3, <2>7, <2>8
    <3> QED BY <1>2, <1>3, <2>2, <2>5, <2>7, <2>8, <2>9, <3>1, <3>2, <3>3, <3>4 DEF BatchStep
  <2>11. fifo' \in Seq(UpPending) /\ FifoFits'
    <3> HIDE DEF b
    <3> QED BY <1>1, <1>2, <2>1, <2>6, FifoStays
  <2> HIDE DEF b
  <2> QED BY <1>1, <1>2, <1>3, <2>4, <2>8, <2>10, <2>11, BatchKeeps
<1>6. CASE a.kind # "begin"
  <2> DEFINE o == batch[b]
             s == IF a.kind = "cancel" THEN [o EXCEPT !.at = "interrupted", !.id = 0]
                  ELSE IF a.ok THEN Cleared(b) ELSE Broken(b)
  <2>1. \/ UNCHANGED <<batch, jobs>>
        \/ /\ a.run = o.run /\ ((a.kind = "cancel" /\ o.at = "restart") \/ (a.kind = "finish" /\ o.at = "finish"))
           /\ batch' = [batch EXCEPT ![b] = s] /\ jobs' = jobs
    <3>1. CASE a.run # o.run
      BY <3>1 DEF UP!resolveUpload
    <3>2. CASE a.run = o.run /\ a.kind = "cancel" /\ o.at = "restart"
      <4>1. batch' = [batch EXCEPT ![b].at = "interrupted", ![b].id = 0] /\ jobs' = jobs
        BY <3>2 DEF UP!resolveUpload, UP!NoId
      <4>2. batch' = [batch EXCEPT ![b] = [o EXCEPT !.at = "interrupted", !.id = 0]]
        BY <1>1, <4>1
      <4>3. s = [o EXCEPT !.at = "interrupted", !.id = 0]
        BY <3>2
      <4> HIDE DEF s, o
      <4>4. batch' = [batch EXCEPT ![b] = s]
        BY <4>2, <4>3
      <4>5. jobs' = jobs
        BY <4>1
      <4> QED BY <3>2, <4>4, <4>5
    <3>3. CASE a.run = o.run /\ a.kind = "finish" /\ o.at = "finish"
      BY <3>3 DEF UP!resolveUpload, Cleared, Broken
    <3>4. CASE a.run = o.run /\ ~(a.kind = "cancel" /\ o.at = "restart") /\ ~(a.kind = "finish" /\ o.at = "finish")
      BY <1>6, <3>4 DEF UP!resolveUpload
    <3> QED BY <3>1, <3>2, <3>3, <3>4
  <2>2. CASE UNCHANGED <<batch, jobs>>
    BY <1>2, <1>3, <1>6, <2>2, IgnoredKeeps
  <2>3. CASE /\ a.run = o.run /\ ((a.kind = "cancel" /\ o.at = "restart") \/ (a.kind = "finish" /\ o.at = "finish"))
             /\ batch' = [batch EXCEPT ![b] = s] /\ jobs' = jobs
    <3>1. s \in UpBatch
      <4>1. [o EXCEPT !.at = "interrupted", !.id = 0] \in UpBatch
        BY <1>1 DEF UpBatch, UpStates
      <4> QED BY <1>1, <4>1, ClearedType
    <3>2. o.at # "begin" /\ o.at # "chunk" /\ ~o.dismissed
      BY <1>1, <2>3 DEF UploadInv, UploadFits, BatchesFit
    <3>3. /\ s.run = o.run /\ s.at # "begin" /\ ~s.dismissed /\ s.id \in {0, o.id}
          /\ s.id # o.id => o.id # 0 /\ Lost(o.id, b)
      <4>1. LET u == [o EXCEPT !.at = "interrupted", !.id = 0] IN
            u.run = o.run /\ u.at = "interrupted" /\ u.id = 0 /\ u.dismissed = o.dismissed
        BY <1>1 DEF UpBatch
      <4>2. CASE a.kind = "cancel"
        <5>1. o.id # 0 => Lost(o.id, b)
          BY <2>3, <4>2 DEF UploadInv, UploadFits, AnswersFit
        <5> QED BY <3>2, <4>1, <4>2, <5>1
      <4>3. CASE a.kind = "finish" /\ a.ok
        <5>1. o.id # 0 => Lost(o.id, b)
          BY <2>3, <4>3 DEF UploadInv, UploadFits, AnswersFit, Lost
        <5> QED BY <1>1, <3>2, <4>3, <5>1, ClearedType
      <4>4. CASE a.kind = "finish" /\ ~a.ok
        BY <1>1, <3>2, <4>4, ClearedType
      <4> QED BY <2>3, <4>2, <4>3, <4>4
    <3> HIDE DEF s
    <3>4. batch'[b] = s /\ \A c \in Batches : c # b => batch'[c] = batch[c]
      BY <1>1, <2>3
    <3>5. \A id \in UP!Ids \ mishap.excused : upl.sessions[id].target = <<b, row[b]>> => Known(id, b)'
      <4> SUFFICES ASSUME NEW id \in UP!Ids \ mishap.excused, upl.sessions[id].target = <<b, row[b]>>
                   PROVE  Known(id, b)'
        OBVIOUS
      <4>1. Known(id, b)
        BY <1>1 DEF UploadInv, UploadFits, AllKnown
      <4> QED BY <1>2, <1>6, <2>3, <3>3, <3>4, <4>1 DEF Known, Lost
    <3>6. /\ \A j \in jobs : j.b = b => j.kind # "begin" /\ (j.run = o.run => o.id \in {0, j.id})
          /\ \A x \in answers : x.b = b => x.kind # "begin"
          /\ \A x \in answers : x.b = b /\ x.run = o.run =>
               /\ x.kind = "finish" /\ x.ok => o.id \in {0, x.id}
               /\ x.kind = "cancel" /\ o.id # 0 => Lost(o.id, b)
      <4> HIDE DEF b
      <4> QED BY <1>1, <3>2, BatchFacts
    <3>7. BatchStep(b, s)
      <4>1. s.id <= mishap.ids
        BY <1>1, <1>4, <3>3
      <4>2. answers' \subseteq answers /\ \A x \in answers \ answers' : x.b = b
        BY <1>2
      <4> QED BY <1>2, <1>3, <2>3, <3>3, <3>5, <3>6, <4>1, <4>2 DEF BatchStep
    <3>8. fifo' \in Seq(UpPending) /\ FifoFits'
      <4> HIDE DEF b
      <4> QED BY <1>1, <1>2, <3>2, <3>4, FifoStays
    <3>9. jobs' \subseteq UpJob
      BY <1>1, <2>3
    <3> HIDE DEF b
    <3> QED BY <1>1, <1>2, <1>3, <3>1, <3>7, <3>8, <3>9, BatchKeeps
  <2> QED BY <2>1, <2>2, <2>3
<1> QED BY <1>5, <1>6

LEMMA ChunkAnswerKeeps ==
  ASSUME UploadInv, NEW a \in answers, UP!resolveBinaryChunkResult(a)
  PROVE  UploadInv'
<1>1. /\ batch \in [Batches -> UpBatch] /\ jobs \subseteq UpJob /\ fifo \in Seq(UpPending) /\ mishap \in UpMishap
  BY DEF UploadInv, UploadTypes, PhoneTypes, RelayTypes, TrafficTypes
<1>2. answers' = answers \ {a} /\ UNCHANGED <<upl, store, jobs, row>> /\ a.kind = "chunk"
  BY DEF UP!resolveBinaryChunkResult
<1>3. CASE fifo = <<>> \/ ~UP!Fits(Head(fifo), a)
  <2>1. UNCHANGED <<batch, fifo, mishap>>
    BY <1>3 DEF UP!resolveBinaryChunkResult
  <2>2. Recorded' /\ Excuses
    BY <1>2, <2>1 DEF UploadInv, Recorded, UP!Refs, Excuses
  <2> QED BY <1>1, <1>2, <2>1, <2>2, IgnoredKeeps
<1>4. CASE fifo # <<>> /\ UP!Fits(Head(fifo), a)
  <2>0. PICK p : p = Head(fifo)
    OBVIOUS
  <2> DEFINE b == p.b
             s == IF a.ok THEN [batch[b] EXCEPT !.at = "send", !.n = p.next] ELSE Broken(b)
             crossed == mishap.crossed \/ a.b # b \/ a.run # p.run
  <2>1. /\ fifo' = Tail(fifo) /\ batch' = [batch EXCEPT ![b] = s]
        /\ mishap' = [mishap EXCEPT !.crossed = crossed]
    BY <1>4, <2>0 DEF UP!resolveBinaryChunkResult, Broken
  <2>2. p = fifo[1] /\ p \in UpPending /\ b \in Batches /\ p.next \in Nat /\ 1 \in 1 .. Len(fifo)
    <3>1. p = fifo[1] /\ 1 \in 1 .. Len(fifo)
      BY <1>1, <1>4, <2>0
    <3>2. p \in UpPending
      BY <1>1, <1>4, <3>1
    <3> QED BY <3>1, <3>2 DEF UpPending
  <2>3. batch[b].at = "chunk" /\ ~batch[b].dismissed /\ batch[b] \in UpBatch
    BY <1>1, <2>2 DEF UploadInv, UploadFits, FifoFits, BatchesFit
  <2>4. s \in UpBatch
    <3>1. [batch[b] EXCEPT !.at = "send", !.n = p.next] \in UpBatch
      BY <2>2, <2>3 DEF UpBatch, UpStates
    <3> QED BY <2>2, <3>1, ClearedType
  <2>5. s.id = batch[b].id /\ s.run = batch[b].run /\ s.at # "begin" /\ ~s.dismissed
    <3>1. LET u == [batch[b] EXCEPT !.at = "send", !.n = p.next] IN
          u.id = batch[b].id /\ u.run = batch[b].run /\ u.at = "send" /\ u.dismissed = batch[b].dismissed
      BY <2>3 DEF UpBatch
    <3> QED BY <2>2, <2>3, <3>1, ClearedType
  <2> HIDE DEF s
  <2>6. crossed \in BOOLEAN
    BY <1>1 DEF UpMishap
  <2> HIDE DEF crossed
  <2>7. mishap' \in UpMishap
    BY <1>1, <2>1, <2>6 DEF UpMishap
  <2>8. Excuses /\ mishap'.told = mishap.told /\ mishap'.over = mishap.over /\ mishap'.excused = mishap.excused
    BY <1>1, <2>1 DEF UpMishap, Excuses
  <2>9. Recorded'
    BY <1>2, <2>8 DEF UploadInv, Recorded, UP!Refs
  <2>10. batch'[b] = s /\ \A c \in Batches : c # b => batch'[c] = batch[c]
    BY <1>1, <2>1, <2>2
  <2>11. fifo' \in Seq(UpPending) /\ FifoFits'
    <3>1. /\ fifo' \in Seq(UpPending) /\ Len(fifo') = Len(fifo) - 1 /\ Len(fifo) \in Nat
          /\ \A i \in 1 .. Len(fifo') : fifo'[i] = fifo[i + 1]
      BY <1>1, <1>4, <2>1
    <3>2. \A i \in 1 .. Len(fifo') : i + 1 \in 1 .. Len(fifo) /\ i + 1 # 1
      BY <3>1
    <3>3. \A i \in 1 .. Len(fifo') : fifo'[i].b # b /\ batch[fifo'[i].b].at = "chunk"
      BY SMTT(30), <2>2, <3>1, <3>2 DEF UploadInv, UploadFits, FifoFits
    <3>4. \A i, k \in 1 .. Len(fifo') : fifo'[i].b = fifo'[k].b => i = k
      <4>1. \A i, k \in 1 .. Len(fifo') : fifo'[i].b = fifo'[k].b => i + 1 = k + 1
        BY <3>1, <3>2 DEF UploadInv, UploadFits, FifoFits
      <4> QED BY <3>1, <4>1
    <3>5. \A i \in 1 .. Len(fifo') : fifo'[i].b \in Batches
      <4>1. \A i \in 1 .. Len(fifo') : fifo'[i] \in UpPending
        BY <3>1
      <4> QED BY <4>1 DEF UpPending
    <3> QED BY <2>10, <3>1, <3>3, <3>4, <3>5 DEF FifoFits
  <2> HIDE DEF b
  <2>12. /\ \A j \in jobs : j.b = b => j.kind # "begin" /\ (j.run = s.run => s.id \in {0, j.id})
         /\ \A x \in answers : x.b = b => x.kind # "begin"
         /\ \A x \in answers : x.b = b /\ x.run = s.run =>
              /\ x.kind = "finish" /\ x.ok => s.id \in {0, x.id}
              /\ x.kind = "cancel" /\ s.id # 0 => Lost(s.id, b)
         /\ s.id <= mishap.ids
    BY <2>2, <2>3, <2>5, BatchFacts
  <2>13. \A id \in UP!Ids \ mishap.excused : upl.sessions[id].target = <<b, row[b]>> => Known(id, b)'
    <3> SUFFICES ASSUME NEW id \in UP!Ids \ mishap.excused, upl.sessions[id].target = <<b, row[b]>>
                 PROVE  Known(id, b)'
      OBVIOUS
    <3>1. Known(id, b)
      BY <2>2 DEF UploadInv, UploadFits, AllKnown
    <3> QED BY <1>2, <2>5, <2>10, <3>1 DEF Known
  <2>14. BatchStep(b, s)
    <3>1. answers' \subseteq answers /\ \A x \in answers \ answers' : x.kind # "begin"
      BY <1>2
    <3> QED BY <1>2, <2>1, <2>5, <2>8, <2>12, <2>13, <3>1 DEF BatchStep
  <2>15. jobs' \subseteq UpJob
    BY <1>1, <1>2
  <2> QED BY <1>2, <2>2, <2>4, <2>7, <2>9, <2>11, <2>14, <2>15, BatchKeeps
<1> QED BY <1>3, <1>4

-----------------------------------------------------------------------------
(* Uploads: the theorem *)

LEMMA UploadNext ==
  ASSUME UploadInv, UP!Next
  PROVE  UploadInv'
<1>1. ASSUME UP!Phone PROVE UploadInv'
  BY <1>1, UploadKeeps, ChunkSentKeeps, FinishSentKeeps, DismissKeeps, TimesOutKeeps, ResolveKeeps,
     ChunkAnswerKeeps DEF UP!Phone
<1> QED BY <1>1, RunKeeps, LapsesKeeps, CleansKeeps, RestartKeeps, TargetMovesKeeps DEF UP!Next

LEMMA UploadInit ==
  ASSUME UP!Init
  PROVE  UploadInv
<1> USE DEF UP!Init, UP!NoId
<1>1. /\ UP!Ids = {} /\ upl.recs = {} /\ jobs = {} /\ answers = {} /\ fifo = <<>>
      /\ mishap.ids = 0 /\ mishap.runs = 0 /\ mishap.told = {}
  BY DEF UP!Ids
<1>2. UP!NoBatch \in UpBatch /\ UP!NoBatch.id = 0 /\ UP!NoBatch.run = 0 /\ ~UP!NoBatch.dismissed
      /\ UP!NoBatch.at = "idle"
  BY DEF UP!NoBatch, UpBatch, UpStates
<1>3. \A b \in Batches : batch[b] = UP!NoBatch
  OBVIOUS
<1>4. RelayTypes
  <2>1. UpManager(upl)
    BY DEF UpManager
  <2>2. store \in UpStore /\ mishap \in UpMishap
    BY DEF UpStore, UpMishap
  <2> QED BY <2>1, <2>2 DEF RelayTypes
<1>5. TrafficTypes /\ PhoneTypes
  BY <1>2 DEF TrafficTypes, PhoneTypes
<1>6. Numbered /\ Aimed /\ BatchesFit /\ FifoFits
  BY <1>1, <1>2, <1>3 DEF Numbered, Aimed, BatchesFit, FifoFits
<1>7. BeginsFit /\ RunsFit /\ AnswersFit /\ AllKnown
  BY <1>1 DEF BeginsFit, RunsFit, AnswersFit, AllKnown
<1>8. Recorded
  BY <1>1 DEF Recorded
<1> QED BY <1>4, <1>5, <1>6, <1>7, <1>8 DEF UploadInv, UploadTypes, UploadFits

(* An upload is never stranded and a published file never lost, however      *)
(* requests, cancels, timeouts, expiry, moved targets and restarts of the     *)
(* relay interleave (router.rs, uploads.rs, SessionRepository.kt): when      *)
(* nothing is under way every staged session is one its batch can still       *)
(* cancel, but for the excused ones, and every attachment a phone was told    *)
(* of resolves in memory, on disk and in the index until its lifetime ends.   *)
THEOREM UploadsAlwaysAccounted == UP!Spec => []UploadsAccounted
<1>1. UP!Init => UploadInv
  BY UploadInit
<1>2. UploadInv /\ [UP!Next]_(UP!uplVars) => UploadInv'
  <2>1. CASE UP!Next
    BY <2>1, UploadNext
  <2>2. CASE UNCHANGED UP!uplVars
    <3>1. UNCHANGED <<upl, store, jobs, answers, batch, fifo, row, mishap>>
      BY <2>2 DEF UP!uplVars
    <3>2. UploadInv => UploadTypes' /\ Recorded'
      BY <3>1 DEF UploadInv, UploadTypes, RelayTypes, TrafficTypes, PhoneTypes, Recorded, UP!Refs
    <3>3. UploadInv => (Numbered /\ Aimed /\ BatchesFit /\ FifoFits /\ BeginsFit /\ RunsFit /\ AnswersFit)'
      BY <3>1 DEF UploadInv, UploadFits, Numbered, Aimed, BatchesFit, FifoFits, BeginsFit, RunsFit,
                  AnswersFit, Lost, UP!Ids
    <3>4. UploadInv => AllKnown'
      BY SMTT(30), <3>1 DEF UploadInv, UploadFits, AllKnown, Known, UP!Ids
    <3> QED BY <3>2, <3>3, <3>4 DEF UploadInv, UploadFits
  <2> QED BY <2>1, <2>2
<1>3. UploadInv => UploadsAccounted
  <2>1. UploadInv => UP!ToldResolves
    BY DEF UploadInv, Recorded, UP!ToldResolves
  <2>2. UploadInv => UP!StagedIsKnown
    BY DEF UploadInv, UploadFits, AllKnown, Known, UP!StagedIsKnown
  <2> QED BY <2>1, <2>2 DEF UploadsAccounted
<1> QED BY <1>1, <1>2, <1>3, PTL DEF UP!Spec

=============================================================================
