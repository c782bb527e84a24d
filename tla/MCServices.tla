----------------------------- MODULE MCServices -----------------------------
(* The services of the relay, each on a small instance, in one state space:  *)
(* a behaviour runs the part that was chosen at the start.  They share no    *)
(* state in these models, so their product would only multiply the states.   *)
EXTENDS ServicesTopology, ServicesPane, ServicesFiles, ServicesActions

TFvars == <<topo, ledger, view, slot, fwd, outq, late, phone>>
ATvars == <<act, pub, dirty, cell, inbox, tasks, pushes, claims, told, timeouts>>
PWvars == <<scr, hist, loop, obs, reader, ctl, upq, downq, surf, odds>>
PQvars == <<mgr, disk, pass, shown, env, excuse>>
UPvars == <<upl, store, jobs, answers, batch, fifo, row, mishap>>
SPEvars == <<talk, reqs, vox, rt, facts, luck>>
UPDvars == <<ufile, um, umutex, utask, workers, ulock, host>>
AFvars == <<form, frame, reply>>
QSvars == <<term, known, entries, pane, ops, askOdds>>
SCvars == <<agent, screen, live, asked>>
HDvars == <<herdr, stream, sup, signals, flight, got, keeper, caps, collect, call, spent, why>>
CVvars == <<log, seat, feed, kept, wire, window, demand, doom>>
CMvars == <<estate, table, remembered, errand, mischief>>
JOvars == <<ring, shelf, tale, sweep, air, list, breaks>>
vars == <<part, TFvars, ATvars, PWvars, PQvars, UPvars, SPEvars, UPDvars, AFvars, QSvars, SCvars, HDvars, CVvars, CMvars, JOvars>>

Parts == {"topology", "attention", "watch", "push", "uploads", "speech", "update", "form", "ask", "screens", "herdr", "convo", "commands", "journal"}

(* The state of a part that does not run. *)
Rest == 0

Init ==
  /\ part \in Parts
  /\ IF part = "topology" THEN TF!Init
       ELSE topo = Rest /\ ledger = Rest /\ view = Rest /\ slot = Rest /\ fwd = Rest /\ outq = Rest /\ late = Rest /\ phone = Rest
  /\ IF part = "attention" THEN AT!Init
       ELSE act = Rest /\ pub = Rest /\ dirty = Rest /\ cell = Rest /\ inbox = Rest /\ tasks = Rest /\ pushes = Rest /\ claims = Rest /\ told = Rest /\ timeouts = Rest
  /\ IF part = "watch" THEN PW!Init
       ELSE scr = Rest /\ hist = Rest /\ loop = Rest /\ obs = Rest /\ reader = Rest /\ ctl = Rest /\ upq = Rest /\ downq = Rest /\ surf = Rest /\ odds = Rest
  /\ IF part = "push" THEN PQ!Init
       ELSE mgr = Rest /\ disk = Rest /\ pass = Rest /\ shown = Rest /\ env = Rest /\ excuse = Rest
  /\ IF part = "uploads" THEN UP!Init
       ELSE upl = Rest /\ store = Rest /\ jobs = Rest /\ answers = Rest /\ batch = Rest /\ fifo = Rest /\ row = Rest /\ mishap = Rest
  /\ IF part = "speech" THEN SPE!Init
       ELSE talk = Rest /\ reqs = Rest /\ vox = Rest /\ rt = Rest /\ facts = Rest /\ luck = Rest
  /\ IF part = "update" THEN UPD!Init
       ELSE ufile = Rest /\ um = Rest /\ umutex = Rest /\ utask = Rest /\ workers = Rest /\ ulock = Rest /\ host = Rest
  /\ IF part = "form" THEN AF!Init
       ELSE form = Rest /\ frame = Rest /\ reply = Rest
  /\ IF part = "ask" THEN QS!Init
       ELSE term = Rest /\ known = Rest /\ entries = Rest /\ pane = Rest /\ ops = Rest /\ askOdds = Rest
  /\ IF part = "screens" THEN SC!Init
       ELSE agent = Rest /\ screen = Rest /\ live = Rest /\ asked = Rest
  /\ IF part = "herdr" THEN HD!Init
       ELSE herdr = Rest /\ stream = Rest /\ sup = Rest /\ signals = Rest /\ flight = Rest /\ got = Rest /\ keeper = Rest /\ caps = Rest /\ collect = Rest /\ call = Rest /\ spent = Rest /\ why = Rest
  /\ IF part = "convo" THEN CV!Init
       ELSE log = Rest /\ seat = Rest /\ feed = Rest /\ kept = Rest /\ wire = Rest /\ window = Rest /\ demand = Rest /\ doom = Rest
  /\ IF part = "commands" THEN CM!Init
       ELSE estate = Rest /\ table = Rest /\ remembered = Rest /\ errand = Rest /\ mischief = Rest
  /\ IF part = "journal" THEN JO!Init
       ELSE ring = Rest /\ shelf = Rest /\ tale = Rest /\ sweep = Rest /\ air = Rest /\ list = Rest /\ breaks = Rest

Next ==
  \/ /\ part = "topology" /\ TF!Next
     /\ UNCHANGED <<part, ATvars, PWvars, PQvars, UPvars, SPEvars, UPDvars, AFvars, QSvars, SCvars, HDvars, CVvars, CMvars, JOvars>>
  \/ /\ part = "attention" /\ AT!Next
     /\ UNCHANGED <<part, TFvars, PWvars, PQvars, UPvars, SPEvars, UPDvars, AFvars, QSvars, SCvars, HDvars, CVvars, CMvars, JOvars>>
  \/ /\ part = "watch" /\ PW!Next
     /\ UNCHANGED <<part, TFvars, ATvars, PQvars, UPvars, SPEvars, UPDvars, AFvars, QSvars, SCvars, HDvars, CVvars, CMvars, JOvars>>
  \/ /\ part = "push" /\ PQ!Next
     /\ UNCHANGED <<part, TFvars, ATvars, PWvars, UPvars, SPEvars, UPDvars, AFvars, QSvars, SCvars, HDvars, CVvars, CMvars, JOvars>>
  \/ /\ part = "uploads" /\ UP!Next
     /\ UNCHANGED <<part, TFvars, ATvars, PWvars, PQvars, SPEvars, UPDvars, AFvars, QSvars, SCvars, HDvars, CVvars, CMvars, JOvars>>
  \/ /\ part = "speech" /\ SPE!Next
     /\ UNCHANGED <<part, TFvars, ATvars, PWvars, PQvars, UPvars, UPDvars, AFvars, QSvars, SCvars, HDvars, CVvars, CMvars, JOvars>>
  \/ /\ part = "update" /\ UPD!Next
     /\ UNCHANGED <<part, TFvars, ATvars, PWvars, PQvars, UPvars, SPEvars, AFvars, QSvars, SCvars, HDvars, CVvars, CMvars, JOvars>>
  \/ /\ part = "form" /\ AF!Next
     /\ UNCHANGED <<part, TFvars, ATvars, PWvars, PQvars, UPvars, SPEvars, UPDvars, QSvars, SCvars, HDvars, CVvars, CMvars, JOvars>>
  \/ /\ part = "ask" /\ QS!Next
     /\ UNCHANGED <<part, TFvars, ATvars, PWvars, PQvars, UPvars, SPEvars, UPDvars, AFvars, SCvars, HDvars, CVvars, CMvars, JOvars>>
  \/ /\ part = "screens" /\ SC!Next
     /\ UNCHANGED <<part, TFvars, ATvars, PWvars, PQvars, UPvars, SPEvars, UPDvars, AFvars, QSvars, HDvars, CVvars, CMvars, JOvars>>
  \/ /\ part = "herdr" /\ HD!Next
     /\ UNCHANGED <<part, TFvars, ATvars, PWvars, PQvars, UPvars, SPEvars, UPDvars, AFvars, QSvars, SCvars, CVvars, CMvars, JOvars>>
  \/ /\ part = "convo" /\ CV!Next
     /\ UNCHANGED <<part, TFvars, ATvars, PWvars, PQvars, UPvars, SPEvars, UPDvars, AFvars, QSvars, SCvars, HDvars, CMvars, JOvars>>
  \/ /\ part = "commands" /\ CM!Next
     /\ UNCHANGED <<part, TFvars, ATvars, PWvars, PQvars, UPvars, SPEvars, UPDvars, AFvars, QSvars, SCvars, HDvars, CVvars, JOvars>>
  \/ /\ part = "journal" /\ JO!Next
     /\ UNCHANGED <<part, TFvars, ATvars, PWvars, PQvars, UPvars, SPEvars, UPDvars, AFvars, QSvars, SCvars, HDvars, CVvars, CMvars>>

Spec == Init /\ [][Next]_vars
=============================================================================
