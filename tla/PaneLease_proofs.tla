--------------------------- MODULE PaneLease_proofs ---------------------------
(***************************************************************************)
(* Proofs about the pane leases: for every set of connections and of grids *)
(* and every choice of the durations, the grid the relay reports is the    *)
(* one Herdr draws, it fits every lease, and nothing is held after         *)
(* shutdown.                                                               *)
(*                                                                         *)
(* The operators that rewrite a pane and Herdr are dealt with first, each  *)
(* by a lemma about the pair it returns; then every operation preserves    *)
(* IInv.                                                                   *)
(***************************************************************************)
EXTENDS PaneLease, TLAPS, WellFoundedInduction

(* The least element of a set of numbers, as minimum_columns takes it. *)
LEMMA MinOf ==
  ASSUME NEW S, S \subseteq Nat, S # {}
  PROVE  Min(S) \in S /\ \A y \in S : Min(S) <= y
<1> DEFINE R == {ss \in Nat \X Nat : ss[1] < ss[2]}
<1>1. PICK x \in S : \A y \in S : <<y, x>> \notin R
  <2>1. IsWellFoundedOn(R, Nat)
    BY NatLessThanWellFounded, Zenon DEF OpToRel
  <2> HIDE DEF R
  <2> QED BY <2>1, WFMin
<1>2. ASSUME NEW y \in S PROVE x <= y
  <2>1. x \in Nat /\ y \in Nat
    OBVIOUS
  <2>2. y < x => <<y, x>> \in R
    BY <2>1
  <2> QED BY <2>1, <2>2, <1>1
<1>3. \E z \in S : \A y \in S : z <= y
  BY <1>2
<1> QED BY <1>3 DEF Min

(* What Now and the operators on a pane and Herdr range over. *)
Places == PaneState \cup {NoPane}
States == [pane : Places, herdr : Grid \cup {NoSize}]

(* CaptureIsTrue of a pair, at every moment. *)
Faithful(s) == s.herdr = IF is_live(s.pane) THEN s.pane.applied ELSE NoSize

(* LeaseFits of a pair. *)
FitsAll(leases, size) ==
  \A o \in Held(leases) :
    /\ size.columns <= leases[o].columns
    /\ leases[o].rows > 0 => size.rows <= leases[o].rows

Fitting(s) == is_live(s.pane) => FitsAll(s.pane.leases, s.pane.applied)

(* minimum_columns and minimum_rows: the grid of the narrowest lease fits
   every lease. *)
LEMMA TargetFits ==
  ASSUME NEW p \in PaneState, Held(p.leases) # {}
  PROVE  Target(p) \in Grid /\ FitsAll(p.leases, Target(p))
<1> DEFINE C == {p.leases[o].columns : o \in Held(p.leases)}
           B == Bounded(p.leases)
           W == {p.leases[o].rows : o \in B}
<1>1. \A o \in Held(p.leases) : p.leases[o] \in Lease
  BY NullsAssumption DEF PaneState, Held
<1>2. C \subseteq Nat \ {0} /\ C # {}
  BY <1>1 DEF Lease
<1>3. Min(C) \in C /\ \A o \in Held(p.leases) : Min(C) <= p.leases[o].columns
  <2>1. Min(C) \in C /\ \A y \in C : Min(C) <= y
    BY <1>2, MinOf
  <2> QED BY <2>1
<1>4. minimum_rows(p) \in Nat
      /\ \A o \in Held(p.leases) : p.leases[o].rows > 0 => minimum_rows(p) <= p.leases[o].rows
  <2>1. CASE B = {}
    <3>1. minimum_rows(p) = p.baseline
      BY <2>1 DEF minimum_rows
    <3> QED BY <2>1, <3>1 DEF PaneState, Bounded
  <2>2. CASE B # {}
    <3>1. W \subseteq Nat /\ W # {}
      BY <1>1, <2>2 DEF Lease, Bounded
    <3>2. Min(W) \in W /\ \A y \in W : Min(W) <= y
      BY <3>1, MinOf
    <3>3. minimum_rows(p) = Min(W)
      BY <2>2 DEF minimum_rows
    <3>4. \A o \in Held(p.leases) : p.leases[o].rows > 0 => p.leases[o].rows \in W
      BY DEF Bounded
    <3> QED BY <3>1, <3>2, <3>3, <3>4
  <2> QED BY <2>1, <2>2
<1>5. Target(p) = [columns |-> Min(C), rows |-> minimum_rows(p)]
  BY DEF Target, minimum_columns
<1> QED BY <1>2, <1>3, <1>4, <1>5 DEF Grid, FitsAll

(* A controller that is released leaves nothing in Herdr, also after a resize
   that was dispatched and never confirmed. *)
LEMMA ReleaseControl ==
  ASSUME NEW s \in States, s.pane # NoPane, s.pane.controller = "none" => s.herdr = NoSize
  PROVE  /\ release_control(s) \in States
         /\ release_control(s).pane # NoPane
         /\ release_control(s).herdr = NoSize
         /\ ~ is_live(release_control(s).pane)
         /\ release_control(s).pane.leases = s.pane.leases
<1>1. s.pane \in PaneState
  BY DEF States, Places
<1>2. CASE s.pane.controller = "none"
  BY <1>2 DEF release_control, is_live
<1>3. CASE s.pane.controller # "none"
  <2> DEFINE q == [s.pane EXCEPT !.controller = "none"]
  <2>1. q \in PaneState /\ q.controller = "none" /\ q.leases = s.pane.leases
    BY <1>1 DEF PaneState
  <2>2. release_control(s) = [pane |-> q, herdr |-> NoSize]
    BY <1>3 DEF release_control
  <2> HIDE DEF q
  <2> QED BY <2>1, <2>2, NullsAssumption DEF is_live, States, Places
<1> QED BY <1>2, <1>3

(* apply_size ends at the asked size or without a controller. *)
LEMMA ApplySize ==
  ASSUME NEW s \in States, s.pane # NoPane, Faithful(s), NEW size \in Grid, NEW ok \in BOOLEAN
  PROVE  /\ apply_size(s, size, ok) \in States
         /\ apply_size(s, size, ok).pane # NoPane
         /\ Faithful(apply_size(s, size, ok))
         /\ apply_size(s, size, ok).pane.leases = s.pane.leases
         /\ is_live(apply_size(s, size, ok).pane) => apply_size(s, size, ok).pane.applied = size
<1>1. s.pane \in PaneState
  BY DEF States, Places
<1>2. CASE is_live(s.pane) /\ s.pane.applied = size
  BY <1>2 DEF apply_size
<1>3. CASE ~ (is_live(s.pane) /\ s.pane.applied = size) /\ ok
  <2> DEFINE q == [[s.pane EXCEPT !.controller = "live"] EXCEPT !.applied = size]
  <2>1. q \in PaneState /\ q.controller = "live" /\ q.leases = s.pane.leases /\ q.applied = size
    BY <1>1 DEF PaneState
  <2>2. apply_size(s, size, ok) = [pane |-> q, herdr |-> size]
    BY <1>3 DEF apply_size, confirmed, dispatched
  <2> HIDE DEF q
  <2> QED BY <2>1, <2>2, NullsAssumption DEF is_live, States, Places, Faithful
<1>4. CASE ~ (is_live(s.pane) /\ s.pane.applied = size) /\ ~ ok
  <2>1. apply_size(s, size, ok) = release_control(s)
    BY <1>4 DEF apply_size
  <2>2. s.pane.controller = "none" => s.herdr = NoSize
    BY DEF Faithful, is_live
  <2> QED BY <2>1, <2>2, ReleaseControl DEF Faithful
<1> QED BY <1>2, <1>3, <1>4

(* reconcile ends in a pane that agrees with Herdr and fits its leases, or in
   none. *)
LEMMA Reconcile ==
  ASSUME NEW s \in States, s.pane # NoPane, Faithful(s), NEW ok \in BOOLEAN
  PROVE  /\ reconcile(s, ok) \in States
         /\ Faithful(reconcile(s, ok))
         /\ Fitting(reconcile(s, ok))
         /\ Held(s.pane.leases) = {} => reconcile(s, ok) = [pane |-> NoPane, herdr |-> NoSize]
<1>1. s.pane \in PaneState
  BY DEF States, Places
<1>2. CASE Held(s.pane.leases) = {}
  <2>1. s.pane.controller = "none" => s.herdr = NoSize
    BY DEF Faithful, is_live
  <2>2. reconcile(s, ok) = [pane |-> NoPane, herdr |-> NoSize]
    BY <1>2, <2>1, ReleaseControl DEF reconcile
  <2> QED BY <2>2 DEF States, Places, Faithful, Fitting, is_live
<1>3. CASE Held(s.pane.leases) # {}
  <2>1. Target(s.pane) \in Grid /\ FitsAll(s.pane.leases, Target(s.pane))
    BY <1>1, <1>3, TargetFits
  <2>2. reconcile(s, ok) = apply_size(s, Target(s.pane), ok)
    BY <1>3 DEF reconcile
  <2>3. /\ reconcile(s, ok) \in States
        /\ Faithful(reconcile(s, ok))
        /\ reconcile(s, ok).pane.leases = s.pane.leases
        /\ is_live(reconcile(s, ok).pane) => reconcile(s, ok).pane.applied = Target(s.pane)
    BY <2>1, <2>2, ApplySize
  <2> QED BY <1>3, <2>1, <2>3 DEF Fitting
<1> QED BY <1>2, <1>3

(* Other leases leave the controller and the applied grid alone. *)
LEMMA PaneRelet ==
  ASSUME NEW p \in PaneState, NEW f \in [Owners -> Lease \cup {NoLease}]
  PROVE  /\ [p EXCEPT !.leases = f] \in PaneState
         /\ [p EXCEPT !.leases = f].leases = f
         /\ [p EXCEPT !.leases = f].controller = p.controller
         /\ [p EXCEPT !.leases = f].applied = p.applied
BY DEF PaneState

(* The same for one lease that is inserted, replaced or dropped. *)
LEMMA PaneReletOne ==
  ASSUME NEW p \in PaneState, NEW o \in Owners, NEW l \in Lease \cup {NoLease}
  PROVE  /\ [p EXCEPT !.leases[o] = l] \in PaneState
         /\ [p EXCEPT !.leases[o] = l].leases = [p.leases EXCEPT ![o] = l]
         /\ [p EXCEPT !.leases[o] = l].controller = p.controller
         /\ [p EXCEPT !.leases[o] = l].applied = p.applied
BY DEF PaneState

(* A pane that got other leases still agrees with Herdr. *)
LEMMA Relet ==
  ASSUME NEW s \in States, s.pane # NoPane, Faithful(s),
         NEW q \in PaneState, q.controller = s.pane.controller, q.applied = s.pane.applied
  PROVE  /\ [s EXCEPT !.pane = q] = [pane |-> q, herdr |-> s.herdr]
         /\ [s EXCEPT !.pane = q] \in States
         /\ [s EXCEPT !.pane = q].pane # NoPane
         /\ Faithful([s EXCEPT !.pane = q])
<1>1. [s EXCEPT !.pane = q] = [pane |-> q, herdr |-> s.herdr]
  BY DEF States
<1> QED BY <1>1, NullsAssumption DEF States, Places, Faithful, is_live

(* A grid that fits the leases fits what is left of them. *)
LEMMA FitsFewer ==
  ASSUME NEW f, NEW g, NEW size, FitsAll(g, size),
         \A o \in Held(f) : /\ o \in Held(g)
                            /\ f[o].columns = g[o].columns
                            /\ f[o].rows = g[o].rows
  PROVE  FitsAll(f, size)
BY DEF FitsAll

(* remove_expired only takes leases away. *)
LEMMA RemoveExpired ==
  ASSUME NEW p \in PaneState
  PROVE  /\ remove_expired(p) \in PaneState
         /\ remove_expired(p).controller = p.controller
         /\ remove_expired(p).applied = p.applied
         /\ FitsAll(p.leases, p.applied) => FitsAll(remove_expired(p).leases, p.applied)
<1> DEFINE f == [o \in Owners |-> IF Expired(p.leases[o]) THEN NoLease ELSE p.leases[o]]
<1>1. f \in [Owners -> Lease \cup {NoLease}]
  BY DEF PaneState
<1>2. remove_expired(p) = [p EXCEPT !.leases = f]
  BY DEF remove_expired
<1>3. \A o \in Held(f) : o \in Held(p.leases) /\ f[o] = p.leases[o]
  BY DEF Held
<1> HIDE DEF f
<1>4. FitsAll(p.leases, p.applied) => FitsAll(f, p.applied)
  BY <1>3, FitsFewer
<1> QED BY <1>1, <1>2, <1>4, PaneRelet

(* A rolled back acquire leaves no controller, so nothing to disagree with. *)
LEMMA Rollback ==
  ASSUME NEW s \in States, s.pane # NoPane, s.pane.controller = "none" => s.herdr = NoSize,
         NEW o \in Owners, NEW previous \in Lease \cup {NoLease}
  PROVE  /\ rollback(s, o, previous) \in States
         /\ Faithful(rollback(s, o, previous))
         /\ Fitting(rollback(s, o, previous))
<1> DEFINE q == [s.pane EXCEPT !.leases[o] = previous]
           t == [s EXCEPT !.pane.leases[o] = previous]
<1>1. s.pane \in PaneState
  BY DEF States, Places
<1>2. q \in PaneState /\ q.controller = s.pane.controller
  BY <1>1, PaneReletOne
<1>3. t = [pane |-> q, herdr |-> s.herdr]
  BY DEF States
<1>4. rollback(s, o, previous) = release_control(t)
  BY DEF rollback
<1> HIDE DEF q, t
<1>5. t \in States /\ t.pane # NoPane /\ (t.pane.controller = "none" => t.herdr = NoSize)
  BY <1>2, <1>3, NullsAssumption DEF States, Places
<1> QED BY <1>4, <1>5, ReleaseControl DEF Faithful, Fitting

-------------------------------------------------------------------------------

(* The inductive invariant.  The pane agrees with Herdr even while an acquire  *)
(* holds the mutex; it fits its leases except between the insertion of a lease *)
(* and its application, when the pane has one of the acquiring client; the     *)
(* request that holds the mutex is still the one that took it; and a closed    *)
(* manager has neither a pane nor an acquire under way.                        *)
IInv ==
  /\ TypeOK
  /\ Faithful(Now)
  /\ holder.stage # "apply" => Fitting(Now)
  /\ holder.stage = "resolve" => req[holder.client].kind = "acquire"
  /\ holder.stage = "apply" => pane # NoPane /\ pane.leases[holder.client] # NoLease
  /\ closed => pane = NoPane /\ Unlocked

(* The current pane and Herdr as one of the States. *)
LEMMA NowState == TypeOK => Now \in States /\ (pane # NoPane => pane \in PaneState)
BY DEF TypeOK, Now, States, Places

(* The next pane and Herdr, when an operation ends in s. *)
LEMMA BecomesState ==
  ASSUME NEW s \in States, Becomes(s)
  PROVE  Now' = s /\ (pane' = NoPane \/ pane' \in PaneState) /\ herdr' \in Grid \cup {NoSize}
BY DEF Becomes, Now, States, Places

(* IInv holds at the start. *)
LEMMA InitIInv == Init => IInv
<1> SUFFICES ASSUME Init PROVE IInv
  OBVIOUS
<1>1. TypeOK
  BY DEF Init, TypeOK, Unlocked
<1>2. Now.pane = NoPane /\ Now.herdr = NoSize /\ holder.stage = "none" /\ closed = FALSE
  BY DEF Init, Now, Nobody
<1> QED BY <1>1, <1>2 DEF IInv, Faithful, Fitting, is_live

(* A step that leaves the pane, Herdr and the mutex alone preserves IInv, if
   it does not touch the request that is being served. *)
LEMMA StayIInv ==
  ASSUME IInv, UNCHANGED <<lease, holder, closed>>,
         req' \in [Clients -> {NoReq} \cup Requests],
         holder.stage = "resolve" => req'[holder.client] = req[holder.client],
         conn' \in [Clients -> {"on", "leaving", "gone"}],
         recovering' \in BOOLEAN, swept' \in BOOLEAN, cancel' \in BOOLEAN, faults' \in Nat
  PROVE  IInv'
<1>1. UNCHANGED <<pane, herdr, holder, closed>>
  BY DEF lease
<1>2. TypeOK'
  BY <1>1 DEF IInv, TypeOK, Unlocked
<1>3. Now' = Now
  BY <1>1 DEF Now
<1> QED BY <1>1, <1>2, <1>3 DEF IInv, Unlocked, Faithful, Fitting, FitsAll, Held, is_live

(* What an operation that leaves the mutex free has to establish. *)
LEMMA FreedIInv ==
  ASSUME TypeOK', Faithful(Now'), Fitting(Now'), holder'.stage # "apply",
         holder'.stage = "resolve" => req'[holder'.client].kind = "acquire",
         closed' => pane' = NoPane /\ holder' = Nobody
  PROVE  IInv'
<1>1. Faithful(Now)' /\ Fitting(Now)'
  BY DEF Faithful, Fitting, FitsAll, Held, is_live
<1> QED BY <1>1 DEF IInv, Unlocked, Nobody

(* Phones ask and leave. *)
LEMMA PhoneStep ==
  ASSUME IInv, NEW c \in Clients, Phone(c)
  PROVE  IInv'
<1>1. CASE Disconnect(c)
  BY <1>1, StayIInv DEF Disconnect, IInv, TypeOK
<1>2. ASSUME NEW r \in Requests, Request(c, r) PROVE IInv'
  <2>1. holder.stage = "resolve" => holder.client # c
    BY <1>2 DEF IInv, Request, NoReq
  <2>2. holder.stage = "resolve" => holder.client \in Clients
    BY DEF IInv, TypeOK, Unlocked, Nobody
  <2>3. req' \in [Clients -> {NoReq} \cup Requests]
    BY <1>2 DEF Request, IInv, TypeOK
  <2>4. holder.stage = "resolve" => req'[holder.client] = req[holder.client]
    BY <1>2, <2>1, <2>2 DEF Request, IInv, TypeOK
  <2> QED BY <1>2, <2>3, <2>4, StayIInv DEF Request, IInv, TypeOK
<1> QED BY <1>1, <1>2 DEF Phone

(* The relay shuts down. *)
LEMMA CancelAllStep == IInv /\ CancelAll => IInv'
BY StayIInv DEF CancelAll, IInv, TypeOK, peers

(* The mutex is free after the answer. *)
LEMMA AnsweredType ==
  ASSUME TypeOK, NEW c \in Clients, Answered(c)
  PROVE  holder' = Nobody /\ holder'.stage = "none" /\ req' \in [Clients -> {NoReq} \cup Requests]
BY DEF Answered, TypeOK, Nobody

(* The count of faults. *)
LEMMA FailingType == ASSUME TypeOK, NEW ok \in BOOLEAN, Failing(ok) PROVE faults' \in Nat
BY DEF Failing, TypeOK

(* acquire: removing what has expired keeps the fit. *)
LEMMA EnterStep ==
  ASSUME IInv, NEW c \in Clients, AcquireEnter(c)
  PROVE  IInv'
<1>0. holder.stage = "none" /\ TypeOK
  BY DEF IInv, AcquireEnter, Unlocked, Nobody
<1>1. CASE Answered(c) /\ UNCHANGED pane
  <2>1. UNCHANGED <<lease, holder, closed>>
    BY <1>1 DEF AcquireEnter, Answered, Unlocked, lease
  <2> QED BY <1>1, <2>1, <1>0, AnsweredType, StayIInv DEF AcquireEnter, TypeOK
<1>2. CASE /\ ~ closed
           /\ holder' = [stage |-> "resolve", client |-> c, left |-> TTL]
           /\ pane' = IF pane = NoPane THEN pane ELSE remove_expired(pane)
           /\ UNCHANGED req
  <2>1. /\ holder' \in [stage : {"resolve"}, client : Clients, left : Nat]
        /\ holder'.stage = "resolve" /\ req'[holder'.client].kind = "acquire"
    BY <1>2, TimesAssumption DEF AcquireEnter
  <2>2. CASE pane = NoPane
    <3>1. Now' = Now
      BY <1>2, <2>2 DEF AcquireEnter, Now
    <3>2. TypeOK'
      BY <1>0, <1>2, <2>1, <2>2 DEF AcquireEnter, TypeOK
    <3> QED BY <1>0, <1>2, <2>1, <3>1, <3>2, FreedIInv DEF IInv, AcquireEnter
  <2>3. CASE pane # NoPane
    <3>1. pane \in PaneState /\ Now \in States
      BY <1>0, <2>3, NowState
    <3> DEFINE q == remove_expired(pane)
    <3>2. q \in PaneState /\ q.controller = pane.controller /\ q.applied = pane.applied
          /\ (FitsAll(pane.leases, pane.applied) => FitsAll(q.leases, pane.applied))
      BY <3>1, RemoveExpired
    <3>3. Now' = [pane |-> q, herdr |-> herdr] /\ pane' = q
      BY <1>2, <2>3 DEF AcquireEnter, Now
    <3> HIDE DEF q
    <3>4. TypeOK'
      BY <1>0, <1>2, <2>1, <3>2, <3>3 DEF AcquireEnter, TypeOK
    <3>5. Faithful(Now') /\ Fitting(Now')
      BY <1>0, <2>3, <3>2, <3>3, NullsAssumption DEF IInv, Faithful, Fitting, Now, is_live
    <3> QED BY <1>2, <2>1, <3>4, <3>5, FreedIInv DEF AcquireEnter
  <2> QED BY <2>2, <2>3
<1> QED BY <1>1, <1>2 DEF AcquireEnter

(* The three stages of the mutex, with what each record carries. *)
LEMMA HolderStages ==
  ASSUME TypeOK
  PROVE  /\ holder.stage = "resolve" => holder.client \in Clients /\ holder.left \in Nat
         /\ holder.stage = "apply" => /\ holder.client \in Clients
                                      /\ holder.previous \in Lease \cup {NoLease}
         /\ holder.stage \in {"none", "resolve", "apply"}
BY DEF TypeOK, Unlocked, Nobody

(* No acquire is under way in a closed manager. *)
LEMMA BusyIsOpen == IInv /\ holder.stage # "none" => ~ closed
BY DEF IInv, Unlocked, Nobody

(* acquire: the pane could not be resolved. *)
LEMMA ResolveFailsStep == IInv /\ ResolveFails => IInv'
<1> SUFFICES ASSUME IInv, ResolveFails PROVE IInv'
  OBVIOUS
<1>1. TypeOK /\ holder.stage = "resolve" /\ holder.client \in Clients /\ ~ closed
  BY HolderStages, BusyIsOpen DEF IInv, ResolveFails
<1>2. /\ holder' = Nobody /\ holder'.stage = "none"
      /\ req' \in [Clients -> {NoReq} \cup Requests]
  BY <1>1, AnsweredType DEF ResolveFails
<1>3. faults' \in Nat
  BY <1>1, FailingType DEF ResolveFails, TypeOK
<1>4. Now' = Now /\ UNCHANGED <<pane, herdr>>
  BY DEF ResolveFails, lease, Now
<1>5. TypeOK'
  BY <1>1, <1>2, <1>3, <1>4 DEF ResolveFails, TypeOK, Unlocked
<1> QED BY <1>1, <1>2, <1>4, <1>5, FreedIInv DEF IInv, ResolveFails

(* The lease goes into a pane that agrees with Herdr and fits its leases. *)
LEMMA InsertStep ==
  ASSUME IInv, AcquireResolve, NEW p \in PaneState, AcquireInsert(p),
         Faithful([pane |-> p, herdr |-> herdr]), Fitting([pane |-> p, herdr |-> herdr])
  PROVE  IInv'
<1> DEFINE c == holder.client
           size == req[c].size
           l == [columns |-> size.columns, rows |-> size.rows, left |-> holder.left]
           q == [p EXCEPT !.leases[c] = l]
<1>1. TypeOK /\ holder.stage = "resolve" /\ c \in Clients /\ holder.left \in Nat /\ ~ closed
  BY HolderStages, BusyIsOpen DEF IInv, AcquireResolve
<1>2. l \in Lease
  <2>1. req[c] \in {NoReq} \cup Requests
    BY <1>1 DEF TypeOK
  <2>2. req[c].kind = "acquire"
    BY <1>1 DEF IInv
  <2>3. req[c] # NoReq /\ req[c] # ReleaseReq
    BY <2>2 DEF NoReq, ReleaseReq
  <2>4. PICK z \in Sizes : req[c] = AcquireReq(z)
    BY <2>1, <2>3 DEF Requests
  <2>5. size \in Sizes
    BY <2>4 DEF AcquireReq
  <2> QED BY <1>1, <2>5, SizesAssumption DEF Lease
<1>3. c \in Owners /\ p.leases[c] \in Lease \cup {NoLease}
  BY <1>1 DEF Owners, PaneState
<1>4. CASE cancel
  <2>1. pane' = p /\ Now' = [pane |-> p, herdr |-> herdr]
    BY <1>4 DEF AcquireInsert, AcquireResolve, Now
  <2>2. holder' = Nobody /\ holder'.stage = "none" /\ req' \in [Clients -> {NoReq} \cup Requests]
    BY <1>1, <1>4, AnsweredType DEF AcquireInsert
  <2>3. TypeOK'
    BY <1>1, <2>1, <2>2 DEF AcquireResolve, TypeOK, Unlocked
  <2> QED BY <1>1, <2>1, <2>2, <2>3, FreedIInv DEF AcquireResolve
<1>5. CASE ~ cancel
  <2>1. /\ q \in PaneState /\ q.leases = [p.leases EXCEPT ![c] = l]
        /\ q.controller = p.controller /\ q.applied = p.applied
    BY <1>2, <1>3, PaneReletOne
  <2>2. /\ pane' = q /\ Now' = [pane |-> q, herdr |-> herdr] /\ UNCHANGED req
        /\ holder' = [stage |-> "apply", client |-> c, previous |-> p.leases[c]]
    BY <1>5 DEF AcquireInsert, AcquireResolve, Now
  <2>3. q.leases[c] = l
    BY <1>3, <2>1 DEF PaneState
  <2> HIDE DEF q, l
  <2>4. TypeOK'
    BY <1>1, <1>3, <2>1, <2>2 DEF AcquireResolve, TypeOK
  <2>5. Faithful(Now')
    BY <2>1, <2>2, NullsAssumption DEF Faithful, is_live
  <2>6. holder'.stage = "apply" /\ holder'.client = c
    BY <2>2
  <2>7. pane' # NoPane /\ pane'.leases[c] # NoLease
    BY <1>2, <2>1, <2>2, <2>3, NullsAssumption
  <2>8. closed' = FALSE
    BY <1>1 DEF AcquireResolve, TypeOK
  <2> QED BY <2>4, <2>5, <2>6, <2>7, <2>8 DEF IInv, Faithful, is_live
<1> QED BY <1>4, <1>5

(* acquire: the pane is resolved; a new one has no controller yet. *)
LEMMA ResolveStep == IInv /\ AcquireResolve => IInv'
<1> SUFFICES ASSUME IInv, AcquireResolve PROVE IInv'
  OBVIOUS
<1>1. TypeOK /\ holder.stage = "resolve" /\ Faithful(Now) /\ Fitting(Now)
  BY DEF IInv, AcquireResolve
<1>2. CASE pane # NoPane /\ AcquireInsert(pane)
  BY <1>1, <1>2, NowState, InsertStep DEF Now
<1>3. ASSUME NEW size \in DesktopSizes, pane = NoPane, AcquireInsert(NewPane(size))
      PROVE  IInv'
  <2> DEFINE p == NewPane(size)
  <2>1. p \in PaneState /\ p.controller = "none"
    BY SizesAssumption DEF NewPane, PaneState, Grid, NoLeases
  <2>2. herdr = NoSize
    BY <1>1, <1>3 DEF Faithful, Now, is_live
  <2>3. AcquireInsert(p)
    BY <1>3
  <2> HIDE DEF p
  <2>4. Faithful([pane |-> p, herdr |-> herdr]) /\ Fitting([pane |-> p, herdr |-> herdr])
    BY <2>1, <2>2 DEF Faithful, Fitting, is_live
  <2> QED BY <2>1, <2>3, <2>4, InsertStep
<1> QED BY <1>2, <1>3 DEF AcquireResolve

(* The operation ends in s and frees the mutex. *)
LEMMA EndsIn ==
  ASSUME TypeOK, ~ closed, UNCHANGED closed, NEW s \in States, Becomes(s), Faithful(s), Fitting(s),
         holder' = Nobody,
         req' \in [Clients -> {NoReq} \cup Requests],
         conn' \in [Clients -> {"on", "leaving", "gone"}],
         recovering' \in BOOLEAN, swept' \in BOOLEAN, cancel' \in BOOLEAN, faults' \in Nat
  PROVE  IInv'
<1>1. Now' = s /\ (pane' = NoPane \/ pane' \in PaneState) /\ herdr' \in Grid \cup {NoSize}
  BY BecomesState
<1>2. TypeOK'
  BY <1>1 DEF TypeOK, Unlocked
<1>3. holder'.stage = "none"
  BY DEF Nobody
<1> QED BY <1>1, <1>2, <1>3, FreedIInv

(* acquire: the size is applied, or everything is rolled back. *)
LEMMA ApplyStep ==
  ASSUME IInv, NEW ok \in BOOLEAN, AcquireApply(ok)
  PROVE  IInv'
<1> DEFINE c == holder.client
           size == Target(pane)
           prev == holder.previous
<1>1. TypeOK /\ holder.stage = "apply" /\ c \in Clients /\ prev \in Lease \cup {NoLease} /\ ~ closed
  BY HolderStages, BusyIsOpen DEF IInv, AcquireApply
<1>2. /\ pane \in PaneState /\ pane # NoPane /\ Now \in States /\ Faithful(Now)
      /\ Now.pane = pane /\ Now.herdr = herdr
  BY <1>1, NowState DEF IInv, Now
<1>3. c \in Owners /\ size \in Grid /\ FitsAll(pane.leases, size)
  <2>1. c \in Held(pane.leases)
    BY <1>1 DEF IInv, Held, Owners
  <2> QED BY <1>1, <1>2, <2>1, TargetFits DEF Owners
<1>4. faults' \in Nat
  BY <1>1, FailingType DEF AcquireApply
<1>5. holder' = Nobody /\ req' \in [Clients -> {NoReq} \cup Requests]
  BY <1>1, AnsweredType DEF AcquireApply
<1>6. ASSUME NEW s \in States, Becomes(s), Faithful(s), Fitting(s) PROVE IInv'
  BY <1>1, <1>4, <1>5, <1>6, EndsIn DEF AcquireApply, TypeOK
<1>7. ASSUME NEW s \in States, s.pane # NoPane, s.pane.controller = "none" => s.herdr = NoSize,
             Becomes(rollback(s, c, prev))
      PROVE  IInv'
  BY <1>1, <1>3, <1>6, <1>7, Rollback
<1>8. ASSUME NEW k \in BOOLEAN
      PROVE  LET s == apply_size(Now, size, k)
             IN /\ s \in States /\ s.pane # NoPane /\ Faithful(s) /\ Fitting(s)
                /\ s.pane.controller = "none" => s.herdr = NoSize
  <2> DEFINE s == apply_size(Now, size, k)
  <2>1. /\ s \in States /\ s.pane # NoPane /\ Faithful(s) /\ s.pane.leases = pane.leases
        /\ is_live(s.pane) => s.pane.applied = size
    BY <1>2, <1>3, ApplySize
  <2> HIDE DEF s, size
  <2>2. Fitting(s) /\ (s.pane.controller = "none" => s.herdr = NoSize)
    BY <1>3, <2>1 DEF Fitting, Faithful, is_live
  <2> QED BY <2>1, <2>2 DEF s
<1>9. CASE LET s == apply_size(Now, size, ok)
           IN Becomes(IF is_live(s.pane) THEN s ELSE rollback(s, c, prev))
  BY <1>6, <1>7, <1>8, <1>9
<1>10. ASSUME NEW s \in Interrupted(Now, size), Becomes(rollback(s, c, prev))
       PROVE  IInv'
  <2>1. CASE s = Now
    <3>1. Now.pane.controller = "none" => Now.herdr = NoSize
      BY <1>2 DEF Faithful, is_live
    <3> QED BY <1>2, <1>7, <1>10, <2>1, <3>1
  <2>2. CASE s = apply_size(Now, size, TRUE)
    BY <1>7, <1>8, <1>10, <2>2
  <2>3. CASE s = dispatched(Now, size)
    <3> DEFINE q == [pane EXCEPT !.controller = "live"]
    <3>1. q \in PaneState /\ q.controller = "live"
      BY <1>2 DEF PaneState
    <3>2. s = [pane |-> q, herdr |-> size]
      BY <1>2, <2>3 DEF dispatched
    <3> HIDE DEF q, size
    <3>3. s \in States /\ s.pane # NoPane /\ s.pane.controller = "live"
      BY <1>3, <3>1, <3>2, NullsAssumption DEF States, Places
    <3> QED BY <1>7, <1>10, <3>3
  <2> QED BY <1>10, <2>1, <2>2, <2>3 DEF Interrupted
<1> QED BY <1>9, <1>10 DEF AcquireApply

(* A state whose pane got other leases is reconciled. *)
LEMMA ReconcileRelet ==
  ASSUME TypeOK, Faithful(Now), pane # NoPane, NEW q \in PaneState,
         q.controller = pane.controller, q.applied = pane.applied, NEW ok \in BOOLEAN
  PROVE  LET s == [Now EXCEPT !.pane = q]
         IN /\ s = [pane |-> q, herdr |-> herdr] /\ s \in States /\ Faithful(s)
            /\ reconcile(s, ok) \in States /\ Faithful(reconcile(s, ok)) /\ Fitting(reconcile(s, ok))
            /\ Held(q.leases) = {} => reconcile(s, ok) = [pane |-> NoPane, herdr |-> NoSize]
<1> DEFINE s == [Now EXCEPT !.pane = q]
<1>1. Now \in States /\ Now.pane = pane /\ Now.herdr = herdr
  BY NowState DEF Now
<1>2. s = [pane |-> q, herdr |-> herdr] /\ s \in States /\ s.pane # NoPane /\ Faithful(s)
  BY <1>1, Relet
<1>3. s.pane = q
  BY <1>2
<1> HIDE DEF s
<1>4. /\ reconcile(s, ok) \in States /\ Faithful(reconcile(s, ok)) /\ Fitting(reconcile(s, ok))
      /\ Held(q.leases) = {} => reconcile(s, ok) = [pane |-> NoPane, herdr |-> NoSize]
  BY <1>2, <1>3, Reconcile
<1> QED BY <1>2, <1>4 DEF s

(* The same with one lease dropped, in the form the operations write it. *)
LEMMA ReconcileDrop ==
  ASSUME TypeOK, Faithful(Now), pane # NoPane, NEW o \in Owners, NEW ok \in BOOLEAN
  PROVE  LET s == [Now EXCEPT !.pane.leases[o] = NoLease]
         IN /\ s.pane = [pane EXCEPT !.leases[o] = NoLease] /\ s.herdr = herdr
            /\ s \in States /\ Faithful(s)
            /\ reconcile(s, ok) \in States /\ Faithful(reconcile(s, ok)) /\ Fitting(reconcile(s, ok))
<1> DEFINE q == [pane EXCEPT !.leases[o] = NoLease]
           s == [Now EXCEPT !.pane.leases[o] = NoLease]
<1>1. pane \in PaneState
  BY NowState
<1>2. q \in PaneState /\ q.controller = pane.controller /\ q.applied = pane.applied
  BY <1>1, PaneReletOne
<1>3. s = [Now EXCEPT !.pane = q]
  BY DEF Now
<1> HIDE DEF q, s
<1>4. /\ s = [pane |-> q, herdr |-> herdr] /\ s \in States /\ Faithful(s)
      /\ reconcile(s, ok) \in States /\ Faithful(reconcile(s, ok)) /\ Fitting(reconcile(s, ok))
  BY <1>2, <1>3, ReconcileRelet
<1>5. s.pane = q /\ s.herdr = herdr
  BY <1>4
<1> QED BY <1>4, <1>5 DEF q, s

(* release: the grace shortens a lease and leaves its grid alone. *)
LEMMA ReleaseStep ==
  ASSUME IInv, NEW c \in Clients, NEW ok \in BOOLEAN, Release(c, ok)
  PROVE  IInv'
<1>1. /\ TypeOK /\ Faithful(Now) /\ holder.stage = "none" /\ Fitting(Now) /\ holder = Nobody
  BY DEF IInv, Release, Unlocked, Nobody
<1>2. faults' \in Nat
  BY <1>1, FailingType DEF Release
<1>3. holder' = Nobody /\ req' \in [Clients -> {NoReq} \cup Requests]
  BY <1>1, AnsweredType DEF Release
<1>4. c \in Owners
  BY DEF Owners
<1>5. CASE UNCHANGED lease
  BY <1>1, <1>2, <1>3, <1>5, StayIInv DEF Release, TypeOK
<1>6. CASE /\ ~ closed /\ pane # NoPane /\ pane.leases[c] # NoLease
           /\ pane' = [pane EXCEPT !.leases[c].left = Min({@, Grace})]
           /\ UNCHANGED herdr
  <2>1. pane \in PaneState /\ pane.leases[c] \in Lease
    BY <1>1, <1>4, <1>6, NowState DEF PaneState
  <2> DEFINE m == Min({pane.leases[c].left, Grace})
             l == [pane.leases[c] EXCEPT !.left = m]
             q == [pane EXCEPT !.leases[c] = l]
  <2>2. m \in Nat
    <3>1. {pane.leases[c].left, Grace} \subseteq Nat
      BY <2>1, TimesAssumption DEF Lease
    <3> QED BY <3>1, MinOf
  <2>3. pane' = q
    BY <1>6
  <2> HIDE DEF m
  <2>4. l \in Lease /\ l.columns = pane.leases[c].columns /\ l.rows = pane.leases[c].rows
    BY <2>1, <2>2 DEF Lease
  <2> HIDE DEF l
  <2>5. /\ q \in PaneState /\ q.leases = [pane.leases EXCEPT ![c] = l]
        /\ q.controller = pane.controller /\ q.applied = pane.applied
    BY <1>4, <2>1, <2>4, PaneReletOne
  <2>6. \A o \in Held(q.leases) : /\ o \in Held(pane.leases)
                                  /\ q.leases[o].columns = pane.leases[o].columns
                                  /\ q.leases[o].rows = pane.leases[o].rows
    BY <1>6, <2>1, <2>4, <2>5 DEF Held, PaneState
  <2> HIDE DEF q
  <2>7. FitsAll(pane.leases, pane.applied) => FitsAll(q.leases, q.applied)
    BY <2>5, <2>6, FitsFewer
  <2> DEFINE s == [pane |-> q, herdr |-> herdr]
  <2>8. s \in States /\ Faithful(s) /\ Fitting(s)
    BY <1>1, <1>6, <2>5, <2>7, NullsAssumption
       DEF States, Places, Faithful, Fitting, Now, is_live, TypeOK
  <2>9. Becomes(s)
    BY <1>6, <2>3 DEF Becomes
  <2> QED BY <1>1, <1>2, <1>3, <1>6, <2>8, <2>9, EndsIn DEF Release, TypeOK
<1>7. CASE /\ ~ closed /\ pane # NoPane
           /\ Becomes(reconcile([Now EXCEPT !.pane.leases[c] = NoLease], ok))
  BY <1>1, <1>2, <1>3, <1>4, <1>7, ReconcileDrop, EndsIn DEF Release, TypeOK
<1> QED BY <1>5, <1>6, <1>7 DEF Release

(* release_client: an owner without a lease changes nothing. *)
LEMMA ReleaseClientStep ==
  ASSUME IInv, NEW c \in Clients, NEW ok \in BOOLEAN, ReleaseClient(c, ok)
  PROVE  IInv'
<1>1. /\ TypeOK /\ Faithful(Now) /\ Fitting(Now) /\ holder = Nobody /\ holder.stage = "none"
  BY DEF IInv, ReleaseClient, Unlocked, Nobody
<1>2. faults' \in Nat
  BY <1>1, FailingType DEF ReleaseClient
<1>3. conn' \in [Clients -> {"on", "leaving", "gone"}]
  BY <1>1 DEF ReleaseClient, TypeOK
<1>4. CASE UNCHANGED lease
  BY <1>1, <1>2, <1>3, <1>4, StayIInv DEF ReleaseClient, TypeOK
<1>5. ASSUME ~ closed, NEW s \in States, Becomes(s), Faithful(s), Fitting(s)
      PROVE  IInv'
  BY <1>1, <1>2, <1>3, <1>5, EndsIn DEF ReleaseClient, TypeOK
<1>6. CASE ~ (closed \/ pane = NoPane)
  <2> DEFINE s == [Now EXCEPT !.pane.leases[c] = NoLease]
  <2>1. c \in Owners /\ pane \in PaneState
    BY <1>1, <1>6, NowState DEF Owners
  <2>2. /\ s.pane = [pane EXCEPT !.leases[c] = NoLease] /\ s.herdr = herdr
        /\ s \in States /\ Faithful(s)
        /\ reconcile(s, ok) \in States /\ Faithful(reconcile(s, ok)) /\ Fitting(reconcile(s, ok))
    BY <1>1, <1>6, <2>1, ReconcileDrop
  <2>3. CASE pane.leases[c] = NoLease /\ Becomes(s)
    <3>1. [pane EXCEPT !.leases[c] = NoLease] = pane
      BY <2>1, <2>3 DEF PaneState
    <3>2. Fitting(s)
      BY <1>1, <2>2, <3>1 DEF Fitting, Now
    <3> QED BY <1>5, <1>6, <2>2, <2>3, <3>2
  <2>4. CASE Becomes(reconcile(s, ok))
    BY <1>5, <1>6, <2>2, <2>4
  <2> QED BY <1>6, <2>3, <2>4 DEF ReleaseClient
<1> QED BY <1>4, <1>6 DEF ReleaseClient

(* sweep_expired. *)
LEMMA SweepStep ==
  ASSUME IInv, NEW ok \in BOOLEAN, SweepExpired(ok)
  PROVE  IInv'
<1>1. /\ TypeOK /\ Faithful(Now) /\ Fitting(Now) /\ holder = Nobody /\ holder.stage = "none"
  BY DEF IInv, SweepExpired, Unlocked, Nobody
<1>2. faults' \in Nat
  BY <1>1, FailingType DEF SweepExpired
<1>3. CASE UNCHANGED lease
  BY <1>1, <1>2, <1>3, StayIInv DEF SweepExpired, TypeOK, peers
<1>4. ASSUME NEW s \in States, Becomes(s), Faithful(s), Fitting(s)
      PROVE  IInv'
  BY <1>1, <1>2, <1>4, EndsIn DEF SweepExpired, TypeOK, peers
<1>5. CASE pane # NoPane
  <2> DEFINE p == remove_expired(pane)
             s == [Now EXCEPT !.pane = p]
  <2>1. p \in PaneState /\ p.controller = pane.controller /\ p.applied = pane.applied
    BY <1>1, <1>5, NowState, RemoveExpired
  <2>2. Becomes(IF p = pane /\ InOrder(p) THEN s ELSE reconcile(s, ok))
    BY <1>5 DEF SweepExpired
  <2> HIDE DEF p
  <2>3. /\ s = [pane |-> p, herdr |-> herdr] /\ s \in States /\ Faithful(s)
        /\ reconcile(s, ok) \in States /\ Faithful(reconcile(s, ok)) /\ Fitting(reconcile(s, ok))
    BY <1>1, <1>5, <2>1, ReconcileRelet
  <2> HIDE DEF s
  <2>4. CASE p = pane /\ Becomes(s)
    <3>1. s = Now
      BY <2>3, <2>4 DEF Now
    <3> QED BY <1>1, <1>4, <2>3, <2>4, <3>1
  <2>5. CASE Becomes(reconcile(s, ok))
    BY <1>4, <2>3, <2>5
  <2> QED BY <2>2, <2>4, <2>5
<1> QED BY <1>3, <1>5 DEF SweepExpired

(* shutdown drops every lease, so reconcile gives the pane back. *)
LEMMA ShutdownStep == IInv /\ Shutdown => IInv'
<1> SUFFICES ASSUME IInv, Shutdown PROVE IInv'
  OBVIOUS
<1>1. /\ TypeOK /\ Faithful(Now) /\ holder = Nobody /\ holder' = Nobody
  BY DEF IInv, Shutdown, Unlocked
<1>2. pane' = NoPane /\ herdr' = NoSize
  <2>1. CASE pane = NoPane
    BY <1>1, <2>1 DEF Shutdown, lease, Faithful, Now, is_live
  <2>2. CASE pane # NoPane
    <3> DEFINE q == [pane EXCEPT !.leases = NoLeases]
               s == [Now EXCEPT !.pane.leases = NoLeases]
               r == reconcile(s, TRUE)
    <3>1. NoLeases \in [Owners -> Lease \cup {NoLease}] /\ Held(NoLeases) = {}
      BY DEF NoLeases, Held
    <3>2. q \in PaneState /\ q.controller = pane.controller /\ q.applied = pane.applied
          /\ q.leases = NoLeases
      BY <1>1, <2>2, <3>1, NowState, PaneRelet
    <3>3. s = [Now EXCEPT !.pane = q]
      BY DEF Now
    <3>4. Becomes(r)
      BY <2>2 DEF Shutdown
    <3> HIDE DEF q, s
    <3>5. r = [pane |-> NoPane, herdr |-> NoSize]
      BY <1>1, <2>2, <3>1, <3>2, <3>3, ReconcileRelet
    <3> HIDE DEF r
    <3> QED BY <3>4, <3>5 DEF Becomes
  <2> QED BY <2>1, <2>2
<1>3. TypeOK'
  BY <1>1, <1>2 DEF Shutdown, TypeOK, Unlocked, peers
<1>4. Faithful(Now') /\ Fitting(Now') /\ holder'.stage = "none"
  BY <1>1, <1>2 DEF Faithful, Fitting, Now, is_live, Nobody
<1> QED BY <1>1, <1>2, <1>3, <1>4, FreedIInv

(* A recovery gets a lease of the grid it sees. *)
LEMMA HoldHistoryStep == IInv /\ HoldHistory => IInv'
<1> SUFFICES ASSUME IInv, HoldHistory PROVE IInv'
  OBVIOUS
<1>1. /\ TypeOK /\ Faithful(Now) /\ Fitting(Now) /\ holder = Nobody /\ pane # NoPane /\ ~ closed
  BY DEF IInv, HoldHistory, Unlocked, Nobody, is_live
<1> DEFINE l == [columns |-> pane.applied.columns, rows |-> pane.applied.rows, left |-> HistoryTTL]
           q == [pane EXCEPT !.leases[History] = l]
           s == [pane |-> q, herdr |-> herdr]
<1>2. pane \in PaneState /\ pane.applied \in Grid
  BY <1>1, NowState DEF PaneState
<1>3. /\ l \in Lease /\ l.columns = pane.applied.columns /\ l.rows = pane.applied.rows
  BY <1>2, TimesAssumption DEF Grid, Lease
<1>4. Becomes(s)
  BY DEF HoldHistory, Becomes
<1> HIDE DEF l
<1>5. /\ q \in PaneState /\ q.leases = [pane.leases EXCEPT ![History] = l]
      /\ q.controller = pane.controller /\ q.applied = pane.applied
  BY <1>2, <1>3, PaneReletOne DEF Owners
<1>6. is_live(pane) => FitsAll(pane.leases, pane.applied)
  BY <1>1 DEF Fitting, Now
<1>7. FitsAll(q.leases, q.applied)
  <2> SUFFICES ASSUME NEW o \in Held(q.leases)
               PROVE  /\ q.applied.columns <= q.leases[o].columns
                      /\ q.leases[o].rows > 0 => q.applied.rows <= q.leases[o].rows
    BY DEF FitsAll
  <2>1. CASE o = History
    <3>1. q.leases[o] = l
      BY <1>2, <1>5, <2>1 DEF PaneState, Owners
    <3> QED BY <1>2, <1>3, <1>5, <3>1 DEF Grid
  <2>2. CASE o # History
    <3>1. q.leases[o] = pane.leases[o] /\ o \in Held(pane.leases)
      BY <1>2, <1>5, <2>2 DEF PaneState, Held
    <3> QED BY <1>5, <1>6, <3>1 DEF FitsAll, HoldHistory
  <2> QED BY <2>1, <2>2
<1> HIDE DEF q
<1>8. s \in States /\ Faithful(s) /\ Fitting(s)
  BY <1>1, <1>5, <1>7, NullsAssumption DEF States, Places, Faithful, Fitting, Now, is_live, TypeOK
<1> HIDE DEF s
<1> QED BY <1>1, <1>4, <1>8, EndsIn DEF HoldHistory, TypeOK, peers

(* The recovery ends. *)
LEMMA ReleaseHistoryStep ==
  ASSUME IInv, NEW ok \in BOOLEAN, ReleaseHistory(ok)
  PROVE  IInv'
<1>1. /\ TypeOK /\ Faithful(Now) /\ holder = Nobody /\ holder.stage = "none"
  BY DEF IInv, ReleaseHistory, Unlocked, Nobody
<1>2. faults' \in Nat
  BY <1>1, FailingType DEF ReleaseHistory
<1>3. CASE pane = NoPane
  BY <1>1, <1>2, <1>3, StayIInv DEF ReleaseHistory, TypeOK, peers
<1>4. CASE pane # NoPane
  <2> DEFINE s == [Now EXCEPT !.pane.leases[History] = NoLease]
  <2>1. Becomes(reconcile(s, ok)) /\ ~ closed
    BY <1>4 DEF ReleaseHistory, IInv
  <2>2. reconcile(s, ok) \in States /\ Faithful(reconcile(s, ok)) /\ Fitting(reconcile(s, ok))
    BY <1>1, <1>4, ReconcileDrop DEF Owners
  <2> QED BY <1>1, <1>2, <2>1, <2>2, EndsIn DEF ReleaseHistory, TypeOK, peers
<1> QED BY <1>3, <1>4

(* A controller that dies takes its grid with it. *)
LEMMA ControllerDiesStep == IInv /\ ControllerDies => IInv'
<1> SUFFICES ASSUME IInv, ControllerDies PROVE IInv'
  OBVIOUS
<1>1. TypeOK /\ is_live(pane) /\ pane \in PaneState /\ pane # NoPane /\ ~ closed
  BY NowState DEF IInv, ControllerDies, is_live
<1> DEFINE q == [pane EXCEPT !.controller = "dead"]
<1>2. q \in PaneState /\ q.controller = "dead" /\ q.leases = pane.leases
  BY <1>1 DEF PaneState
<1>3. pane' = q /\ herdr' = NoSize /\ UNCHANGED <<holder, closed, req>> /\ faults' \in Nat
  BY <1>1 DEF ControllerDies, TypeOK, peers
<1> HIDE DEF q
<1>4. TypeOK'
  BY <1>1, <1>2, <1>3 DEF ControllerDies, TypeOK, Unlocked, peers
<1>5. Faithful(Now') /\ Fitting(Now')
  BY <1>2, <1>3 DEF Faithful, Fitting, Now, is_live
<1>6. Faithful(Now)' /\ Fitting(Now)'
  BY <1>5 DEF Faithful, Fitting, FitsAll, Held, is_live
<1>7. pane' # NoPane /\ pane'.leases = pane.leases /\ ~ closed'
  BY <1>1, <1>2, <1>3, NullsAssumption
<1> QED BY <1>3, <1>4, <1>6, <1>7 DEF IInv

(* Time changes what is left of a lease, never its grid. *)
LEMMA AgedLease ==
  ASSUME NEW l \in Lease \cup {NoLease}
  PROVE  /\ Aged(l) \in Lease \cup {NoLease}
         /\ Aged(l) = NoLease <=> l = NoLease
         /\ l # NoLease => Aged(l).columns = l.columns /\ Aged(l).rows = l.rows
<1>1. CASE l = NoLease
  BY <1>1 DEF Aged
<1>2. CASE l # NoLease
  <2>1. l \in Lease
    BY <1>2
  <2> DEFINE a == [l EXCEPT !.left = Older(l.left)]
  <2>2. a \in Lease /\ a.columns = l.columns /\ a.rows = l.rows
    BY <2>1 DEF Lease, Older
  <2>3. Aged(l) = a
    BY <1>2 DEF Aged
  <2> HIDE DEF a
  <2> QED BY <1>2, <2>2, <2>3, NullsAssumption
<1> QED BY <1>1, <1>2

(* Time passes, also for the lease an acquire would restore. *)
LEMMA TickStep == IInv /\ Tick => IInv'
<1> SUFFICES ASSUME IInv, Tick PROVE IInv'
  OBVIOUS
<1>1. TypeOK /\ UNCHANGED <<herdr, req, conn, recovering, cancel, closed, faults>> /\ swept' = FALSE
  BY DEF IInv, Tick, peers
<1>2. /\ holder = Nobody => holder' = Nobody
      /\ holder' = Nobody \/ holder' \in [stage : {"resolve"}, client : Clients, left : Nat]
           \/ holder' \in [stage : {"apply"}, client : Clients, previous : Lease \cup {NoLease}]
      /\ holder'.stage = holder.stage
      /\ holder.stage # "none" => holder'.client = holder.client
  <2>1. CASE holder = Nobody
    BY <2>1 DEF Tick, Nobody
  <2>2. CASE holder \in [stage : {"resolve"}, client : Clients, left : Nat]
    <3>1. holder' = [holder EXCEPT !.left = Older(holder.left)] /\ holder.left \in Nat
      BY <2>2 DEF Tick
    <3>2. Older(holder.left) \in Nat
      BY <3>1 DEF Older
    <3>3. holder # Nobody
      BY <2>2 DEF Nobody
    <3> QED BY <2>2, <3>1, <3>2, <3>3
  <2>3. CASE holder \in [stage : {"apply"}, client : Clients, previous : Lease \cup {NoLease}]
    <3>1. holder' = [holder EXCEPT !.previous = Aged(holder.previous)]
      BY <2>3 DEF Tick
    <3>2. Aged(holder.previous) \in Lease \cup {NoLease}
      BY <2>3, AgedLease
    <3>3. holder # Nobody
      BY <2>3 DEF Nobody
    <3> QED BY <2>3, <3>1, <3>2, <3>3
  <2> QED BY <1>1, <2>1, <2>2, <2>3 DEF TypeOK, Unlocked
<1>3. CASE pane = NoPane
  <2>1. pane' = pane /\ Now' = Now
    BY <1>1, <1>3 DEF Tick, Now
  <2>2. TypeOK'
    BY <1>1, <1>2, <2>1 DEF TypeOK, Unlocked
  <2>3. Faithful(Now)' /\ (holder.stage # "apply" => Fitting(Now)')
    BY <2>1 DEF IInv, Faithful, Fitting, FitsAll, Held, is_live
  <2> QED BY <1>1, <1>2, <1>3, <2>1, <2>2, <2>3 DEF IInv, Unlocked
<1>4. CASE pane # NoPane
  <2>1. pane \in PaneState /\ ~ closed
    BY <1>1, <1>4, NowState DEF IInv
  <2> DEFINE f == [o \in Owners |-> Aged(pane.leases[o])]
             q == [pane EXCEPT !.leases = f]
  <2>2. pane' = q
    BY <1>4 DEF Tick
  <2>3. \A o \in Owners : pane.leases[o] \in Lease \cup {NoLease}
    BY <2>1 DEF PaneState
  <2>4. f \in [Owners -> Lease \cup {NoLease}]
    BY <2>3, AgedLease
  <2>5. \A o \in Owners : /\ f[o] = NoLease <=> pane.leases[o] = NoLease
                          /\ pane.leases[o] # NoLease => /\ f[o].columns = pane.leases[o].columns
                                                         /\ f[o].rows = pane.leases[o].rows
    BY <2>3, AgedLease
  <2> HIDE DEF f
  <2>6. /\ q \in PaneState /\ q.leases = f
        /\ q.controller = pane.controller /\ q.applied = pane.applied
    BY <2>1, <2>4, PaneRelet
  <2>7. FitsAll(pane.leases, pane.applied) => FitsAll(q.leases, q.applied)
    BY <2>5, <2>6, FitsFewer DEF Held
  <2> HIDE DEF q
  <2>8. TypeOK'
    BY <1>1, <1>2, <2>2, <2>6 DEF TypeOK, Unlocked
  <2>9. Now' = [pane |-> q, herdr |-> herdr]
    BY <1>1, <2>2 DEF Now
  <2>10. Faithful(Now') /\ (holder.stage # "apply" => Fitting(Now'))
    BY <1>4, <2>6, <2>7, <2>9, NullsAssumption DEF IInv, Faithful, Fitting, Now, is_live
  <2>11. Faithful(Now)' /\ (holder.stage # "apply" => Fitting(Now)')
    BY <2>10 DEF Faithful, Fitting, FitsAll, Held, is_live
  <2>12. holder.stage = "apply" => pane' # NoPane /\ pane'.leases[holder.client] # NoLease
    BY <1>1, <2>2, <2>5, <2>6, HolderStages, NullsAssumption DEF IInv, Owners
  <2>13. closed' = FALSE
    BY <1>1, <2>1 DEF TypeOK
  <2>14. holder'.stage = "resolve" => req'[holder'.client].kind = "acquire"
    BY <1>1, <1>2 DEF IInv
  <2>15. holder'.stage = "apply" => pane' # NoPane /\ pane'.leases[holder'.client] # NoLease
    BY <1>2, <2>12
  <2> QED BY <1>2, <2>8, <2>11, <2>13, <2>14, <2>15 DEF IInv
<1> QED BY <1>3, <1>4

(* Every step preserves IInv. *)
LEMMA NextIInv == IInv /\ [Next]_vars => IInv'
<1> SUFFICES ASSUME IInv, [Next]_vars PROVE IInv'
  OBVIOUS
<1>1. CASE UNCHANGED vars
  BY <1>1, StayIInv DEF vars, lease, IInv, TypeOK
<1>2. CASE Acquire
  BY <1>2, EnterStep, ResolveStep, ResolveFailsStep, ApplyStep DEF Acquire
<1>3. CASE Sweeper
  BY <1>3, ShutdownStep, SweepStep DEF Sweeper
<1>4. CASE Recovery
  BY <1>4, HoldHistoryStep, ReleaseHistoryStep DEF Recovery
<1>5. CASE \E c \in Clients : Phone(c) \/ \E ok \in BOOLEAN : Release(c, ok) \/ ReleaseClient(c, ok)
  BY <1>5, PhoneStep, ReleaseStep, ReleaseClientStep
<1> QED BY <1>1, <1>2, <1>3, <1>4, <1>5, ControllerDiesStep, CancelAllStep, TickStep DEF Next

(* IInv is an invariant. *)
LEMMA Invariance == Spec => []IInv
BY InitIInv, NextIInv, PTL DEF Spec

(* Types of every variable hold for all constants. *)
THEOREM TypeCorrect == Spec => []TypeOK
<1>1. IInv => TypeOK
  BY DEF IInv
<1> QED BY <1>1, Invariance, PTL

(* The grid capture_size reports is the grid Herdr draws whenever the mutex is
   free, after every failed, cancelled or repeated resize. *)
THEOREM CaptureAlwaysTrue == Spec => []CaptureIsTrue
<1>1. IInv => CaptureIsTrue
  BY DEF IInv, CaptureIsTrue, Faithful, Now
<1> QED BY <1>1, Invariance, PTL

(* No phone and no recovery is shown a grid larger than its lease, for any
   number of phones and any grids they ask for. *)
THEOREM LeaseAlwaysFits == Spec => []LeaseFits
<1>1. IInv => LeaseFits
  BY DEF IInv, LeaseFits, Fitting, FitsAll, Now, Unlocked, Nobody
<1> QED BY <1>1, Invariance, PTL

(* After shutdown neither a waiting request nor a recovery brings a controller
   back. *)
THEOREM ClosedForGood == Spec => []ClosedHoldsNothing
<1>1. IInv => ClosedHoldsNothing
  BY DEF IInv, ClosedHoldsNothing, Faithful, Now, is_live
<1> QED BY <1>1, Invariance, PTL
===============================================================================
