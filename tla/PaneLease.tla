------------------------------ MODULE PaneLease ------------------------------
(***************************************************************************)
(* The pane-size leases (lerdr-coord/src/actions/leases.rs) of one pane,   *)
(* and the connections that ask for them (lerdr-coord/src/router.rs).      *)
(*                                                                         *)
(* Phones ask for a grid; the narrowest lease wins and is imposed on Herdr *)
(* through one controller process per pane.  Requests run in tasks of      *)
(* their own and meet at one mutex; a connection that ends spawns one more *)
(* task, which drops its leases.  The mutex is held across the calls to    *)
(* Herdr, which may fail, and across which time passes and the relay's     *)
(* token may be cancelled.                                                 *)
(*                                                                         *)
(* Abstractions.  Panes are independent entries of one map: there is one.  *)
(* An Instant is kept as the ticks that are left, so that time can go on   *)
(* for ever; a tick is longer than the sweep interval and the command      *)
(* timeouts.  Sizes out of range are refused and not sent.  A release that *)
(* Herdr does not confirm ends as one it does: the handle is taken first   *)
(* and dropping it kills the process.                                      *)
(***************************************************************************)
EXTENDS Naturals, FiniteSets, FiniteSetsExt

CONSTANTS
  Clients,       \* client-N: connections, each used once
  History,       \* HISTORY_OWNER
  Sizes,         \* the grids the phones ask for; rows = 0 is width-only
  DesktopSizes,  \* what stty may report for the desktop's grid
  NoSize,        \* no relay controller: Herdr's own layout rules
  NoPane,        \* the pane is not in the map
  NoLease,       \* HashMap::insert returned None
  TTL,           \* LEASE_TTL, in ticks
  Grace,         \* RELEASE_GRACE
  HistoryTTL,    \* the 30 s of hold_history
  MaxFaults      \* bound: calls to Herdr that fail, controllers that die

ASSUME OwnersAssumption == History \notin Clients

ASSUME SizesAssumption ==
  /\ Sizes \subseteq [columns : Nat \ {0}, rows : Nat]
  /\ DesktopSizes \subseteq [columns : Nat \ {0}, rows : Nat \ {0}]
  /\ NoSize \notin [columns : Nat \ {0}, rows : Nat]

ASSUME TimesAssumption ==
  /\ TTL \in Nat \ {0} /\ Grace \in Nat \ {0} /\ HistoryTTL \in Nat \ {0} /\ MaxFaults \in Nat

Owners == Clients \cup {History}

(* TerminalSize *)
Grid == [columns : Nat \ {0}, rows : Nat]

(* Lease; `left' is expires_at - now, and 0 once expires_at <= now. *)
Lease == [columns : Nat \ {0}, rows : Nat, left : Nat]

(* PaneState; an owner that is not in the map of leases has NoLease. *)
PaneState ==
  [controller : {"none", "live", "dead"}, baseline : Nat \ {0}, applied : Grid,
   leases : [Owners -> Lease \cup {NoLease}]]

ASSUME NullsAssumption == NoLease \notin Lease /\ NoPane \notin PaneState

VARIABLES
  pane,        \* LeaseState.panes at this pane
  herdr,       \* the grid the relay's controller process imposes in Herdr
  holder,      \* the acquire that holds the mutex across its awaits, or Nobody
  req,         \* per client: the request whose task has not run yet
  conn,        \* per client: "on", "leaving" (router dropped) or "gone" (released)
  recovering,  \* a history recovery holds the pane
  swept,       \* the sweep has run since the last tick
  cancel,      \* the token of the factory, whose children the routers get
  closed,      \* LeaseInner.closed
  faults

lease == <<pane, herdr>>
peers == <<req, conn>>
vars == <<pane, herdr, holder, req, conn, recovering, swept, cancel, closed, faults>>

NoReq == [kind |-> "none"]
ReleaseReq == [kind |-> "release"]
AcquireReq(size) == [kind |-> "acquire", size |-> size]
Nobody == [stage |-> "none"]
Unlocked == holder = Nobody

-----------------------------------------------------------------------------
(* What the manager does with a pane and Herdr, as functions of both. *)

Now == [pane |-> pane, herdr |-> herdr]
Becomes(s) == pane' = s.pane /\ herdr' = s.herdr

is_live(p) == p # NoPane /\ p.controller = "live"

(* The keys of the map. *)
Held(leases) == {o \in Owners : leases[o] # NoLease}

minimum_columns(leases) == Min({leases[o].columns : o \in Held(leases)})

Bounded(leases) == {o \in Held(leases) : leases[o].rows > 0}

(* Mutant: one width-only lease frees the height for all *)
minimum_rows_if_all(p) ==
  IF Bounded(p.leases) # Held(p.leases) THEN p.baseline
  ELSE Min({p.leases[o].rows : o \in Bounded(p.leases)})

(* The rows of width-only leases do not count; without others the baseline. *)
minimum_rows(p) ==
  IF Bounded(p.leases) = {} THEN p.baseline
  ELSE Min({p.leases[o].rows : o \in Bounded(p.leases)})

Target(p) == [columns |-> minimum_columns(p.leases), rows |-> minimum_rows(p)]

Expired(l) == l # NoLease /\ l.left = 0
remove_expired(p) ==
  [p EXCEPT !.leases = [o \in Owners |-> IF Expired(@[o]) THEN NoLease ELSE @[o]]]

(* The controller is taken out of the pane before its release is awaited. *)
release_control(s) ==
  IF s.pane.controller = "none" THEN s
  ELSE [pane |-> [s.pane EXCEPT !.controller = "none"], herdr |-> NoSize]

(* spawn or resize has reached Herdr; the frame that confirms it has not come. *)
dispatched(s, size) ==
  [pane |-> [s.pane EXCEPT !.controller = "live"], herdr |-> size]

confirmed(s, size) == [s EXCEPT !.pane.applied = size]

apply_size(s, size, ok) ==
  IF is_live(s.pane) /\ s.pane.applied = size THEN s
  ELSE IF ok THEN confirmed(dispatched(s, size), size)
  ELSE release_control(s)

(* Mutant: the last lease goes and the controller is forgotten with the pane *)
reconcile_forgetting(s, ok) ==
  IF Held(s.pane.leases) = {} THEN [pane |-> NoPane, herdr |-> s.herdr]
  ELSE apply_size(s, Target(s.pane), ok)

(* Apply the remaining minimum, or give the pane back and forget it. *)
reconcile(s, ok) ==
  IF Held(s.pane.leases) = {} THEN [pane |-> NoPane, herdr |-> release_control(s).herdr]
  ELSE apply_size(s, Target(s.pane), ok)

(* Mutant: the controller of a failed acquire is kept *)
rollback_keeping_control(s, o, previous) == [s EXCEPT !.pane.leases[o] = previous]

(* acquire failed or was cancelled: the previous lease comes back, and the    *)
(* controller is released because the resize may have reached Herdr.          *)
rollback(s, o, previous) == release_control([s EXCEPT !.pane.leases[o] = previous])

Failing(ok) ==
  /\ ok \/ faults < MaxFaults
  /\ faults' = IF ok THEN faults ELSE faults + 1

-----------------------------------------------------------------------------
(* acquire *)

(* The request is done; its task ends. *)
Answered(c) == holder' = Nobody /\ req' = [req EXCEPT ![c] = NoReq]

(* Mutant: acquire forgets that the manager is closed *)
enter_when_closed(c) ==
  /\ Unlocked /\ req[c].kind = "acquire"
  /\ holder' = [stage |-> "resolve", client |-> c, left |-> TTL]
  /\ pane' = IF pane = NoPane THEN pane ELSE remove_expired(pane)
  /\ UNCHANGED <<req, herdr, conn, recovering, swept, cancel, closed, faults>>

(* The mutex is taken; closed and the token are checked; what has expired is  *)
(* removed.                                                                   *)
AcquireEnter(c) ==
  /\ Unlocked /\ req[c].kind = "acquire"
  /\ \/ /\ closed \/ cancel
        /\ Answered(c) /\ UNCHANGED pane
     \/ /\ ~closed /\ ~cancel
        /\ holder' = [stage |-> "resolve", client |-> c, left |-> TTL]
        /\ pane' = IF pane = NoPane THEN pane ELSE remove_expired(pane)
        /\ UNCHANGED req
  /\ UNCHANGED <<herdr, conn, recovering, swept, cancel, closed, faults>>

NoLeases == [o \in Owners |-> NoLease]

(* Mutant: a height that does not parse is taken for 0 *)
new_pane_unparsed(size) ==
  [controller |-> "none", baseline |-> 0, applied |-> size, leases |-> NoLeases]

NewPane(size) ==
  [controller |-> "none", baseline |-> size.rows, applied |-> size, leases |-> NoLeases]

(* resolve_pane: process, tty and size are read from Herdr and the system.    *)
(* The token wins against a resolution that has not come back.                *)
ResolveFails ==
  /\ holder.stage = "resolve" /\ pane = NoPane
  /\ Failing(cancel)
  /\ Answered(holder.client)
  /\ UNCHANGED <<lease, conn, recovering, swept, cancel, closed>>

(* The lease is inserted, unless the token was cancelled meanwhile: then the  *)
(* entry stays as it is.                                                      *)
AcquireInsert(p) ==
  LET c == holder.client
      size == req[c].size
  IN IF cancel THEN pane' = p /\ Answered(c)
     ELSE /\ pane' = [p EXCEPT !.leases[c] = [columns |-> size.columns, rows |-> size.rows,
                                               left |-> holder.left]]
          /\ holder' = [stage |-> "apply", client |-> c, previous |-> p.leases[c]]
          /\ UNCHANGED req

AcquireResolve ==
  /\ holder.stage = "resolve"
  /\ \/ pane # NoPane /\ AcquireInsert(pane)
     \/ pane = NoPane /\ \E size \in DesktopSizes : AcquireInsert(NewPane(size))
  /\ UNCHANGED <<herdr, conn, recovering, swept, cancel, closed, faults>>

(* What a cancelled apply_size can leave: untouched, dispatched and not       *)
(* confirmed, or complete.                                                    *)
Interrupted(s, size) ==
  {s, apply_size(s, size, TRUE)}
    \cup (IF is_live(s.pane) THEN {dispatched(s, size)} ELSE {})

AcquireApply(ok) ==
  LET c == holder.client
      size == Target(pane)
  IN /\ holder.stage = "apply" /\ Failing(ok)
     /\ \/ /\ ~cancel
           /\ LET s == apply_size(Now, size, ok)
              IN Becomes(IF is_live(s.pane) THEN s ELSE rollback(s, c, holder.previous))
        \/ /\ cancel /\ ok
           /\ \E s \in Interrupted(Now, size) : Becomes(rollback(s, c, holder.previous))
     /\ Answered(c)
     /\ UNCHANGED <<conn, recovering, swept, cancel, closed>>

-----------------------------------------------------------------------------
(* The other holders of the mutex; none of their awaits can be cancelled. *)

(* release: the lease lapses after the grace; one that has expired is dropped. *)
Release(c, ok) ==
  LET held == pane # NoPane /\ pane.leases[c] # NoLease
      left == pane.leases[c].left
  IN /\ Unlocked /\ req[c].kind = "release" /\ Failing(ok)
     /\ \/ (closed \/ ~held) /\ ok /\ UNCHANGED lease
        \/ /\ ~closed /\ held /\ left > 0 /\ ok
           /\ pane' = [pane EXCEPT !.leases[c].left = Min({@, Grace})]
           /\ UNCHANGED herdr
        \/ /\ ~closed /\ held /\ left = 0
           /\ Becomes(reconcile([Now EXCEPT !.pane.leases[c] = NoLease], ok))
     /\ Answered(c)
     /\ UNCHANGED <<conn, recovering, swept, cancel, closed>>

(* release_client, spawned by the drop of the router *)
ReleaseClient(c, ok) ==
  /\ Unlocked /\ conn[c] = "leaving" /\ Failing(ok)
  /\ conn' = [conn EXCEPT ![c] = "gone"]
  /\ IF closed \/ pane = NoPane THEN UNCHANGED lease
     ELSE LET s == [Now EXCEPT !.pane.leases[c] = NoLease]
          IN Becomes(IF pane.leases[c] = NoLease /\ Held(pane.leases) # {} THEN s
                     ELSE reconcile(s, ok))
  /\ UNCHANGED <<holder, req, recovering, swept, cancel, closed>>

(* Mutant: only a lease that expired makes the sweep look at the pane *)
in_order_without_controller(p) == Held(p.leases) # {}

(* sweep_expired leaves a pane alone only when nothing expired and a live     *)
(* controller is at the minimum.                                              *)
InOrder(p) == Held(p.leases) # {} /\ is_live(p) /\ p.applied = Target(p)

SweepExpired(ok) ==
  /\ Unlocked /\ ~closed /\ Failing(ok)
  /\ swept' = TRUE
  /\ IF pane = NoPane THEN UNCHANGED lease
     ELSE LET p == remove_expired(pane)
              s == [Now EXCEPT !.pane = p]
          IN Becomes(IF p = pane /\ InOrder(p) THEN s ELSE reconcile(s, ok))
  /\ UNCHANGED <<holder, peers, recovering, cancel, closed>>

(* The sweeper ends with shutdown. *)
Shutdown ==
  /\ Unlocked /\ cancel /\ ~closed /\ closed' = TRUE
  /\ IF pane = NoPane THEN UNCHANGED lease
     ELSE Becomes(reconcile([Now EXCEPT !.pane.leases = NoLeases], TRUE))
  /\ UNCHANGED <<holder, peers, recovering, swept, cancel, faults>>

(* hold_history, at the start of a recovery; there is one at a time per pane. *)
HoldHistory ==
  /\ Unlocked /\ ~recovering /\ is_live(pane)
  /\ recovering' = TRUE
  /\ pane' = [pane EXCEPT !.leases[History] =
                [columns |-> pane.applied.columns, rows |-> pane.applied.rows,
                 left |-> HistoryTTL]]
  /\ UNCHANGED <<herdr, holder, peers, swept, cancel, closed, faults>>

ReleaseHistory(ok) ==
  /\ Unlocked /\ recovering /\ recovering' = FALSE /\ Failing(ok)
  /\ IF pane = NoPane THEN UNCHANGED lease
     ELSE Becomes(reconcile([Now EXCEPT !.pane.leases[History] = NoLease], ok))
  /\ UNCHANGED <<holder, peers, swept, cancel, closed>>

-----------------------------------------------------------------------------
(* The environment *)

(* A phone has one lease request outstanding at a time. *)
Request(c, r) ==
  /\ conn[c] = "on" /\ req[c] = NoReq
  /\ req' = [req EXCEPT ![c] = r]
  /\ UNCHANGED <<lease, holder, conn, recovering, swept, cancel, closed, faults>>

(* The connection ends and drops its router.  Its token is not cancelled, and *)
(* a request whose task was spawned still runs.                               *)
Disconnect(c) ==
  /\ conn[c] = "on" /\ conn' = [conn EXCEPT ![c] = "leaving"]
  /\ UNCHANGED <<lease, holder, req, recovering, swept, cancel, closed, faults>>

(* The controller process exits, or its stream ends. *)
ControllerDies ==
  /\ is_live(pane) /\ faults < MaxFaults /\ faults' = faults + 1
  /\ pane' = [pane EXCEPT !.controller = "dead"] /\ herdr' = NoSize
  /\ UNCHANGED <<holder, peers, recovering, swept, cancel, closed>>

(* The relay shuts down. *)
CancelAll ==
  /\ ~cancel /\ cancel' = TRUE
  /\ UNCHANGED <<lease, holder, peers, recovering, swept, closed, faults>>

Older(n) == IF n = 0 THEN 0 ELSE n - 1
Aged(l) == IF l = NoLease THEN l ELSE [l EXCEPT !.left = Older(@)]

(* Time passes, also for an acquire that waits for Herdr.  The sweep runs      *)
(* every second and waits for one command at most, so it runs in every tick.   *)
Tick ==
  /\ swept \/ closed
  /\ swept' = FALSE
  /\ pane' = IF pane = NoPane THEN pane
             ELSE [pane EXCEPT !.leases = [o \in Owners |-> Aged(@[o])]]
  /\ holder' = CASE holder.stage = "resolve" -> [holder EXCEPT !.left = Older(@)]
                 [] holder.stage = "apply" -> [holder EXCEPT !.previous = Aged(@)]
                 [] OTHER -> holder
  /\ UNCHANGED <<herdr, peers, recovering, cancel, closed, faults>>

Init ==
  /\ pane = NoPane /\ herdr = NoSize /\ holder = Nobody
  /\ req = [c \in Clients |-> NoReq] /\ conn = [c \in Clients |-> "on"]
  /\ recovering = FALSE /\ swept = FALSE /\ cancel = FALSE /\ closed = FALSE /\ faults = 0

Requests == {ReleaseReq} \cup {AcquireReq(size) : size \in Sizes}

Phone(c) == Disconnect(c) \/ \E r \in Requests : Request(c, r)
Acquire == (\E c \in Clients : AcquireEnter(c)) \/ AcquireResolve \/ ResolveFails
             \/ \E ok \in BOOLEAN : AcquireApply(ok)
Sweeper == Shutdown \/ \E ok \in BOOLEAN : SweepExpired(ok)
Recovery == HoldHistory \/ \E ok \in BOOLEAN : ReleaseHistory(ok)

Next ==
  \/ \E c \in Clients : Phone(c) \/ \E ok \in BOOLEAN : Release(c, ok) \/ ReleaseClient(c, ok)
  \/ Acquire
  \/ Sweeper
  \/ Recovery
  \/ ControllerDies
  \/ CancelAll
  \/ Tick

(* Spawned tasks run and get a mutex that stays free; calls to Herdr return,   *)
(* their timeouts see to it; time passes; a recovery ends, its phases have     *)
(* deadlines.  Phones and operators owe nothing.                               *)
Fairness ==
  /\ WF_vars(AcquireResolve \/ ResolveFails \/ \E ok \in BOOLEAN : AcquireApply(ok))
  /\ \A c \in Clients :
       /\ WF_vars(AcquireEnter(c) \/ \E ok \in BOOLEAN : Release(c, ok))
       /\ WF_vars(\E ok \in BOOLEAN : ReleaseClient(c, ok))
  /\ WF_vars(\E ok \in BOOLEAN : SweepExpired(ok))
  /\ WF_vars(Shutdown)
  /\ WF_vars(\E ok \in BOOLEAN : ReleaseHistory(ok))
  /\ WF_vars(Tick)

Spec == Init /\ [][Next]_vars

FairSpec == Spec /\ Fairness

-----------------------------------------------------------------------------
(* Properties *)

(* Types of every variable. *)
TypeOK ==
  /\ pane = NoPane \/ pane \in PaneState
  /\ herdr \in Grid \cup {NoSize}
  /\ \/ Unlocked
     \/ holder \in [stage : {"resolve"}, client : Clients, left : Nat]
     \/ holder \in [stage : {"apply"}, client : Clients, previous : Lease \cup {NoLease}]
  /\ req \in [Clients -> {NoReq} \cup Requests]
  /\ conn \in [Clients -> {"on", "leaving", "gone"}]
  /\ recovering \in BOOLEAN /\ swept \in BOOLEAN /\ cancel \in BOOLEAN
  /\ closed \in BOOLEAN /\ faults \in Nat

(* The grid that capture_size reports to the readers of the pane is the grid   *)
(* Herdr draws, and Herdr draws a relay grid only for a controller the relay   *)
(* knows to be live - after every failed, cancelled or repeated resize.        *)
CaptureIsTrue ==
  Unlocked => herdr = IF is_live(pane) THEN pane.applied ELSE NoSize

(* No phone, and no history recovery, is shown a grid wider or higher than the *)
(* one it holds a lease for, whatever was renewed, released, rolled back or    *)
(* removed in between.                                                         *)
LeaseFits ==
  Unlocked /\ is_live(pane) =>
    \A o \in Held(pane.leases) :
      /\ pane.applied.columns <= pane.leases[o].columns
      /\ pane.leases[o].rows > 0 => pane.applied.rows <= pane.leases[o].rows

(* After shutdown the relay holds nothing in Herdr: neither a request that     *)
(* waited for the mutex nor a recovery brings a controller back.               *)
ClosedHoldsNothing == closed => herdr = NoSize /\ pane = NoPane

(* Once every phone is gone the desktop gets its grid back, also from a lease  *)
(* that was taken after its connection had ended and from a recovery.          *)
DesktopRestored == (\A c \in Clients : conn[c] = "gone") ~> (herdr = NoSize)

(* A lease that has time left is in force: when the controller died or an      *)
(* acquire of another phone released it, the sweep claims the pane again       *)
(* before the lease expires, once Herdr answers.  The phone may give it up.    *)
Uncontrolled(c) ==
  /\ pane # NoPane /\ ~is_live(pane) /\ faults = MaxFaults
  /\ pane.leases[c] # NoLease /\ pane.leases[c].left > 1
GivesUp(c) == conn[c] # "on" \/ req[c] = ReleaseReq \/ cancel
PaneReclaimed == \A c \in Clients : Uncontrolled(c) ~> (is_live(pane) \/ GivesUp(c))

(* Refuted: a connection that ended holds no lease once release_client has     *)
(* run.                                                                        *)
DisconnectReleases ==
  \A c \in Clients : conn[c] = "gone" /\ pane # NoPane => pane.leases[c] = NoLease
=============================================================================
