------------------------------- MODULE RelayHub -------------------------------
(***************************************************************************)
(* The live-session registry of the relay (lerdr-relay/src/server.rs) and  *)
(* the device administration of its session actors                         *)
(* (lerdr-relay/src/session.rs): how a revocation or a reset reaches the   *)
(* sessions that are bound to the destroyed credentials.                   *)
(*                                                                         *)
(* A destructive action is answered first and swept later: the requester's *)
(* actor remembers the (credential, version) pairs and, 250 ms on, closes  *)
(* every session bound to them through the registry and fences later       *)
(* registrations.  Every session runs on its own task, so a handshake that *)
(* committed may register late, the requester may leave first, and another *)
(* administrator may act in between.                                       *)
(*                                                                         *)
(* The store is reduced to the status and version of each credential; its  *)
(* own behaviour is in AuthStore.  A crash ends every session and is left  *)
(* out.                                                                    *)
(***************************************************************************)
EXTENDS Naturals, FiniteSets

CONSTANTS
  Creds,        \* credentials, each minted at most once
  Controllers,  \* the credentials minted with the controller role
  Sessions,     \* client-N: connections, each used once
  NoCred,       \* the credential of a connection that has none
  WritesFail    \* whether a write of the device store may fail

ASSUME CredsAssumption == NoCred \notin Creds /\ Controllers \subseteq Creds

ASSUME WritesAssumption == WritesFail \in BOOLEAN

VARIABLES
  status,      \* store: "absent", "active", "revoked" or "wiped", per credential
  version,     \* store: credential version
  phase,       \* per session: "free", "committed", "live", "signalled", "gone"
  cred,        \* per session: identity.credential_id
  ver,         \* per session: identity.credential_version
  cause,       \* per session: the directive of its kill switch
  clients,     \* registry.clients
  blocked,     \* registry.blocked: per credential, the fenced version
  op,          \* per session: the admin action its actor is executing
  revoked_at,  \* per session: the sweep deadline is armed
  pending,     \* per session: pending_disconnects
  self_disconnect  \* per session

store == <<status, version>>
session == <<phase, cred, ver, cause>>
registry == <<clients, blocked>>
deferred == <<revoked_at, pending, self_disconnect>>
vars == <<store, session, registry, op, deferred>>

Versions == 0 .. 2
Pairs == Creds \X Versions

(* An admin action between authorization and effect; `listed' is what         *)
(* admin_reset captured before the wipe.                                      *)
NoOp == [kind |-> "none"]
Revoke(c) == [kind |-> "revoke", target |-> c]
Reset == [kind |-> "reset"]
Wipe(listed) == [kind |-> "wipe", listed |-> listed]

Current(s) == status[cred[s]] = "active" /\ version[cred[s]] = ver[s]

ActiveControllers == {c \in Controllers : status[c] = "active"}

(* Signal::fire: the first directive wins. *)
Fire(ss, why) ==
  /\ phase' = [s \in Sessions |-> IF s \in ss /\ phase[s] = "live" THEN "signalled" ELSE phase[s]]
  /\ cause' = [s \in Sessions |-> IF s \in ss /\ phase[s] = "live" THEN why ELSE cause[s]]
  /\ UNCHANGED <<cred, ver>>

-----------------------------------------------------------------------------
(* The handshake's commit: an active credential, or one minted by redeeming an *)
(* invitation (complete_credential, redeem_invitation).                        *)
Commit(s, c) ==
  /\ phase[s] = "free"
  /\ \/ status[c] = "active" /\ UNCHANGED store
     \/ /\ status[c] = "absent"
        /\ status' = [status EXCEPT ![c] = "active"]
        /\ version' = [version EXCEPT ![c] = 1]
  /\ phase' = [phase EXCEPT ![s] = "committed"]
  /\ cred' = [cred EXCEPT ![s] = c]
  /\ ver' = [ver EXCEPT ![s] = version'[c]]
  /\ UNCHANGED <<cause, registry, op, deferred>>

(* Mutant: registration without the fence. *)
register_unfenced(s) ==
  /\ phase[s] = "committed"
  /\ phase' = [phase EXCEPT ![s] = "live"]
  /\ clients' = clients \cup {s}
  /\ UNCHANGED <<store, cred, ver, cause, blocked, op, deferred>>

(* The on_connect hook: a registration at or below the fence is closed and not *)
(* recorded.                                                                   *)
Register(s) ==
  /\ phase[s] = "committed"
  /\ \/ /\ ver[s] > blocked[cred[s]]
        /\ phase' = [phase EXCEPT ![s] = "live"]
        /\ clients' = clients \cup {s}
        /\ UNCHANGED cause
     \/ /\ ver[s] <= blocked[cred[s]]
        /\ phase' = [phase EXCEPT ![s] = "signalled"]
        /\ cause' = [cause EXCEPT ![s] = "revoked"]
        /\ UNCHANGED clients
  /\ UNCHANGED <<store, cred, ver, blocked, op, deferred>>

(* authorize: the credential is current and a controller, or it names itself. *)
Admits(s, o) ==
  /\ Current(s)
  /\ cred[s] \in Controllers \/ o = Revoke(cred[s])

(* dispatch: the actor admits an admin action of a live session. *)
Request(s, o) ==
  /\ phase[s] = "live" /\ op[s] = NoOp /\ Admits(s, o)
  /\ op' = [op EXCEPT ![s] = o]
  /\ UNCHANGED <<store, session, registry, deferred>>

(* Mutant: the sweep is armed only when the requester is among its targets. *)
arm_for_self(s, pairs, self) ==
  /\ pending' = [pending EXCEPT ![s] = @ \cup pairs]
  /\ self_disconnect' = [self_disconnect EXCEPT ![s] = @ \/ self]
  /\ revoked_at' = [revoked_at EXCEPT ![s] = @ \/ self]

(* device_admin on success: remember the pairs and arm the deadline; actions   *)
(* that follow merge into the armed one.                                       *)
Arm(s, pairs, self) ==
  /\ pending' = [pending EXCEPT ![s] = @ \cup pairs]
  /\ self_disconnect' = [self_disconnect EXCEPT ![s] = @ \/ self]
  /\ revoked_at' = [revoked_at EXCEPT ![s] = @ \/ self \/ pairs # {}]

(* revoke in the store: refused for an unknown id and the last controller. *)
Refused(c) == status[c] \in {"absent", "wiped"} \/ ActiveControllers = {c}

(* Mutant: revoking a tombstone again moves its version on. *)
bumped_always(c) == version[c] + 1

(* revoke in the store: the version moves on once, with the tombstone. *)
Bumped(c) == IF status[c] = "active" THEN version[c] + 1 ELSE version[c]

(* admin_revoke: the tombstone's version is the fence.  When the write of the  *)
(* store fails the credential is revoked in memory, the answer is an error and *)
(* nothing is armed.                                                           *)
ExecuteRevoke(s) ==
  LET c == op[s].target
      bumped == Bumped(c)
  IN /\ op[s].kind = "revoke"
     /\ op' = [op EXCEPT ![s] = NoOp]
     /\ \/ Refused(c) /\ UNCHANGED <<store, deferred>>
        \/ /\ ~Refused(c)
           /\ status' = [status EXCEPT ![c] = "revoked"]
           /\ version' = [version EXCEPT ![c] = bumped]
           /\ \/ Arm(s, {<<c, bumped>>}, c = cred[s])
              \/ WritesFail /\ UNCHANGED deferred
     /\ UNCHANGED <<session, registry>>

(* admin_reset, first half: the active credentials, listed before the wipe. *)
ExecuteList(s) ==
  /\ op[s] = Reset
  /\ op' = [op EXCEPT ![s] =
       Wipe({<<c, version[c]>> : c \in {d \in Creds : status[d] = "active"}})]
  /\ UNCHANGED <<store, session, registry, deferred>>

(* admin_reset, second half: every credential is gone; this session follows.   *)
(* A failed write has wiped memory all the same and arms nothing.              *)
ExecuteWipe(s) ==
  /\ op[s].kind = "wipe"
  /\ op' = [op EXCEPT ![s] = NoOp]
  /\ status' = [c \in Creds |-> IF status[c] = "absent" THEN "absent" ELSE "wiped"]
  /\ \/ Arm(s, op[s].listed, TRUE)
     \/ WritesFail /\ UNCHANGED deferred
  /\ UNCHANGED <<version, session, registry>>

(* Mutant: the sweep closes every other session of the registry. *)
swept_all(s) == clients \ {s}

(* disconnect_credentials: the registered sessions, other than the requester,  *)
(* bound to a pair's credential at or below its version.                       *)
Swept(s) ==
  {t \in clients \ {s} : \E p \in pending[s] : cred[t] = p[1] /\ ver[t] <= p[2]}

(* The larger of the old fence and the pairs'. *)
Raised(s, c) ==
  CHOOSE v \in {blocked[c]} \cup {p[2] : p \in {q \in pending[s] : q[1] = c}} :
    \A w \in {blocked[c]} \cup {p[2] : p \in {q \in pending[s] : q[1] = c}} : w <= v

(* disconnect_revoked, when the deadline has passed: fence, sweep the peers,   *)
(* then close this session when its own credential was among them.             *)
SweepFire(s) ==
  /\ phase[s] = "live" /\ op[s] = NoOp /\ revoked_at[s]
  /\ blocked' = [c \in Creds |-> Raised(s, c)]
  /\ Fire(Swept(s) \cup (IF self_disconnect[s] THEN {s} ELSE {}), "revoked")
  /\ revoked_at' = [revoked_at EXCEPT ![s] = FALSE]
  /\ pending' = [pending EXCEPT ![s] = {}]
  /\ self_disconnect' = [self_disconnect EXCEPT ![s] = FALSE]
  /\ UNCHANGED <<store, clients, op>>

(* The peer leaves, the transport fails, the client is evicted or the relay    *)
(* shuts down.                                                                 *)
Leave(s) ==
  /\ phase[s] = "live"
  /\ Fire({s}, "other")
  /\ UNCHANGED <<store, registry, op, deferred>>

(* The identity and the directive of a connection end with it. *)
Forget(s) ==
  /\ cred' = [cred EXCEPT ![s] = NoCred]
  /\ ver' = [ver EXCEPT ![s] = 0]
  /\ cause' = [cause EXCEPT ![s] = "none"]

(* The transport drops a committed connection before it is registered. *)
Drop(s) ==
  /\ phase[s] = "committed"
  /\ phase' = [phase EXCEPT ![s] = "gone"]
  /\ Forget(s)
  /\ UNCHANGED <<store, registry, op, deferred>>

(* The actor sees the signal before its deadline and its inbox; the session is *)
(* removed from the registry.  What it still had armed is dropped with it.     *)
Exit(s) ==
  /\ phase[s] = "signalled" /\ op[s] = NoOp
  /\ phase' = [phase EXCEPT ![s] = "gone"]
  /\ clients' = clients \ {s}
  /\ revoked_at' = [revoked_at EXCEPT ![s] = FALSE]
  /\ pending' = [pending EXCEPT ![s] = {}]
  /\ self_disconnect' = [self_disconnect EXCEPT ![s] = FALSE]
  /\ Forget(s)
  /\ UNCHANGED <<store, blocked, op>>

Init ==
  /\ status = [c \in Creds |-> "absent"] /\ version = [c \in Creds |-> 0]
  /\ phase = [s \in Sessions |-> "free"]
  /\ cred = [s \in Sessions |-> NoCred] /\ ver = [s \in Sessions |-> 0]
  /\ cause = [s \in Sessions |-> "none"]
  /\ clients = {} /\ blocked = [c \in Creds |-> 0]
  /\ op = [s \in Sessions |-> NoOp]
  /\ revoked_at = [s \in Sessions |-> FALSE]
  /\ pending = [s \in Sessions |-> {}]
  /\ self_disconnect = [s \in Sessions |-> FALSE]

Execute(s) == ExecuteRevoke(s) \/ ExecuteList(s) \/ ExecuteWipe(s)

Next ==
  \E s \in Sessions :
    \/ \E c \in Creds : Commit(s, c) \/ Request(s, Revoke(c))
    \/ Request(s, Reset)
    \/ Register(s)
    \/ Execute(s)
    \/ SweepFire(s)
    \/ Leave(s)
    \/ Drop(s)
    \/ Exit(s)

(* Tasks are scheduled, timers fire and an actor finishes the frame it is on;  *)
(* the actor's select is biased and polls the deadline before the inbox, so a  *)
(* stream of requests cannot hold the sweep off (strong fairness).  Nothing    *)
(* obliges a peer to connect, to ask or to leave.                              *)
Fairness ==
  \A s \in Sessions :
    /\ WF_vars(Register(s)) /\ WF_vars(Execute(s))
    /\ SF_vars(SweepFire(s)) /\ WF_vars(Exit(s))

Spec == Init /\ [][Next]_vars

FairSpec == Spec /\ Fairness

-----------------------------------------------------------------------------
(* Properties *)

Ops ==
  {NoOp, Reset} \cup [kind : {"revoke"}, target : Creds]
    \cup [kind : {"wipe"}, listed : SUBSET Pairs]

(* Types of every variable. *)
TypeOK ==
  /\ status \in [Creds -> {"absent", "active", "revoked", "wiped"}]
  /\ version \in [Creds -> Versions]
  /\ phase \in [Sessions -> {"free", "committed", "live", "signalled", "gone"}]
  /\ cred \in [Sessions -> Creds \cup {NoCred}] /\ ver \in [Sessions -> Versions]
  /\ cause \in [Sessions -> {"none", "revoked", "other"}]
  /\ clients \subseteq Sessions /\ blocked \in [Creds -> Versions]
  /\ op \in [Sessions -> Ops]
  /\ revoked_at \in [Sessions -> BOOLEAN] /\ self_disconnect \in [Sessions -> BOOLEAN]
  /\ pending \in [Sessions -> SUBSET Pairs]

(* Once a sweep has fenced a credential no session bound to it stays live,     *)
(* however late its handshake registered: the race of the commit with the      *)
(* sweep that the `blocked' fence is for (server.rs, on_connect and            *)
(* disconnect_credentials).                                                    *)
FenceHolds ==
  \A s \in Sessions : phase[s] = "live" => blocked[cred[s]] < ver[s]

(* A sweep never closes a session whose credential still stands: what it       *)
(* closes as revoked has a revoked or wiped credential, also when the pairs    *)
(* of several actions merged or were listed before a concurrent change.        *)
SweepSparesCurrent ==
  \A s \in Sessions : cause[s] = "revoked" => ~Current(s)

(* What a live requester deferred does happen: the pair ends up in the fence   *)
(* (and with FenceHolds no session is left), or the requester's own session    *)
(* ended first.                                                                *)
PendingSweepRuns ==
  \A s \in Sessions : \A c \in Creds :
    (phase[s] = "live" /\ \E p \in pending[s] : p[1] = c)
      ~> (blocked[c] > 0 \/ phase[s] # "live")

(* Refuted: a live session whose credential was revoked or wiped is closed.    *)
RevokedSessionsEnd ==
  \A s \in Sessions : (phase[s] = "live" /\ ~Current(s)) ~> phase[s] # "live"
=============================================================================
