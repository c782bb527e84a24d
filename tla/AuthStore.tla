------------------------------ MODULE AuthStore ------------------------------
(***************************************************************************)
(* The relay's device store (lerdr-relay/src/store.rs), the handshakes     *)
(* that drive it (lerdr-relay/src/handshake.rs) and the pairing bootstrap  *)
(* (bin/lerdr-relay/bootstrap.rs).                                         *)
(*                                                                         *)
(* The store is one document - a single invitation slot and a list of      *)
(* credentials - kept in memory under a mutex and written to devices.json  *)
(* after every mutation.  A handshake visits it twice: `resolve' when the  *)
(* client hello arrives and `complete' when the proof failed or the client *)
(* finish opened.  Other handshakes, device administration, SIGUSR1, the   *)
(* clock and a crash all fit between the two visits.                       *)
(*                                                                         *)
(* Abstractions.  Names, locales and timestamps other than the invitation  *)
(* deadlines are left out.  An invitation's version is always 1 and is     *)
(* left out of its selector.  Identifiers come from 18 random bytes: they  *)
(* are fresh.  A secret is present or scrubbed; who knows it is `held'.    *)
(***************************************************************************)
EXTENDS Naturals, FiniteSets

CONSTANTS
  Creds,               \* identifiers the store may mint for credentials
  Conns,               \* connections that may be in a handshake at once
  NoCred,              \* the empty pending_credential_id
  NoInvitation,        \* the empty invitation slot
  MaxInvitations,      \* bound: invitations armed at the operator's request
  MaxInviteAttempts,   \* MAX_INVITE_ATTEMPTS
  Backoff,             \* the wait after the first, second... failed proof
  InvitationLifetime,  \* INVITATION_LIFETIME_MS, in clock ticks
  MaxClock,            \* bound: the last tick of the clock
  MaxFaults,           \* bound: writes of devices.json that fail
  MaxCrashes,          \* bound: crashes of the relay process
  Token,               \* a relay key is configured (cfg.token)
  RearmBootstrap,      \* AuthState.rearm_bootstrap
  RearmAtStart         \* cfg.rearm_bootstrap: wipe the file at start

ASSUME IdsAssumption == NoCred \notin Creds

ASSUME BoundsAssumption ==
  /\ MaxInvitations \in Nat /\ MaxInviteAttempts \in Nat \ {0}
  /\ InvitationLifetime \in Nat /\ MaxClock \in Nat
  /\ MaxFaults \in Nat /\ MaxCrashes \in Nat

ASSUME BackoffAssumption == Backoff \in [1 .. MaxInviteAttempts - 1 -> Nat]

ASSUME OptionsAssumption ==
  /\ Token \in BOOLEAN /\ RearmBootstrap \in BOOLEAN /\ RearmAtStart \in BOOLEAN

Roles == {"controller", "reader"}

(* BOOTSTRAP_INVITATION_ID; every other invitation id is its serial number. *)
Bootstrap == 0

(* Serial numbers of invitations: the operator's and one per start. *)
Serials == 1 .. MaxInvitations + MaxCrashes + 1

(* CredentialRecord; "absent" stands for an id the credentials list does not hold. *)
CredentialRecord ==
  [status : {"absent", "active", "revoked"}, role : Roles, version : Nat, secret : BOOLEAN]

Absent == [status |-> "absent", role |-> "reader", version |-> 0, secret |-> FALSE]

(* Invitation; `serial' is a history field that tells two armings of the    *)
(* bootstrap record apart.                                                  *)
Invitation ==
  [id : Nat, serial : Nat, expires : Nat, role : Roles,
   failed : Nat, next : Nat, pending : Creds \cup {NoCred}]

ASSUME SlotAssumption == NoInvitation \notin Invitation

(* AuthState, the persisted document. *)
AuthState ==
  [invitation : Invitation \cup {NoInvitation}, credentials : [Creds -> CredentialRecord]]

EmptyState == [invitation |-> NoInvitation, credentials |-> [c \in Creds |-> Absent]]

(* AuthSelector: what a client hello names. *)
InvitationSelector == [kind : {"invitation"}, id : Nat]
CredentialSelector == [kind : {"credential"}, id : Creds, version : Nat]
Selector == InvitationSelector \cup CredentialSelector

(* Stands for the selector of a connection whose hello has not arrived. *)
NoHello == [kind |-> "invitation", id |-> Bootstrap]

VARIABLES
  mem,       \* StoreCore.state: the document in memory
  disk,      \* devices.json
  up,        \* the relay process runs
  now,       \* the wall clock
  phase,     \* where each connection's `exchange' stands
  sel,       \* the selector of each connection's client hello
  proof,     \* whether the peer of each connection knows the secret
  identity,  \* the credential committed on each connection
  armed,     \* history: invitations armed so far
  origin,    \* history: the serial each credential was minted from, 0 if never
  held,      \* history: credentials whose secret reached a device
  acked,     \* history: credentials whose revocation was answered with success
  strikes,   \* history: failed proofs recorded without a store error, per serial
  faults,    \* writes of devices.json that failed so far
  crashes    \* crashes so far

conns == <<phase, sel, proof, identity>>
history == <<armed, origin, held, acked, strikes>>
vars == <<mem, disk, up, now, conns, history, faults, crashes>>

-----------------------------------------------------------------------------
(* The state functions of AuthState.  Each returns the next document, whether *)
(* the call succeeded and whether it reports a mutation to `transact'.        *)

Reply(s, ok, mutated) == [state |-> s, ok |-> ok, mutated |-> mutated]

NoCredentials(s) == \A c \in Creds : s.credentials[c].status = "absent"

Slot(s, inv) == [s EXCEPT !.invitation = inv]

Matches(s, id) == s.invitation # NoInvitation /\ s.invitation.id = id

(* resolve_invitation: expiry (the bootstrap record re-arms instead), burned, *)
(* backoff, then the secret.                                                  *)
resolve_invitation(s, id) ==
  LET inv == s.invitation
      expired == now >= inv.expires
      rearms == id = Bootstrap /\ (NoCredentials(s) \/ RearmBootstrap)
      open == inv.failed < MaxInviteAttempts /\ now >= inv.next
  IN CASE ~Matches(s, id)     -> Reply(s, FALSE, FALSE)
       [] Matches(s, id) /\ ~expired -> Reply(s, open, FALSE)
       [] Matches(s, id) /\ expired /\ rearms ->
            Reply(Slot(s, [inv EXCEPT !.expires = now + InvitationLifetime]), open, TRUE)
       [] OTHER -> Reply(Slot(s, NoInvitation), FALSE, TRUE)

(* resolve_credential and authorize: current, unrevoked, version-matched. *)
authorize(s, id, version) ==
  s.credentials[id].status = "active" /\ s.credentials[id].version = version

resolve(s, selector) ==
  IF selector.kind = "invitation"
    THEN resolve_invitation(s, selector.id)
    ELSE Reply(s, authorize(s, selector.id, selector.version)
                    /\ s.credentials[selector.id].secret, FALSE)

(* Mutant: the attempt budget is compared with > instead of >=. *)
record_failed_off_by_one(s, id) ==
  LET inv == s.invitation
      struck == [inv EXCEPT !.failed = @ + 1, !.next = now + 1]
  IN CASE ~Matches(s, id) \/ id = Bootstrap -> Reply(s, FALSE, FALSE)
       [] Matches(s, id) /\ id # Bootstrap
            /\ (now >= inv.expires \/ inv.failed + 1 > MaxInviteAttempts) ->
            Reply(Slot(s, NoInvitation), FALSE, TRUE)
       [] OTHER -> Reply(Slot(s, struck), FALSE, TRUE)

(* One more failed proof, and the wait before the next. *)
Struck(inv) == [inv EXCEPT !.failed = inv.failed + 1, !.next = now + Backoff[inv.failed + 1]]

(* record_failed_invitation: the bootstrap record does not count; the last    *)
(* allowed failure burns the invitation; the others double the backoff.       *)
record_failed_invitation(s, id) ==
  LET inv == s.invitation
  IN CASE ~Matches(s, id) \/ id = Bootstrap -> Reply(s, FALSE, FALSE)
       [] Matches(s, id) /\ id # Bootstrap
            /\ (now >= inv.expires \/ inv.failed + 1 >= MaxInviteAttempts) ->
            Reply(Slot(s, NoInvitation), FALSE, TRUE)
       [] OTHER -> Reply(Slot(s, Struck(inv)), FALSE, TRUE)

(* The document after redemption: a credential minted under the id `fresh',   *)
(* and the invitation pending on it.                                          *)
Redeemed(s, fresh) ==
  LET minted == [status |-> "active", role |-> s.invitation.role, version |-> 1, secret |-> TRUE]
  IN [invitation  |-> [s.invitation EXCEPT !.pending = fresh],
      credentials |-> [s.credentials EXCEPT ![fresh] = minted]]

(* Mutant: a repeated redemption mints again instead of re-issuing. *)
redeem_without_reissue(s, id, fresh) ==
  CASE ~Matches(s, id) -> Reply(s, FALSE, FALSE)
    [] Matches(s, id) /\ now >= s.invitation.expires ->
         Reply(Slot(s, NoInvitation), FALSE, TRUE)
    [] OTHER -> Reply(Redeemed(s, fresh), TRUE, TRUE)

(* redeem_invitation: re-issue the pending credential, or mint one. *)
redeem_invitation(s, id, fresh) ==
  LET inv == s.invitation
      expired == now >= inv.expires
  IN CASE ~Matches(s, id) -> Reply(s, FALSE, FALSE)
       [] Matches(s, id) /\ expired -> Reply(Slot(s, NoInvitation), FALSE, TRUE)
       [] Matches(s, id) /\ ~expired /\ inv.pending # NoCred ->
            Reply(s, s.credentials[inv.pending].secret, FALSE)
       [] OTHER -> Reply(Redeemed(s, fresh), TRUE, TRUE)

(* Mutants: the pending invitation survives; the slot gets an empty id. *)
keep_pending(s, c) == s.invitation
clear_to_empty_id(s, c) ==
  IF s.invitation # NoInvitation /\ s.invitation.pending = c THEN NoCred ELSE s.invitation

(* Dropping an invitation that is pending on credential c. *)
DropPending(s, c) ==
  IF s.invitation # NoInvitation /\ s.invitation.pending = c THEN NoInvitation ELSE s.invitation

(* Mutants: the result of `resolve' is trusted; the consumed invitation is    *)
(* not reported as a mutation.                                                *)
complete_unchecked(s, selector) == Reply(Slot(s, DropPending(s, selector.id)), TRUE, TRUE)
complete_unreported(s, selector) ==
  IF authorize(s, selector.id, selector.version)
    THEN Reply(Slot(s, DropPending(s, selector.id)), TRUE, FALSE)
    ELSE Reply(s, FALSE, FALSE)

(* complete_credential: re-check under the lock, then consume the invitation  *)
(* whose pending credential just proved itself.                               *)
complete_credential(s, selector) ==
  IF authorize(s, selector.id, selector.version)
    THEN Reply(Slot(s, DropPending(s, selector.id)), TRUE, TRUE)
    ELSE Reply(s, FALSE, FALSE)

(* active_controllers counts this set. *)
ActiveControllers(s) ==
  {c \in Creds : s.credentials[c].status = "active" /\ s.credentials[c].role = "controller"}

Tombstone(rec) == [rec EXCEPT !.status = "revoked", !.version = rec.version + 1, !.secret = FALSE]

(* An active credential becomes a tombstone; a tombstone stays. *)
Cut(s, c) ==
  IF s.credentials[c].status = "active"
    THEN [s EXCEPT !.credentials[c] = Tombstone(s.credentials[c])] ELSE s

(* Mutant: tombstones are counted as controllers. *)
refused_counting_tombstones(s, c) ==
  \/ s.credentials[c].status = "absent"
  \/ {d \in Creds : s.credentials[d].status # "absent" /\ s.credentials[d].role = "controller"} = {c}

(* An unknown id and the last active controller are not revoked. *)
Refused(s, c) == s.credentials[c].status = "absent" \/ ActiveControllers(s) = {c}

(* Mutant: a revocation that drops no invitation is not reported as a mutation. *)
revoke_unreported(s, c) ==
  IF Refused(s, c)
    THEN Reply(s, FALSE, FALSE)
    ELSE Reply(Slot(Cut(s, c), DropPending(s, c)), TRUE, DropPending(s, c) # s.invitation)

(* revoke: tombstone the record; drop an invitation still pending on it. *)
revoke(s, c) ==
  IF Refused(s, c)
    THEN Reply(s, FALSE, FALSE)
    ELSE Reply(Slot(Cut(s, c), DropPending(s, c)), TRUE, TRUE)

(* create, reset and mint_invitation: a new record for the slot. *)
NewInvitation(id, role) ==
  [id |-> id, serial |-> armed + 1, expires |-> now + InvitationLifetime, role |-> role,
   failed |-> 0, next |-> 0, pending |-> NoCred]

(* mint_invitation: the bootstrap record when a relay key is configured. *)
mint_invitation == NewInvitation(IF Token THEN Bootstrap ELSE armed + 1, "controller")

(* reset: every credential gone; the bootstrap record back when a key is set. *)
reset == [EmptyState EXCEPT !.invitation =
            IF Token THEN NewInvitation(Bootstrap, "controller") ELSE NoInvitation]

(* scrub_revoked_secrets and validate, run on the file at start. *)
scrub(s) ==
  [s EXCEPT !.credentials =
     [c \in Creds |-> IF s.credentials[c].status = "revoked"
                        THEN [s.credentials[c] EXCEPT !.secret = FALSE]
                        ELSE s.credentials[c]]]

validate(s) ==
  /\ \A c \in Creds :
       /\ s.credentials[c].status # "absent" => s.credentials[c].version # 0
       /\ s.credentials[c].status = "active" => s.credentials[c].secret
       /\ s.credentials[c].status = "revoked" => ~s.credentials[c].secret
  /\ s.invitation # NoInvitation => s.invitation.failed < MaxInviteAttempts

-----------------------------------------------------------------------------
(* Mutant: only a successful call is written to the file. *)
transact_on_success(r, written) ==
  /\ mem' = r.state
  /\ disk' = IF r.mutated /\ r.ok /\ written THEN r.state ELSE disk
  /\ written \/ (r.mutated /\ faults < MaxFaults)
  /\ faults' = IF written THEN faults ELSE faults + 1

(* transact: memory takes the new document; when it reports a mutation the    *)
(* file is rewritten atomically, and a failed write leaves memory as it is    *)
(* and answers a store error.  `written' is the outcome of persist_atomic.    *)
transact(r, written) ==
  /\ mem' = r.state
  /\ disk' = IF r.mutated /\ written THEN r.state ELSE disk
  /\ written \/ (r.mutated /\ faults < MaxFaults)
  /\ faults' = IF written THEN faults ELSE faults + 1

(* What the caller of transact sees. *)
Succeeds(r, written) == r.ok /\ written

(* The connection leaves the handshake, with or without a close frame. *)
Leave(n) ==
  /\ phase' = [phase EXCEPT ![n] = "idle"]
  /\ sel' = [sel EXCEPT ![n] = NoHello]
  /\ proof' = [proof EXCEPT ![n] = FALSE]
  /\ identity' = [identity EXCEPT ![n] = NoCred]

(* Who can prove what: an invitation's link was printed when it was armed; a  *)
(* credential's secret is known to the device that received it.               *)
Knows(s) ==
  \/ s.kind = "invitation" /\ s.id <= armed
  \/ s.kind = "credential" /\ s.id \in held

(* exchange, steps 1 and 2: the client hello arrives and the store resolves   *)
(* the secret; a refusal or a store error ends the connection.                *)
ClientHello(n, s, known, written) ==
  LET r == resolve(mem, s)
  IN /\ up /\ phase[n] = "idle" /\ (known => Knows(s))
     /\ transact(r, written)
     /\ \/ /\ Succeeds(r, written)
           /\ phase' = [phase EXCEPT ![n] = "resolved"]
           /\ sel' = [sel EXCEPT ![n] = s]
           /\ proof' = [proof EXCEPT ![n] = known]
           /\ UNCHANGED identity
        \/ ~Succeeds(r, written) /\ UNCHANGED conns
     /\ UNCHANGED <<up, now, history, crashes>>

(* exchange, step 3: the proof does not verify; the store records it. *)
BadProof(n, written) ==
  LET r == IF sel[n].kind = "invitation"
             THEN record_failed_invitation(mem, sel[n].id)
             ELSE Reply(mem, FALSE, FALSE)
  IN /\ up /\ phase[n] = "resolved" /\ ~proof[n]
     /\ transact(r, written)
     /\ strikes' = IF r.mutated /\ written
                     THEN [strikes EXCEPT ![mem.invitation.serial] = @ + 1] ELSE strikes
     /\ Leave(n)
     /\ UNCHANGED <<up, now, armed, origin, held, acked, crashes>>

(* exchange, step 6 on an invitation: the client finish opened; redeem.       *)
RedeemInvitation(n, fresh, written) ==
  LET inv == mem.invitation
      r == redeem_invitation(mem, sel[n].id, fresh)
      mints == r.ok /\ r.mutated
  IN /\ up /\ phase[n] = "resolved" /\ proof[n] /\ sel[n].kind = "invitation"
     /\ mints => origin[fresh] = 0
     /\ transact(r, written)
     /\ origin' = IF mints THEN [origin EXCEPT ![fresh] = inv.serial] ELSE origin
     /\ \/ /\ Succeeds(r, written)
           /\ phase' = [phase EXCEPT ![n] = "committed"]
           /\ identity' = [identity EXCEPT ![n] = r.state.invitation.pending]
           /\ UNCHANGED <<sel, proof>>
        \/ ~Succeeds(r, written) /\ Leave(n)
     /\ UNCHANGED <<up, now, armed, held, acked, strikes, crashes>>

(* exchange, step 6 on a credential: the client finish opened; re-check. *)
CompleteCredential(n, written) ==
  LET r == complete_credential(mem, sel[n])
  IN /\ up /\ phase[n] = "resolved" /\ proof[n] /\ sel[n].kind = "credential"
     /\ transact(r, written)
     /\ \/ /\ Succeeds(r, written)
           /\ phase' = [phase EXCEPT ![n] = "committed"]
           /\ identity' = [identity EXCEPT ![n] = sel[n].id]
           /\ UNCHANGED <<sel, proof>>
        \/ ~Succeeds(r, written) /\ Leave(n)
     /\ UNCHANGED <<up, now, history, crashes>>

(* exchange, step 7: the server finish reaches the device, with the secret    *)
(* when an invitation was redeemed.  The session goes on in RelayHub.         *)
ServerFinish(n) ==
  /\ up /\ phase[n] = "committed"
  /\ held' = IF sel[n].kind = "invitation" THEN held \cup {identity[n]} ELSE held
  /\ Leave(n)
  /\ UNCHANGED <<mem, disk, up, now, armed, origin, acked, strikes, faults, crashes>>

(* run: HANDSHAKE_TIMEOUT, a failed read or write, or a malformed finish ends *)
(* the exchange wherever it stands.                                           *)
Abort(n) ==
  /\ up /\ phase[n] # "idle"
  /\ Leave(n)
  /\ UNCHANGED <<mem, disk, up, now, history, faults, crashes>>

(* rename_device: the name is left out, the write of the document is not. *)
RenameDevice(c, written) ==
  /\ up /\ mem.credentials[c].status # "absent"
  /\ transact(Reply(mem, TRUE, TRUE), written)
  /\ UNCHANGED <<up, now, conns, history, crashes>>

(* revoke_device *)
RevokeDevice(c, written) ==
  LET r == revoke(mem, c)
  IN /\ up
     /\ transact(r, written)
     /\ acked' = IF Succeeds(r, written) THEN acked \cup {c} ELSE acked
     /\ UNCHANGED <<up, now, conns, armed, origin, held, strikes, crashes>>

(* create_invitation: the one slot is replaced. *)
CreateInvitation(role, written) ==
  /\ up /\ armed < MaxInvitations
  /\ transact(Reply(Slot(mem, NewInvitation(armed + 1, role)), TRUE, TRUE), written)
  /\ armed' = armed + 1
  /\ UNCHANGED <<up, now, conns, origin, held, acked, strikes, crashes>>

(* arm_invitation on SIGUSR1: the slot is replaced, the credentials stay. *)
ArmInvitation(written) ==
  /\ up /\ armed < MaxInvitations
  /\ transact(Reply(Slot(mem, mint_invitation), TRUE, TRUE), written)
  /\ armed' = armed + 1
  /\ UNCHANGED <<up, now, conns, origin, held, acked, strikes, crashes>>

(* reset_devices *)
ResetDevices(written) ==
  /\ up /\ armed < MaxInvitations
  /\ transact(Reply(reset, TRUE, TRUE), written)
  /\ armed' = armed + 1
  /\ UNCHANGED <<up, now, conns, origin, held, acked, strikes, crashes>>

Tick ==
  /\ now < MaxClock /\ now' = now + 1
  /\ UNCHANGED <<mem, disk, up, conns, history, faults, crashes>>

(* The process dies: memory and every connection are gone. *)
Crash ==
  /\ up /\ crashes < MaxCrashes /\ crashes' = crashes + 1
  /\ up' = FALSE /\ mem' = EmptyState
  /\ phase' = [n \in Conns |-> "idle"] /\ sel' = [n \in Conns |-> NoHello]
  /\ proof' = [n \in Conns |-> FALSE] /\ identity' = [n \in Conns |-> NoCred]
  /\ UNCHANGED <<disk, now, history, faults>>

(* FileAuthStore::open reads the file (wiped first by reset_device_store when *)
(* the launch asks for it), heals and validates it.                           *)
Loaded == scrub(IF RearmAtStart THEN EmptyState ELSE disk)

(* ensure_pairing arms an invitation when no device is enrolled and none is   *)
(* open.                                                                      *)
NeedsArming(s) ==
  NoCredentials(s) /\ (s.invitation = NoInvitation \/ now >= s.invitation.expires)

(* Start of the process: open, the write that open makes, ensure_pairing.  A  *)
(* failed write ends the start.                                               *)
Start(written) ==
  LET arms == NeedsArming(Loaded)
      doc == IF arms THEN Slot(Loaded, mint_invitation) ELSE Loaded
  IN /\ ~up /\ validate(Loaded)
     /\ \/ /\ written /\ up' = TRUE /\ mem' = doc /\ disk' = doc
           /\ armed' = IF arms THEN armed + 1 ELSE armed
           /\ UNCHANGED faults
        \/ /\ ~written /\ faults < MaxFaults /\ faults' = faults + 1
           /\ disk' = Loaded /\ UNCHANGED <<up, mem, armed>>
     /\ UNCHANGED <<now, conns, origin, held, acked, strikes, crashes>>

Init ==
  /\ mem = EmptyState /\ disk = EmptyState /\ up = FALSE /\ now = 0
  /\ phase = [n \in Conns |-> "idle"]
  /\ sel = [n \in Conns |-> NoHello]
  /\ proof = [n \in Conns |-> FALSE]
  /\ identity = [n \in Conns |-> NoCred]
  /\ armed = 0 /\ origin = [c \in Creds |-> 0] /\ held = {} /\ acked = {}
  /\ strikes = [i \in Serials |-> 0]
  /\ faults = 0 /\ crashes = 0

(* The selectors a client may send: any invitation id, any credential at the  *)
(* version it was issued with or the one after a revocation.                  *)
Hellos ==
  [kind : {"invitation"}, id : Serials \cup {Bootstrap}]
    \cup [kind : {"credential"}, id : Creds, version : 1 .. 2]

Handshake(n, written) ==
  \/ \E s \in Hellos, known \in BOOLEAN : ClientHello(n, s, known, written)
  \/ BadProof(n, written)
  \/ \E fresh \in Creds : RedeemInvitation(n, fresh, written)
  \/ CompleteCredential(n, written)

Administration(written) ==
  \/ \E c \in Creds : RenameDevice(c, written) \/ RevokeDevice(c, written)
  \/ \E role \in Roles : CreateInvitation(role, written)
  \/ ArmInvitation(written)
  \/ ResetDevices(written)

Next ==
  \/ \E written \in BOOLEAN :
       \/ \E n \in Conns : Handshake(n, written)
       \/ Administration(written)
       \/ Start(written)
  \/ \E n \in Conns : ServerFinish(n) \/ Abort(n)
  \/ Tick
  \/ Crash

Spec == Init /\ [][Next]_vars

-----------------------------------------------------------------------------
(* Properties *)

Phases == {"idle", "resolved", "committed"}

(* Types of every variable. *)
TypeOK ==
  /\ mem \in AuthState /\ disk \in AuthState /\ up \in BOOLEAN
  /\ now \in Nat /\ armed \in Nat /\ faults \in Nat /\ crashes \in Nat
  /\ phase \in [Conns -> Phases]
  /\ sel \in [Conns -> Selector]
  /\ proof \in [Conns -> BOOLEAN]
  /\ identity \in [Conns -> Creds \cup {NoCred}]
  /\ origin \in [Creds -> Nat] /\ held \subseteq Creds /\ acked \subseteq Creds
  /\ strikes \in [Serials -> Nat]

(* An invitation that was redeemed but not yet consumed points to an active   *)
(* credential that still has its secret, so redeem_invitation can re-issue    *)
(* it: revoke drops the invitation together with the credential, in memory    *)
(* and in the file.                                                           *)
PendingLive(s) ==
  s.invitation # NoInvitation /\ s.invitation.pending # NoCred =>
    /\ s.credentials[s.invitation.pending].status = "active"
    /\ s.credentials[s.invitation.pending].secret
PendingIsLive == PendingLive(mem) /\ PendingLive(disk)

(* "The invitation cannot yield two distinct credentials" (redeem_invitation):*)
(* whatever is lost, retried or raced, one document never holds two           *)
(* credentials minted from one arming of an invitation.                       *)
SingleUse(s) ==
  \A c, d \in Creds :
    /\ s.credentials[c].status # "absent" /\ s.credentials[d].status # "absent"
    /\ origin[c] = origin[d]
    => c = d
OneCredentialPerInvitation == SingleUse(mem) /\ SingleUse(disk)

(* Once a controller is enrolled the relay stays manageable: revoke never     *)
(* leaves a document whose controllers are all tombstones.                    *)
Manageable(s) ==
  (\E c \in Creds : s.credentials[c].status # "absent" /\ s.credentials[c].role = "controller")
    => ActiveControllers(s) # {}
ControllerRemains == Manageable(mem) /\ Manageable(disk)

(* A revocation the administrator saw succeed survives everything that        *)
(* follows, crashes and failed writes included: the credential is never       *)
(* active again, neither in memory nor in the file a restart would load.      *)
RevocationIsDurable ==
  \A c \in acked :
    mem.credentials[c].status # "active" /\ disk.credentials[c].status # "active"

(* Failed proofs that were recorded are never forgotten: a restart does not   *)
(* give an invitation new attempts, and a burned one does not come back.      *)
Remembers(s) ==
  s.invitation # NoInvitation /\ s.invitation.id # Bootstrap =>
    /\ strikes[s.invitation.serial] <= s.invitation.failed
    /\ strikes[s.invitation.serial] < MaxInviteAttempts
BurnIsFinal == Remembers(mem) /\ Remembers(disk)

(* The relay can always start from the file it wrote itself: nothing it       *)
(* persists is refused by FileAuthStore::open.                                *)
FileLoads == validate(scrub(disk))

(* Every operation that changes the document reports it, so that memory and   *)
(* file agree whenever no write has failed.                                   *)
WriteThrough == up /\ faults = 0 => mem = disk

(* A handshake commits only to a credential that is active at that moment,    *)
(* even when it was revoked, reset or replaced after `resolve' answered.      *)
IssuedIsActive ==
  [][\A n \in Conns :
       phase[n] = "resolved" /\ phase'[n] = "committed" =>
         mem'.credentials[identity'[n]].status = "active"]_vars

(* Refuted: a credential whose secret a device received, and which the relay  *)
(* accepts, is in devices.json.                                               *)
DeliveredIsDurable ==
  \A c \in held :
    mem.credentials[c].status = "active" => disk.credentials[c].status # "absent"
=============================================================================
