--------------------------- MODULE RelayHub_proofs ---------------------------
(***************************************************************************)
(* Proofs about the live-session registry: the fence of a swept credential  *)
(* keeps every late registration out, and a sweep closes only sessions      *)
(* whose credential is gone, for any number of credentials and sessions.    *)
(***************************************************************************)
EXTENDS RelayHub, TLAPS

-----------------------------------------------------------------------------
(* The inductive invariant *)

Dead(c) == status[c] \in {"revoked", "wiped"}

(* A credential is minted at version 1 and moves once, with its tombstone. *)
VersionByStatus ==
  \A c \in Creds : /\ status[c] = "active" => version[c] = 1
                   /\ status[c] # "absent" => version[c] >= 1

(* A connection past its handshake is bound to a minted credential. *)
BoundToMinted ==
  \A s \in Sessions : phase[s] \in {"committed", "live", "signalled"} =>
    cred[s] \in Creds /\ status[cred[s]] # "absent" /\ ver[s] >= 1

LiveIsRegistered == \A s \in Sessions : phase[s] = "live" => s \in clients

(* Only a destroyed credential is fenced, waits for a sweep or is listed for a *)
(* wipe while it exists.                                                       *)
FencedIsDead == \A c \in Creds : blocked[c] > 0 => Dead(c)

PendingIsDead == \A s \in Sessions : \A p \in pending[s] : Dead(p[1])

ListedIsMinted ==
  \A s \in Sessions : op[s].kind = "wipe" =>
    \A p \in op[s].listed : p[1] \in Creds /\ status[p[1]] # "absent"

(* A requester among its own targets closes itself. *)
OwnPairClosesSelf ==
  \A s \in Sessions : \A p \in pending[s] : p[1] = cred[s] => self_disconnect[s]

SelfIsDead == \A s \in Sessions : self_disconnect[s] => cred[s] \in Creds /\ Dead(cred[s])

(* Only a session that was registered or refused has admin work. *)
QuietOutside ==
  \A s \in Sessions : phase[s] \in {"free", "committed", "gone"} =>
    /\ op[s] = NoOp /\ pending[s] = {} /\ ~self_disconnect[s]
    /\ cause[s] = "none"

RevokedIsDead ==
  \A s \in Sessions : cause[s] = "revoked" =>
    phase[s] = "signalled" /\ cred[s] \in Creds /\ Dead(cred[s])

IInv ==
  /\ TypeOK /\ VersionByStatus /\ BoundToMinted /\ LiveIsRegistered
  /\ FencedIsDead /\ PendingIsDead /\ ListedIsMinted
  /\ OwnPairClosesSelf /\ SelfIsDead /\ QuietOutside /\ RevokedIsDead
  /\ FenceHolds

-----------------------------------------------------------------------------
(* Lemmas *)

(* Raised is the largest of the old fence and the pending versions. *)
LEMMA RaisedIsMax ==
  ASSUME TypeOK, NEW s \in Sessions, NEW c \in Creds
  PROVE  /\ Raised(s, c) \in Versions
         /\ blocked[c] <= Raised(s, c)
         /\ \A p \in pending[s] : p[1] = c => p[2] <= Raised(s, c)
         /\ Raised(s, c) = blocked[c] \/ \E p \in pending[s] : p[1] = c /\ p[2] = Raised(s, c)
<1> DEFINE S == {blocked[c]} \cup {p[2] : p \in {q \in pending[s] : q[1] = c}}
<1>1. S \subseteq 0 .. 2 /\ blocked[c] \in S
  BY DEF TypeOK, Versions, Pairs
<1>2. \E v \in S : \A w \in S : w <= v
  <2> HIDE DEF S
  <2>1. CASE 2 \in S
    BY <1>1, <2>1
  <2>2. CASE 2 \notin S /\ 1 \in S
    BY <1>1, <2>2
  <2>3. CASE 2 \notin S /\ 1 \notin S
    <3>1. blocked[c] \in 0 .. 2 /\ blocked[c] # 1 /\ blocked[c] # 2
      BY <1>1, <2>3
    <3>2. \A w \in S : w \in 0 .. 2 /\ w # 1 /\ w # 2
      BY <1>1, <2>3
    <3>3. \A w \in S : w <= blocked[c]
      BY <3>1, <3>2
    <3>4. QED
      BY <1>1, <3>3
  <2>4. QED
    BY <2>1, <2>2, <2>3
<1>3. Raised(s, c) = CHOOSE v \in S : \A w \in S : w <= v
  BY DEF Raised
<1>4. Raised(s, c) \in S /\ \A w \in S : w <= Raised(s, c)
  BY <1>2, <1>3
<1>5. QED
  BY <1>1, <1>4 DEF Versions

(* An admin action is one of four kinds, told apart by its tag. *)
LEMMA OpKinds ==
  ASSUME TypeOK, NEW s \in Sessions
  PROVE  /\ op[s].kind = "revoke" => op[s].target \in Creds
         /\ op[s].kind = "wipe" => op[s].listed \in SUBSET Pairs
BY DEF TypeOK, Ops, NoOp, Reset

(* A commit. *)
LEMMA CommitKeeps ==
  ASSUME IInv, NEW s \in Sessions, NEW c \in Creds, Commit(s, c)
  PROVE  IInv'
<1> USE DEF IInv
<1>1. TypeOK'
  BY DEF TypeOK, Versions, Pairs, Ops, NoOp, Revoke, Reset, Wipe, Commit, registry, deferred, store
<1>2. VersionByStatus'
  BY DEF TypeOK, Versions, VersionByStatus, Commit, registry, deferred, store
<1>3. BoundToMinted'
  BY DEF TypeOK, Versions, BoundToMinted, Commit, registry, deferred, store, VersionByStatus
<1>4. LiveIsRegistered'
  BY DEF TypeOK, Versions, LiveIsRegistered, Commit, registry, deferred, store
<1>5. FencedIsDead'
  BY DEF TypeOK, Versions, FencedIsDead, Dead, Commit, registry, deferred, store
<1>6. PendingIsDead'
  BY DEF TypeOK, Versions, PendingIsDead, Dead, Pairs, Commit, registry, deferred, store
<1>7. ListedIsMinted'
  BY DEF TypeOK, Versions, ListedIsMinted, Commit, registry, deferred, store
<1>8. OwnPairClosesSelf'
  BY DEF TypeOK, Versions, OwnPairClosesSelf, Pairs, Commit, registry, deferred, store, QuietOutside
<1>9. SelfIsDead'
  BY DEF TypeOK, Versions, SelfIsDead, Dead, Commit, registry, deferred, store, QuietOutside
<1>10. QuietOutside'
  BY DEF TypeOK, Versions, QuietOutside, Commit, registry, deferred, store
<1>11. RevokedIsDead'
  BY DEF TypeOK, Versions, RevokedIsDead, Dead, Commit, registry, deferred, store
<1>12. FenceHolds'
  BY DEF TypeOK, Versions, FenceHolds, Commit, registry, deferred, store
<1>13. QED
  BY <1>1, <1>2, <1>3, <1>4, <1>5, <1>6, <1>7, <1>8, <1>9, <1>10, <1>11, <1>12

(* A request. *)
LEMMA RequestKeeps ==
  ASSUME IInv, NEW s \in Sessions, NEW o \in {Reset} \cup {Revoke(c) : c \in Creds}, Request(s, o)
  PROVE  IInv'
<1> USE DEF IInv
<1>1. TypeOK'
  BY DEF TypeOK, Versions, Pairs, Ops, NoOp, Revoke, Reset, Wipe, Request, vars, store, session, registry, deferred
<1>2. VersionByStatus'
  BY DEF TypeOK, Versions, VersionByStatus, Request, vars, store, session, registry, deferred, Revoke, Reset, NoOp
<1>3. BoundToMinted'
  BY DEF TypeOK, Versions, BoundToMinted, Request, vars, store, session, registry, deferred, Revoke, Reset, NoOp
<1>4. LiveIsRegistered'
  BY DEF TypeOK, Versions, LiveIsRegistered, Request, vars, store, session, registry, deferred, Revoke, Reset, NoOp
<1>5. FencedIsDead'
  BY DEF TypeOK, Versions, FencedIsDead, Dead, Request, vars, store, session, registry, deferred, Revoke, Reset, NoOp
<1>6. PendingIsDead'
  BY DEF TypeOK, Versions, PendingIsDead, Dead, Pairs, Request, vars, store, session, registry, deferred, Revoke, Reset, NoOp
<1>7. ListedIsMinted'
  BY DEF TypeOK, Versions, ListedIsMinted, Request, vars, store, session, registry, deferred, Revoke, Reset, NoOp
<1>8. OwnPairClosesSelf'
  BY DEF TypeOK, Versions, OwnPairClosesSelf, Pairs, Request, vars, store, session, registry, deferred, Revoke, Reset, NoOp
<1>9. SelfIsDead'
  BY DEF TypeOK, Versions, SelfIsDead, Dead, Request, vars, store, session, registry, deferred, Revoke, Reset, NoOp
<1>10. QuietOutside'
  BY DEF TypeOK, Versions, QuietOutside, Request, vars, store, session, registry, deferred, Revoke, Reset, NoOp
<1>11. RevokedIsDead'
  BY DEF TypeOK, Versions, RevokedIsDead, Dead, Request, vars, store, session, registry, deferred, Revoke, Reset, NoOp
<1>12. FenceHolds'
  BY DEF TypeOK, Versions, FenceHolds, Request, vars, store, session, registry, deferred, Revoke, Reset, NoOp
<1>13. QED
  BY <1>1, <1>2, <1>3, <1>4, <1>5, <1>6, <1>7, <1>8, <1>9, <1>10, <1>11, <1>12

(* A registration, refused or not. *)
LEMMA RegisterKeeps ==
  ASSUME IInv, NEW s \in Sessions, Register(s)
  PROVE  IInv'
<1> USE DEF IInv
<1>1. TypeOK'
  BY DEF TypeOK, Versions, Pairs, Ops, NoOp, Revoke, Reset, Wipe, Register, Dead, BoundToMinted, FencedIsDead, QuietOutside, store, deferred
<1>2. VersionByStatus'
  BY DEF TypeOK, Versions, VersionByStatus, Register, Dead, BoundToMinted, FencedIsDead, QuietOutside, store, deferred
<1>3. BoundToMinted'
  BY DEF TypeOK, Versions, BoundToMinted, Register, Dead, FencedIsDead, QuietOutside, store, deferred
<1>4. LiveIsRegistered'
  BY DEF TypeOK, Versions, LiveIsRegistered, Register, Dead, BoundToMinted, FencedIsDead, QuietOutside, store, deferred
<1>5. FencedIsDead'
  BY DEF TypeOK, Versions, FencedIsDead, Dead, Register, BoundToMinted, QuietOutside, store, deferred
<1>6. PendingIsDead'
  BY DEF TypeOK, Versions, PendingIsDead, Dead, Pairs, Register, BoundToMinted, FencedIsDead, QuietOutside, store, deferred
<1>7. ListedIsMinted'
  BY DEF TypeOK, Versions, ListedIsMinted, Register, Dead, BoundToMinted, FencedIsDead, QuietOutside, store, deferred
<1>8. OwnPairClosesSelf'
  BY DEF TypeOK, Versions, OwnPairClosesSelf, Pairs, Register, Dead, BoundToMinted, FencedIsDead, QuietOutside, store, deferred
<1>9. SelfIsDead'
  BY DEF TypeOK, Versions, SelfIsDead, Dead, Register, BoundToMinted, FencedIsDead, QuietOutside, store, deferred
<1>10. QuietOutside'
  BY DEF TypeOK, Versions, QuietOutside, Register, Dead, BoundToMinted, FencedIsDead, store, deferred
<1>11. RevokedIsDead'
  BY DEF TypeOK, Versions, RevokedIsDead, Dead, Register, BoundToMinted, FencedIsDead, QuietOutside, store, deferred
<1>12. FenceHolds'
  BY DEF TypeOK, Versions, FenceHolds, Register, Dead, BoundToMinted, FencedIsDead, QuietOutside, store, deferred
<1>13. QED
  BY <1>1, <1>2, <1>3, <1>4, <1>5, <1>6, <1>7, <1>8, <1>9, <1>10, <1>11, <1>12

(* A revocation, refused, done, or done and not written. *)
LEMMA RevokeKeeps ==
  ASSUME IInv, NEW s \in Sessions, ExecuteRevoke(s)
  PROVE  IInv'
<1> USE DEF IInv
<1>1. TypeOK'
  <2> DEFINE c == op[s].target
  <2>1. c \in Creds /\ NoOp \in Ops
    BY OpKinds DEF ExecuteRevoke, Ops
  <2>2. ~Refused(c) => Bumped(c) \in Versions /\ <<c, Bumped(c)>> \in Pairs
    BY <2>1 DEF Refused, Bumped, VersionByStatus, TypeOK, Versions, Pairs
  <2>3. status' \in [Creds -> {"absent", "active", "revoked", "wiped"}] /\ version' \in [Creds -> Versions]
    BY <2>1, <2>2 DEF TypeOK, ExecuteRevoke, store
  <2>4. op' \in [Sessions -> Ops]
    BY <2>1 DEF TypeOK, ExecuteRevoke
  <2>5. /\ pending' \in [Sessions -> SUBSET Pairs]
        /\ revoked_at' \in [Sessions -> BOOLEAN] /\ self_disconnect' \in [Sessions -> BOOLEAN]
    <3>1. CASE UNCHANGED deferred
      BY <3>1 DEF TypeOK, deferred
    <3>2. CASE ~Refused(c) /\ Arm(s, {<<c, Bumped(c)>>}, c = cred[s])
      BY <3>2, <2>2 DEF TypeOK, Arm
    <3>3. QED
      BY <3>1, <3>2 DEF ExecuteRevoke
  <2>6. QED
    BY <2>3, <2>4, <2>5 DEF TypeOK, ExecuteRevoke, session, registry
<1>2. VersionByStatus'
  BY OpKinds DEF TypeOK, Versions, VersionByStatus, ExecuteRevoke, Arm, Refused, Bumped, NoOp, store, deferred, session, registry, Pairs
<1>3. BoundToMinted'
  BY DEF TypeOK, Versions, BoundToMinted, ExecuteRevoke, Arm, Refused, Bumped, NoOp, store, deferred, session, registry, Pairs
<1>4. LiveIsRegistered'
  BY DEF TypeOK, Versions, LiveIsRegistered, ExecuteRevoke, Arm, Refused, Bumped, NoOp, store, deferred, session, registry, Pairs
<1>5. FencedIsDead'
  BY DEF TypeOK, Versions, FencedIsDead, Dead, ExecuteRevoke, Arm, Refused, Bumped, NoOp, store, deferred, session, registry, Pairs
<1>6. PendingIsDead'
  BY OpKinds DEF TypeOK, Versions, PendingIsDead, Dead, Pairs, ExecuteRevoke, Arm, Refused, Bumped, NoOp, store, deferred, session, registry
<1>7. ListedIsMinted'
  BY DEF TypeOK, Versions, ListedIsMinted, ExecuteRevoke, Arm, Refused, Bumped, NoOp, store, deferred, session, registry, Pairs
<1>8. OwnPairClosesSelf'
  <2> DEFINE c == op[s].target
  <2>1. UNCHANGED cred
    BY DEF ExecuteRevoke, session
  <2>2. CASE UNCHANGED deferred
    BY <2>1, <2>2 DEF OwnPairClosesSelf, deferred
  <2>3. CASE Arm(s, {<<c, Bumped(c)>>}, c = cred[s])
    <3>1. ASSUME NEW t \in Sessions, NEW p \in pending'[t], p[1] = cred[t]
          PROVE  self_disconnect'[t]
      <4>1. CASE p \in pending[t]
        BY <2>3, <3>1, <4>1 DEF OwnPairClosesSelf, Arm, TypeOK
      <4>2. CASE p \notin pending[t]
        <5>1. t = s /\ p = <<c, Bumped(c)>>
          BY <2>3, <4>2 DEF Arm, TypeOK
        <5>2. QED
          BY <2>3, <3>1, <5>1 DEF Arm, TypeOK
      <4>3. QED
        BY <4>1, <4>2
    <3>2. QED
      BY <2>1, <3>1 DEF OwnPairClosesSelf
  <2>4. QED
    BY <2>2, <2>3 DEF ExecuteRevoke
<1>9. SelfIsDead'
  BY OpKinds DEF TypeOK, Versions, SelfIsDead, Dead, ExecuteRevoke, Arm, Refused, Bumped, NoOp, store, deferred, session, registry, Pairs, QuietOutside
<1>10. QuietOutside'
  BY DEF TypeOK, Versions, QuietOutside, ExecuteRevoke, Arm, Refused, Bumped, NoOp, store, deferred, session, registry, Pairs
<1>11. RevokedIsDead'
  BY DEF TypeOK, Versions, RevokedIsDead, Dead, ExecuteRevoke, Arm, Refused, Bumped, NoOp, store, deferred, session, registry, Pairs
<1>12. FenceHolds'
  BY DEF TypeOK, Versions, FenceHolds, ExecuteRevoke, Arm, Refused, Bumped, NoOp, store, deferred, session, registry, Pairs
<1>13. QED
  BY <1>1, <1>2, <1>3, <1>4, <1>5, <1>6, <1>7, <1>8, <1>9, <1>10, <1>11, <1>12

(* The first half of a reset. *)
LEMMA ListKeeps ==
  ASSUME IInv, NEW s \in Sessions, ExecuteList(s)
  PROVE  IInv'
<1> USE DEF IInv
<1>1. TypeOK'
  BY DEF TypeOK, Versions, Pairs, Ops, NoOp, Revoke, Reset, Wipe, ExecuteList, store, session, registry, deferred
<1>2. VersionByStatus'
  BY DEF TypeOK, Versions, VersionByStatus, ExecuteList, Reset, NoOp, Wipe, store, session, registry, deferred
<1>3. BoundToMinted'
  BY DEF TypeOK, Versions, BoundToMinted, ExecuteList, Reset, NoOp, Wipe, store, session, registry, deferred
<1>4. LiveIsRegistered'
  BY DEF TypeOK, Versions, LiveIsRegistered, ExecuteList, Reset, NoOp, Wipe, store, session, registry, deferred
<1>5. FencedIsDead'
  BY DEF TypeOK, Versions, FencedIsDead, Dead, ExecuteList, Reset, NoOp, Wipe, store, session, registry, deferred
<1>6. PendingIsDead'
  BY DEF TypeOK, Versions, PendingIsDead, Dead, Pairs, ExecuteList, Reset, NoOp, Wipe, store, session, registry, deferred
<1>7. ListedIsMinted'
  BY DEF TypeOK, Versions, ListedIsMinted, ExecuteList, Reset, NoOp, Wipe, store, session, registry, deferred
<1>8. OwnPairClosesSelf'
  BY DEF TypeOK, Versions, OwnPairClosesSelf, Pairs, ExecuteList, Reset, NoOp, Wipe, store, session, registry, deferred
<1>9. SelfIsDead'
  BY DEF TypeOK, Versions, SelfIsDead, Dead, ExecuteList, Reset, NoOp, Wipe, store, session, registry, deferred
<1>10. QuietOutside'
  BY DEF TypeOK, Versions, QuietOutside, ExecuteList, Reset, NoOp, Wipe, store, session, registry, deferred
<1>11. RevokedIsDead'
  BY DEF TypeOK, Versions, RevokedIsDead, Dead, ExecuteList, Reset, NoOp, Wipe, store, session, registry, deferred
<1>12. FenceHolds'
  BY DEF TypeOK, Versions, FenceHolds, ExecuteList, Reset, NoOp, Wipe, store, session, registry, deferred
<1>13. QED
  BY <1>1, <1>2, <1>3, <1>4, <1>5, <1>6, <1>7, <1>8, <1>9, <1>10, <1>11, <1>12

(* The second half of a reset. *)
LEMMA WipeKeeps ==
  ASSUME IInv, NEW s \in Sessions, ExecuteWipe(s)
  PROVE  IInv'
<1> USE DEF IInv
<1>1. TypeOK'
  <2>1. op[s].listed \in SUBSET Pairs /\ NoOp \in Ops
    BY OpKinds DEF ExecuteWipe, Ops
  <2>2. status' \in [Creds -> {"absent", "active", "revoked", "wiped"}]
    BY DEF TypeOK, ExecuteWipe
  <2>3. op' \in [Sessions -> Ops]
    BY <2>1 DEF TypeOK, ExecuteWipe
  <2>4. /\ pending' \in [Sessions -> SUBSET Pairs]
        /\ revoked_at' \in [Sessions -> BOOLEAN] /\ self_disconnect' \in [Sessions -> BOOLEAN]
    <3>1. CASE UNCHANGED deferred
      BY <3>1 DEF TypeOK, deferred
    <3>2. CASE Arm(s, op[s].listed, TRUE)
      BY <3>2, <2>1 DEF TypeOK, Arm
    <3>3. QED
      BY <3>1, <3>2 DEF ExecuteWipe
  <2>5. QED
    BY <2>2, <2>3, <2>4 DEF TypeOK, ExecuteWipe, session, registry
<1>2. VersionByStatus'
  BY DEF TypeOK, Versions, VersionByStatus, ExecuteWipe, Arm, NoOp, session, registry, deferred
<1>3. BoundToMinted'
  BY DEF TypeOK, Versions, BoundToMinted, ExecuteWipe, Arm, NoOp, session, registry, deferred
<1>4. LiveIsRegistered'
  BY DEF TypeOK, Versions, LiveIsRegistered, ExecuteWipe, Arm, NoOp, session, registry, deferred
<1>5. FencedIsDead'
  BY DEF TypeOK, Versions, FencedIsDead, Dead, ExecuteWipe, Arm, NoOp, session, registry, deferred
<1>6. PendingIsDead'
  BY OpKinds DEF TypeOK, Versions, PendingIsDead, Dead, Pairs, ExecuteWipe, Arm, NoOp, session, registry, deferred, ListedIsMinted
<1>7. ListedIsMinted'
  BY DEF TypeOK, Versions, ListedIsMinted, ExecuteWipe, Arm, NoOp, session, registry, deferred
<1>8. OwnPairClosesSelf'
  BY ZenonT(30) DEF TypeOK, Versions, OwnPairClosesSelf, Pairs, ExecuteWipe, Arm, NoOp, session, registry, deferred
<1>9. SelfIsDead'
  BY DEF TypeOK, Versions, SelfIsDead, Dead, ExecuteWipe, Arm, NoOp, session, registry, deferred, BoundToMinted, QuietOutside
<1>10. QuietOutside'
  BY DEF TypeOK, Versions, QuietOutside, ExecuteWipe, Arm, NoOp, session, registry, deferred
<1>11. RevokedIsDead'
  BY DEF TypeOK, Versions, RevokedIsDead, Dead, ExecuteWipe, Arm, NoOp, session, registry, deferred
<1>12. FenceHolds'
  BY DEF TypeOK, Versions, FenceHolds, ExecuteWipe, Arm, NoOp, session, registry, deferred
<1>13. QED
  BY <1>1, <1>2, <1>3, <1>4, <1>5, <1>6, <1>7, <1>8, <1>9, <1>10, <1>11, <1>12

(* A sweep. *)
LEMMA SweepKeeps ==
  ASSUME IInv, NEW s \in Sessions, SweepFire(s)
  PROVE  IInv'
<1> USE DEF IInv
<1>1. TypeOK'
  BY RaisedIsMax DEF TypeOK, Versions, Pairs, Ops, NoOp, Revoke, Reset, Wipe, SweepFire, Fire, store
<1>2. VersionByStatus'
  BY DEF TypeOK, Versions, VersionByStatus, SweepFire, Fire, store
<1>3. BoundToMinted'
  BY DEF TypeOK, Versions, BoundToMinted, SweepFire, Fire, store
<1>4. LiveIsRegistered'
  BY DEF TypeOK, Versions, LiveIsRegistered, SweepFire, Fire, store
<1>5. FencedIsDead'
  <2>1. ASSUME NEW c \in Creds, Raised(s, c) > 0
        PROVE  Dead(c)
    <3>1. Raised(s, c) = blocked[c] \/ \E p \in pending[s] : p[1] = c
      BY RaisedIsMax
    <3>2. QED
      BY <2>1, <3>1 DEF FencedIsDead, PendingIsDead
  <2>2. QED
    BY <2>1 DEF FencedIsDead, Dead, SweepFire, store
<1>6. PendingIsDead'
  BY DEF TypeOK, Versions, PendingIsDead, Dead, Pairs, SweepFire, Fire, store
<1>7. ListedIsMinted'
  BY DEF TypeOK, Versions, ListedIsMinted, SweepFire, Fire, store
<1>8. OwnPairClosesSelf'
  BY DEF TypeOK, Versions, OwnPairClosesSelf, Pairs, SweepFire, Fire, store
<1>9. SelfIsDead'
  BY DEF TypeOK, Versions, SelfIsDead, Dead, SweepFire, Fire, store
<1>10. QuietOutside'
  BY DEF TypeOK, Versions, QuietOutside, SweepFire, Fire, store
<1>11. RevokedIsDead'
  BY DEF TypeOK, Versions, RevokedIsDead, Dead, SweepFire, Fire, store, Swept, PendingIsDead, SelfIsDead, BoundToMinted
<1>12. FenceHolds'
  <2>1. ASSUME NEW t \in Sessions, phase'[t] = "live"
        PROVE  blocked'[cred'[t]] < ver'[t]
    <3>1. /\ phase[t] = "live" /\ t \in clients /\ cred[t] \in Creds
          /\ t \notin Swept(s) /\ (self_disconnect[s] => t # s)
          /\ blocked'[cred'[t]] = Raised(s, cred[t]) /\ ver'[t] = ver[t]
      BY <2>1 DEF SweepFire, Fire, TypeOK, LiveIsRegistered, BoundToMinted
    <3>2. blocked[cred[t]] < ver[t]
      BY <3>1 DEF FenceHolds
    <3>3. ASSUME NEW p \in pending[s], p[1] = cred[t]
          PROVE  p[2] < ver[t]
      <4>1. p[2] \in 0 .. 2 /\ ver[t] \in 0 .. 2
        BY DEF TypeOK, Pairs, Versions
      <4>2. t # s
        BY <3>1, <3>3 DEF OwnPairClosesSelf
      <4>3. QED
        BY <3>1, <3>3, <4>1, <4>2 DEF Swept
    <3>4. QED
      BY <3>1, <3>2, <3>3, RaisedIsMax
  <2>2. QED
    BY <2>1 DEF FenceHolds
<1>13. QED
  BY <1>1, <1>2, <1>3, <1>4, <1>5, <1>6, <1>7, <1>8, <1>9, <1>10, <1>11, <1>12

(* A session's own end. *)
LEMMA LeaveKeeps ==
  ASSUME IInv, NEW s \in Sessions, Leave(s)
  PROVE  IInv'
<1> USE DEF IInv
<1>1. TypeOK'
  BY DEF TypeOK, Versions, Pairs, Ops, NoOp, Revoke, Reset, Wipe, Leave, Fire, store, registry, deferred
<1>2. VersionByStatus'
  BY DEF TypeOK, Versions, VersionByStatus, Leave, Fire, store, registry, deferred
<1>3. BoundToMinted'
  BY DEF TypeOK, Versions, BoundToMinted, Leave, Fire, store, registry, deferred
<1>4. LiveIsRegistered'
  BY DEF TypeOK, Versions, LiveIsRegistered, Leave, Fire, store, registry, deferred
<1>5. FencedIsDead'
  BY DEF TypeOK, Versions, FencedIsDead, Dead, Leave, Fire, store, registry, deferred
<1>6. PendingIsDead'
  BY DEF TypeOK, Versions, PendingIsDead, Dead, Pairs, Leave, Fire, store, registry, deferred
<1>7. ListedIsMinted'
  BY DEF TypeOK, Versions, ListedIsMinted, Leave, Fire, store, registry, deferred
<1>8. OwnPairClosesSelf'
  BY DEF TypeOK, Versions, OwnPairClosesSelf, Pairs, Leave, Fire, store, registry, deferred
<1>9. SelfIsDead'
  BY DEF TypeOK, Versions, SelfIsDead, Dead, Leave, Fire, store, registry, deferred
<1>10. QuietOutside'
  BY DEF TypeOK, Versions, QuietOutside, Leave, Fire, store, registry, deferred
<1>11. RevokedIsDead'
  BY DEF TypeOK, Versions, RevokedIsDead, Dead, Leave, Fire, store, registry, deferred
<1>12. FenceHolds'
  BY DEF TypeOK, Versions, FenceHolds, Leave, Fire, store, registry, deferred
<1>13. QED
  BY <1>1, <1>2, <1>3, <1>4, <1>5, <1>6, <1>7, <1>8, <1>9, <1>10, <1>11, <1>12

(* A connection dropped before it registered. *)
LEMMA DropKeeps ==
  ASSUME IInv, NEW s \in Sessions, Drop(s)
  PROVE  IInv'
<1> USE DEF IInv
<1>1. TypeOK'
  BY DEF TypeOK, Versions, Pairs, Ops, NoOp, Revoke, Reset, Wipe, Drop, Forget, store, registry, deferred
<1>2. VersionByStatus'
  BY DEF TypeOK, Versions, VersionByStatus, Drop, Forget, store, registry, deferred
<1>3. BoundToMinted'
  BY DEF TypeOK, Versions, BoundToMinted, Drop, Forget, store, registry, deferred
<1>4. LiveIsRegistered'
  BY DEF TypeOK, Versions, LiveIsRegistered, Drop, Forget, store, registry, deferred
<1>5. FencedIsDead'
  BY DEF TypeOK, Versions, FencedIsDead, Dead, Drop, Forget, store, registry, deferred
<1>6. PendingIsDead'
  BY DEF TypeOK, Versions, PendingIsDead, Dead, Pairs, Drop, Forget, store, registry, deferred
<1>7. ListedIsMinted'
  BY DEF TypeOK, Versions, ListedIsMinted, Drop, Forget, store, registry, deferred
<1>8. OwnPairClosesSelf'
  BY DEF TypeOK, Versions, OwnPairClosesSelf, Pairs, Drop, Forget, store, registry, deferred, QuietOutside
<1>9. SelfIsDead'
  BY DEF TypeOK, Versions, SelfIsDead, Dead, Drop, Forget, store, registry, deferred, QuietOutside
<1>10. QuietOutside'
  BY DEF TypeOK, Versions, QuietOutside, Drop, Forget, store, registry, deferred
<1>11. RevokedIsDead'
  BY DEF TypeOK, Versions, RevokedIsDead, Dead, Drop, Forget, store, registry, deferred
<1>12. FenceHolds'
  BY DEF TypeOK, Versions, FenceHolds, Drop, Forget, store, registry, deferred
<1>13. QED
  BY <1>1, <1>2, <1>3, <1>4, <1>5, <1>6, <1>7, <1>8, <1>9, <1>10, <1>11, <1>12

(* The actor's exit. *)
LEMMA ExitKeeps ==
  ASSUME IInv, NEW s \in Sessions, Exit(s)
  PROVE  IInv'
<1> USE DEF IInv
<1>1. TypeOK'
  BY DEF TypeOK, Versions, Pairs, Ops, NoOp, Revoke, Reset, Wipe, Exit, Forget, store
<1>2. VersionByStatus'
  BY DEF TypeOK, Versions, VersionByStatus, Exit, Forget, store, NoOp
<1>3. BoundToMinted'
  BY DEF TypeOK, Versions, BoundToMinted, Exit, Forget, store, NoOp
<1>4. LiveIsRegistered'
  BY DEF TypeOK, Versions, LiveIsRegistered, Exit, Forget, store, NoOp
<1>5. FencedIsDead'
  BY DEF TypeOK, Versions, FencedIsDead, Dead, Exit, Forget, store, NoOp
<1>6. PendingIsDead'
  BY DEF TypeOK, Versions, PendingIsDead, Dead, Pairs, Exit, Forget, store, NoOp
<1>7. ListedIsMinted'
  BY DEF TypeOK, Versions, ListedIsMinted, Exit, Forget, store, NoOp
<1>8. OwnPairClosesSelf'
  BY DEF TypeOK, Versions, OwnPairClosesSelf, Pairs, Exit, Forget, store, NoOp
<1>9. SelfIsDead'
  BY DEF TypeOK, Versions, SelfIsDead, Dead, Exit, Forget, store, NoOp
<1>10. QuietOutside'
  BY DEF TypeOK, Versions, QuietOutside, Exit, Forget, store, NoOp
<1>11. RevokedIsDead'
  BY DEF TypeOK, Versions, RevokedIsDead, Dead, Exit, Forget, store, NoOp
<1>12. FenceHolds'
  BY DEF TypeOK, Versions, FenceHolds, Exit, Forget, store, NoOp
<1>13. QED
  BY <1>1, <1>2, <1>3, <1>4, <1>5, <1>6, <1>7, <1>8, <1>9, <1>10, <1>11, <1>12

-----------------------------------------------------------------------------
(* Theorems *)

(* The relay starts with no credential, no session and no fence. *)
LEMMA InitHolds == Init => IInv
<1> SUFFICES ASSUME Init PROVE IInv
  OBVIOUS
<1>1. TypeOK
  BY CredsAssumption DEF Init, TypeOK, Versions, Ops
<1>2. /\ VersionByStatus /\ BoundToMinted /\ LiveIsRegistered /\ FencedIsDead
      /\ PendingIsDead /\ ListedIsMinted
  BY DEF Init, VersionByStatus, BoundToMinted, LiveIsRegistered, FencedIsDead,
         PendingIsDead, ListedIsMinted, NoOp
<1>3. OwnPairClosesSelf /\ SelfIsDead /\ QuietOutside /\ RevokedIsDead /\ FenceHolds
  BY DEF Init, OwnPairClosesSelf, SelfIsDead, QuietOutside, RevokedIsDead, FenceHolds
<1>4. QED
  BY <1>1, <1>2, <1>3 DEF IInv

(* Every step of the registry and of the actors keeps the invariant. *)
LEMMA NextHolds == IInv /\ [Next]_vars => IInv'
<1> SUFFICES ASSUME IInv, [Next]_vars PROVE IInv'
  OBVIOUS
<1>1. ASSUME NEW s \in Sessions, NEW c \in Creds, Commit(s, c) PROVE IInv'
  BY <1>1, CommitKeeps
<1>2. ASSUME NEW s \in Sessions, NEW c \in Creds, Request(s, Revoke(c)) PROVE IInv'
  BY <1>2, RequestKeeps
<1>3. ASSUME NEW s \in Sessions, Request(s, Reset) PROVE IInv'
  BY <1>3, RequestKeeps
<1>4. ASSUME NEW s \in Sessions, Register(s) PROVE IInv'
  BY <1>4, RegisterKeeps
<1>5. ASSUME NEW s \in Sessions, Execute(s) PROVE IInv'
  BY <1>5, RevokeKeeps, ListKeeps, WipeKeeps DEF Execute
<1>6. ASSUME NEW s \in Sessions, SweepFire(s) PROVE IInv'
  BY <1>6, SweepKeeps
<1>7. ASSUME NEW s \in Sessions, Leave(s) PROVE IInv'
  BY <1>7, LeaveKeeps
<1>8. ASSUME NEW s \in Sessions, Drop(s) PROVE IInv'
  BY <1>8, DropKeeps
<1>9. ASSUME NEW s \in Sessions, Exit(s) PROVE IInv'
  BY <1>9, ExitKeeps
<1>10. CASE UNCHANGED vars
  BY <1>10 DEF vars, store, session, registry, deferred, IInv, TypeOK, VersionByStatus,
     BoundToMinted, LiveIsRegistered, FencedIsDead, PendingIsDead, ListedIsMinted,
     OwnPairClosesSelf, SelfIsDead, QuietOutside, RevokedIsDead, FenceHolds, Dead
<1>11. QED
  BY <1>1, <1>2, <1>3, <1>4, <1>5, <1>6, <1>7, <1>8, <1>9, <1>10 DEF Next

LEMMA Inductive == Spec => []IInv
<1>1. QED
  BY InitHolds, NextHolds, PTL DEF Spec

(* Every variable of the registry, the store's credentials and the actors'     *)
(* deferred work keeps its type.                                               *)
THEOREM TypeCorrect == Spec => []TypeOK
<1>1. IInv => TypeOK
  BY DEF IInv
<1>2. QED
  BY <1>1, Inductive, PTL

(* Once disconnect_credentials has fenced a credential, no session bound to it *)
(* at or below the fence is live: not one that was registered, not one whose   *)
(* committed handshake reached on_connect after the sweep, and not the         *)
(* requester's own.                                                            *)
THEOREM FenceAlwaysHolds == Spec => []FenceHolds
<1>1. IInv => FenceHolds
  BY DEF IInv
<1>2. QED
  BY <1>1, Inductive, PTL

(* A session that a sweep or the fence closes as revoked is bound to a         *)
(* credential that is revoked or wiped, whatever several administrators did    *)
(* between the listing, the wipe and the sweep.                                *)
THEOREM SweepAlwaysSpares == Spec => []SweepSparesCurrent
<1>1. IInv => SweepSparesCurrent
  BY DEF IInv, RevokedIsDead, Dead, SweepSparesCurrent, Current
<1>2. QED
  BY <1>1, Inductive, PTL

(* No step lowers a fence or brings a destroyed credential back, so the two    *)
(* invariants above hold of a credential for good once a sweep has reached it. *)
FenceIsFinal ==
  \A c \in Creds : blocked[c] <= blocked'[c] /\ (Dead(c) => Dead(c)')

THEOREM FenceFinal == Spec => [][FenceIsFinal]_vars
<1>1. IInv /\ Next => FenceIsFinal
  <2> SUFFICES ASSUME IInv, Next, NEW c \in Creds
               PROVE  blocked[c] <= blocked'[c] /\ (Dead(c) => Dead(c)')
    BY DEF FenceIsFinal
  <2> USE DEF IInv
  <2>1. blocked[c] <= blocked'[c]
    <3>1. blocked[c] \in 0 .. 2
      BY DEF TypeOK, Versions
    <3>2. CASE UNCHANGED blocked
      BY <3>1, <3>2
    <3>3. ASSUME NEW s \in Sessions, SweepFire(s)
          PROVE  blocked[c] <= blocked'[c]
      BY <3>3, RaisedIsMax DEF SweepFire
    <3>4. QED
      BY <3>2, <3>3 DEF Next, Commit, Request, Register, Execute, ExecuteRevoke, ExecuteList,
         ExecuteWipe, Leave, Drop, Exit, registry
  <2>2. ASSUME Dead(c)
        PROVE  Dead(c)'
    <3>1. CASE UNCHANGED status
      BY <2>2, <3>1 DEF Dead
    <3>2. ASSUME NEW s \in Sessions, NEW d \in Creds, Commit(s, d)
          PROVE  Dead(c)'
      BY <2>2, <3>2 DEF Dead, Commit, store, TypeOK
    <3>3. ASSUME NEW s \in Sessions, ExecuteRevoke(s)
          PROVE  Dead(c)'
      BY <2>2, <3>3 DEF Dead, ExecuteRevoke, store, TypeOK
    <3>4. ASSUME NEW s \in Sessions, ExecuteWipe(s)
          PROVE  Dead(c)'
      BY <2>2, <3>4 DEF Dead, ExecuteWipe, TypeOK
    <3>5. QED
      BY <3>1, <3>2, <3>3, <3>4 DEF Next, Request, Register, Execute, ExecuteList, SweepFire,
         Leave, Drop, Exit, store
  <2>3. QED
    BY <2>1, <2>2
<1>2. QED
  BY <1>1, Inductive, PTL DEF Spec
=============================================================================
