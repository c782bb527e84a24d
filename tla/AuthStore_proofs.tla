--------------------------- MODULE AuthStore_proofs ---------------------------
(***************************************************************************)
(* Proofs about AuthStore, for every set of credentials and connections    *)
(* and every bound.                                                        *)
(***************************************************************************)
EXTENDS AuthStore, TLAPS

(* What every state function of AuthState returns. *)
Replies == [state : AuthState, ok : BOOLEAN, mutated : BOOLEAN]

(* A state function keeps the type of the document, and reports every change. *)
Faithful(s, r) == r \in Replies /\ (~r.mutated => r.state = s)

-----------------------------------------------------------------------------
(* Types of the pieces. *)

LEMMA ReplyType ==
  ASSUME NEW s \in AuthState, NEW t \in AuthState, NEW ok \in BOOLEAN, NEW m \in BOOLEAN,
         ~m => t = s
  PROVE  Faithful(s, Reply(t, ok, m))
BY DEF Faithful, Replies, Reply

LEMMA SlotType ==
  ASSUME NEW s \in AuthState, NEW inv \in Invitation \cup {NoInvitation}
  PROVE  Slot(s, inv) \in AuthState
BY DEF Slot, AuthState

LEMMA EmptyType == EmptyState \in AuthState
BY DEF EmptyState, AuthState, Absent, CredentialRecord, Roles

LEMMA NewInvitationType ==
  ASSUME armed \in Nat, now \in Nat, NEW id \in Nat, NEW role \in Roles
  PROVE  NewInvitation(id, role) \in Invitation
BY BoundsAssumption DEF NewInvitation, Invitation

LEMMA MatchType ==
  ASSUME NEW s \in AuthState, NEW id, Matches(s, id)
  PROVE  s.invitation \in Invitation /\ s.invitation.id = id
BY DEF Matches, AuthState

LEMMA DropPendingType ==
  ASSUME NEW s \in AuthState, NEW c \in Creds
  PROVE  DropPending(s, c) \in Invitation \cup {NoInvitation}
BY DEF DropPending, AuthState

-----------------------------------------------------------------------------
(* The state functions. *)

LEMMA ResolveInvitationFaithful ==
  ASSUME NEW s \in AuthState, now \in Nat, NEW id \in Nat
  PROVE  Faithful(s, resolve_invitation(s, id))
<1> DEFINE inv == s.invitation
           open == inv.failed < MaxInviteAttempts /\ now >= inv.next
           later == [inv EXCEPT !.expires = now + InvitationLifetime]
<1>1. CASE ~Matches(s, id)
  <2>1. resolve_invitation(s, id) = Reply(s, FALSE, FALSE)
    BY <1>1 DEF resolve_invitation
  <2> QED BY <2>1, ReplyType
<1>2. CASE Matches(s, id) /\ ~(now >= inv.expires)
  <2>1. resolve_invitation(s, id) = Reply(s, open, FALSE)
    BY <1>2 DEF resolve_invitation
  <2> QED BY <2>1, ReplyType
<1>3. CASE Matches(s, id) /\ now >= inv.expires
  <2>1. inv \in Invitation
    BY <1>3, MatchType
  <2>2. later \in Invitation
    BY <2>1, BoundsAssumption DEF Invitation
  <2>3. \/ resolve_invitation(s, id) = Reply(Slot(s, later), open, TRUE)
        \/ resolve_invitation(s, id) = Reply(Slot(s, NoInvitation), FALSE, TRUE)
    BY <1>3 DEF resolve_invitation
  <2>4. Slot(s, later) \in AuthState /\ Slot(s, NoInvitation) \in AuthState
    BY <2>2, SlotType
  <2> QED BY <2>3, <2>4, ReplyType
<1> QED BY <1>1, <1>2, <1>3

LEMMA ResolveFaithful ==
  ASSUME NEW s \in AuthState, now \in Nat, NEW x \in Selector
  PROVE  Faithful(s, resolve(s, x))
<1>1. CASE x.kind = "invitation"
  <2>1. x.id \in Nat
    BY <1>1 DEF Selector, InvitationSelector, CredentialSelector
  <2> QED BY <1>1, <2>1, ResolveInvitationFaithful DEF resolve
<1>2. CASE x.kind # "invitation"
  <2>1. resolve(s, x) = Reply(s, authorize(s, x.id, x.version) /\ s.credentials[x.id].secret, FALSE)
    BY <1>2 DEF resolve
  <2>2. x.id \in Creds
    BY <1>2 DEF Selector, InvitationSelector, CredentialSelector
  <2>3. s.credentials[x.id].secret \in BOOLEAN
    BY <2>2 DEF AuthState, CredentialRecord
  <2> QED BY <2>1, <2>3, ReplyType DEF authorize
<1> QED BY <1>1, <1>2

LEMMA StruckType ==
  ASSUME NEW inv \in Invitation, now \in Nat, ~(inv.failed + 1 >= MaxInviteAttempts)
  PROVE  /\ Struck(inv) \in Invitation
         /\ Struck(inv).pending = inv.pending /\ Struck(inv).serial = inv.serial
         /\ Struck(inv).failed = inv.failed + 1 /\ inv.failed + 1 < MaxInviteAttempts
<1>1. inv.failed \in Nat /\ inv.failed + 1 \in Nat
  BY DEF Invitation
<1>2. inv.failed + 1 < MaxInviteAttempts /\ inv.failed + 1 \in 1 .. MaxInviteAttempts - 1
  BY <1>1, BoundsAssumption
<1>3. now + Backoff[inv.failed + 1] \in Nat
  BY <1>2, BackoffAssumption
<1> QED BY <1>1, <1>2, <1>3 DEF Invitation, Struck

LEMMA RecordFailedFaithful ==
  ASSUME NEW s \in AuthState, now \in Nat, NEW id \in Nat
  PROVE  Faithful(s, record_failed_invitation(s, id))
<1> DEFINE inv == s.invitation
           spent == now >= inv.expires \/ inv.failed + 1 >= MaxInviteAttempts
<1>1. CASE ~Matches(s, id) \/ id = Bootstrap
  <2>1. record_failed_invitation(s, id) = Reply(s, FALSE, FALSE)
    BY <1>1 DEF record_failed_invitation
  <2> QED BY <2>1, ReplyType
<1>2. CASE Matches(s, id) /\ id # Bootstrap /\ spent
  <2>1. record_failed_invitation(s, id) = Reply(Slot(s, NoInvitation), FALSE, TRUE)
    BY <1>2 DEF record_failed_invitation
  <2> QED BY <2>1, SlotType, ReplyType
<1>3. CASE Matches(s, id) /\ id # Bootstrap /\ ~spent
  <2>1. record_failed_invitation(s, id) = Reply(Slot(s, Struck(inv)), FALSE, TRUE)
    BY <1>3 DEF record_failed_invitation
  <2>2. inv \in Invitation
    BY <1>3, MatchType
  <2>3. Struck(inv) \in Invitation
    BY <1>3, <2>2, StruckType
  <2> QED BY <2>1, <2>3, SlotType, ReplyType
<1> QED BY <1>1, <1>2, <1>3

(* The four outcomes of redeem_invitation. *)
LEMMA RedeemCases ==
  ASSUME NEW s \in AuthState, now \in Nat, NEW id \in Nat, NEW fresh \in Creds
  PROVE  \/ /\ ~Matches(s, id)
            /\ redeem_invitation(s, id, fresh) = Reply(s, FALSE, FALSE)
         \/ /\ Matches(s, id)
            /\ redeem_invitation(s, id, fresh) = Reply(Slot(s, NoInvitation), FALSE, TRUE)
         \/ /\ Matches(s, id) /\ s.invitation.pending \in Creds
            /\ redeem_invitation(s, id, fresh)
                 = Reply(s, s.credentials[s.invitation.pending].secret, FALSE)
         \/ /\ Matches(s, id) /\ s.invitation.pending = NoCred
            /\ redeem_invitation(s, id, fresh) = Reply(Redeemed(s, fresh), TRUE, TRUE)
<1>1. CASE ~Matches(s, id)
  BY <1>1 DEF redeem_invitation
<1>2. CASE Matches(s, id)
  <2>1. s.invitation \in Invitation
    BY <1>2, MatchType
  <2>2. s.invitation.expires \in Nat /\ s.invitation.pending \in Creds \cup {NoCred}
    BY <2>1 DEF Invitation
  <2>3. CASE now >= s.invitation.expires
    <3>1. redeem_invitation(s, id, fresh) = Reply(Slot(s, NoInvitation), FALSE, TRUE)
      BY <1>2, <2>2, <2>3 DEF redeem_invitation
    <3> QED BY <1>2, <3>1
  <2>4. CASE ~(now >= s.invitation.expires) /\ s.invitation.pending # NoCred
    <3>1. redeem_invitation(s, id, fresh)
            = Reply(s, s.credentials[s.invitation.pending].secret, FALSE)
      BY <1>2, <2>2, <2>4 DEF redeem_invitation
    <3> QED BY <1>2, <2>2, <2>4, <3>1
  <2>5. CASE ~(now >= s.invitation.expires) /\ s.invitation.pending = NoCred
    <3>1. redeem_invitation(s, id, fresh) = Reply(Redeemed(s, fresh), TRUE, TRUE)
      BY <1>2, <2>2, <2>5 DEF redeem_invitation
    <3> QED BY <1>2, <2>5, <3>1
  <2> QED BY <2>2, <2>3, <2>4, <2>5
<1> QED BY <1>1, <1>2

LEMMA RedeemFaithful ==
  ASSUME NEW s \in AuthState, now \in Nat, NEW id \in Nat, NEW fresh \in Creds
  PROVE  Faithful(s, redeem_invitation(s, id, fresh))
<1> DEFINE r == redeem_invitation(s, id, fresh)
<1>1. CASE r = Reply(s, FALSE, FALSE)
  BY <1>1, ReplyType
<1>2. CASE r = Reply(Slot(s, NoInvitation), FALSE, TRUE)
  BY <1>2, SlotType, ReplyType
<1>3. CASE s.invitation.pending \in Creds
           /\ r = Reply(s, s.credentials[s.invitation.pending].secret, FALSE)
  <2>1. s.credentials[s.invitation.pending].secret \in BOOLEAN
    BY <1>3 DEF AuthState, CredentialRecord
  <2> QED BY <1>3, <2>1, ReplyType
<1>4. CASE Matches(s, id) /\ r = Reply(Redeemed(s, fresh), TRUE, TRUE)
  <2>1. s.invitation \in Invitation
    BY <1>4, MatchType
  <2> DEFINE minted ==
        [status |-> "active", role |-> s.invitation.role, version |-> 1, secret |-> TRUE]
  <2>2. minted \in CredentialRecord
    BY <2>1 DEF CredentialRecord, Invitation
  <2>3. [s.invitation EXCEPT !.pending = fresh] \in Invitation
    BY <2>1 DEF Invitation
  <2>4. Redeemed(s, fresh) \in AuthState
    BY <2>2, <2>3 DEF Redeemed, AuthState
  <2> QED BY <1>4, <2>4, ReplyType
<1> QED BY <1>1, <1>2, <1>3, <1>4, RedeemCases

(* A redemption that succeeds finds an invitation and leaves one. *)
LEMMA RedeemPending ==
  ASSUME NEW s \in AuthState, now \in Nat, NEW id \in Nat, NEW fresh \in Creds,
         redeem_invitation(s, id, fresh).ok
  PROVE  /\ s.invitation \in Invitation
         /\ redeem_invitation(s, id, fresh).state.invitation.pending \in Creds
<1> DEFINE r == redeem_invitation(s, id, fresh)
<1>1. Matches(s, id) /\ ~(r = Reply(Slot(s, NoInvitation), FALSE, TRUE))
  BY RedeemCases DEF Reply
<1>2. s.invitation \in Invitation
  BY <1>1, MatchType
<1>3. CASE s.invitation.pending \in Creds
           /\ r = Reply(s, s.credentials[s.invitation.pending].secret, FALSE)
  BY <1>2, <1>3 DEF Reply
<1>4. CASE r = Reply(Redeemed(s, fresh), TRUE, TRUE)
  BY <1>2, <1>4 DEF Reply, Redeemed, Invitation
<1> QED BY <1>1, <1>2, <1>3, <1>4, RedeemCases

LEMMA RedeemKeeps ==
  ASSUME NEW s \in AuthState, now \in Nat, NEW id \in Nat, NEW fresh \in Creds,
         redeem_invitation(s, id, fresh).ok
  PROVE  redeem_invitation(s, id, fresh).state.invitation # NoInvitation
<1> DEFINE r == redeem_invitation(s, id, fresh)
<1>1. Matches(s, id) /\ ~(r = Reply(Slot(s, NoInvitation), FALSE, TRUE))
  BY RedeemCases DEF Reply
<1>2. s.invitation \in Invitation
  BY <1>1, MatchType
<1>3. CASE r = Reply(s, s.credentials[s.invitation.pending].secret, FALSE)
  BY <1>2, <1>3, SlotAssumption DEF Reply
<1>4. CASE r = Reply(Redeemed(s, fresh), TRUE, TRUE)
  <2>1. [s.invitation EXCEPT !.pending = fresh] \in Invitation
    BY <1>2 DEF Invitation
  <2> QED BY <1>4, <2>1, SlotAssumption DEF Reply, Redeemed
<1> QED BY <1>1, <1>3, <1>4, RedeemCases

LEMMA CompleteFaithful ==
  ASSUME NEW s \in AuthState, NEW x \in CredentialSelector
  PROVE  Faithful(s, complete_credential(s, x))
<1>1. x.id \in Creds
  BY DEF CredentialSelector
<1>2. Slot(s, DropPending(s, x.id)) \in AuthState
  BY <1>1, DropPendingType, SlotType
<1> QED BY <1>2, ReplyType DEF complete_credential

LEMMA RevokeCases ==
  ASSUME NEW s \in AuthState, NEW c \in Creds
  PROVE  \/ revoke(s, c) = Reply(s, FALSE, FALSE)
         \/ /\ ~Refused(s, c)
            /\ revoke(s, c) = Reply(Slot(Cut(s, c), DropPending(s, c)), TRUE, TRUE)
BY DEF revoke

LEMMA CutType ==
  ASSUME NEW s \in AuthState, NEW c \in Creds
  PROVE  Cut(s, c) \in AuthState
<1>1. s.credentials[c] \in CredentialRecord
  BY DEF AuthState
<1>2. s.credentials[c].version + 1 \in Nat
  BY <1>1 DEF CredentialRecord
<1>3. Tombstone(s.credentials[c]) \in CredentialRecord
  BY <1>1, <1>2 DEF Tombstone, CredentialRecord
<1>4. [s EXCEPT !.credentials[c] = Tombstone(s.credentials[c])] \in AuthState
  BY <1>3 DEF AuthState
<1> QED BY <1>4 DEF Cut

LEMMA RevokeFaithful ==
  ASSUME NEW s \in AuthState, NEW c \in Creds
  PROVE  Faithful(s, revoke(s, c))
<1>1. Slot(Cut(s, c), DropPending(s, c)) \in AuthState
  BY CutType, DropPendingType, SlotType
<1> QED BY <1>1, RevokeCases, ReplyType

LEMMA ResetType ==
  ASSUME armed \in Nat, now \in Nat
  PROVE  reset \in AuthState
<1>1. Bootstrap \in Nat /\ "controller" \in Roles
  BY DEF Bootstrap, Roles
<1>2. NewInvitation(Bootstrap, "controller") \in Invitation
  BY <1>1, NewInvitationType
<1> QED BY <1>2, EmptyType DEF reset, AuthState

LEMMA MintType ==
  ASSUME armed \in Nat, now \in Nat
  PROVE  mint_invitation \in Invitation
<1>1. (IF Token THEN Bootstrap ELSE armed + 1) \in Nat /\ "controller" \in Roles
  BY DEF Bootstrap, Roles
<1> QED BY <1>1, NewInvitationType DEF mint_invitation

LEMMA ScrubType ==
  ASSUME NEW s \in AuthState
  PROVE  scrub(s) \in AuthState
BY DEF scrub, AuthState, CredentialRecord

-----------------------------------------------------------------------------
(* Type correctness. *)

LEMMA TransactType ==
  ASSUME TypeOK, NEW r, Faithful(mem, r), NEW written \in BOOLEAN, transact(r, written)
  PROVE  mem' \in AuthState /\ disk' \in AuthState /\ faults' \in Nat
<1>1. r.state \in AuthState
  BY DEF Faithful, Replies
<1> QED BY <1>1 DEF transact, TypeOK

ConnsType ==
  /\ phase \in [Conns -> Phases]
  /\ sel \in [Conns -> Selector]
  /\ proof \in [Conns -> BOOLEAN]
  /\ identity \in [Conns -> Creds \cup {NoCred}]

(* The strengthening TypeOK needs: a committed connection has an identity. *)
Committed == \A n \in Conns : phase[n] = "committed" => identity[n] \in Creds

LEMMA NoHelloType == NoHello \in Selector
BY DEF NoHello, Bootstrap, Selector, InvitationSelector

LEMMA LeaveType ==
  ASSUME TypeOK, Committed, NEW n \in Conns, Leave(n)
  PROVE  ConnsType' /\ Committed'
BY NoHelloType DEF TypeOK, Leave, ConnsType, Phases, Committed

LEMMA CountType ==
  ASSUME NEW S, NEW f \in [S -> Nat], NEW x
  PROVE  [f EXCEPT ![x] = @ + 1] \in [S -> Nat]
<1>1. CASE x \in S
  <2>1. f[x] + 1 \in Nat
    BY <1>1
  <2> QED BY <2>1
<1>2. CASE x \notin S
  BY <1>2
<1> QED BY <1>1, <1>2

LEMMA HellosType == Hellos \subseteq Selector
BY BoundsAssumption
   DEF Hellos, Selector, InvitationSelector, CredentialSelector, Serials, Bootstrap

LEMMA SelectorKinds ==
  ASSUME NEW x \in Selector
  PROVE  /\ x.kind = "invitation" => x.id \in Nat
         /\ x.kind = "credential" => x \in CredentialSelector
BY DEF Selector, InvitationSelector, CredentialSelector

(* The type invariant holds in every state of every behaviour: in particular  *)
(* the document in memory and the one in the file always have the shape of an *)
(* AuthState, whatever operation was interrupted or failed.                   *)
THEOREM TypeCorrect == Spec => []TypeOK
<1>1. Init => TypeOK /\ Committed
  <2> SUFFICES ASSUME Init PROVE TypeOK /\ Committed
    OBVIOUS
  <2>1. mem \in AuthState /\ disk \in AuthState
    BY EmptyType DEF Init
  <2>2. ConnsType
    BY NoHelloType DEF Init, ConnsType, Phases
  <2>3. strikes \in [Serials -> Nat] /\ origin \in [Creds -> Nat]
    BY DEF Init
  <2> QED BY <2>1, <2>2, <2>3 DEF Init, TypeOK, ConnsType, Committed
<1>2. TypeOK /\ Committed /\ [Next]_vars => TypeOK' /\ Committed'
  <2> SUFFICES ASSUME TypeOK, Committed, [Next]_vars PROVE TypeOK' /\ Committed'
    OBVIOUS
  <2> USE DEF conns, history
  <2>1. ASSUME NEW n \in Conns, NEW written \in BOOLEAN, NEW s \in Hellos,
               NEW known \in BOOLEAN, ClientHello(n, s, known, written)
        PROVE  TypeOK' /\ Committed'
    <3>1. s \in Selector
      BY HellosType
    <3>2. Faithful(mem, resolve(mem, s))
      BY <3>1, ResolveFaithful DEF TypeOK
    <3>3. mem' \in AuthState /\ disk' \in AuthState /\ faults' \in Nat
      BY <2>1, <3>2, TransactType DEF ClientHello
    <3>4. ConnsType' /\ Committed' /\ Committed'
      BY <2>1, <3>1 DEF ClientHello, TypeOK, ConnsType, Phases, Committed
    <3> QED BY <2>1, <3>3, <3>4 DEF ClientHello, TypeOK, ConnsType
  <2>2. ASSUME NEW n \in Conns, NEW written \in BOOLEAN, BadProof(n, written)
        PROVE  TypeOK' /\ Committed'
    <3> DEFINE r == IF sel[n].kind = "invitation"
                      THEN record_failed_invitation(mem, sel[n].id)
                      ELSE Reply(mem, FALSE, FALSE)
    <3>1. sel[n].kind = "invitation" => sel[n].id \in Nat
      BY SelectorKinds DEF TypeOK
    <3>2. Faithful(mem, r)
      BY <3>1, RecordFailedFaithful, ReplyType DEF TypeOK
    <3>3. mem' \in AuthState /\ disk' \in AuthState /\ faults' \in Nat
      BY <2>2, <3>2, TransactType DEF BadProof
    <3>4. ConnsType' /\ Committed'
      BY <2>2, LeaveType DEF BadProof
    <3>5. strikes' \in [Serials -> Nat]
      <4>1. \/ strikes' = [strikes EXCEPT ![mem.invitation.serial] = @ + 1]
            \/ strikes' = strikes
        BY <2>2 DEF BadProof
      <4> QED BY <4>1, CountType DEF TypeOK
    <3> QED BY <2>2, <3>3, <3>4, <3>5 DEF BadProof, TypeOK, ConnsType
  <2>3. ASSUME NEW n \in Conns, NEW written \in BOOLEAN, NEW fresh \in Creds,
               RedeemInvitation(n, fresh, written)
        PROVE  TypeOK' /\ Committed'
    <3> DEFINE r == redeem_invitation(mem, sel[n].id, fresh)
    <3>1. sel[n].id \in Nat
      BY <2>3, SelectorKinds DEF TypeOK, RedeemInvitation
    <3>2. Faithful(mem, r)
      BY <3>1, RedeemFaithful DEF TypeOK
    <3>3. mem' \in AuthState /\ disk' \in AuthState /\ faults' \in Nat
      BY <2>3, <3>2, TransactType DEF RedeemInvitation
    <3>4. ConnsType' /\ Committed'
      <4>1. CASE Leave(n)
        BY <4>1, LeaveType
      <4>2. CASE /\ Succeeds(r, written)
                 /\ phase' = [phase EXCEPT ![n] = "committed"]
                 /\ identity' = [identity EXCEPT ![n] = r.state.invitation.pending]
                 /\ UNCHANGED <<sel, proof>>
        <5>1. r.state.invitation.pending \in Creds
          BY <3>1, <4>2, RedeemPending DEF TypeOK, Succeeds
        <5> QED BY <4>2, <5>1 DEF TypeOK, ConnsType, Phases, Committed
      <4> QED BY <2>3, <4>1, <4>2 DEF RedeemInvitation
    <3>5. origin' \in [Creds -> Nat]
      <4>1. CASE r.ok /\ r.mutated
        <5>1. mem.invitation.serial \in Nat
          BY <3>1, <4>1, RedeemPending DEF TypeOK, Invitation
        <5> QED BY <2>3, <5>1 DEF RedeemInvitation, TypeOK
      <4>2. CASE ~(r.ok /\ r.mutated)
        BY <2>3, <4>2 DEF RedeemInvitation, TypeOK
      <4> QED BY <4>1, <4>2
    <3> QED BY <2>3, <3>3, <3>4, <3>5 DEF RedeemInvitation, TypeOK, ConnsType
  <2>4. ASSUME NEW n \in Conns, NEW written \in BOOLEAN, CompleteCredential(n, written)
        PROVE  TypeOK' /\ Committed'
    <3>1. sel[n] \in CredentialSelector
      BY <2>4, SelectorKinds DEF TypeOK, CompleteCredential
    <3>2. Faithful(mem, complete_credential(mem, sel[n]))
      BY <3>1, CompleteFaithful DEF TypeOK
    <3>3. mem' \in AuthState /\ disk' \in AuthState /\ faults' \in Nat
      BY <2>4, <3>2, TransactType DEF CompleteCredential
    <3>4. ConnsType' /\ Committed'
      <4>1. sel[n].id \in Creds
        BY <3>1 DEF CredentialSelector
      <4> QED BY <2>4, <4>1, LeaveType DEF CompleteCredential, TypeOK, ConnsType, Phases, Committed
    <3> QED BY <2>4, <3>3, <3>4 DEF CompleteCredential, TypeOK, ConnsType
  <2>5. ASSUME NEW n \in Conns, ServerFinish(n)
        PROVE  TypeOK' /\ Committed'
    <3>1. ConnsType' /\ Committed'
      BY <2>5, LeaveType DEF ServerFinish
    <3>2. held' \subseteq Creds
      BY <2>5 DEF ServerFinish, TypeOK, Committed
    <3> QED BY <2>5, <3>1, <3>2 DEF ServerFinish, TypeOK, ConnsType
  <2>6. ASSUME NEW n \in Conns, Abort(n)
        PROVE  TypeOK' /\ Committed'
    <3>1. ConnsType' /\ Committed'
      BY <2>6, LeaveType DEF Abort
    <3> QED BY <2>6, <3>1 DEF Abort, TypeOK, ConnsType
  <2>7. ASSUME NEW c \in Creds, NEW written \in BOOLEAN, RenameDevice(c, written)
        PROVE  TypeOK' /\ Committed'
    <3>1. Faithful(mem, Reply(mem, TRUE, TRUE))
      BY ReplyType DEF TypeOK
    <3>2. mem' \in AuthState /\ disk' \in AuthState /\ faults' \in Nat
      BY <2>7, <3>1, TransactType DEF RenameDevice
    <3> QED BY <2>7, <3>2 DEF RenameDevice, TypeOK, Committed
  <2>8. ASSUME NEW c \in Creds, NEW written \in BOOLEAN, RevokeDevice(c, written)
        PROVE  TypeOK' /\ Committed'
    <3>1. Faithful(mem, revoke(mem, c))
      BY RevokeFaithful DEF TypeOK
    <3>2. mem' \in AuthState /\ disk' \in AuthState /\ faults' \in Nat
      BY <2>8, <3>1, TransactType DEF RevokeDevice
    <3>3. acked' \subseteq Creds
      BY <2>8 DEF RevokeDevice, TypeOK
    <3> QED BY <2>8, <3>2, <3>3 DEF RevokeDevice, TypeOK, Committed
  <2>9. ASSUME NEW role \in Roles, NEW written \in BOOLEAN, CreateInvitation(role, written)
        PROVE  TypeOK' /\ Committed'
    <3>1. NewInvitation(armed + 1, role) \in Invitation
      BY NewInvitationType DEF TypeOK
    <3>2. Faithful(mem, Reply(Slot(mem, NewInvitation(armed + 1, role)), TRUE, TRUE))
      BY <3>1, SlotType, ReplyType DEF TypeOK
    <3>3. mem' \in AuthState /\ disk' \in AuthState /\ faults' \in Nat
      BY <2>9, <3>2, TransactType DEF CreateInvitation
    <3> QED BY <2>9, <3>3 DEF CreateInvitation, TypeOK, Committed
  <2>10. ASSUME NEW written \in BOOLEAN, ArmInvitation(written)
         PROVE  TypeOK' /\ Committed'
    <3>1. Faithful(mem, Reply(Slot(mem, mint_invitation), TRUE, TRUE))
      BY MintType, SlotType, ReplyType DEF TypeOK
    <3>2. mem' \in AuthState /\ disk' \in AuthState /\ faults' \in Nat
      BY <2>10, <3>1, TransactType DEF ArmInvitation
    <3> QED BY <2>10, <3>2 DEF ArmInvitation, TypeOK, Committed
  <2>11. ASSUME NEW written \in BOOLEAN, ResetDevices(written)
         PROVE  TypeOK' /\ Committed'
    <3>1. Faithful(mem, Reply(reset, TRUE, TRUE))
      BY ResetType, ReplyType DEF TypeOK
    <3>2. mem' \in AuthState /\ disk' \in AuthState /\ faults' \in Nat
      BY <2>11, <3>1, TransactType DEF ResetDevices
    <3> QED BY <2>11, <3>2 DEF ResetDevices, TypeOK, Committed
  <2>12. CASE Tick
    BY <2>12 DEF Tick, TypeOK, Committed
  <2>13. CASE Crash
    <3>1. ConnsType' /\ Committed'
      BY <2>13, NoHelloType DEF Crash, ConnsType, Phases, Committed
    <3>2. mem' \in AuthState /\ up' \in BOOLEAN
      BY <2>13, EmptyType DEF Crash
    <3>3. crashes' \in Nat
      BY <2>13 DEF Crash, TypeOK
    <3>4. UNCHANGED <<disk, now, armed, origin, held, acked, strikes, faults>>
      BY <2>13 DEF Crash
    <3> QED BY <3>1, <3>2, <3>3, <3>4 DEF TypeOK, ConnsType
  <2>14. ASSUME NEW written \in BOOLEAN, Start(written)
         PROVE  TypeOK' /\ Committed'
    <3>1. Loaded \in AuthState
      BY EmptyType, ScrubType DEF Loaded, TypeOK
    <3>2. Slot(Loaded, mint_invitation) \in AuthState
      BY <3>1, MintType, SlotType DEF TypeOK
    <3>3. mem' \in AuthState /\ disk' \in AuthState
      BY <2>14, <3>1, <3>2 DEF Start, TypeOK
    <3>4. up' = TRUE \/ up' = up
      BY <2>14 DEF Start
    <3>6. armed' \in Nat /\ faults' \in Nat
      BY <2>14 DEF Start, TypeOK
    <3>5. UNCHANGED <<now, phase, sel, proof, identity, origin, held, acked, strikes, crashes>>
      BY <2>14 DEF Start
    <3>7. up' \in BOOLEAN
      BY <3>4 DEF TypeOK
    <3> QED BY <3>3, <3>5, <3>6, <3>7 DEF TypeOK, Committed
  <2>15. CASE UNCHANGED vars
    BY <2>15 DEF vars, TypeOK, Committed
  <2>16. ASSUME NEW n \in Conns, NEW written \in BOOLEAN, Handshake(n, written)
         PROVE  TypeOK' /\ Committed'
    BY <2>1, <2>2, <2>3, <2>4, <2>16 DEF Handshake
  <2>17. ASSUME NEW written \in BOOLEAN, Administration(written)
         PROVE  TypeOK' /\ Committed'
    BY <2>7, <2>8, <2>9, <2>10, <2>11, <2>17 DEF Administration
  <2> QED BY <2>5, <2>6, <2>12, <2>13, <2>14, <2>15, <2>16, <2>17 DEF Next
<1> QED BY <1>1, <1>2, PTL DEF Spec

-----------------------------------------------------------------------------
(* What every document the store ever holds or writes satisfies, given the    *)
(* history so far: the minted identifiers `org', the answered revocations     *)
(* `ack' and the number of armed invitations `lim'.                           *)

Present(s, c) == s.credentials[c].status # "absent"

CredentialsOK(s, org, lim) ==
  \A c \in Creds :
    /\ Present(s, c) => s.credentials[c].version # 0 /\ org[c] # 0 /\ org[c] <= lim
    /\ s.credentials[c].status = "active" => s.credentials[c].secret
    /\ s.credentials[c].status = "revoked" => ~s.credentials[c].secret

InvitationOK(inv, lim) ==
  inv # NoInvitation => inv.serial # 0 /\ inv.serial <= lim /\ inv.failed < MaxInviteAttempts

AckedOK(s, org, ack) ==
  \A c \in ack : c \in Creds /\ org[c] # 0 /\ s.credentials[c].status # "active"

(* One credential per serial number, and the invitation in the slot knows its *)
(* own as the pending one.                                                    *)
Distinct(s, org) ==
  \A c, d \in Creds : Present(s, c) /\ Present(s, d) /\ org[c] = org[d] => c = d

Traced(s, org) ==
  s.invitation # NoInvitation =>
    \A c \in Creds : Present(s, c) /\ org[c] = s.invitation.serial => s.invitation.pending = c

Doc(s, org, ack, lim) ==
  /\ s \in AuthState
  /\ CredentialsOK(s, org, lim)
  /\ InvitationOK(s.invitation, lim)
  /\ AckedOK(s, org, ack)
  /\ Distinct(s, org)
  /\ Traced(s, org)
  /\ PendingLive(s)
  /\ Manageable(s)

LEMMA SlotFields ==
  ASSUME NEW s \in AuthState, NEW inv
  PROVE  Slot(s, inv).invitation = inv /\ Slot(s, inv).credentials = s.credentials
BY DEF Slot, AuthState

(* Only the invitation changes, and it is pending on nothing new. *)
LEMMA SlotDoc ==
  ASSUME NEW s, NEW org, NEW ack, NEW lim, Doc(s, org, ack, lim),
         NEW inv \in Invitation \cup {NoInvitation}, InvitationOK(inv, lim),
         inv # NoInvitation =>
           \/ /\ inv.pending = NoCred
              /\ \A c \in Creds : Present(s, c) => org[c] # inv.serial
           \/ /\ s.invitation # NoInvitation
              /\ inv.pending = s.invitation.pending /\ inv.serial = s.invitation.serial
  PROVE  Doc(Slot(s, inv), org, ack, lim)
<1> DEFINE t == Slot(s, inv)
<1>1. s \in AuthState
  BY DEF Doc
<1>2. t \in AuthState /\ t.invitation = inv /\ t.credentials = s.credentials
  BY <1>1, SlotFields, SlotType
<1> HIDE DEF t
<1>3. CredentialsOK(t, org, lim) /\ Distinct(t, org) /\ AckedOK(t, org, ack)
  BY <1>2 DEF Doc, CredentialsOK, Distinct, AckedOK, Present
<1>4. InvitationOK(t.invitation, lim)
  BY <1>2
<1>5. PendingLive(t)
  BY <1>2 DEF Doc, PendingLive
<1>6. Manageable(t)
  BY <1>2 DEF Doc, Manageable, ActiveControllers
<1>7. Traced(t, org)
  BY <1>2 DEF Doc, Traced, Present
<1> QED BY <1>2, <1>3, <1>4, <1>5, <1>6, <1>7 DEF Doc, t

LEMMA DropPendingDoc ==
  ASSUME NEW s, NEW org, NEW ack, NEW lim, Doc(s, org, ack, lim), NEW c \in Creds
  PROVE  Doc(Slot(s, DropPending(s, c)), org, ack, lim)
<1>1. s \in AuthState /\ InvitationOK(s.invitation, lim)
  BY DEF Doc
<1>2. DropPending(s, c) \in Invitation \cup {NoInvitation}
  BY <1>1, DropPendingType
<1>3. DropPending(s, c) = NoInvitation \/ DropPending(s, c) = s.invitation
  BY DEF DropPending
<1>4. InvitationOK(DropPending(s, c), lim)
  BY <1>1, <1>3 DEF InvitationOK
<1> QED BY <1>2, <1>3, <1>4, SlotDoc

LEMMA ClearDoc ==
  ASSUME NEW s, NEW org, NEW ack, NEW lim, Doc(s, org, ack, lim)
  PROVE  Doc(Slot(s, NoInvitation), org, ack, lim)
BY SlotDoc DEF InvitationOK

LEMMA LaterDoc ==
  ASSUME NEW s, NEW org \in [Creds -> Nat], NEW ack, NEW lim \in Nat, Doc(s, org, ack, lim)
  PROVE  Doc(s, org, ack, lim + 1)
<1>1. CredentialsOK(s, org, lim + 1)
  BY DEF Doc, CredentialsOK
<1>2. InvitationOK(s.invitation, lim + 1)
  BY DEF Doc, InvitationOK, AuthState, Invitation
<1> QED BY <1>1, <1>2 DEF Doc

(* A new invitation has a serial number that no credential was minted from. *)
LEMMA ArmDoc ==
  ASSUME NEW s, NEW org \in [Creds -> Nat], NEW ack, Doc(s, org, ack, armed),
         armed \in Nat, now \in Nat, NEW id \in Nat, NEW role \in Roles
  PROVE  Doc(Slot(s, NewInvitation(id, role)), org, ack, armed + 1)
<1> DEFINE new == NewInvitation(id, role)
<1>1. new \in Invitation
  BY NewInvitationType
<1>2. new.pending = NoCred /\ new.serial = armed + 1 /\ InvitationOK(new, armed + 1)
  BY BoundsAssumption DEF NewInvitation, InvitationOK
<1>3. \A c \in Creds : Present(s, c) => org[c] # new.serial
  BY <1>2 DEF Doc, CredentialsOK
<1>4. Doc(s, org, ack, armed + 1)
  BY LaterDoc
<1> QED BY <1>1, <1>2, <1>3, <1>4, SlotDoc

LEMMA EmptyDoc ==
  ASSUME NEW org, NEW ack, NEW lim, \A c \in ack : c \in Creds /\ org[c] # 0
  PROVE  Doc(EmptyState, org, ack, lim)
<1>1. EmptyState.invitation = NoInvitation
      /\ \A c \in Creds : EmptyState.credentials[c].status = "absent"
  BY DEF EmptyState, Absent
<1>2. CredentialsOK(EmptyState, org, lim) /\ Distinct(EmptyState, org)
      /\ AckedOK(EmptyState, org, ack) /\ Manageable(EmptyState)
  BY <1>1 DEF CredentialsOK, Distinct, AckedOK, Manageable, Present
<1>3. InvitationOK(EmptyState.invitation, lim) /\ Traced(EmptyState, org)
      /\ PendingLive(EmptyState)
  BY <1>1 DEF InvitationOK, Traced, PendingLive
<1> QED BY <1>2, <1>3, EmptyType DEF Doc

LEMMA ResolveInvitationDoc ==
  ASSUME NEW s, NEW org, NEW ack, NEW lim, Doc(s, org, ack, lim), now \in Nat, NEW id \in Nat
  PROVE  Doc(resolve_invitation(s, id).state, org, ack, lim)
<1> DEFINE inv == s.invitation
           open == inv.failed < MaxInviteAttempts /\ now >= inv.next
           later == [inv EXCEPT !.expires = now + InvitationLifetime]
<1>1. s \in AuthState /\ InvitationOK(inv, lim)
  BY DEF Doc
<1>2. CASE ~Matches(s, id)
  <2>1. resolve_invitation(s, id) = Reply(s, FALSE, FALSE)
    BY <1>2 DEF resolve_invitation
  <2> QED BY <2>1 DEF Reply
<1>3. CASE Matches(s, id) /\ ~(now >= inv.expires)
  <2>1. resolve_invitation(s, id) = Reply(s, open, FALSE)
    BY <1>3 DEF resolve_invitation
  <2> QED BY <2>1 DEF Reply
<1>4. CASE Matches(s, id) /\ now >= inv.expires
  <2>1. inv \in Invitation /\ inv # NoInvitation
    BY <1>1, <1>4, MatchType DEF Matches
  <2>2. later \in Invitation
    BY <2>1, BoundsAssumption DEF Invitation
  <2>3. later.pending = inv.pending /\ later.serial = inv.serial /\ later.failed = inv.failed
    BY <2>1 DEF Invitation
  <2>4. InvitationOK(later, lim)
    BY <1>1, <2>1, <2>3 DEF InvitationOK
  <2>5. Doc(Slot(s, later), org, ack, lim)
    BY <2>1, <2>2, <2>3, <2>4, SlotDoc
  <2>6. \/ resolve_invitation(s, id) = Reply(Slot(s, later), open, TRUE)
        \/ resolve_invitation(s, id) = Reply(Slot(s, NoInvitation), FALSE, TRUE)
    BY <1>4 DEF resolve_invitation
  <2> QED BY <2>5, <2>6, ClearDoc DEF Reply
<1> QED BY <1>2, <1>3, <1>4

LEMMA RecordFailedDoc ==
  ASSUME NEW s, NEW org, NEW ack, NEW lim, Doc(s, org, ack, lim), now \in Nat, NEW id \in Nat
  PROVE  Doc(record_failed_invitation(s, id).state, org, ack, lim)
<1> DEFINE inv == s.invitation
           spent == now >= inv.expires \/ inv.failed + 1 >= MaxInviteAttempts
<1>1. s \in AuthState /\ InvitationOK(inv, lim)
  BY DEF Doc
<1>2. CASE ~Matches(s, id) \/ id = Bootstrap
  <2>1. record_failed_invitation(s, id) = Reply(s, FALSE, FALSE)
    BY <1>2 DEF record_failed_invitation
  <2> QED BY <2>1 DEF Reply
<1>3. CASE Matches(s, id) /\ id # Bootstrap /\ spent
  <2>1. record_failed_invitation(s, id) = Reply(Slot(s, NoInvitation), FALSE, TRUE)
    BY <1>3 DEF record_failed_invitation
  <2> QED BY <2>1, ClearDoc DEF Reply
<1>4. CASE Matches(s, id) /\ id # Bootstrap /\ ~spent
  <2>1. record_failed_invitation(s, id) = Reply(Slot(s, Struck(inv)), FALSE, TRUE)
    BY <1>4 DEF record_failed_invitation
  <2>2. inv \in Invitation /\ inv # NoInvitation
    BY <1>1, <1>4, MatchType DEF Matches
  <2>3. /\ Struck(inv) \in Invitation
        /\ Struck(inv).pending = inv.pending /\ Struck(inv).serial = inv.serial
        /\ Struck(inv).failed < MaxInviteAttempts
    BY <1>4, <2>2, StruckType
  <2>4. inv.serial # 0 /\ inv.serial <= lim
    BY <1>1, <2>2 DEF InvitationOK
  <2>5. InvitationOK(Struck(inv), lim)
    BY <2>3, <2>4 DEF InvitationOK
  <2> QED BY <2>1, <2>2, <2>3, <2>5, SlotDoc DEF Reply
<1> QED BY <1>2, <1>3, <1>4

(* Redemption mints under an identifier that was never used. *)
LEMMA RedeemedDoc ==
  ASSUME NEW s, NEW org \in [Creds -> Nat], NEW ack, NEW lim \in Nat, Doc(s, org, ack, lim),
         s.invitation # NoInvitation, s.invitation.pending = NoCred,
         NEW fresh \in Creds, org[fresh] = 0
  PROVE  Doc(Redeemed(s, fresh), [org EXCEPT ![fresh] = s.invitation.serial], ack, lim)
<1> DEFINE t == Redeemed(s, fresh)
           new == [org EXCEPT ![fresh] = s.invitation.serial]
           minted == [status |-> "active", role |-> s.invitation.role, version |-> 1,
                      secret |-> TRUE]
<1>1. s \in AuthState /\ s.invitation \in Invitation /\ InvitationOK(s.invitation, lim)
  BY DEF Doc, AuthState
<1>2. minted \in CredentialRecord
  BY <1>1 DEF CredentialRecord, Invitation
<1>3. [s.invitation EXCEPT !.pending = fresh] \in Invitation
  BY <1>1 DEF Invitation
<1>4. t \in AuthState
  BY <1>1, <1>2, <1>3 DEF Redeemed, AuthState
<1>5. /\ t.credentials[fresh] = minted
      /\ \A c \in Creds \ {fresh} : t.credentials[c] = s.credentials[c]
  BY <1>1 DEF Redeemed, AuthState
<1>6. /\ t.invitation # NoInvitation /\ t.invitation.pending = fresh
      /\ t.invitation.serial = s.invitation.serial /\ t.invitation.failed = s.invitation.failed
  BY <1>1, <1>3, SlotAssumption DEF Redeemed, Invitation
<1>7. minted.status = "active" /\ minted.secret /\ minted.version # 0
      /\ minted.role = s.invitation.role
  OBVIOUS
<1>8. s.invitation.serial # 0 /\ s.invitation.serial \in Nat /\ s.invitation.serial <= lim
  BY <1>1 DEF InvitationOK, Invitation
<1>9. new[fresh] = s.invitation.serial /\ \A c \in Creds \ {fresh} : new[c] = org[c]
  BY <1>8
<1> HIDE DEF t, new, minted
<1>10. CredentialsOK(t, new, lim)
  <2> SUFFICES ASSUME NEW c \in Creds
               PROVE  /\ Present(t, c)
                           => t.credentials[c].version # 0 /\ new[c] # 0 /\ new[c] <= lim
                      /\ t.credentials[c].status = "active" => t.credentials[c].secret
                      /\ t.credentials[c].status = "revoked" => ~t.credentials[c].secret
    BY DEF CredentialsOK
  <2>1. CASE c = fresh
    BY <1>5, <1>7, <1>8, <1>9, <2>1
  <2>2. CASE c # fresh
    <3>1. t.credentials[c] = s.credentials[c] /\ new[c] = org[c]
      BY <1>5, <1>9, <2>2
    <3> QED BY <3>1 DEF Doc, CredentialsOK, Present
  <2> QED BY <2>1, <2>2
<1>11. InvitationOK(t.invitation, lim)
  BY <1>1, <1>6 DEF InvitationOK
<1>12. PendingLive(t)
  BY <1>5, <1>6, <1>7 DEF PendingLive
<1>13. Manageable(t)
  <2>1. s.credentials[fresh].status = "absent"
    BY DEF Doc, CredentialsOK, Present
  <2>2. ActiveControllers(s) \subseteq ActiveControllers(t)
    BY <1>5, <2>1 DEF ActiveControllers
  <2>3. CASE minted.role = "controller"
    <3>1. fresh \in ActiveControllers(t)
      BY <1>5, <1>7, <2>3 DEF ActiveControllers
    <3> QED BY <3>1 DEF Manageable
  <2>4. CASE minted.role # "controller"
    BY <1>5, <2>2, <2>4 DEF Doc, Manageable
  <2> QED BY <2>3, <2>4
<1>14. \A c \in Creds \ {fresh} : Present(t, c) => new[c] # s.invitation.serial
  <2> SUFFICES ASSUME NEW c \in Creds \ {fresh}, Present(t, c), new[c] = s.invitation.serial
               PROVE  FALSE
    OBVIOUS
  <2>1. Present(s, c) /\ org[c] = s.invitation.serial
    BY <1>5, <1>9 DEF Present
  <2>2. s.invitation.pending = c
    BY <2>1 DEF Doc, Traced
  <2> QED BY <2>2, IdsAssumption
<1>15. Distinct(t, new)
  <2> SUFFICES ASSUME NEW c \in Creds, NEW d \in Creds, Present(t, c), Present(t, d),
                      new[c] = new[d]
               PROVE  c = d
    BY DEF Distinct
  <2>1. CASE c = fresh \/ d = fresh
    BY <1>9, <1>14, <2>1
  <2>2. CASE c # fresh /\ d # fresh
    <3>1. Present(s, c) /\ Present(s, d) /\ org[c] = org[d]
      BY <1>5, <1>9, <2>2 DEF Present
    <3> QED BY <3>1 DEF Doc, Distinct
  <2> QED BY <2>1, <2>2
<1>16. Traced(t, new)
  BY <1>6, <1>14 DEF Traced
<1>17. AckedOK(t, new, ack)
  <2> SUFFICES ASSUME NEW c \in ack
               PROVE  c \in Creds /\ new[c] # 0 /\ t.credentials[c].status # "active"
    BY DEF AckedOK
  <2>1. c \in Creds /\ org[c] # 0 /\ s.credentials[c].status # "active"
    BY DEF Doc, AckedOK
  <2>2. c # fresh
    BY <2>1
  <2> QED BY <1>5, <1>9, <2>1, <2>2
<1> QED BY <1>4, <1>10, <1>11, <1>12, <1>13, <1>15, <1>16, <1>17 DEF Doc, t, new

(* The other document does not hold the identifier that was just minted. *)
LEMMA MintedDoc ==
  ASSUME NEW s, NEW org \in [Creds -> Nat], NEW ack, NEW lim, Doc(s, org, ack, lim),
         NEW fresh \in Creds, org[fresh] = 0, NEW k \in Nat
  PROVE  Doc(s, [org EXCEPT ![fresh] = k], ack, lim)
<1> DEFINE new == [org EXCEPT ![fresh] = k]
<1>1. ~Present(s, fresh) /\ fresh \notin ack
  BY DEF Doc, CredentialsOK, AckedOK
<1>2. \A c \in Creds \ {fresh} : new[c] = org[c]
  OBVIOUS
<1>5. \A c \in Creds : c # fresh => new[c] = org[c]
  BY <1>2
<1> HIDE DEF new
<1>3. CredentialsOK(s, new, lim) /\ Distinct(s, new) /\ Traced(s, new)
  BY <1>1, <1>5 DEF Doc, CredentialsOK, Distinct, Traced
<1>4. AckedOK(s, new, ack)
  BY <1>1, <1>5 DEF Doc, AckedOK
<1> QED BY <1>3, <1>4 DEF Doc, new

(* Revocation leaves another active controller. *)
LEMMA CutFields ==
  ASSUME NEW s \in AuthState, NEW c \in Creds
  PROVE  /\ Cut(s, c).invitation = s.invitation
         /\ \A d \in Creds \ {c} : Cut(s, c).credentials[d] = s.credentials[d]
         /\ s.credentials[c].status # "active" => Cut(s, c) = s
         /\ s.credentials[c].status = "active" =>
              /\ Cut(s, c).credentials[c].status = "revoked"
              /\ Cut(s, c).credentials[c].version = s.credentials[c].version + 1
              /\ Cut(s, c).credentials[c].secret = FALSE
              /\ Cut(s, c).credentials[c].role = s.credentials[c].role
BY DEF Cut, Tombstone, AuthState, CredentialRecord

LEMMA RevokedDoc ==
  ASSUME NEW s, NEW org, NEW ack, NEW lim, Doc(s, org, ack, lim), NEW c \in Creds, ~Refused(s, c)
  PROVE  Doc(Slot(Cut(s, c), DropPending(s, c)), org, ack \cup {c}, lim)
<1> DEFINE cut == Cut(s, c)
           t == Slot(cut, DropPending(s, c))
<1>1. s \in AuthState /\ InvitationOK(s.invitation, lim)
  BY DEF Doc
<1>2. cut \in AuthState /\ t \in AuthState
  BY <1>1, CutType, DropPendingType, SlotType
<1>3. t.invitation = DropPending(s, c) /\ t.credentials = cut.credentials
  BY <1>2, SlotFields
<1>4. DropPending(s, c) = NoInvitation
      \/ (DropPending(s, c) = s.invitation /\ s.invitation.pending # c)
  BY DEF DropPending
<1> HIDE DEF t, cut
<1>5. CASE s.credentials[c].status # "active"
  <2>1. t.credentials = s.credentials
    BY <1>1, <1>3, <1>5, CutFields DEF cut
  <2>2. CredentialsOK(t, org, lim) /\ Distinct(t, org) /\ Manageable(t)
    BY <2>1 DEF Doc, CredentialsOK, Distinct, Present, Manageable, ActiveControllers
  <2>4. org[c] # 0 /\ AckedOK(t, org, ack \cup {c})
    BY <1>5, <2>1 DEF Doc, CredentialsOK, AckedOK, Present, Refused
  <2>3. PendingLive(t) /\ InvitationOK(t.invitation, lim)
    BY <1>1, <1>3, <1>4, <2>1 DEF Doc, PendingLive, InvitationOK
  <2>5. Traced(t, org)
    BY <1>3, <1>4, <2>1 DEF Doc, Traced, Present
  <2> QED BY <1>2, <2>2, <2>3, <2>4, <2>5 DEF Doc, t, cut
<1>6. CASE s.credentials[c].status = "active"
  <2>1. \A d \in Creds \ {c} : t.credentials[d] = s.credentials[d]
    <3>1. \A d \in Creds \ {c} : Cut(s, c).credentials[d] = s.credentials[d]
      BY <1>1, CutFields
    <3> QED BY <1>3, <3>1 DEF cut
  <2>2. /\ t.credentials[c].status = "revoked" /\ t.credentials[c].secret = FALSE
        /\ t.credentials[c].version = s.credentials[c].version + 1
        /\ t.credentials[c].role = s.credentials[c].role
    <3>1. /\ Cut(s, c).credentials[c].status = "revoked" /\ Cut(s, c).credentials[c].secret = FALSE
          /\ Cut(s, c).credentials[c].version = s.credentials[c].version + 1
          /\ Cut(s, c).credentials[c].role = s.credentials[c].role
      BY <1>1, <1>6, CutFields
    <3> QED BY <1>3, <3>1 DEF cut
  <2>3. s.credentials[c].version \in Nat
    BY <1>1 DEF AuthState, CredentialRecord
  <2>4. t.credentials[c].version # 0 /\ org[c] # 0 /\ org[c] <= lim /\ Present(s, c)
    BY <1>6, <2>2, <2>3 DEF Doc, CredentialsOK, Present
  <2>5. CredentialsOK(t, org, lim)
    BY <2>1, <2>2, <2>4 DEF Doc, CredentialsOK, Present
  <2>9. \A d \in Creds : Present(t, d) => Present(s, d)
    BY <2>1, <2>4 DEF Present
  <2>10. Distinct(t, org)
    BY <2>9 DEF Doc, Distinct
  <2>11. Traced(t, org)
    BY <1>3, <1>4, <2>9 DEF Doc, Traced
  <2>12. AckedOK(t, org, ack \cup {c})
    BY <2>1, <2>2, <2>4 DEF Doc, AckedOK
  <2>6. InvitationOK(t.invitation, lim)
    BY <1>1, <1>3, <1>4 DEF InvitationOK
  <2>7. PendingLive(t)
    <3>1. CASE t.invitation = NoInvitation
      BY <3>1 DEF PendingLive
    <3>2. CASE t.invitation = s.invitation /\ s.invitation.pending # c
               /\ s.invitation # NoInvitation
      <4>1. s.invitation.pending \in Creds \cup {NoCred}
        BY <1>1, <3>2 DEF AuthState, Invitation
      <4> QED BY <2>1, <3>2, <4>1 DEF Doc, PendingLive
    <3> QED BY <1>3, <1>4, <3>1, <3>2
  <2>8. Manageable(t)
    <3>1. ActiveControllers(t) = ActiveControllers(s) \ {c}
      BY <1>6, <2>1, <2>2 DEF ActiveControllers
    <3>2. ActiveControllers(s) # {c}
      BY DEF Refused
    <3>3. ASSUME NEW d \in Creds, t.credentials[d].status # "absent",
                 t.credentials[d].role = "controller"
          PROVE  ActiveControllers(t) # {}
      <4>1. s.credentials[d].status # "absent" /\ s.credentials[d].role = "controller"
        BY <1>6, <2>1, <2>2, <3>3
      <4>2. ActiveControllers(s) # {}
        BY <4>1 DEF Doc, Manageable
      <4> QED BY <3>1, <3>2, <4>2
    <3> QED BY <3>3 DEF Manageable
  <2> QED BY <1>2, <2>5, <2>6, <2>7, <2>8, <2>10, <2>11, <2>12 DEF Doc, t, cut
<1> QED BY <1>5, <1>6

(* Scrubbing finds nothing to scrub. *)
LEMMA ScrubDoc ==
  ASSUME NEW s, NEW org, NEW ack, NEW lim, Doc(s, org, ack, lim)
  PROVE  scrub(s) = s
<1>1. s \in AuthState
  BY DEF Doc
<1>2. ASSUME NEW c \in Creds, s.credentials[c].status = "revoked"
      PROVE  [s.credentials[c] EXCEPT !.secret = FALSE] = s.credentials[c]
  <2>1. s.credentials[c] \in CredentialRecord
    BY <1>1 DEF AuthState
  <2>2. s.credentials[c].secret \in BOOLEAN /\ ~s.credentials[c].secret
    BY <1>2, <2>1 DEF Doc, CredentialsOK, CredentialRecord
  <2>3. s.credentials[c].secret = FALSE
    BY <2>2
  <2> QED BY <2>1, <2>3 DEF CredentialRecord
<1>3. [c \in Creds |-> IF s.credentials[c].status = "revoked"
                         THEN [s.credentials[c] EXCEPT !.secret = FALSE]
                         ELSE s.credentials[c]] = s.credentials
  BY <1>1, <1>2 DEF AuthState
<1> QED BY <1>1, <1>3 DEF scrub, AuthState

-----------------------------------------------------------------------------
(* The inductive invariant: both documents are sound with respect to the      *)
(* history, and they agree while no write has failed.  None of the safety     *)
(* properties is inductive alone: that a pending credential is live rests on  *)
(* fresh identifiers, that rests on the origins, and the file's part rests on *)
(* memory's.                                                                  *)
Sound == Doc(mem, origin, acked, armed) /\ Doc(disk, origin, acked, armed) /\ WriteThrough

(* transact keeps both documents sound when the state function's is, and when *)
(* a failed write is the only way for the two to differ.                      *)
LEMMA TransactDoc ==
  ASSUME TypeOK, Sound, NEW r, Faithful(mem, r), NEW written \in BOOLEAN, transact(r, written),
         NEW org, NEW ack, NEW lim,
         Doc(r.state, org, ack, lim), Doc(disk, org, ack, lim), UNCHANGED up
  PROVE  Doc(mem', org, ack, lim) /\ Doc(disk', org, ack, lim) /\ WriteThrough'
<1>1. mem' = r.state /\ (disk' = r.state \/ disk' = disk)
  BY DEF transact
<1>2. Doc(mem', org, ack, lim) /\ Doc(disk', org, ack, lim)
  BY <1>1
<1>3. ASSUME faults' = 0, mem = disk, written
      PROVE  mem' = disk'
  <2>1. CASE r.mutated
    BY <1>3, <2>1 DEF transact
  <2>2. CASE ~r.mutated
    BY <1>3, <2>2 DEF transact, Faithful
  <2> QED BY <2>1, <2>2
<1>4. faults' = 0 => written /\ faults = 0
  BY DEF transact, TypeOK
<1>5. WriteThrough'
  BY <1>3, <1>4 DEF WriteThrough, Sound
<1> QED BY <1>2, <1>5

LEMMA AckedHistory ==
  ASSUME NEW s, NEW org, NEW ack, NEW lim, Doc(s, org, ack, lim)
  PROVE  \A c \in ack : c \in Creds /\ org[c] # 0
BY DEF Doc, AckedOK

LEMMA FewerAcked ==
  ASSUME NEW s, NEW org, NEW ack, NEW lim, NEW c, Doc(s, org, ack \cup {c}, lim)
  PROVE  Doc(s, org, ack, lim)
BY DEF Doc, AckedOK

LEMMA StepSound == TypeOK /\ Sound /\ [Next]_vars => Sound'
<1> SUFFICES ASSUME TypeOK, Sound, [Next]_vars PROVE Sound'
  OBVIOUS
<1> USE DEF conns, history
<1>a. now \in Nat /\ armed \in Nat /\ origin \in [Creds -> Nat] /\ mem \in AuthState
  BY DEF TypeOK
<1>b. Doc(mem, origin, acked, armed) /\ Doc(disk, origin, acked, armed)
  BY DEF Sound
<1>1. ASSUME NEW n \in Conns, NEW written \in BOOLEAN, NEW s \in Hellos,
             NEW known \in BOOLEAN, ClientHello(n, s, known, written)
      PROVE  Sound'
  <2>1. s \in Selector
    BY HellosType
  <2>2. Faithful(mem, resolve(mem, s))
    BY <1>a, <2>1, ResolveFaithful
  <2>3. Doc(resolve(mem, s).state, origin, acked, armed)
    <3>1. CASE s.kind = "invitation"
      <4>1. s.id \in Nat
        BY <2>1, <3>1, SelectorKinds
      <4> QED BY <1>a, <1>b, <3>1, <4>1, ResolveInvitationDoc DEF resolve
    <3>2. CASE s.kind # "invitation"
      BY <1>b, <3>2 DEF resolve, Reply
    <3> QED BY <3>1, <3>2
  <2>4. transact(resolve(mem, s), written) /\ UNCHANGED <<up, origin, acked, armed>>
    BY <1>1 DEF ClientHello
  <2>5. Doc(mem', origin, acked, armed) /\ Doc(disk', origin, acked, armed) /\ WriteThrough'
    BY <1>b, <2>2, <2>3, <2>4, TransactDoc
  <2> QED BY <2>4, <2>5 DEF Sound
<1>2. ASSUME NEW n \in Conns, NEW written \in BOOLEAN, BadProof(n, written)
      PROVE  Sound'
  <2> DEFINE r == IF sel[n].kind = "invitation"
                    THEN record_failed_invitation(mem, sel[n].id)
                    ELSE Reply(mem, FALSE, FALSE)
  <2>1. sel[n].kind = "invitation" => sel[n].id \in Nat
    BY SelectorKinds DEF TypeOK
  <2>2. Faithful(mem, r)
    BY <1>a, <2>1, RecordFailedFaithful, ReplyType
  <2>3. Doc(r.state, origin, acked, armed)
    <3>1. CASE sel[n].kind = "invitation"
      BY <1>a, <1>b, <2>1, <3>1, RecordFailedDoc
    <3>2. CASE sel[n].kind # "invitation"
      BY <1>b, <3>2 DEF Reply
    <3> QED BY <3>1, <3>2
  <2>4. transact(r, written) /\ UNCHANGED <<up, origin, acked, armed>>
    BY <1>2 DEF BadProof
  <2> HIDE DEF r
  <2>5. Doc(mem', origin, acked, armed) /\ Doc(disk', origin, acked, armed) /\ WriteThrough'
    BY <1>b, <2>2, <2>3, <2>4, TransactDoc
  <2> QED BY <2>4, <2>5 DEF Sound
<1>3. ASSUME NEW n \in Conns, NEW written \in BOOLEAN, NEW fresh \in Creds,
             RedeemInvitation(n, fresh, written)
      PROVE  Sound'
  <2> DEFINE r == redeem_invitation(mem, sel[n].id, fresh)
             mints == r.ok /\ r.mutated
  <2>1. sel[n].id \in Nat
    BY <1>3, SelectorKinds DEF TypeOK, RedeemInvitation
  <2>2. Faithful(mem, r)
    BY <1>a, <2>1, RedeemFaithful
  <2>3. /\ transact(r, written) /\ UNCHANGED <<up, acked, armed>>
        /\ mints => origin[fresh] = 0
        /\ origin' = IF mints THEN [origin EXCEPT ![fresh] = mem.invitation.serial] ELSE origin
    BY <1>3 DEF RedeemInvitation
  <2>4. Doc(r.state, origin', acked, armed) /\ Doc(disk, origin', acked, armed)
    <3>1. CASE r = Reply(mem, FALSE, FALSE)
      BY <1>b, <2>3, <3>1 DEF Reply
    <3>2. CASE r = Reply(Slot(mem, NoInvitation), FALSE, TRUE)
      BY <1>b, <2>3, <3>2, ClearDoc DEF Reply
    <3>3. CASE r = Reply(mem, mem.credentials[mem.invitation.pending].secret, FALSE)
      BY <1>b, <2>3, <3>3 DEF Reply
    <3>4. CASE /\ Matches(mem, sel[n].id) /\ mem.invitation.pending = NoCred
               /\ r = Reply(Redeemed(mem, fresh), TRUE, TRUE)
      <4>1. mints /\ r.state = Redeemed(mem, fresh)
        BY <3>4 DEF Reply
      <4>2. /\ origin[fresh] = 0
            /\ origin' = [origin EXCEPT ![fresh] = mem.invitation.serial]
        BY <2>3, <4>1
      <4>3. mem.invitation # NoInvitation /\ mem.invitation.serial \in Nat
        BY <1>a, <3>4, MatchType DEF Matches, Invitation
      <4>4. Doc(Redeemed(mem, fresh), origin', acked, armed)
        BY <1>a, <1>b, <3>4, <4>2, <4>3, RedeemedDoc
      <4>5. Doc(disk, origin', acked, armed)
        BY <1>a, <1>b, <4>2, <4>3, MintedDoc
      <4> QED BY <4>1, <4>4, <4>5
    <3> QED BY <1>a, <2>1, <3>1, <3>2, <3>3, <3>4, RedeemCases
  <2> HIDE DEF r
  <2>5. Doc(mem', origin', acked, armed) /\ Doc(disk', origin', acked, armed) /\ WriteThrough'
    BY <2>2, <2>3, <2>4, TransactDoc
  <2> QED BY <2>3, <2>5 DEF Sound
<1>4. ASSUME NEW n \in Conns, NEW written \in BOOLEAN, CompleteCredential(n, written)
      PROVE  Sound'
  <2> DEFINE r == complete_credential(mem, sel[n])
  <2>1. sel[n] \in CredentialSelector
    BY <1>4, SelectorKinds DEF TypeOK, CompleteCredential
  <2>2. Faithful(mem, r)
    BY <1>a, <2>1, CompleteFaithful
  <2>3. sel[n].id \in Creds
    BY <2>1 DEF CredentialSelector
  <2>4. Doc(r.state, origin, acked, armed)
    <3>1. \/ r = Reply(Slot(mem, DropPending(mem, sel[n].id)), TRUE, TRUE)
          \/ r = Reply(mem, FALSE, FALSE)
      BY DEF complete_credential
    <3>2. Doc(Slot(mem, DropPending(mem, sel[n].id)), origin, acked, armed)
      BY <1>b, <2>3, DropPendingDoc
    <3> QED BY <1>b, <3>1, <3>2 DEF Reply
  <2>5. transact(r, written) /\ UNCHANGED <<up, origin, acked, armed>>
    BY <1>4 DEF CompleteCredential
  <2> HIDE DEF r
  <2>6. Doc(mem', origin, acked, armed) /\ Doc(disk', origin, acked, armed) /\ WriteThrough'
    BY <1>b, <2>2, <2>4, <2>5, TransactDoc
  <2> QED BY <2>5, <2>6 DEF Sound
<1>5. ASSUME NEW n \in Conns, ServerFinish(n) \/ Abort(n)
      PROVE  Sound'
  BY <1>5, <1>b DEF ServerFinish, Abort, Sound, WriteThrough
<1>6. ASSUME NEW written \in BOOLEAN, NEW c \in Creds, RenameDevice(c, written)
      PROVE  Sound'
  <2> DEFINE r == Reply(mem, TRUE, TRUE)
  <2>1. Faithful(mem, r) /\ r.state = mem
    BY <1>a, ReplyType DEF Reply
  <2>2. transact(r, written) /\ UNCHANGED <<up, origin, acked, armed>>
    BY <1>6 DEF RenameDevice
  <2> HIDE DEF r
  <2>3. Doc(mem', origin, acked, armed) /\ Doc(disk', origin, acked, armed) /\ WriteThrough'
    BY <1>b, <2>1, <2>2, TransactDoc
  <2> QED BY <2>2, <2>3 DEF Sound
<1>7. ASSUME NEW written \in BOOLEAN, NEW c \in Creds, RevokeDevice(c, written)
      PROVE  Sound'
  <2> DEFINE r == revoke(mem, c)
  <2>1. Faithful(mem, r)
    BY <1>a, RevokeFaithful
  <2>2. /\ transact(r, written) /\ UNCHANGED <<up, origin, armed>>
        /\ acked' = IF r.ok /\ written THEN acked \cup {c} ELSE acked
    BY <1>7 DEF RevokeDevice, Succeeds
  <2>3. CASE r = Reply(mem, FALSE, FALSE)
    <3>1. acked' = acked /\ Doc(r.state, origin, acked, armed)
      BY <1>b, <2>2, <2>3 DEF Reply
    <3> HIDE DEF r
    <3>2. Doc(mem', origin, acked, armed) /\ Doc(disk', origin, acked, armed) /\ WriteThrough'
      BY <1>b, <2>1, <2>2, <3>1, TransactDoc
    <3> QED BY <2>2, <3>1, <3>2 DEF Sound
  <2>4. CASE ~Refused(mem, c) /\ r = Reply(Slot(Cut(mem, c), DropPending(mem, c)), TRUE, TRUE)
    <3>1. Doc(r.state, origin, acked \cup {c}, armed) /\ r.ok /\ r.mutated
      BY <1>b, <2>4, RevokedDoc DEF Reply
    <3>2. Doc(r.state, origin, acked, armed)
      BY <3>1, FewerAcked
    <3> HIDE DEF r
    <3>3. Doc(mem', origin, acked, armed) /\ Doc(disk', origin, acked, armed) /\ WriteThrough'
      BY <1>b, <2>1, <2>2, <3>2, TransactDoc
    <3>4. CASE written
      <4>1. mem' = r.state /\ disk' = r.state /\ acked' = acked \cup {c}
        BY <2>2, <3>1, <3>4 DEF transact
      <4> QED BY <2>2, <3>1, <3>3, <4>1 DEF Sound
    <3>5. CASE ~written
      BY <2>2, <3>3, <3>5 DEF Sound
    <3> QED BY <3>4, <3>5
  <2> QED BY <1>a, <2>3, <2>4, RevokeCases
<1>8. ASSUME NEW written \in BOOLEAN, NEW s \in AuthState,
             transact(Reply(s, TRUE, TRUE), written),
             armed' = armed + 1, UNCHANGED <<up, origin, acked>>,
             Doc(s, origin, acked, armed + 1)
      PROVE  Sound'
  <2> DEFINE r == Reply(s, TRUE, TRUE)
  <2>1. Faithful(mem, r) /\ r.state = s
    BY <1>a, ReplyType DEF Reply
  <2>2. transact(r, written)
    BY <1>8
  <2>3. Doc(disk, origin, acked, armed + 1)
    BY <1>a, <1>b, LaterDoc
  <2> HIDE DEF r
  <2>4. /\ Doc(mem', origin, acked, armed + 1) /\ Doc(disk', origin, acked, armed + 1)
        /\ WriteThrough'
    BY <1>8, <2>1, <2>2, <2>3, TransactDoc
  <2> QED BY <1>8, <2>4 DEF Sound
<1>9. ASSUME NEW written \in BOOLEAN, NEW role \in Roles, CreateInvitation(role, written)
      PROVE  Sound'
  <2>1. Doc(Slot(mem, NewInvitation(armed + 1, role)), origin, acked, armed + 1)
    BY <1>a, <1>b, ArmDoc
  <2>2. Slot(mem, NewInvitation(armed + 1, role)) \in AuthState
    BY <2>1 DEF Doc
  <2> QED BY <1>8, <1>9, <2>1, <2>2 DEF CreateInvitation
<1>10. (IF Token THEN Bootstrap ELSE armed + 1) \in Nat /\ "controller" \in Roles
  BY <1>a DEF Bootstrap, Roles
<1>11. ASSUME NEW written \in BOOLEAN, ArmInvitation(written)
       PROVE  Sound'
  <2>1. Doc(Slot(mem, mint_invitation), origin, acked, armed + 1)
    BY <1>a, <1>b, <1>10, ArmDoc DEF mint_invitation
  <2>2. Slot(mem, mint_invitation) \in AuthState
    BY <2>1 DEF Doc
  <2> QED BY <1>8, <1>11, <2>1, <2>2 DEF ArmInvitation
<1>12. Doc(EmptyState, origin, acked, armed)
  BY <1>b, AckedHistory, EmptyDoc
<1>13. ASSUME NEW written \in BOOLEAN, ResetDevices(written)
       PROVE  Sound'
  <2>1. Bootstrap \in Nat
    BY DEF Bootstrap
  <2>2. Doc(Slot(EmptyState, NewInvitation(Bootstrap, "controller")), origin, acked, armed + 1)
    BY <1>a, <1>10, <1>12, <2>1, ArmDoc
  <2>3. Doc(Slot(EmptyState, NoInvitation), origin, acked, armed + 1)
    BY <1>a, <1>12, LaterDoc, ClearDoc
  <2>4. \/ reset = Slot(EmptyState, NewInvitation(Bootstrap, "controller"))
        \/ reset = Slot(EmptyState, NoInvitation)
    BY DEF reset, Slot
  <2>5. Doc(reset, origin, acked, armed + 1)
    BY <2>2, <2>3, <2>4
  <2>6. reset \in AuthState
    BY <2>5 DEF Doc
  <2> QED BY <1>8, <1>13, <2>5, <2>6 DEF ResetDevices
<1>14. CASE Tick
  BY <1>14, <1>b DEF Tick, Sound, WriteThrough
<1>15. CASE Crash
  <2>1. mem' = EmptyState /\ UNCHANGED <<disk, origin, acked, armed>>
    BY <1>15 DEF Crash
  <2>2. up' = FALSE
    BY <1>15 DEF Crash
  <2>3. WriteThrough'
    BY <2>2 DEF WriteThrough
  <2> QED BY <1>b, <1>12, <2>1, <2>3 DEF Sound
<1>16. ASSUME NEW written \in BOOLEAN, Start(written)
       PROVE  Sound'
  <2> DEFINE arms == NeedsArming(Loaded)
             doc == IF arms THEN Slot(Loaded, mint_invitation) ELSE Loaded
  <2>1. Doc(Loaded, origin, acked, armed)
    BY <1>b, <1>12, ScrubDoc DEF Loaded
  <2>2. Doc(Slot(Loaded, mint_invitation), origin, acked, armed + 1)
    BY <1>a, <1>10, <2>1, ArmDoc DEF mint_invitation
  <2>3. UNCHANGED <<origin, acked>>
    BY <1>16 DEF Start
  <2>4. CASE written
    <3>1. up' = TRUE /\ mem' = doc /\ disk' = doc /\ armed' = IF arms THEN armed + 1 ELSE armed
      BY <1>16, <2>4 DEF Start
    <3>2. Doc(doc, origin, acked, armed')
      BY <2>1, <2>2, <3>1
    <3>3. WriteThrough'
      BY <3>1 DEF WriteThrough
    <3> QED BY <2>3, <3>1, <3>2, <3>3 DEF Sound
  <2>5. CASE ~written
    <3>1. disk' = Loaded /\ UNCHANGED <<mem, armed>>
      BY <1>16, <2>5 DEF Start
    <3>2. ~up /\ up' = up
      BY <1>16, <2>5 DEF Start
    <3>3. WriteThrough'
      BY <3>2 DEF WriteThrough
    <3> QED BY <1>b, <2>1, <2>3, <3>1, <3>3 DEF Sound
  <2> QED BY <2>4, <2>5
<1>17. CASE UNCHANGED vars
  BY <1>17, <1>b DEF vars, Sound, WriteThrough
<1>18. ASSUME NEW n \in Conns, NEW written \in BOOLEAN, Handshake(n, written)
       PROVE  Sound'
  BY <1>1, <1>2, <1>3, <1>4, <1>18 DEF Handshake
<1>19. ASSUME NEW written \in BOOLEAN, Administration(written)
       PROVE  Sound'
  BY <1>6, <1>7, <1>9, <1>11, <1>13, <1>19 DEF Administration
<1> QED BY <1>5, <1>14, <1>15, <1>16, <1>17, <1>18, <1>19 DEF Next

LEMMA InitSound == Init => Sound
<1> SUFFICES ASSUME Init PROVE Sound
  OBVIOUS
<1>1. Doc(EmptyState, origin, acked, armed)
  BY EmptyDoc DEF Init
<1>2. mem = EmptyState /\ disk = EmptyState
  BY DEF Init
<1> QED BY <1>1, <1>2 DEF Sound, WriteThrough

LEMMA AlwaysSound == Spec => []Sound
BY InitSound, StepSound, TypeCorrect, PTL DEF Spec

-----------------------------------------------------------------------------
(* The safety properties. *)

(* A redeemed invitation points to an active credential with its secret, in   *)
(* memory and in the file: redeem_invitation can always re-issue it.          *)
THEOREM PendingAlwaysLive == Spec => []PendingIsLive
<1>1. Sound => PendingIsLive
  BY DEF Sound, Doc, PendingIsLive
<1> QED BY <1>1, AlwaysSound, PTL

(* No document ever holds two credentials minted from one arming of an        *)
(* invitation, whatever is retried, raced, lost or crashed.                   *)
THEOREM InvitationSingleUse == Spec => []OneCredentialPerInvitation
<1>1. ASSUME NEW s, Distinct(s, origin) PROVE SingleUse(s)
  BY <1>1 DEF Distinct, SingleUse, Present
<1>2. Sound => OneCredentialPerInvitation
  BY <1>1 DEF Sound, Doc, OneCredentialPerInvitation
<1> QED BY <1>2, AlwaysSound, PTL

(* revoke never leaves a document whose controllers are all tombstones. *)
THEOREM AlwaysManageable == Spec => []ControllerRemains
<1>1. Sound => ControllerRemains
  BY DEF Sound, Doc, ControllerRemains
<1> QED BY <1>1, AlwaysSound, PTL

(* A credential whose revocation was answered with success is never active    *)
(* again, neither in memory nor in the file.                                  *)
THEOREM RevocationSurvives == Spec => []RevocationIsDurable
<1>1. Sound => RevocationIsDurable
  BY DEF Sound, Doc, AckedOK, RevocationIsDurable
<1> QED BY <1>1, AlwaysSound, PTL

(* FileAuthStore::open accepts every file the relay wrote. *)
THEOREM FileAlwaysLoads == Spec => []FileLoads
<1>1. ASSUME NEW s, NEW org, NEW ack, NEW lim, Doc(s, org, ack, lim) PROVE validate(s)
  BY <1>1 DEF Doc, CredentialsOK, InvitationOK, Present, validate
<1>2. Sound => FileLoads
  <2> SUFFICES ASSUME Sound PROVE FileLoads
    OBVIOUS
  <2>1. scrub(disk) = disk
    BY ScrubDoc DEF Sound
  <2> QED BY <1>1, <2>1 DEF Sound, FileLoads
<1> QED BY <1>2, AlwaysSound, PTL

(* While no write has failed the file is the document in memory. *)
THEOREM AlwaysWrittenThrough == Spec => []WriteThrough
<1>1. Sound => WriteThrough
  BY DEF Sound
<1> QED BY <1>1, AlwaysSound, PTL

(* What a step of one connection may do to the phases of all of them. *)
Commits(m) == phase[m] = "resolved" /\ phase'[m] = "committed"

LEMMA LeaveCommits ==
  ASSUME TypeOK, NEW n \in Conns, Leave(n), NEW m \in Conns
  PROVE  ~Commits(m)
BY DEF TypeOK, Leave, Commits

(* A handshake commits only to a credential that is active at that moment:    *)
(* complete_credential re-checks it under the lock, and redeem_invitation     *)
(* hands out the pending one, which is live.                                  *)
THEOREM IssuesActive == Spec => IssuedIsActive
<1> DEFINE Active(m) == mem'.credentials[identity'[m]].status = "active"
           Good == \A m \in Conns : Commits(m) => Active(m)
<1>1. TypeOK /\ Sound /\ Sound' /\ [Next]_vars => [Good]_vars
  <2> SUFFICES ASSUME TypeOK, Sound, Sound', Next PROVE Good
    OBVIOUS
  <2> USE DEF conns, history
  <2>1. ASSUME UNCHANGED phase PROVE Good
    BY <2>1 DEF Commits
  <2>2. ASSUME NEW n \in Conns, NEW written \in BOOLEAN, NEW s \in Hellos,
               NEW known \in BOOLEAN, ClientHello(n, s, known, written)
        PROVE  Good
    <3>1. UNCHANGED phase \/ phase' = [phase EXCEPT ![n] = "resolved"]
      BY <2>2 DEF ClientHello
    <3> QED BY <3>1 DEF Commits, TypeOK
  <2>3. ASSUME NEW n \in Conns, NEW written \in BOOLEAN, BadProof(n, written)
        PROVE  Good
    BY <2>3, LeaveCommits DEF BadProof
  <2>4. ASSUME NEW n \in Conns, NEW written \in BOOLEAN, NEW fresh \in Creds,
               RedeemInvitation(n, fresh, written)
        PROVE  Good
    <3> DEFINE r == redeem_invitation(mem, sel[n].id, fresh)
    <3>1. sel[n].id \in Nat /\ mem \in AuthState /\ now \in Nat
      BY <2>4, SelectorKinds DEF TypeOK, RedeemInvitation
    <3>2. CASE Leave(n)
      BY <3>2, LeaveCommits
    <3>3. CASE /\ r.ok /\ phase' = [phase EXCEPT ![n] = "committed"]
               /\ identity' = [identity EXCEPT ![n] = r.state.invitation.pending]
      <4>1. r.state.invitation.pending \in Creds
        BY <3>1, <3>3, RedeemPending
      <4>2. mem' = r.state
        BY <2>4 DEF RedeemInvitation, transact
      <4> HIDE DEF r
      <4>3. PendingLive(mem') /\ mem' \in AuthState
        BY DEF Sound, Doc
      <4>4. mem'.invitation.pending \in Creds /\ mem'.invitation.pending # NoCred
        BY <4>1, <4>2, IdsAssumption
      <4>5. CASE mem'.invitation # NoInvitation
        <5>1. mem'.credentials[mem'.invitation.pending].status = "active"
          BY <4>3, <4>4, <4>5 DEF PendingLive
        <5>2. identity'[n] = mem'.invitation.pending
          BY <3>3, <4>2 DEF TypeOK
        <5>3. \A m \in Conns : Commits(m) => m = n
          BY <3>3 DEF Commits, TypeOK
        <5> QED BY <5>1, <5>2, <5>3
      <4>6. mem'.invitation # NoInvitation
        BY <3>1, <3>3, <4>2, RedeemKeeps DEF r
      <4> QED BY <4>5, <4>6
    <3> QED BY <2>4, <3>2, <3>3 DEF RedeemInvitation, Succeeds
  <2>5. ASSUME NEW n \in Conns, NEW written \in BOOLEAN, CompleteCredential(n, written)
        PROVE  Good
    <3> DEFINE r == complete_credential(mem, sel[n])
    <3>1. mem \in AuthState
      BY DEF TypeOK
    <3>2. CASE Leave(n)
      BY <3>2, LeaveCommits
    <3>3. CASE /\ r.ok /\ phase' = [phase EXCEPT ![n] = "committed"]
               /\ identity' = [identity EXCEPT ![n] = sel[n].id]
      <4>1. authorize(mem, sel[n].id, sel[n].version)
            /\ r.state = Slot(mem, DropPending(mem, sel[n].id))
        BY <3>3 DEF complete_credential, Reply
      <4>2. r.state.credentials = mem.credentials
        BY <3>1, <4>1, SlotFields
      <4>3. mem' = r.state
        BY <2>5 DEF CompleteCredential, transact
      <4>4. mem'.credentials[sel[n].id].status = "active"
        BY <4>1, <4>2, <4>3 DEF authorize
      <4>5. identity'[n] = sel[n].id /\ \A m \in Conns : Commits(m) => m = n
        BY <3>3 DEF Commits, TypeOK
      <4> QED BY <4>4, <4>5
    <3> QED BY <2>5, <3>2, <3>3 DEF CompleteCredential, Succeeds
  <2>6. ASSUME NEW n \in Conns, ServerFinish(n) \/ Abort(n)
        PROVE  Good
    BY <2>6, LeaveCommits DEF ServerFinish, Abort
  <2>7. ASSUME NEW written \in BOOLEAN, Administration(written) \/ Start(written)
        PROVE  Good
    BY <2>1, <2>7 DEF Administration, RenameDevice, RevokeDevice, CreateInvitation,
                      ArmInvitation, ResetDevices, Start
  <2>8. ASSUME Tick PROVE Good
    BY <2>1, <2>8 DEF Tick
  <2>9. ASSUME Crash PROVE Good
    BY <2>9 DEF Crash, Commits
  <2>10. ASSUME NEW n \in Conns, NEW written \in BOOLEAN, Handshake(n, written)
         PROVE  Good
    BY <2>2, <2>3, <2>4, <2>5, <2>10 DEF Handshake
  <2> HIDE DEF Good
  <2> QED BY <2>6, <2>7, <2>8, <2>9, <2>10 DEF Next
<1>2. [Good]_vars => [\A n \in Conns :
                        phase[n] = "resolved" /\ phase'[n] = "committed" =>
                          mem'.credentials[identity'[n]].status = "active"]_vars
  BY DEF Commits
<1> QED BY <1>1, <1>2, TypeCorrect, AlwaysSound, PTL DEF Spec, IssuedIsActive

-----------------------------------------------------------------------------
(* Failed proofs are never forgotten.  `strikes' counts the recorded ones per *)
(* serial number, so the argument needs to know that a serial number that is  *)
(* still to come has none and that it lies in the domain of the count: armed  *)
(* grows by the operator's requests, which are bounded, and by at most one    *)
(* per start of the process.                                                  *)

Starts == crashes + IF up THEN 1 ELSE 0

ArmedBounded == crashes <= MaxCrashes /\ armed <= MaxInvitations + Starts

Unstruck == \A i \in Serials : i > armed => strikes[i] = 0

(* No more strikes against the invitation than it remembers itself. *)
Tallied(inv, count) == inv # NoInvitation => count[inv.serial] <= inv.failed

Tally == ArmedBounded /\ Unstruck /\ Tallied(mem.invitation, strikes) /\ Tallied(disk.invitation, strikes)

(* An operation that arms nothing and counts nothing clears the slot, or      *)
(* leaves its invitation with the same serial number and as many failures.    *)
Inherits(inv, old) ==
  inv = NoInvitation \/ (old # NoInvitation /\ inv.serial = old.serial /\ inv.failed = old.failed)

LEMMA ResolveInherits ==
  ASSUME NEW s \in AuthState, now \in Nat, NEW x \in Selector
  PROVE  Inherits(resolve(s, x).state.invitation, s.invitation)
<1> DEFINE inv == s.invitation
           later == [inv EXCEPT !.expires = now + InvitationLifetime]
<1>1. CASE x.kind # "invitation" \/ ~Matches(s, x.id) \/ ~(now >= inv.expires)
  <2>1. resolve(s, x).state = s
    BY <1>1 DEF resolve, resolve_invitation, Reply
  <2> QED BY <2>1 DEF Inherits
<1>2. CASE x.kind = "invitation" /\ Matches(s, x.id) /\ now >= inv.expires
  <2>1. inv \in Invitation /\ inv # NoInvitation
    BY <1>2, MatchType DEF Matches
  <2>2. later.serial = inv.serial /\ later.failed = inv.failed
    BY <2>1 DEF Invitation
  <2>3. \/ resolve(s, x).state = Slot(s, later)
        \/ resolve(s, x).state = Slot(s, NoInvitation)
    BY <1>2 DEF resolve, resolve_invitation, Reply
  <2>4. resolve(s, x).state.invitation \in {later, NoInvitation}
    BY <2>3, SlotFields
  <2> QED BY <2>1, <2>2, <2>4 DEF Inherits
<1> QED BY <1>1, <1>2

LEMMA RedeemInherits ==
  ASSUME NEW s \in AuthState, now \in Nat, NEW id \in Nat, NEW fresh \in Creds
  PROVE  Inherits(redeem_invitation(s, id, fresh).state.invitation, s.invitation)
<1> DEFINE r == redeem_invitation(s, id, fresh)
<1>1. CASE r.state = s
  BY <1>1 DEF Inherits
<1>2. CASE r.state = Slot(s, NoInvitation)
  BY <1>2, SlotFields DEF Inherits
<1>3. CASE Matches(s, id) /\ r.state = Redeemed(s, fresh)
  <2>1. s.invitation \in Invitation /\ s.invitation # NoInvitation
    BY <1>3, MatchType DEF Matches
  <2>2. r.state.invitation = [s.invitation EXCEPT !.pending = fresh]
    BY <1>3 DEF Redeemed
  <2> QED BY <2>1, <2>2 DEF Inherits, Invitation
<1>4. r.state = s \/ r.state = Slot(s, NoInvitation) \/ (Matches(s, id) /\ r.state = Redeemed(s, fresh))
  BY RedeemCases DEF Reply
<1> QED BY <1>1, <1>2, <1>3, <1>4

LEMMA DropInherits ==
  ASSUME NEW s, NEW c
  PROVE  Inherits(DropPending(s, c), s.invitation)
BY DEF Inherits, DropPending

(* What such an operation does to the tally. *)
LEMMA TransactTally ==
  ASSUME Tally, NEW r, NEW written \in BOOLEAN, transact(r, written),
         Inherits(r.state.invitation, mem.invitation),
         UNCHANGED <<up, armed, strikes, crashes>>
  PROVE  Tally'
<1>1. Tallied(r.state.invitation, strikes)
  BY DEF Tally, Tallied, Inherits
<1>2. mem' = r.state /\ (disk' = r.state \/ disk' = disk)
  BY DEF transact
<1>3. Tallied(mem'.invitation, strikes) /\ Tallied(disk'.invitation, strikes)
  BY <1>1, <1>2 DEF Tally
<1>4. ArmedBounded' /\ Unstruck'
  BY DEF Tally, ArmedBounded, Unstruck, Starts
<1> QED BY <1>3, <1>4 DEF Tally, Tallied

(* A new invitation starts with a clean count. *)
LEMMA NewTallied ==
  ASSUME armed \in Nat, Unstruck, armed + 1 \in Serials, NEW id, NEW role
  PROVE  Tallied(NewInvitation(id, role), strikes)
<1>1. strikes[armed + 1] = 0
  BY DEF Unstruck, Serials
<1> QED BY <1>1 DEF Tallied, NewInvitation

LEMMA StepTally == TypeOK /\ Sound /\ Tally /\ [Next]_vars => Tally'
<1> SUFFICES ASSUME TypeOK, Sound, Tally, [Next]_vars PROVE Tally'
  OBVIOUS
<1> USE DEF conns, history
<1>a. /\ now \in Nat /\ armed \in Nat /\ crashes \in Nat /\ up \in BOOLEAN
      /\ mem \in AuthState /\ disk \in AuthState /\ strikes \in [Serials -> Nat]
  BY DEF TypeOK
<1>b. ArmedBounded /\ Unstruck /\ Tallied(mem.invitation, strikes) /\ Tallied(disk.invitation, strikes)
  BY DEF Tally
<1>c. InvitationOK(mem.invitation, armed) /\ InvitationOK(disk.invitation, armed)
  BY DEF Sound, Doc
<1>1. ASSUME NEW n \in Conns, NEW written \in BOOLEAN, NEW s \in Hellos,
             NEW known \in BOOLEAN, ClientHello(n, s, known, written)
      PROVE  Tally'
  <2>1. Inherits(resolve(mem, s).state.invitation, mem.invitation)
    BY <1>a, HellosType, ResolveInherits
  <2> QED BY <1>1, <2>1, TransactTally DEF ClientHello
<1>2. ASSUME NEW n \in Conns, NEW written \in BOOLEAN, BadProof(n, written)
      PROVE  Tally'
  <2> DEFINE inv == mem.invitation
             r == IF sel[n].kind = "invitation"
                    THEN record_failed_invitation(mem, sel[n].id)
                    ELSE Reply(mem, FALSE, FALSE)
  <2>1. transact(r, written) /\ UNCHANGED <<up, armed, crashes>>
    BY <1>2 DEF BadProof
  <2>2. strikes' = IF r.mutated /\ written THEN [strikes EXCEPT ![inv.serial] = @ + 1] ELSE strikes
    BY <1>2 DEF BadProof
  <2>3. CASE r = Reply(mem, FALSE, FALSE)
    <3>1. ~r.mutated /\ r.state = mem
      BY <2>3 DEF Reply
    <3> HIDE DEF r
    <3>2. Inherits(r.state.invitation, mem.invitation) /\ UNCHANGED strikes
      BY <2>2, <3>1 DEF Inherits
    <3> QED BY <2>1, <3>2, TransactTally
  <2>4. CASE /\ r.mutated /\ inv \in Invitation /\ inv # NoInvitation
             /\ \/ r.state.invitation = NoInvitation
                \/ /\ r.state.invitation.serial = inv.serial
                   /\ r.state.invitation.failed = inv.failed + 1
    <3> HIDE DEF r
    <3>1. inv.serial \in 1 .. armed /\ inv.failed \in Nat
      BY <1>a, <1>c, <2>4 DEF InvitationOK, Invitation
    <3>2. inv.serial \in Serials
      BY <1>a, <1>b, <3>1, BoundsAssumption DEF ArmedBounded, Starts, Serials
    <3>3. strikes[inv.serial] \in Nat /\ strikes[inv.serial] <= inv.failed
      BY <1>a, <1>b, <2>4, <3>2 DEF Tallied
    <3>4. CASE written
      <4>1. mem' = r.state /\ disk' = r.state
        BY <2>1, <2>4, <3>4 DEF transact
      <4>2. strikes' = [strikes EXCEPT ![inv.serial] = strikes[inv.serial] + 1]
        BY <2>2, <2>4, <3>4
      <4>3. Unstruck'
        BY <1>a, <1>b, <2>1, <3>1, <3>2, <4>2 DEF Unstruck
      <4>4. Tallied(r.state.invitation, strikes')
        BY <1>a, <2>4, <3>1, <3>2, <3>3, <4>2 DEF Tallied
      <4>5. ArmedBounded'
        BY <1>b, <2>1 DEF ArmedBounded, Starts
      <4> QED BY <4>1, <4>3, <4>4, <4>5 DEF Tally, Tallied
    <3>5. CASE ~written
      <4>1. mem' = r.state /\ disk' = disk /\ strikes' = strikes
        BY <2>1, <2>2, <3>5 DEF transact
      <4>2. Tallied(r.state.invitation, strikes)
        BY <2>4, <3>1, <3>3 DEF Tallied
      <4>3. ArmedBounded' /\ Unstruck'
        BY <1>b, <2>1, <4>1 DEF ArmedBounded, Starts, Unstruck
      <4> QED BY <1>b, <4>1, <4>2, <4>3 DEF Tally, Tallied
    <3> QED BY <3>4, <3>5
  <2>5. \/ r = Reply(mem, FALSE, FALSE)
        \/ /\ r.mutated /\ inv \in Invitation /\ inv # NoInvitation
           /\ \/ r.state.invitation = NoInvitation
              \/ /\ r.state.invitation.serial = inv.serial
                 /\ r.state.invitation.failed = inv.failed + 1
    <3> DEFINE spent == now >= inv.expires \/ inv.failed + 1 >= MaxInviteAttempts
    <3>1. CASE \/ sel[n].kind # "invitation" \/ ~Matches(mem, sel[n].id) \/ sel[n].id = Bootstrap
      BY <3>1 DEF record_failed_invitation
    <3>2. CASE sel[n].kind = "invitation" /\ Matches(mem, sel[n].id) /\ sel[n].id # Bootstrap
      <4>1. inv \in Invitation /\ inv # NoInvitation
        BY <1>a, <3>2, MatchType DEF Matches
      <4>2. CASE spent
        <5>1. r = Reply(Slot(mem, NoInvitation), FALSE, TRUE)
          BY <3>2, <4>2 DEF record_failed_invitation
        <5>2. r.mutated /\ r.state = Slot(mem, NoInvitation)
          BY <5>1 DEF Reply
        <5> HIDE DEF r
        <5>3. r.state.invitation = NoInvitation
          BY <1>a, <5>2, SlotFields
        <5> QED BY <4>1, <5>2, <5>3
      <4>3. CASE ~spent
        <5>1. r = Reply(Slot(mem, Struck(inv)), FALSE, TRUE)
          BY <3>2, <4>3 DEF record_failed_invitation
        <5>2. r.mutated /\ r.state = Slot(mem, Struck(inv))
          BY <5>1 DEF Reply
        <5> HIDE DEF r
        <5>3. r.state.invitation = Struck(inv)
          BY <1>a, <5>2, SlotFields
        <5>4. Struck(inv).serial = inv.serial /\ Struck(inv).failed = inv.failed + 1
          BY <1>a, <4>1, <4>3, StruckType
        <5> QED BY <4>1, <5>2, <5>3, <5>4
      <4> QED BY <4>2, <4>3
    <3> QED BY <3>1, <3>2
  <2> HIDE DEF r
  <2> QED BY <2>3, <2>4, <2>5
<1>3. ASSUME NEW n \in Conns, NEW written \in BOOLEAN, NEW fresh \in Creds,
             RedeemInvitation(n, fresh, written)
      PROVE  Tally'
  <2>1. sel[n].id \in Nat
    BY <1>3, SelectorKinds DEF TypeOK, RedeemInvitation
  <2>2. Inherits(redeem_invitation(mem, sel[n].id, fresh).state.invitation, mem.invitation)
    BY <1>a, <2>1, RedeemInherits
  <2> QED BY <1>3, <2>2, TransactTally DEF RedeemInvitation
<1>4. ASSUME NEW n \in Conns, NEW written \in BOOLEAN, CompleteCredential(n, written)
      PROVE  Tally'
  <2> DEFINE r == complete_credential(mem, sel[n])
  <2>1. r.state = mem \/ r.state = Slot(mem, DropPending(mem, sel[n].id))
    BY DEF complete_credential, Reply
  <2>2. transact(r, written) /\ UNCHANGED <<up, armed, strikes, crashes>>
    BY <1>4 DEF CompleteCredential
  <2> HIDE DEF r
  <2>3. Inherits(r.state.invitation, mem.invitation)
    <3>1. CASE r.state = mem
      BY <3>1 DEF Inherits
    <3>2. CASE r.state = Slot(mem, DropPending(mem, sel[n].id))
      <4>1. r.state.invitation = DropPending(mem, sel[n].id)
        BY <1>a, <3>2, SlotFields
      <4> QED BY <4>1, DropInherits
    <3> QED BY <2>1, <3>1, <3>2
  <2> QED BY <2>2, <2>3, TransactTally
<1>5. ASSUME UNCHANGED <<mem, disk, up, armed, strikes, crashes>>
      PROVE  Tally'
  BY <1>5, <1>b DEF Tally, ArmedBounded, Starts, Unstruck, Tallied
<1>6. ASSUME NEW written \in BOOLEAN, NEW c \in Creds, RenameDevice(c, written)
      PROVE  Tally'
  <2> DEFINE r == Reply(mem, TRUE, TRUE)
  <2>1. Inherits(r.state.invitation, mem.invitation)
    BY DEF Reply, Inherits
  <2>2. transact(r, written) /\ UNCHANGED <<up, armed, strikes, crashes>>
    BY <1>6 DEF RenameDevice
  <2> HIDE DEF r
  <2> QED BY <2>1, <2>2, TransactTally
<1>7. ASSUME NEW written \in BOOLEAN, NEW c \in Creds, RevokeDevice(c, written)
      PROVE  Tally'
  <2> DEFINE r == revoke(mem, c)
  <2>1. transact(r, written) /\ UNCHANGED <<up, armed, strikes, crashes>>
    BY <1>7 DEF RevokeDevice
  <2>2. r.state = mem \/ r.state = Slot(Cut(mem, c), DropPending(mem, c))
    BY DEF revoke, Reply
  <2> HIDE DEF r
  <2>3. Inherits(r.state.invitation, mem.invitation)
    <3>1. CASE r.state = mem
      BY <3>1 DEF Inherits
    <3>2. CASE r.state = Slot(Cut(mem, c), DropPending(mem, c))
      <4>1. Cut(mem, c) \in AuthState
        BY <1>a, CutType
      <4>2. r.state.invitation = DropPending(mem, c)
        BY <3>2, <4>1, SlotFields
      <4> QED BY <4>2, DropInherits
    <3> QED BY <2>2, <3>1, <3>2
  <2> QED BY <2>1, <2>3, TransactTally
<1>8. ASSUME NEW written \in BOOLEAN, NEW s, transact(Reply(s, TRUE, TRUE), written),
             Tallied(s.invitation, strikes), armed < MaxInvitations, armed' = armed + 1,
             UNCHANGED <<up, strikes, crashes>>
      PROVE  Tally'
  <2>1. mem' = s /\ (disk' = s \/ disk' = disk)
    BY <1>8 DEF transact, Reply
  <2>2. ArmedBounded'
    BY <1>a, <1>b, <1>8, BoundsAssumption DEF ArmedBounded, Starts
  <2>3. Unstruck'
    BY <1>a, <1>b, <1>8, BoundsAssumption DEF Unstruck, Serials
  <2>4. Tallied(mem'.invitation, strikes) /\ Tallied(disk'.invitation, strikes)
    BY <1>b, <1>8, <2>1
  <2> QED BY <1>8, <2>2, <2>3, <2>4 DEF Tally, Tallied
<1>9. ASSUME armed < MaxInvitations, NEW id, NEW role
      PROVE  Tallied(NewInvitation(id, role), strikes)
  <2>1. armed + 1 \in Serials
    BY <1>a, <1>9, BoundsAssumption DEF Serials
  <2> QED BY <1>a, <1>b, <2>1, NewTallied
<1>10. ASSUME NEW written \in BOOLEAN,
              (\E role \in Roles : CreateInvitation(role, written)) \/ ArmInvitation(written)
       PROVE  Tally'
  <2>1. PICK id, role : /\ transact(Reply(Slot(mem, NewInvitation(id, role)), TRUE, TRUE), written)
                        /\ armed < MaxInvitations /\ armed' = armed + 1
                        /\ UNCHANGED <<up, strikes, crashes>>
    BY <1>10 DEF CreateInvitation, ArmInvitation, mint_invitation
  <2>2. Slot(mem, NewInvitation(id, role)).invitation = NewInvitation(id, role)
    BY <1>a, SlotFields
  <2> QED BY <1>8, <1>9, <2>1, <2>2
<1>11. ASSUME NEW written \in BOOLEAN, ResetDevices(written)
       PROVE  Tally'
  <2>1. reset.invitation = NoInvitation \/ reset.invitation = NewInvitation(Bootstrap, "controller")
    BY DEF reset, EmptyState
  <2>2. Tallied(reset.invitation, strikes)
    BY <1>9, <1>11, <2>1 DEF ResetDevices, Tallied
  <2> QED BY <1>8, <1>11, <2>2 DEF ResetDevices
<1>12. CASE Crash
  <2>1. /\ mem' = EmptyState /\ UNCHANGED <<disk, armed, strikes>>
        /\ up = TRUE /\ up' = FALSE /\ crashes < MaxCrashes /\ crashes' = crashes + 1
    BY <1>a, <1>12 DEF Crash
  <2>2. mem'.invitation = NoInvitation
    BY <2>1 DEF EmptyState
  <2>3. Starts = crashes + 1 /\ Starts' = crashes + 1
    BY <1>a, <2>1 DEF Starts
  <2>4. ArmedBounded'
    BY <1>a, <1>b, <2>1, <2>3, BoundsAssumption DEF ArmedBounded
  <2>5. Unstruck'
    BY <1>b, <2>1 DEF Unstruck
  <2> QED BY <1>b, <2>1, <2>2, <2>4, <2>5 DEF Tally, Tallied
<1>13. ASSUME NEW written \in BOOLEAN, Start(written)
       PROVE  Tally'
  <2> DEFINE arms == NeedsArming(Loaded)
             doc == IF arms THEN Slot(Loaded, mint_invitation) ELSE Loaded
  <2>1. Loaded = disk \/ Loaded = EmptyState
    <3>1. Doc(EmptyState, origin, acked, armed)
      BY AckedHistory, EmptyDoc DEF Sound
    <3> QED BY <3>1, ScrubDoc DEF Loaded, Sound
  <2>2. Loaded \in AuthState /\ Tallied(Loaded.invitation, strikes)
    BY <1>a, <1>b, <2>1, EmptyType DEF EmptyState, Tallied
  <2>3. armed + 1 <= MaxInvitations + crashes + 1 /\ armed + 1 \in Serials
    BY <1>a, <1>b, <1>13, BoundsAssumption DEF Start, ArmedBounded, Starts, Serials
  <2>4. Tallied(Slot(Loaded, mint_invitation).invitation, strikes)
    <3>1. Slot(Loaded, mint_invitation).invitation = mint_invitation
      BY <2>2, SlotFields
    <3> QED BY <1>a, <1>b, <2>3, <3>1, NewTallied DEF mint_invitation
  <2>5. UNCHANGED <<strikes, crashes>> /\ up = FALSE
    BY <1>a, <1>13 DEF Start
  <2>6. CASE written
    <3>1. up' = TRUE /\ mem' = doc /\ disk' = doc /\ armed' = IF arms THEN armed + 1 ELSE armed
      BY <1>13, <2>6 DEF Start
    <3>2. Tallied(doc.invitation, strikes)
      BY <2>2, <2>4
    <3> HIDE DEF doc, arms
    <3>3. armed' = armed + 1 \/ armed' = armed
      BY <3>1
    <3>4. Starts = crashes /\ Starts' = crashes + 1
      BY <1>a, <2>5, <3>1 DEF Starts
    <3>5. ArmedBounded'
      BY <1>a, <1>b, <2>5, <3>3, <3>4, BoundsAssumption DEF ArmedBounded
    <3>6. Unstruck'
      BY <1>a, <1>b, <2>5, <3>3, BoundsAssumption DEF Unstruck, Serials
    <3> QED BY <2>5, <3>1, <3>2, <3>5, <3>6 DEF Tally, Tallied
  <2>7. CASE ~written
    <3>1. disk' = Loaded /\ UNCHANGED <<mem, armed, up>>
      BY <1>13, <2>7 DEF Start
    <3>2. ArmedBounded' /\ Unstruck'
      BY <1>b, <2>5, <3>1 DEF ArmedBounded, Starts, Unstruck
    <3> QED BY <1>b, <2>2, <2>5, <3>1, <3>2 DEF Tally, Tallied
  <2> QED BY <2>6, <2>7
<1>14. ASSUME NEW n \in Conns, NEW written \in BOOLEAN, Handshake(n, written)
       PROVE  Tally'
  BY <1>1, <1>2, <1>3, <1>4, <1>14 DEF Handshake
<1>15. ASSUME NEW written \in BOOLEAN, Administration(written)
       PROVE  Tally'
  BY <1>6, <1>7, <1>10, <1>11, <1>15 DEF Administration
<1>16. ASSUME NEW n \in Conns, ServerFinish(n) \/ Abort(n)
       PROVE  Tally'
  BY <1>5, <1>16 DEF ServerFinish, Abort
<1>17. CASE Tick \/ UNCHANGED vars
  BY <1>5, <1>17 DEF Tick, vars
<1> QED BY <1>12, <1>13, <1>14, <1>15, <1>16, <1>17 DEF Next

LEMMA InitTally == Init => Tally
<1> SUFFICES ASSUME Init PROVE Tally
  OBVIOUS
<1>1. ArmedBounded /\ Unstruck
  BY BoundsAssumption DEF Init, ArmedBounded, Starts, Unstruck
<1>2. mem.invitation = NoInvitation /\ disk.invitation = NoInvitation
  BY DEF Init, EmptyState
<1> QED BY <1>1, <1>2 DEF Tally, Tallied

(* A recorded failed proof stays recorded: neither a restart nor a failed     *)
(* write gives an invitation new attempts, and a burned one never comes back. *)
THEOREM BurnAlwaysFinal == Spec => []BurnIsFinal
<1>1. TypeOK /\ Sound /\ Tally => BurnIsFinal
  <2> SUFFICES ASSUME TypeOK, Sound, Tally PROVE BurnIsFinal
    OBVIOUS
  <2>1. ASSUME NEW s \in AuthState, InvitationOK(s.invitation, armed),
               Tallied(s.invitation, strikes), s.invitation # NoInvitation
        PROVE  /\ strikes[s.invitation.serial] <= s.invitation.failed
               /\ strikes[s.invitation.serial] < MaxInviteAttempts
    <3>1. s.invitation.serial \in 1 .. armed /\ s.invitation.failed \in Nat
      BY <2>1 DEF TypeOK, AuthState, Invitation, InvitationOK
    <3>2. s.invitation.serial \in Serials
      BY <3>1, BoundsAssumption DEF TypeOK, Tally, ArmedBounded, Starts, Serials
    <3>3. strikes[s.invitation.serial] \in Nat
      BY <3>2 DEF TypeOK
    <3> QED BY <2>1, <3>1, <3>3, BoundsAssumption DEF Tallied, InvitationOK
  <2>2. Remembers(mem) /\ Remembers(disk)
    BY <2>1 DEF TypeOK, Sound, Doc, Tally, Remembers
  <2> QED BY <2>2 DEF BurnIsFinal
<1>2. Spec => []Tally
  BY InitTally, StepTally, TypeCorrect, AlwaysSound, PTL DEF Spec
<1> QED BY <1>1, <1>2, TypeCorrect, AlwaysSound, PTL

=============================================================================
