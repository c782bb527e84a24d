------------------------- MODULE RelaySession_proofs -------------------------
(***************************************************************************)
(* Proofs about one session: the send buffer's byte count, the sequence     *)
(* numbers of both directions, and that what the actor, the writer and the  *)
(* transport do together implements ClientFeed, for queues of any capacity  *)
(* and any number of requests and pushes.                                   *)
(***************************************************************************)
EXTENDS RelaySession, SequenceTheorems, TLAPS

-----------------------------------------------------------------------------
(* The inductive invariant *)

(* bytes is the sum of the sizes: f[k] is what is left once k items are        *)
(* popped.  The last conjunct lets a merge take the tail's size back.          *)
SizesAdd(b) ==
  \E f \in [0 .. Len(b.items) -> Nat] :
    /\ f[0] = b.bytes /\ f[Len(b.items)] = 0
    /\ \A k \in 1 .. Len(b.items) :
         /\ f[k - 1] = f[k] + b.items[k].size
         /\ f[k - 1] >= b.items[Len(b.items)].size

BufferOK(b) ==
  /\ b.items \in Seq(Message) /\ b.bytes \in 0 .. MaxBytes /\ Len(b.items) <= MaxItems
  /\ SizesAdd(b)

(* Sequence numbers of frames, and the ids made from them, are in range. *)
Numbered ==
  /\ sent <= MaxRequests /\ pushes <= MaxPushes
  /\ \A k \in 1 .. Len(c2s) : c2s[k].seq < MaxRequests
  /\ \A k \in 1 .. Len(inbox) : inbox[k].seq < MaxRequests
  /\ \A i \in running : i < MaxRequests

(* While the actor runs every number it used is with the client or on its way. *)
SealedCounted == actor # "stopped" => send_sequence = Len(received) + Len(Way)

(* Until a frame is refused the reader and the actor see the client's numbers  *)
(* without a gap.                                                              *)
InboxInOrder ==
  refused = {} => \A k \in 1 .. Len(inbox) : inbox[k].seq = receive_sequence + k - 1

WireInOrder ==
  refused = {} /\ reader = "running" =>
    /\ \A k \in 1 .. Len(c2s) : c2s[k].seq = receive_sequence + Len(inbox) + k - 1
    /\ sent = receive_sequence + Len(inbox) + Len(c2s)

Types == TypeOK /\ BufferOK(buffer) /\ Numbered
Outbound == ClientInSync /\ SealedCounted
Inbound == InboxInOrder /\ WireInOrder /\ DecryptFailsOnlyAfterBusy

IInv == Types /\ Outbound /\ Inbound

-----------------------------------------------------------------------------
(* Sequences *)

LEMMA ConcatTail ==
  ASSUME NEW S, NEW s \in Seq(S), s # <<>>, NEW t \in Seq(S)
  PROVE  s \o t # <<>> /\ Head(s \o t) = Head(s) /\ Tail(s \o t) = Tail(s) \o t
<1>1. s \o t # <<>> /\ Head(s \o t) = Head(s)
  OBVIOUS
<1>2. Tail(s \o t) = Tail(s) \o t
  OBVIOUS
<1>3. QED
  BY <1>1, <1>2

LEMMA ConcatAppend ==
  ASSUME NEW S, NEW s \in Seq(S), NEW t \in Seq(S), NEW x \in S
  PROVE  s \o Append(t, x) = Append(s \o t, x)
OBVIOUS

LEMMA ConcatShift ==
  ASSUME NEW S, NEW s \in Seq(S), NEW t \in Seq(S), t # <<>>
  PROVE  Append(s, Head(t)) \o Tail(t) = s \o t
<1>1. /\ Head(t) \in S /\ Tail(t) \in Seq(S) /\ <<Head(t)>> \in Seq(S)
      /\ t = <<Head(t)>> \o Tail(t)
  OBVIOUS
<1>2. Append(s, Head(t)) = s \o <<Head(t)>>
  BY <1>1, AppendIsConcat
<1>3. QED
  BY SMTT(30), <1>1, <1>2, ConcatAssociative

LEMMA ConcatReplaced ==
  ASSUME NEW S, NEW s \in Seq(S), NEW t \in Seq(S), t # <<>>, NEW x \in S,
         NEW r \in Seq(S), Len(r) = Len(t),
         \A j \in 1 .. Len(t) : r[j] = IF j = Len(t) THEN x ELSE t[j]
  PROVE  /\ s \o r \in Seq(S) /\ Len(s \o r) = Len(s \o t)
         /\ \A j \in 1 .. Len(s \o t) : (s \o r)[j] = IF j = Len(s \o t) THEN x ELSE (s \o t)[j]
<1>1. Len(t) \in Nat \ {0} /\ Len(s) \in Nat
  BY EmptySeq
<1>2. /\ Len(s \o t) = Len(s) + Len(t)
      /\ \A j \in 1 .. Len(s) + Len(t) : (s \o t)[j] = IF j <= Len(s) THEN s[j] ELSE t[j - Len(s)]
  BY ConcatProperties
<1>3. /\ s \o r \in Seq(S) /\ Len(s \o r) = Len(s) + Len(t)
      /\ \A j \in 1 .. Len(s) + Len(t) : (s \o r)[j] = IF j <= Len(s) THEN s[j] ELSE r[j - Len(s)]
  <2>1. /\ s \o r \in Seq(S) /\ Len(s \o r) = Len(s) + Len(r)
        /\ \A j \in 1 .. Len(s) + Len(r) : (s \o r)[j] = IF j <= Len(s) THEN s[j] ELSE r[j - Len(s)]
    BY ConcatProperties
  <2>2. QED
    BY <2>1
<1>4. ASSUME NEW j \in 1 .. Len(s) + Len(t)
      PROVE  (s \o r)[j] = IF j = Len(s) + Len(t) THEN x ELSE (s \o t)[j]
  <2>1. CASE j <= Len(s)
    <3>1. (s \o r)[j] = s[j] /\ (s \o t)[j] = s[j] /\ j # Len(s) + Len(t)
      BY <1>1, <1>2, <1>3, <2>1
    <3>2. QED
      BY <3>1
  <2>2. CASE j > Len(s)
    <3>1. (s \o r)[j] = r[j - Len(s)] /\ (s \o t)[j] = t[j - Len(s)]
      BY <1>1, <1>2, <1>3, <2>2
    <3>2. j - Len(s) \in 1 .. Len(t) /\ (j = Len(s) + Len(t) <=> j - Len(s) = Len(t))
      BY <1>1, <2>2
    <3>3. QED
      BY <3>1, <3>2
  <2>3. QED
    BY <1>1, <2>1, <2>2
<1>5. QED
  BY <1>2, <1>3, <1>4

LEMMA AppendOne ==
  ASSUME NEW S, NEW s \in Seq(S), NEW t \in Seq(S), Len(t) = 1
  PROVE  s \o t = Append(s, t[1]) /\ t[1] \in S
<1>1. t = <<t[1]>> /\ t[1] \in S
  OBVIOUS
<1>2. Append(s, t[1]) = s \o <<t[1]>>
  BY <1>1, AppendIsConcat
<1>3. QED
  BY <1>1, <1>2

-----------------------------------------------------------------------------
(* The send buffer *)

(* The fields of a message the session makes. *)
LEMMA MessageFields ==
  ASSUME NEW m \in Message
  PROVE  m.kind \in Kinds /\ m.size \in Nat
<1>1. Sizes \subseteq Nat
  <2>1. \A n \in Broadcasts : n.size \in Nat
    BY InputsAssumption
  <2>2. \A k \in DOMAIN Snapshot : Snapshot[k].size \in Nat
    <3> DEFINE R == [kind : Kinds, size : Nat]
    <3>1. Snapshot \in Seq(R)
      BY InputsAssumption
    <3>2. \A k \in DOMAIN Snapshot : Snapshot[k] \in R
      <4> HIDE DEF R
      <4>1. QED
        BY <3>1, LenProperties
    <3>3. QED
      BY <3>2
  <2>3. QED
    BY <2>1, <2>2 DEF Sizes
<1>2. QED
  BY <1>1 DEF Message

LEMMA EmptyBufferOK == BufferOK(EmptyBuffer)
<1>1. Len(EmptyBuffer.items) = 0 /\ EmptyBuffer.bytes = 0 /\ EmptyBuffer.items \in Seq(Message)
  BY DEF EmptyBuffer
<1>2. SizesAdd(EmptyBuffer)
  <2> DEFINE f == [k \in 0 .. 0 |-> 0]
  <2>1. f \in [0 .. Len(EmptyBuffer.items) -> Nat]
    BY <1>1
  <2>2. f[0] = EmptyBuffer.bytes /\ f[Len(EmptyBuffer.items)] = 0
    BY <1>1
  <2>3. QED
    <3> HIDE DEF f
    <3>1. QED
      BY <1>1, <2>1, <2>2 DEF SizesAdd
<1>3. QED
  BY <1>1, <1>2, CapacityAssumption DEF BufferOK

(* What push_typed admits: the message at the back, or in the place of a tail  *)
(* of its own replaceable kind.                                                *)
LEMMA AdmittedShape ==
  ASSUME NEW b, BufferOK(b), NEW m \in Message, Admitted(push_typed(b, m))
  PROVE  LET n == push_typed(b, m).buffer
         IN \/ /\ ~Coalesces(b, m) /\ Len(b.items) < MaxItems /\ b.bytes + m.size <= MaxBytes
               /\ n.items = Append(b.items, m) /\ n.bytes = b.bytes + m.size
            \/ /\ Coalesces(b, m) /\ b.bytes - Tail_(b).size + m.size <= MaxBytes
               /\ n.items = [b.items EXCEPT ![Len(b.items)] = m]
               /\ n.bytes = b.bytes - Tail_(b).size + m.size
<1>1. /\ m.size \in Nat /\ MaxBytes \in Nat /\ MaxItems \in Nat /\ b.items \in Seq(Message)
      /\ b.bytes \in Nat
  BY MessageFields, CapacityAssumption DEF BufferOK
<1>2. CASE Coalesces(b, m)
  <2>1. Tail_(b).size \in Nat
    BY <1>1, <1>2, MessageFields DEF Coalesces, Tail_
  <2>2. b.bytes - Tail_(b).size + m.size <= MaxBytes
    BY <1>1, <1>2, <2>1 DEF Admitted, push_typed, Verdict
  <2>3. QED
    BY <1>1, <1>2, <2>1, <2>2 DEF Admitted, push_typed, Verdict
<1>3. CASE ~Coalesces(b, m)
  <2>1. Len(b.items) < MaxItems
    BY <1>1, <1>3 DEF Admitted, push_typed, Verdict
  <2>2. b.bytes + m.size <= MaxBytes
    BY <1>1, <1>3, <2>1 DEF Admitted, push_typed, Verdict
  <2>3. QED
    BY <1>1, <1>3, <2>1, <2>2 DEF Admitted, push_typed, Verdict
<1>4. QED
  BY <1>2, <1>3

LEMMA QueuedKeepsBuffer ==
  ASSUME NEW b, BufferOK(b), NEW m \in Message, NEW n,
         Len(b.items) < MaxItems, b.bytes + m.size <= MaxBytes,
         n.items = Append(b.items, m), n.bytes = b.bytes + m.size
  PROVE  BufferOK(n)
<1>01. m.size \in Nat /\ MaxBytes \in Nat /\ MaxItems \in Nat
  BY MessageFields, CapacityAssumption
<1>02. b.items \in Seq(Message) /\ b.bytes \in 0 .. MaxBytes /\ Len(b.items) <= MaxItems
  BY DEF BufferOK
<1>03. PICK f \in [0 .. Len(b.items) -> Nat] :
         /\ f[0] = b.bytes /\ f[Len(b.items)] = 0
         /\ \A k \in 1 .. Len(b.items) :
              /\ f[k - 1] = f[k] + b.items[k].size
              /\ f[k - 1] >= b.items[Len(b.items)].size
  BY DEF BufferOK, SizesAdd
<1> DEFINE L == Len(b.items)
           g == [k \in 0 .. L + 1 |-> IF k <= L THEN f[k] + m.size ELSE 0]
<1>1. /\ n.items \in Seq(Message) /\ Len(n.items) = L + 1 /\ L \in Nat
      /\ n.items[L + 1] = m /\ \A k \in 1 .. L : n.items[k] = b.items[k]
  BY <1>02
<1>2. n.bytes = b.bytes + m.size /\ n.bytes \in 0 .. MaxBytes
  BY <1>01, <1>02
<1>3. g \in [0 .. Len(n.items) -> Nat]
  BY <1>01, <1>1
<1>4. g[0] = n.bytes /\ g[Len(n.items)] = 0
  BY <1>03, <1>1, <1>2
<1>5. ASSUME NEW k \in 1 .. Len(n.items)
      PROVE  g[k - 1] = g[k] + n.items[k].size /\ g[k - 1] >= n.items[Len(n.items)].size
  <2>1. CASE k = L + 1
    BY <1>01, <1>03, <1>1, <2>1
  <2>2. CASE k \in 1 .. L
    <3>1. b.items[k] \in Message /\ b.items[k].size \in Nat
      BY <1>02, <2>2, MessageFields
    <3>2. f[k - 1] \in Nat /\ f[k] \in Nat
      BY SMTT(30), <1>1, <2>2
    <3>3. f[k - 1] = f[k] + b.items[k].size
      BY <1>03, <2>2
    <3>4. g[k - 1] = f[k - 1] + m.size /\ g[k] = f[k] + m.size
      BY <1>1, <2>2
    <3>5. n.items[k] = b.items[k] /\ n.items[Len(n.items)] = m
      BY <1>1, <2>2
    <3>6. QED
      <4> HIDE DEF g
      <4>1. QED
        BY SMTT(30), <1>01, <3>1, <3>2, <3>3, <3>4, <3>5
  <2>3. QED
    BY <1>1, <2>1, <2>2
<1>6. SizesAdd(n)
  <2> HIDE DEF g
  <2>1. QED
    BY <1>3, <1>4, <1>5 DEF SizesAdd
<1>7. QED
  BY <1>01, <1>1, <1>2, <1>6 DEF BufferOK

LEMMA MergedKeepsBuffer ==
  ASSUME NEW b, BufferOK(b), NEW m \in Message, NEW n,
         b.items # <<>>, b.bytes - Tail_(b).size + m.size <= MaxBytes,
         n.items = [b.items EXCEPT ![Len(b.items)] = m],
         n.bytes = b.bytes - Tail_(b).size + m.size
  PROVE  BufferOK(n)
<1>01. m.size \in Nat /\ MaxBytes \in Nat /\ MaxItems \in Nat
  BY MessageFields, CapacityAssumption
<1>02. b.items \in Seq(Message) /\ b.bytes \in 0 .. MaxBytes /\ Len(b.items) <= MaxItems
  BY DEF BufferOK
<1>03. PICK f \in [0 .. Len(b.items) -> Nat] :
         /\ f[0] = b.bytes /\ f[Len(b.items)] = 0
         /\ \A k \in 1 .. Len(b.items) :
              /\ f[k - 1] = f[k] + b.items[k].size
              /\ f[k - 1] >= b.items[Len(b.items)].size
  BY DEF BufferOK, SizesAdd
<1> DEFINE L == Len(b.items)
           t == b.items[L].size
           g == [k \in 0 .. L |-> IF k < L THEN f[k] - t + m.size ELSE 0]
<1>1. L \in Nat \ {0} /\ b.items[L] \in Message /\ t \in Nat /\ t = Tail_(b).size
  BY <1>02, MessageFields DEF Coalesces, Tail_
<1>2. /\ n.items \in Seq(Message) /\ Len(n.items) = L
      /\ n.items[L] = m /\ \A k \in 1 .. L - 1 : n.items[k] = b.items[k]
  BY <1>02, <1>1
<1>3. f[0] >= t
  BY <1>03, <1>1
<1>4. n.bytes = b.bytes - t + m.size /\ n.bytes \in 0 .. MaxBytes
  <2>1. n.bytes = b.bytes - t + m.size /\ n.bytes <= MaxBytes
    BY <1>1
  <2>2. QED
    BY <1>01, <1>02, <1>03, <1>1, <1>3, <2>1
<1>5. ASSUME NEW k \in 0 .. L - 1
      PROVE  f[k] >= t /\ f[k] \in Nat
  <2>1. k + 1 \in 1 .. L /\ (k + 1) - 1 = k
    BY <1>1
  <2>2. f[(k + 1) - 1] >= t
    BY <1>03, <2>1
  <2>3. QED
    BY <1>03, <1>1, <2>1, <2>2
<1>6. g \in [0 .. Len(n.items) -> Nat]
  <2>1. \A k \in 0 .. L : g[k] \in Nat
    BY SMTT(30), <1>01, <1>1, <1>5
  <2>2. QED
    BY <1>2, <2>1
<1>7. g[0] = n.bytes /\ g[Len(n.items)] = 0
  BY <1>03, <1>1, <1>2, <1>4
<1>8. ASSUME NEW k \in 1 .. Len(n.items)
      PROVE  g[k - 1] = g[k] + n.items[k].size /\ g[k - 1] >= n.items[Len(n.items)].size
  <2>1. g[k - 1] = f[k - 1] - t + m.size /\ f[k - 1] >= t /\ f[k - 1] \in Nat
    BY <1>1, <1>2, <1>5
  <2>2. f[k - 1] = f[k] + b.items[k].size
    BY <1>03, <1>2
  <2>6. b.items[k].size \in Nat /\ f[k] \in Nat
    <3>1. b.items[k] \in Message /\ k \in 0 .. Len(b.items)
      BY <1>02, <1>1, <1>2
    <3>2. QED
      BY <3>1, MessageFields
  <2>3. CASE k = L
    <3>1. g[k] = 0 /\ f[k] = 0 /\ n.items[k] = m /\ b.items[k].size = t
      BY <1>03, <1>1, <1>2, <2>3
    <3>2. QED
      <4> HIDE DEF g
      <4>1. QED
        BY <1>01, <1>1, <1>2, <2>1, <2>2, <2>3, <2>6, <3>1
  <2>4. CASE k < L
    <3>1. g[k] = f[k] - t + m.size /\ n.items[k] = b.items[k]
      BY <1>1, <1>2, <2>4
    <3>2. n.items[k].size \in Nat /\ n.items[k].size = b.items[k].size /\ n.items[Len(n.items)] = m
      BY <1>2, <2>6, <3>1
    <3>3. t \in Nat
      BY <1>1
    <3>4. QED
      <4> HIDE DEF g, t
      <4>1. g[k - 1] = g[k] + n.items[k].size
        <5>1. PICK x \in Nat : x = f[k - 1]
          BY <2>1
        <5>2. PICK y \in Nat : y = f[k]
          BY <2>6
        <5>3. PICK z \in Nat : z = b.items[k].size
          BY <2>6
        <5>4. x = y + z
          BY <2>2, <5>1, <5>2, <5>3
        <5>5. g[k - 1] = x - t + m.size /\ g[k] = y - t + m.size /\ n.items[k].size = z
          BY <2>1, <3>1, <3>2, <5>1, <5>2, <5>3
        <5>6. x - t + m.size = (y - t + m.size) + z
          BY <1>01, <3>3, <5>4
        <5>7. QED
          BY <5>5, <5>6
      <4>2. g[k - 1] >= m.size
        BY <1>01, <2>1, <3>3
      <4>3. QED
        BY <3>2, <4>1, <4>2
  <2>5. QED
    BY <1>1, <1>2, <2>3, <2>4
<1>9. SizesAdd(n)
  <2> HIDE DEF g
  <2>1. QED
    BY <1>6, <1>7, <1>8 DEF SizesAdd
<1>10. QED
  BY <1>02, <1>2, <1>4, <1>9 DEF BufferOK

LEMMA PushKeepsBuffer ==
  ASSUME NEW b, BufferOK(b), NEW m \in Message, Admitted(push_typed(b, m))
  PROVE  BufferOK(push_typed(b, m).buffer)
BY ZenonT(30), AdmittedShape, QueuedKeepsBuffer, MergedKeepsBuffer DEF Coalesces

LEMMA FrontKeepsBuffer ==
  ASSUME NEW b, BufferOK(b), b.items # <<>>, NEW n,
         n.items = Tail(b.items), n.bytes = b.bytes - Head(b.items).size
  PROVE  BufferOK(n)
<1> DEFINE L == Len(b.items)
<1>1. b.items \in Seq(Message) /\ b.bytes \in 0 .. MaxBytes /\ L <= MaxItems
  BY DEF BufferOK
<1>2. PICK f \in [0 .. L -> Nat] :
        /\ f[0] = b.bytes /\ f[L] = 0
        /\ \A k \in 1 .. L : /\ f[k - 1] = f[k] + b.items[k].size
                             /\ f[k - 1] >= b.items[L].size
  BY DEF BufferOK, SizesAdd
<1>3. /\ L \in Nat \ {0} /\ n.items = Tail(b.items) /\ n.items \in Seq(Message)
      /\ Len(n.items) = L - 1 /\ \A k \in 1 .. L - 1 : n.items[k] = b.items[k + 1]
  BY <1>1
<1>4. b.items[1] \in Message /\ b.items[1].size \in Nat
  BY <1>1, <1>3, MessageFields
<1>5. n.bytes = f[1] /\ f[1] \in 0 .. MaxBytes
  <2>1. n.bytes = b.bytes - b.items[1].size
    BY <1>1, <1>3
  <2>2. f[0] = f[1] + b.items[1].size /\ f[1] \in Nat
    BY <1>2, <1>3
  <2>3. QED
    BY <1>1, <1>2, <1>4, <2>1, <2>2, CapacityAssumption
<1>6. SizesAdd(n)
  <2> DEFINE g == [k \in 0 .. L - 1 |-> f[k + 1]]
  <2>1. g \in [0 .. Len(n.items) -> Nat] /\ g[0] = n.bytes /\ g[Len(n.items)] = 0
    BY <1>2, <1>3, <1>5
  <2>2. ASSUME NEW k \in 1 .. Len(n.items)
        PROVE  g[k - 1] = g[k] + n.items[k].size /\ g[k - 1] >= n.items[Len(n.items)].size
    <3>1. /\ k + 1 \in 1 .. L /\ k \in 1 .. L - 1 /\ L - 1 \in 1 .. L - 1
          /\ n.items[k] = b.items[k + 1] /\ n.items[L - 1] = b.items[L]
      BY <1>3
    <3>2. f[(k + 1) - 1] = f[k + 1] + b.items[k + 1].size /\ f[(k + 1) - 1] >= b.items[L].size
      BY <1>2, <3>1
    <3>3. g[k - 1] = f[k] /\ g[k] = f[k + 1] /\ (k + 1) - 1 = k
      BY <1>3, <3>1
    <3>4. QED
      BY <1>3, <3>1, <3>2, <3>3
  <2>3. QED
    <3> HIDE DEF g
    <3>1. QED
      BY <2>1, <2>2 DEF SizesAdd
<1>7. QED
  BY <1>1, <1>3, <1>5, <1>6 DEF BufferOK

LEMMA PopKeepsBuffer ==
  ASSUME NEW b, BufferOK(b), b.items # <<>>
  PROVE  BufferOK(pop(b)) /\ pop(b).items = Tail(b.items)
BY FrontKeepsBuffer DEF pop

-----------------------------------------------------------------------------
(* Types *)

LEMMA BufferTypes ==
  ASSUME NEW b, BufferOK(b)
  PROVE  b.items \in Seq(Message) /\ b.bytes \in 0 .. MaxBytes /\ Len(b.items) <= MaxItems
BY DEF BufferOK

(* A message pushed by the actor is queued or merged, or the session stops. *)
LEMMA PushOutcome ==
  ASSUME BufferOK(buffer), NEW m \in Message, NEW goto, handle_push(m, goto), directive \in Causes
  PROVE  /\ BufferOK(buffer')
         /\ actor' \in {goto, "stopped"}
         /\ directive' \in Causes /\ directive' \in {directive, "SendBufferFull"}
         /\ \/ /\ actor' = goto
               /\ \/ buffer'.items = Append(buffer.items, m)
                  \/ /\ Coalesces(buffer, m)
                     /\ buffer'.items = [buffer.items EXCEPT ![Len(buffer.items)] = m]
            \/ actor' = "stopped" /\ buffer' = EmptyBuffer
<1>1. CASE Admitted(push_typed(buffer, m)) /\ buffer' = push_typed(buffer, m).buffer
           /\ actor' = goto /\ UNCHANGED directive
  BY <1>1, PushKeepsBuffer, AdmittedShape
<1>2. CASE Stop("SendBufferFull")
  BY <1>2, EmptyBufferOK DEF Stop, fire, Causes
<1>3. QED
  BY <1>1, <1>2 DEF handle_push

LEMMA MessagesMade ==
  /\ \A i \in Nat : i < MaxRequests => command_result(i) \in Message /\ busy_response(i) \in Message
  /\ \A m \in Broadcasts : \A n \in Nat : n <= MaxPushes => Stamped(m, n) \in Message
  /\ \A k \in 1 .. Len(Snapshot) : Stamped(Snapshot[k], 0) \in Message
<1>1. \A i \in Nat : i < MaxRequests => command_result(i) \in Message /\ busy_response(i) \in Message
  BY QueuesAssumption, InputsAssumption DEF command_result, busy_response, Message, Sizes
<1>2. \A m \in Broadcasts : \A n \in Nat : n <= MaxPushes => Stamped(m, n) \in Message
  BY QueuesAssumption, InputsAssumption DEF Stamped, Message, Sizes
<1>3. ASSUME NEW k \in 1 .. Len(Snapshot)
      PROVE  Stamped(Snapshot[k], 0) \in Message
  <2> DEFINE R == [kind : Kinds, size : Nat]
  <2>1. Snapshot \in Seq(R)
    BY InputsAssumption
  <2>2. k \in DOMAIN Snapshot /\ Snapshot[k] \in R
    <3> HIDE DEF R
    <3>1. QED
      BY <2>1, LenProperties
  <2>3. Snapshot[k].size \in Sizes /\ Snapshot[k].kind \in Kinds
    BY <2>2 DEF Sizes
  <2>4. QED
    BY <2>3, QueuesAssumption DEF Stamped, Message
<1>4. QED
  BY <1>1, <1>2, <1>3

LEMMA QueueHead ==
  ASSUME NEW q \in Seq(Frame), q # <<>>, \A k \in 1 .. Len(q) : q[k].seq < MaxRequests
  PROVE  Head(q) \in Frame /\ Head(q).seq \in Nat /\ Head(q).seq < MaxRequests
<1>1. Head(q) = q[1] /\ 1 \in 1 .. Len(q) /\ Head(q) \in Frame
  OBVIOUS
<1>2. QED
  BY <1>1 DEF Frame

LEMMA QueueRoom ==
  ASSUME NEW S, NEW q \in Seq(S), NEW x \in S, NEW cap \in Nat, Len(q) < cap
  PROVE  Append(q, x) \in Seq(S) /\ Len(Append(q, x)) <= cap
OBVIOUS

LEMMA TypesStep ==
  ASSUME IInv, [Next]_vars
  PROVE  Types'
<1> USE DEF IInv, Types
<1>1. ASSUME NEW kind \in Requests, ClientSend(kind) PROVE Types'
  <2>1. [seq |-> sent, kind |-> kind] \in Frame /\ sent \in Nat /\ MaxRequests \in Nat
    BY QueuesAssumption DEF TypeOK, Frame
  <2>2. c2s' = Append(c2s, [seq |-> sent, kind |-> kind]) /\ c2s' \in Seq(Frame)
    BY <1>1, <2>1 DEF ClientSend, TypeOK
  <2>3. TypeOK'
    BY <1>1, <2>1, <2>2 DEF ClientSend, TypeOK, keys, tasks
  <2>4. BufferOK(buffer')
    BY <1>1, <2>1, <2>2 DEF ClientSend
  <2>5. \A k \in 1 .. Len(c2s') : c2s'[k].seq < MaxRequests
    <3>1. c2s \in Seq(Frame) /\ sent < MaxRequests /\ \A k \in 1 .. Len(c2s) : c2s[k].seq < MaxRequests
      BY <1>1 DEF ClientSend, TypeOK, Numbered
    <3>2. ASSUME NEW k \in 1 .. Len(c2s')
          PROVE  (k \in 1 .. Len(c2s) /\ c2s'[k] = c2s[k]) \/ c2s'[k] = [seq |-> sent, kind |-> kind]
      BY <2>1, <2>2, <3>1
    <3>3. QED
      BY <3>1, <3>2
  <2>6. sent' <= MaxRequests /\ UNCHANGED <<pushes, inbox, running>>
    BY <1>1, <2>1 DEF ClientSend, tasks
  <2>7. Numbered'
    BY <2>5, <2>6 DEF Numbered
  <2>8. QED
    BY <2>3, <2>4, <2>7
<1>2. CASE ClientOpen
  <2>1. Head(s2c) \in Sealed /\ Tail(s2c) \in Seq(Sealed)
    BY <1>2 DEF ClientOpen, TypeOK
  <2>2. Head(s2c).msg \in Message
    BY <2>1 DEF Sealed
  <2>3. received' \in Seq(Message)
    BY <1>2, <2>2 DEF ClientOpen, TypeOK
  <2>4. TypeOK'
    BY <1>2, <2>1, <2>2, <2>3 DEF ClientOpen, TypeOK, keys, tasks
  <2>5. BufferOK(buffer')
    BY <1>2, <2>1, <2>2, <2>3 DEF ClientOpen
  <2>6. Numbered'
    BY <1>2, <2>1, <2>2, <2>3 DEF ClientOpen, Numbered
  <2>7. QED
    BY <2>4, <2>5, <2>6
<1>3. CASE ClientClose
  BY <1>3 DEF ClientClose, TypeOK, Numbered, wires, keys, tasks
<1>4. CASE ReadFrame
  <2>1. Head(c2s) \in Frame /\ Head(c2s).seq \in Nat /\ Head(c2s).seq < MaxRequests
    BY <1>4, QueueHead DEF ReadFrame, TypeOK, Numbered
  <2>2. c2s' \in Seq(Frame) /\ \A k \in 1 .. Len(c2s') : c2s'[k].seq < MaxRequests
    BY <1>4 DEF ReadFrame, TypeOK, Numbered
  <2>3. /\ inbox' \in Seq(Frame) /\ Len(inbox') <= InboundCapacity
        /\ \A k \in 1 .. Len(inbox') : inbox'[k].seq < MaxRequests
    <3>1. CASE Len(inbox) < InboundCapacity /\ inbox' = Append(inbox, Head(c2s))
      <4>1. inbox \in Seq(Frame) /\ inbox' \in Seq(Frame) /\ Len(inbox') <= InboundCapacity
        BY <2>1, <3>1, QueueRoom, QueuesAssumption DEF TypeOK
      <4>2. ASSUME NEW k \in 1 .. Len(inbox')
            PROVE  inbox'[k].seq < MaxRequests
        <5>1. (k \in 1 .. Len(inbox) /\ inbox'[k] = inbox[k]) \/ inbox'[k] = Head(c2s)
          BY <2>1, <3>1, <4>1
        <5>2. QED
          BY <2>1, <5>1 DEF Numbered
      <4>3. QED
        BY <4>1, <4>2
    <3>2. CASE UNCHANGED inbox
      BY <3>2 DEF TypeOK, Numbered
    <3>3. QED
      BY <1>4, <3>1, <3>2 DEF ReadFrame
  <2>4. busy_response(Head(c2s).seq) \in Message
    BY <2>1, MessagesMade
  <2>5. outq' \in Seq(Message) /\ Len(outq') <= OutboundCapacity
    <3>1. CASE Len(outq) < OutboundCapacity /\ outq' = Append(outq, busy_response(Head(c2s).seq))
      BY <2>4, <3>1, QueueRoom, QueuesAssumption DEF TypeOK
    <3>2. CASE UNCHANGED outq
      BY <3>2 DEF TypeOK
    <3>3. QED
      BY <1>4, <3>1, <3>2 DEF ReadFrame, refuse_frame, SinkOpen
  <2>6. TypeOK'
    BY ZenonT(30), <1>4, <2>1, <2>2, <2>3, <2>4, <2>5 DEF ReadFrame, refuse_frame, fire, TypeOK, client, keys, Causes
  <2>7. BufferOK(buffer')
    BY <1>4, <2>1, <2>2, <2>3, <2>4, <2>5 DEF ReadFrame
  <2>8. Numbered'
    BY <1>4, <2>1, <2>2, <2>3, <2>4, <2>5 DEF ReadFrame, Numbered, client
  <2>9. QED
    BY <2>6, <2>7, <2>8
<1>5. CASE ReadEnd
  BY SMTT(30), <1>5 DEF ReadEnd, fire, TypeOK, Numbered, client, wires, keys, Causes
<1>6. CASE ReaderExit
  BY <1>6 DEF ReaderExit, TypeOK, Numbered, client, wires, keys
<1>7. CASE EnqueueSnapshot
  <2>1. Stamped(Snapshot[started + 1], 0) \in Message /\ started' \in 0 .. Len(Snapshot)
    BY <1>7, MessagesMade DEF EnqueueSnapshot, TypeOK
  <2>2. /\ BufferOK(buffer') /\ actor' \in {"start", "drain", "stopped"}
        /\ directive' \in Causes
    BY <1>7, <2>1, PushOutcome DEF EnqueueSnapshot, CONTINUE, TypeOK
  <2>3. TypeOK'
    BY <1>7, <2>1, <2>2, BufferTypes DEF EnqueueSnapshot, TypeOK, wires, client, keys
  <2>4. BufferOK(buffer')
    BY <1>7, <2>1, <2>2
  <2>5. Numbered'
    BY <1>7, <2>1, <2>2 DEF EnqueueSnapshot, Numbered, wires, client
  <2>6. QED
    BY <2>3, <2>4, <2>5
<1>8. CASE drain
  <2>1. BufferOK(buffer')
    BY <1>8, PopKeepsBuffer, EmptyBufferOK DEF drain, hand_over, Stop
  <2>2. buffer.items # <<>> => Head(buffer.items) \in Message
    BY DEF TypeOK
  <2>3. buffer.items # <<>> => [seq |-> send_sequence, msg |-> Head(buffer.items)] \in Sealed
    BY <2>2 DEF TypeOK, Sealed
  <2>4. sealed' \in Seq(Sealed) /\ Len(sealed') <= MaxItems
    <3> DEFINE frame == [seq |-> send_sequence, msg |-> Head(buffer.items)]
    <3>1. CASE buffer.items # <<>> /\ Len(sealed) < MaxItems /\ sealed' = Append(sealed, frame)
      BY <2>3, <3>1, QueueRoom, CapacityAssumption DEF TypeOK
    <3>2. CASE UNCHANGED sealed
      BY <3>2 DEF TypeOK
    <3>3. QED
      BY <1>8, <3>1, <3>2 DEF drain, hand_over
  <2>5. TypeOK'
    BY SMTT(30), <1>8, <2>1, <2>2, <2>3, <2>4, BufferTypes DEF drain, hand_over, Stop, fire, TypeOK, wires, client, Causes
  <2>6. BufferOK(buffer')
    BY <1>8, <2>1, <2>2, <2>3, <2>4
  <2>7. Numbered'
    BY <1>8, <2>1, <2>2, <2>3, <2>4 DEF drain, Numbered, wires, client
  <2>8. QED
    BY <2>5, <2>6, <2>7
<1>9. CASE Shutdown
  BY <1>9, EmptyBufferOK, BufferTypes DEF Shutdown, Stop, fire, TypeOK, Numbered, client, wires, keys, Causes
<1>10. CASE handle_frame
  <2>1. Head(inbox) \in Frame /\ Head(inbox).seq \in Nat /\ Head(inbox).seq < MaxRequests
    BY <1>10, QueueHead DEF handle_frame, TypeOK, Numbered
  <2>2. /\ inbox' \in Seq(Frame) /\ Len(inbox') <= InboundCapacity
        /\ \A k \in 1 .. Len(inbox') : inbox'[k].seq < MaxRequests
    BY SMTT(30), <1>10, QueuesAssumption DEF handle_frame, TypeOK, Numbered
  <2>3. command_result(Head(inbox).seq) \in Message
    BY <2>1, MessagesMade
  <2>4. /\ BufferOK(buffer') /\ actor' \in {"drain", "stopped"} /\ directive' \in Causes
    BY <1>10, <2>3, PushOutcome, EmptyBufferOK DEF handle_frame, Stop, fire, CONTINUE, TypeOK, Causes
  <2>5. receive_sequence' \in Nat /\ running' \subseteq Nat /\ \A i \in running' : i < MaxRequests
    <3>1. running' = running \/ running' = running \cup {Head(inbox).seq}
      BY <1>10 DEF handle_frame
    <3>2. receive_sequence' = receive_sequence \/ receive_sequence' = receive_sequence + 1
      BY <1>10 DEF handle_frame
    <3>3. running' \subseteq Nat /\ \A i \in running' : i < MaxRequests
      BY <2>1, <3>1 DEF TypeOK, Numbered
    <3>4. QED
      BY <3>2, <3>3 DEF TypeOK
  <2>6. TypeOK'
    BY <1>10, <2>2, <2>4, <2>5, BufferTypes DEF handle_frame, TypeOK, wires, client
  <2>7. Numbered'
    BY <1>10, <2>2, <2>5 DEF handle_frame, Numbered, wires, client
  <2>8. QED
    BY <2>4, <2>6, <2>7
<1>11. CASE HandlePush
  <2>1. Head(outq) \in Message
    BY <1>11 DEF HandlePush, TypeOK
  <2>2. /\ BufferOK(buffer') /\ actor' \in {"drain", "stopped"} /\ directive' \in Causes
    BY <1>11, <2>1, PushOutcome DEF HandlePush, CONTINUE, TypeOK
  <2>3. outq' \in Seq(Message) /\ Len(outq') <= OutboundCapacity
    BY <1>11, QueuesAssumption DEF HandlePush, TypeOK
  <2>4. TypeOK'
    BY <1>11, <2>2, <2>3, BufferTypes DEF HandlePush, TypeOK, wires, client, keys
  <2>5. Numbered'
    BY <1>11 DEF HandlePush, Numbered, wires, client
  <2>6. QED
    BY <2>2, <2>4, <2>5
<1>12. ASSUME NEW i \in running, ActionDone(i) PROVE Types'
  BY SMTT(30), <1>12, QueuesAssumption, MessagesMade DEF ActionDone, SinkOpen, TypeOK, Numbered, client, wires, keys, tasks
<1>13. ASSUME NEW m \in Broadcasts, Produce(m) PROVE Types'
  <2>1. pushes + 1 \in Nat /\ pushes + 1 <= MaxPushes
    BY <1>13, QueuesAssumption DEF Produce, TypeOK
  <2>2. Stamped(m, pushes + 1) \in Message
    BY <2>1, MessagesMade
  <2>3. outq' \in Seq(Message) /\ Len(outq') <= OutboundCapacity
    BY <1>13, <2>2, QueuesAssumption DEF Produce, SinkOpen, TypeOK
  <2>4. TypeOK'
    BY <1>13, <2>1, <2>2, <2>3 DEF Produce, TypeOK, wires, client, keys, tasks
  <2>5. BufferOK(buffer')
    BY <1>13, <2>1, <2>2, <2>3 DEF Produce
  <2>6. Numbered'
    BY <1>13, <2>1, <2>2, <2>3 DEF Produce, Numbered, wires, client
  <2>7. QED
    BY <2>4, <2>5, <2>6
<1>14. CASE Kill
  BY ZenonT(30), <1>14 DEF Kill, fire, TypeOK, Numbered, client, wires, keys, tasks, Causes
<1>15. CASE WriterTake
  <2>1. Head(sealed) \in Sealed /\ Tail(sealed) \in Seq(Sealed) /\ Len(Tail(sealed)) <= MaxItems
    BY <1>15, CapacityAssumption DEF WriterTake, TypeOK
  <2>2. writing' \in Seq(Sealed) /\ Len(writing') = 1
    BY <1>15, <2>1 DEF WriterTake
  <2>3. TypeOK'
    BY <1>15, <2>1, <2>2 DEF WriterTake, TypeOK, wires, client, keys, tasks
  <2>4. BufferOK(buffer')
    BY <1>15, <2>1, <2>2 DEF WriterTake
  <2>5. Numbered'
    BY <1>15, <2>1, <2>2 DEF WriterTake, Numbered, wires, client
  <2>6. QED
    BY <2>3, <2>4, <2>5
<1>16. CASE WriteDone
  BY SMTT(30), <1>16 DEF WriteDone, TypeOK, Numbered, client, keys, tasks
<1>17. CASE WriteFails
  BY <1>17 DEF WriteFails, fire, TypeOK, Numbered, client, wires, keys, Causes
<1>18. CASE WriterExit
  BY <1>18 DEF WriterExit, TypeOK, Numbered, client, wires, keys
<1>19. CASE UNCHANGED vars
  BY <1>19 DEF vars, TypeOK, Numbered
<1>20. QED
  BY <1>1, <1>2, <1>3, <1>4, <1>5, <1>6, <1>7, <1>8, <1>9, <1>10, <1>11, <1>12, <1>13, <1>14,
     <1>15, <1>16, <1>17, <1>18, <1>19 DEF Next, Client, Reader, Actor, Producers, Writer

-----------------------------------------------------------------------------
(* The way to the client *)

LEMMA WayTyped ==
  ASSUME TypeOK
  PROVE  /\ Way \in Seq(Sealed) /\ Len(Way) = Len(s2c) + Len(writing) + Len(sealed)
         /\ received \in Seq(Message) /\ Len(received) \in Nat
BY DEF Way, TypeOK

(* A step that leaves the frames on their way alone. *)
LEMMA WayKept ==
  ASSUME Outbound, Way' = Way, Len(received') = Len(received),
         actor' # "stopped" => actor # "stopped" /\ send_sequence' = send_sequence
  PROVE  Outbound'
BY DEF Outbound, ClientInSync, SealedCounted

(* The client opens the oldest frame. *)
LEMMA WayOpened ==
  ASSUME TypeOK, ClientOpen
  PROVE  /\ Way' = Tail(Way) /\ Way # <<>> /\ Head(Way) = Head(s2c)
         /\ Head(s2c).msg \in Message /\ Len(received') = Len(received) + 1
<1>1. s2c \in Seq(Sealed) /\ writing \o sealed \in Seq(Sealed) /\ s2c # <<>>
  BY DEF ClientOpen, TypeOK
<1>2. Tail(s2c) \in Seq(Sealed) /\ writing \in Seq(Sealed) /\ sealed \in Seq(Sealed)
  BY <1>1 DEF TypeOK
<1>3. Way = s2c \o (writing \o sealed)
  BY <1>1, <1>2, ConcatAssociative DEF Way
<1>4. Way' = Tail(s2c) \o (writing \o sealed)
  <2>1. Way' = (Tail(s2c) \o writing) \o sealed
    BY DEF ClientOpen, Way
  <2>2. QED
    BY SMTT(30), <1>2, <2>1, ConcatAssociative
<1>6. received \in Seq(Message) /\ Head(s2c).msg \in Message
  <2>1. Head(s2c) \in Sealed
    BY <1>1
  <2>2. QED
    BY <2>1 DEF TypeOK, Sealed
<1>7. Way' = Tail(Way) /\ Way # <<>> /\ Head(Way) = Head(s2c)
  BY <1>1, <1>3, <1>4, ConcatTail
<1>8. Len(received') = Len(received) + 1
  BY <1>6 DEF ClientOpen
<1>9. QED
  BY <1>6, <1>7, <1>8

(* drain seals one more frame. *)
LEMMA WaySealed ==
  ASSUME TypeOK, NEW frame \in Sealed, sealed' = Append(sealed, frame), UNCHANGED <<s2c, writing>>
  PROVE  Way' = Append(Way, frame)
<1>1. s2c \o writing \in Seq(Sealed) /\ sealed \in Seq(Sealed)
  BY DEF TypeOK
<1>2. Way' = (s2c \o writing) \o Append(sealed, frame)
  BY DEF Way
<1>3. QED
  BY <1>1, <1>2, ConcatAppend DEF Way

(* The writer takes a frame, and writes it: it stays in its place. *)
LEMMA WayTaken ==
  ASSUME TypeOK, WriterTake
  PROVE  Way' = Way
<1>1. /\ s2c \in Seq(Sealed) /\ sealed \in Seq(Sealed) /\ sealed # <<>> /\ writing = <<>>
      /\ s2c' = s2c /\ sealed' = Tail(sealed) /\ writing' = <<Head(sealed)>>
  BY DEF WriterTake, TypeOK, wires
<1>2. Way = s2c \o sealed
  BY <1>1 DEF Way
<1>3. Way' = (s2c \o <<Head(sealed)>>) \o Tail(sealed)
  BY <1>1 DEF Way
<1>4. Head(sealed) \in Sealed /\ Tail(sealed) \in Seq(Sealed) /\ <<Head(sealed)>> \o Tail(sealed) = sealed
  BY <1>1
<1>5. QED
  BY SMTT(30), <1>1, <1>2, <1>3, <1>4

LEMMA WayWritten ==
  ASSUME TypeOK, WriteDone
  PROVE  Way' = Way
<1>1. /\ s2c \in Seq(Sealed) /\ sealed \in Seq(Sealed) /\ writing \in Seq(Sealed) /\ Len(writing) = 1
      /\ s2c' = Append(s2c, writing[1]) /\ sealed' = sealed /\ writing' = <<>>
  <2>1. writing \in Seq(Sealed) /\ Len(writing) <= 1 /\ writing # <<>>
    BY DEF WriteDone, TypeOK
  <2>2. Len(writing) = 1
    <3>1. Len(writing) \in Nat \ {0}
      BY <2>1, EmptySeq
    <3>2. QED
      BY <2>1, <3>1, \A n \in Nat \ {0} : n <= 1 => n = 1
  <2>3. QED
    BY <2>1, <2>2 DEF WriteDone, TypeOK
<1>2. s2c \o writing = Append(s2c, writing[1]) /\ Append(s2c, writing[1]) \in Seq(Sealed)
  BY <1>1, AppendOne
<1>3. QED
  BY <1>1, <1>2 DEF Way

LEMMA OutboundStep ==
  ASSUME IInv, [Next]_vars
  PROVE  Outbound'
<1> USE DEF IInv, Types
<1>1. CASE ClientOpen
  <2>1. Way' = Tail(Way) /\ Way # <<>> /\ Len(received') = Len(received) + 1
    BY <1>1, WayOpened
  <2>2. Way \in Seq(Sealed) /\ Len(received) \in Nat
    BY WayTyped
  <2>3. ClientInSync'
    BY <2>1, <2>2 DEF ClientInSync, Outbound
  <2>4. SealedCounted'
    BY <1>1, <2>1, <2>2 DEF SealedCounted, Outbound, ClientOpen, keys, tasks
  <2>5. QED
    BY <2>3, <2>4 DEF Outbound
<1>2. CASE drain
  <2>1. CASE buffer.items = <<>>
    BY <1>2, <2>1, WayKept DEF drain, Way, wires, client
  <2>2. CASE buffer.items # <<>> /\ Stop("WriterLag") /\ UNCHANGED sealed
    BY <1>2, <2>2, WayKept DEF drain, Way, wires, client, Stop
  <2> DEFINE frame == [seq |-> send_sequence, msg |-> Head(buffer.items)]
  <2>3. CASE buffer.items # <<>> /\ sealed' = Append(sealed, frame) /\ UNCHANGED actor
    <3>1. frame \in Sealed /\ frame.seq = send_sequence
      BY <2>3 DEF TypeOK, Sealed
    <3>2. Way' = Append(Way, frame)
      BY <1>2, <2>3, <3>1, WaySealed DEF drain, wires
    <3>3. Way \in Seq(Sealed) /\ Len(received) \in Nat /\ received' = received
      BY <1>2, WayTyped DEF drain, client
    <3>4. Len(Way') = Len(Way) + 1 /\ Way'[Len(Way) + 1] = frame
          /\ \A k \in 1 .. Len(Way) : Way'[k] = Way[k]
      <4> HIDE DEF frame
      <4>1. QED
        BY <3>1, <3>2, <3>3
    <3>5. send_sequence = Len(received) + Len(Way) /\ send_sequence' = send_sequence + 1
      BY <1>2, <2>3 DEF drain, Outbound, SealedCounted
    <3>6. SealedCounted'
      BY <3>3, <3>4, <3>5 DEF SealedCounted
    <3>7. ClientInSync'
      <4>1. ASSUME NEW k \in 1 .. Len(Way')
            PROVE  Way'[k].seq = Len(received') + k - 1
        <5>1. CASE k \in 1 .. Len(Way)
          BY <3>3, <3>4, <5>1 DEF Outbound, ClientInSync
        <5>2. CASE k = Len(Way) + 1
          BY <3>1, <3>3, <3>4, <3>5, <5>2
        <5>3. QED
          BY <3>3, <3>4, <5>1, <5>2
      <4>2. QED
        BY <4>1 DEF ClientInSync
    <3>8. QED
      BY <3>6, <3>7 DEF Outbound
  <2>4. QED
    BY <1>2, <2>1, <2>2, <2>3 DEF drain, hand_over
<1>3. CASE WriterTake
  BY <1>3, WayTaken, WayKept DEF WriterTake, client, keys, tasks
<1>4. CASE WriteDone
  BY <1>4, WayWritten, WayKept DEF WriteDone, client, keys, tasks
<1>5. CASE EnqueueSnapshot
  BY <1>5, WayKept DEF EnqueueSnapshot, Way, wires, client, keys
<1>6. CASE handle_frame
  BY <1>6, WayKept DEF handle_frame, Way, wires, client
<1>7. CASE HandlePush
  BY <1>7, WayKept DEF HandlePush, Way, wires, client, keys
<1>8. CASE Shutdown
  BY <1>8, WayKept DEF Shutdown, Stop, Way, wires, client, keys
<1>9. CASE UNCHANGED <<s2c, writing, sealed, received, send_sequence, actor>>
  BY <1>9, WayKept DEF Way
<1>10. QED
  BY <1>1, <1>2, <1>3, <1>4, <1>5, <1>6, <1>7, <1>8, <1>9
     DEF Next, Client, Reader, Actor, Producers, Writer, ClientSend, ClientClose, ReadFrame,
         ReadEnd, ReaderExit, ActionDone, Produce, Kill, WriteFails, WriterExit, vars, wires,
         client, keys, tasks

-----------------------------------------------------------------------------
(* The way to the actor *)

(* A step that leaves the client's frames alone. *)
LEMMA InboundKept ==
  ASSUME Inbound, UNCHANGED <<c2s, inbox, receive_sequence, sent, refused>>,
         reader' = "running" => reader = "running",
         directive' = "DecryptFailed" => directive = "DecryptFailed"
  PROVE  Inbound'
BY DEF Inbound, InboxInOrder, WireInOrder, DecryptFailsOnlyAfterBusy

LEMMA InboundStep ==
  ASSUME IInv, [Next]_vars
  PROVE  Inbound'
<1> USE DEF IInv, Types
<1>0. /\ Len(inbox) \in Nat /\ Len(c2s) \in Nat /\ receive_sequence \in Nat /\ sent \in Nat
      /\ c2s \in Seq(Frame) /\ inbox \in Seq(Frame)
  BY DEF TypeOK
<1>1. ASSUME NEW kind \in Requests, ClientSend(kind)
      PROVE  Inbound'
  <2> DEFINE f == [seq |-> sent, kind |-> kind]
  <2>1. f \in Frame /\ f.seq = sent
    BY <1>0 DEF Frame
  <2>2. /\ Len(c2s') = Len(c2s) + 1 /\ c2s'[Len(c2s) + 1] = f
        /\ \A k \in 1 .. Len(c2s) : c2s'[k] = c2s[k]
    <3> HIDE DEF f
    <3>1. c2s' = Append(c2s, f)
      BY <1>1 DEF ClientSend, f
    <3>2. QED
      BY <1>0, <2>1, <3>1
  <2>3. WireInOrder'
    <3> SUFFICES ASSUME refused = {}, reader = "running"
                 PROVE  /\ \A k \in 1 .. Len(c2s') : c2s'[k].seq = receive_sequence + Len(inbox) + k - 1
                        /\ sent' = receive_sequence + Len(inbox) + Len(c2s')
      BY <1>1 DEF ClientSend, WireInOrder, keys, tasks
    <3>1. /\ \A k \in 1 .. Len(c2s) : c2s[k].seq = receive_sequence + Len(inbox) + k - 1
          /\ sent = receive_sequence + Len(inbox) + Len(c2s) /\ sent' = sent + 1
      BY <1>1 DEF Inbound, WireInOrder, ClientSend
    <3>2. ASSUME NEW k \in 1 .. Len(c2s')
          PROVE  c2s'[k].seq = receive_sequence + Len(inbox) + k - 1
      <4>1. CASE k \in 1 .. Len(c2s)
        BY <2>2, <3>1, <4>1
      <4>2. CASE k = Len(c2s) + 1
        BY <1>0, <2>1, <2>2, <3>1, <4>2
      <4>3. QED
        BY <1>0, <2>2, <4>1, <4>2
    <3>3. QED
      BY <1>0, <2>2, <3>1, <3>2
  <2>4. InboxInOrder' /\ DecryptFailsOnlyAfterBusy'
    BY <1>1 DEF ClientSend, Inbound, InboxInOrder, DecryptFailsOnlyAfterBusy, keys, tasks
  <2>5. QED
    BY <2>3, <2>4 DEF Inbound
<1>2. CASE ReadFrame
  <2>1. /\ c2s # <<>> /\ c2s' = Tail(c2s) /\ directive = "none" /\ reader = "running"
        /\ receive_sequence' = receive_sequence /\ sent' = sent
    BY <1>2 DEF ReadFrame, client, keys, cancelled
  <2>2. /\ Len(c2s') = Len(c2s) - 1 /\ Head(c2s) = c2s[1] /\ Head(c2s) \in Frame
        /\ \A k \in 1 .. Len(c2s) - 1 : c2s'[k] = c2s[k + 1]
    BY <1>0, <2>1
  <2>3. CASE inbox' = Append(inbox, Head(c2s)) /\ UNCHANGED <<refused, directive, reader>>
    <3>1. /\ Len(inbox') = Len(inbox) + 1 /\ inbox'[Len(inbox) + 1] = Head(c2s)
          /\ \A k \in 1 .. Len(inbox) : inbox'[k] = inbox[k]
      BY <1>0, <2>2, <2>3
    <3>2. ASSUME refused = {}
          PROVE  /\ c2s[1].seq = receive_sequence + Len(inbox)
                 /\ \A k \in 1 .. Len(c2s) : c2s[k].seq = receive_sequence + Len(inbox) + k - 1
                 /\ sent = receive_sequence + Len(inbox) + Len(c2s)
      BY <1>0, <2>1, <3>2, EmptySeq DEF Inbound, WireInOrder
    <3>3. InboxInOrder'
      <4> SUFFICES ASSUME refused' = {}, NEW k \in 1 .. Len(inbox')
                   PROVE  inbox'[k].seq = receive_sequence' + k - 1
        BY DEF InboxInOrder
      <4>1. refused = {} /\ \A l \in 1 .. Len(inbox) : inbox[l].seq = receive_sequence + l - 1
        BY <2>3 DEF Inbound, InboxInOrder
      <4>2. Len(inbox) \in Nat
        BY <1>0
      <4>3. CASE k \in 1 .. Len(inbox)
        BY <2>1, <3>1, <4>1, <4>3
      <4>4. CASE k = Len(inbox) + 1
        <5>1. inbox'[k] = c2s[1] /\ c2s[1].seq = receive_sequence + Len(inbox)
          BY <2>2, <3>1, <3>2, <4>1, <4>4
        <5>2. receive_sequence \in Nat /\ receive_sequence' = receive_sequence
          BY <1>0, <2>1
        <5> QED BY <4>2, <4>4, <5>1, <5>2
      <4> QED BY <3>1, <4>2, <4>3, <4>4
    <3>4. WireInOrder'
      BY <1>0, <2>1, <2>2, <2>3, <3>1, <3>2 DEF WireInOrder
    <3>5. QED
      BY <2>3, <3>3, <3>4 DEF Inbound, DecryptFailsOnlyAfterBusy
  <2>4. CASE UNCHANGED inbox /\ refuse_frame(Head(c2s))
    <3>1. CASE refused' = refused \cup {Head(c2s).seq} /\ UNCHANGED directive
      BY <2>1, <2>4, <3>1 DEF Inbound, InboxInOrder, WireInOrder, DecryptFailsOnlyAfterBusy
    <3>2. CASE fire("InboundLag") /\ reader' = "exited" /\ UNCHANGED refused
      BY <2>1, <2>4, <3>2 DEF Inbound, InboxInOrder, WireInOrder, DecryptFailsOnlyAfterBusy, fire
    <3>3. QED
      BY <2>4, <3>1, <3>2 DEF refuse_frame
  <2>5. QED
    BY <1>2, <2>3, <2>4 DEF ReadFrame
<1>3. CASE handle_frame
  <2>1. /\ inbox # <<>> /\ inbox' = Tail(inbox) /\ UNCHANGED <<c2s, sent, refused, reader>>
        /\ directive = "none"
    BY <1>3 DEF handle_frame, wires, client, cancelled
  <2>2. /\ Len(inbox') = Len(inbox) - 1 /\ Head(inbox) = inbox[1] /\ Len(inbox) >= 1
        /\ \A k \in 1 .. Len(inbox) - 1 : inbox'[k] = inbox[k + 1]
    BY <1>0, <2>1, EmptySeq
  <2>3. refused = {} => Head(inbox).seq = receive_sequence
    BY <1>0, <2>2 DEF Inbound, InboxInOrder
  <2>4. CASE Head(inbox).seq # receive_sequence
    BY <2>1, <2>3, <2>4 DEF Inbound, InboxInOrder, WireInOrder, DecryptFailsOnlyAfterBusy
  <2>5. CASE Head(inbox).seq = receive_sequence
    <3>1. receive_sequence' = receive_sequence + 1
      BY <1>3, <2>5 DEF handle_frame
    <3>2. directive' # "DecryptFailed"
      BY <1>3, <2>1, <2>5 DEF handle_frame, handle_push, Stop, fire
    <3>3. InboxInOrder'
      BY <1>0, <2>1, <2>2, <3>1 DEF Inbound, InboxInOrder
    <3>4. WireInOrder'
      BY <1>0, <2>1, <2>2, <3>1 DEF Inbound, WireInOrder
    <3>5. QED
      BY <3>2, <3>3, <3>4 DEF Inbound, DecryptFailsOnlyAfterBusy
  <2>6. QED
    BY <2>4, <2>5
<1>4. CASE ReadEnd
  BY <1>4, InboundKept DEF ReadEnd, fire, wires, client, keys
<1>5. CASE ReaderExit
  BY <1>5, InboundKept DEF ReaderExit, wires, client, keys
<1>6. CASE EnqueueSnapshot
  BY <1>6, InboundKept DEF EnqueueSnapshot, handle_push, Stop, fire, wires, client, keys
<1>7. CASE drain
  BY <1>7, InboundKept DEF drain, hand_over, Stop, fire, wires, client
<1>8. CASE Shutdown
  BY <1>8, InboundKept DEF Shutdown, Stop, fire, wires, client, keys
<1>9. CASE HandlePush
  BY <1>9, InboundKept DEF HandlePush, handle_push, Stop, fire, wires, client, keys
<1>10. CASE Kill
  BY <1>10, InboundKept DEF Kill, fire, wires, client, keys, tasks
<1>11. CASE WriteFails
  BY <1>11, InboundKept DEF WriteFails, fire, wires, client, keys
<1>12. CASE UNCHANGED <<c2s, inbox, receive_sequence, sent, refused, reader, directive>>
  BY <1>12, InboundKept
<1>13. QED
  BY <1>1, <1>2, <1>3, <1>4, <1>5, <1>6, <1>7, <1>8, <1>9, <1>10, <1>11, <1>12
     DEF Next, Client, Reader, Actor, Producers, Writer, ClientOpen, ClientClose, ActionDone,
         Produce, WriterTake, WriteDone, WriterExit, vars, wires, client, keys, tasks

-----------------------------------------------------------------------------
(* Invariants *)

LEMMA InitHolds == Init => IInv
<1> SUFFICES ASSUME Init PROVE IInv
  OBVIOUS
<1>1. TypeOK /\ BufferOK(buffer)
  <2>1. BufferOK(buffer)
    BY EmptyBufferOK DEF Init
  <2>2. 0 <= Len(Snapshot) /\ Len(Snapshot) \in Nat
    BY InputsAssumption, LenProperties
  <2>3. /\ c2s \in Seq(Frame) /\ inbox \in Seq(Frame) /\ outq \in Seq(Message)
        /\ s2c \in Seq(Sealed) /\ sealed \in Seq(Sealed) /\ writing \in Seq(Sealed)
        /\ received \in Seq(Message)
    BY DEF Init
  <2>4. /\ Len(inbox) <= InboundCapacity /\ Len(outq) <= OutboundCapacity
        /\ Len(sealed) <= MaxItems /\ Len(writing) <= 1
    BY QueuesAssumption, CapacityAssumption DEF Init
  <2>5. buffer.items \in Seq(Message) /\ buffer.bytes \in 0 .. MaxBytes /\ Len(buffer.items) <= MaxItems
    BY <2>1, BufferTypes
  <2>6. actor \in {"start", "select", "drain", "stopped"} /\ started \in 0 .. Len(Snapshot)
    BY <2>2 DEF Init, CONTINUE
  <2>7. QED
    BY <2>1, <2>3, <2>4, <2>5, <2>6 DEF Init, TypeOK, Causes
<1>2. Numbered
  BY QueuesAssumption DEF Init, Numbered
<1>3. Way = <<>> /\ received = <<>>
  BY DEF Init, Way
<1>4. Outbound
  BY <1>3 DEF Init, Outbound, ClientInSync, SealedCounted
<1>5. Inbound
  BY DEF Init, Inbound, InboxInOrder, WireInOrder, DecryptFailsOnlyAfterBusy
<1>6. QED
  BY <1>1, <1>2, <1>4, <1>5 DEF IInv, Types

LEMMA NextHolds == IInv /\ [Next]_vars => IInv'
BY TypesStep, OutboundStep, InboundStep DEF IInv

LEMMA Inductive == Spec => []IInv
<1>1. QED
  BY InitHolds, NextHolds, PTL DEF Spec

(* Every variable has its type, every queue of the session stays within its    *)
(* capacity and the send buffer within MaxBytes: its count never goes below    *)
(* zero, because it is the sum of the sizes of what is queued.                 *)
THEOREM TypeCorrect == Spec => []TypeOK
<1>1. IInv => TypeOK
  BY DEF IInv, Types
<1>2. QED
  BY <1>1, Inductive, PTL

(* The client can open every frame that is on its way: what is received, on    *)
(* the wire, in the writer and in the sealed channel carries consecutive       *)
(* sequence numbers, through every eviction, write failure and shutdown.       *)
THEOREM AlwaysInSync == Spec => []ClientInSync
<1>1. IInv => ClientInSync
  BY DEF IInv, Outbound
<1>2. QED
  BY <1>1, Inductive, PTL

(* A client that numbers its frames in order is evicted with DecryptFailed     *)
(* only when the reader pump answered one of its frames with busy.             *)
THEOREM DecryptFailsOnlyThen == Spec => []DecryptFailsOnlyAfterBusy
<1>1. IInv => DecryptFailsOnlyAfterBusy
  BY DEF IInv, Inbound
<1>2. QED
  BY <1>1, Inductive, PTL

-----------------------------------------------------------------------------
(* Refinement: the session implements ClientFeed *)

(* The messages of the sealed frames. *)
Contents == [k \in 1 .. Len(Way) |-> Way[k].msg]

LEMMA ContentsTyped ==
  ASSUME TypeOK
  PROVE  /\ Contents \in Seq(Message) /\ Len(Contents) = Len(Way)
         /\ Unopened = Contents \o buffer.items /\ buffer.items \in Seq(Message)
<1>1. Way \in Seq(Sealed) /\ Len(Way) \in Nat
  BY WayTyped
<1>2. \A k \in 1 .. Len(Way) : Way[k].msg \in Message
  <2>1. \A k \in 1 .. Len(Way) : Way[k] \in Sealed
    BY <1>1
  <2>2. QED
    BY <2>1 DEF Sealed
<1>3. Contents \in Seq(Message) /\ Len(Contents) = Len(Way)
  BY <1>1, <1>2 DEF Contents
<1>4. QED
  BY <1>3 DEF Unopened, Contents, TypeOK

(* A push of the actor appends, replaces the last message, or ends the feed. *)
LEMMA FeedPush ==
  ASSUME IInv, NEW m \in Message, NEW goto, goto # "stopped", handle_push(m, goto),
         actor # "stopped", Way' = Way, received' = received
  PROVE  Feed!Next
<1> USE DEF IInv, Types
<1>1. /\ Contents \in Seq(Message) /\ Len(Contents) \in Nat
      /\ Unopened = Contents \o buffer.items /\ buffer.items \in Seq(Message)
  BY ContentsTyped
<1>2. Unopened' = Contents \o buffer'.items
  BY DEF Unopened, Contents
<1>3. CASE actor' = goto /\ buffer'.items = Append(buffer.items, m)
  <2>1. Unopened' = Append(Unopened, m)
    BY SMTT(30), <1>1, <1>2, <1>3, ConcatAppend
  <2>2. Feed!Enqueue(m)
    BY <1>3, <2>1 DEF Feed!Enqueue
  <2>3. QED
    BY <2>2 DEF Feed!Next
<1>4. CASE /\ actor' = goto /\ Coalesces(buffer, m)
           /\ buffer'.items = [buffer.items EXCEPT ![Len(buffer.items)] = m]
  <2>1. /\ m.kind \in Replaceable /\ buffer.items # <<>>
        /\ buffer.items[Len(buffer.items)].kind = m.kind
    BY <1>4 DEF Coalesces, is_replaceable, Tail_
  <2>2. /\ Unopened # <<>> /\ Len(Unopened) = Len(Contents) + Len(buffer.items)
        /\ Unopened[Len(Unopened)] = buffer.items[Len(buffer.items)]
    BY <1>1, <2>1
  <2>3. Unopened' = [Unopened EXCEPT ![Len(Unopened)] = m]
    <3>1. PICK c \in Seq(Message) : c = Contents
      BY <1>1
    <3>2. PICK t \in Seq(Message) : t = buffer.items
      BY <1>1
    <3>3. PICK r : r = buffer'.items
      OBVIOUS
    <3>4. t # <<>> /\ r = [t EXCEPT ![Len(t)] = m]
      BY <1>4, <2>1, <3>2, <3>3
    <3>5. /\ r \in Seq(Message) /\ Len(r) = Len(t)
          /\ \A j \in 1 .. Len(t) : r[j] = IF j = Len(t) THEN m ELSE t[j]
      <4>1. Len(t) \in 1 .. Len(t)
        BY <3>4, EmptySeq
      <4>2. QED
        BY <3>4, <4>1, ExceptSeq
    <3>6. PICK w \in Seq(Message) : w = c \o t /\ w = Unopened
      <4>1. c \o t \in Seq(Message)
        BY ConcatProperties
      <4>2. QED
        BY <1>1, <3>1, <3>2, <4>1
    <3>7. /\ c \o r \in Seq(Message) /\ Len(c \o r) = Len(w)
          /\ \A j \in 1 .. Len(w) : (c \o r)[j] = IF j = Len(w) THEN m ELSE w[j]
      <4>1. /\ c \o r \in Seq(Message) /\ Len(c \o r) = Len(c \o t)
            /\ \A j \in 1 .. Len(c \o t) : (c \o r)[j] = IF j = Len(c \o t) THEN m ELSE (c \o t)[j]
        BY <3>4, <3>5, ConcatReplaced
      <4>2. QED
        BY <3>6, <4>1
    <3>8. /\ [w EXCEPT ![Len(w)] = m] \in Seq(Message) /\ Len([w EXCEPT ![Len(w)] = m]) = Len(w)
          /\ \A j \in 1 .. Len(w) : [w EXCEPT ![Len(w)] = m][j] = IF j = Len(w) THEN m ELSE w[j]
      <4>1. Len(w) \in 1 .. Len(w)
        BY <2>2, <3>6, EmptySeq
      <4>2. QED
        BY <4>1, ExceptSeq
    <3>9. c \o r = [w EXCEPT ![Len(w)] = m]
      <4>1. \A j \in 1 .. Len(c \o r) : (c \o r)[j] = [w EXCEPT ![Len(w)] = m][j]
        BY <3>7, <3>8
      <4>2. QED
        BY <3>7, <3>8, <4>1, SeqEqual
    <3>10. QED
      BY <1>2, <3>1, <3>3, <3>6, <3>9
  <2>4. Feed!Replace(m)
    BY <1>4, <2>1, <2>2, <2>3 DEF Feed!Replace
  <2>5. QED
    BY <2>4 DEF Feed!Next
<1>5. CASE actor' = "stopped" /\ buffer' = EmptyBuffer
  <2>1. Unopened' = Contents \o <<>>
    BY <1>2, <1>5 DEF EmptyBuffer
  <2>2. Unopened' = SubSeq(Unopened, 1, Len(Contents)) /\ Len(Contents) \in 0 .. Len(Unopened)
    BY <1>1, <2>1
  <2>3. Feed!End
    BY <1>5, <2>2 DEF Feed!End
  <2>4. QED
    BY <2>3 DEF Feed!Next
<1>6. QED
  BY <1>3, <1>4, <1>5, PushOutcome DEF TypeOK

(* When the actor stops, what it had not sealed is lost from the back. *)
LEMMA FeedStop ==
  ASSUME IInv, NEW cause, Stop(cause), Way' = Way, received' = received
  PROVE  Feed!Next
<1>1. /\ Contents \in Seq(Message) /\ Len(Contents) \in Nat
      /\ Unopened = Contents \o buffer.items /\ buffer.items \in Seq(Message)
  BY ContentsTyped DEF IInv, Types
<1>2. Unopened' = Contents \o <<>>
  BY DEF Unopened, Contents, Stop, EmptyBuffer
<1>3. Unopened' = SubSeq(Unopened, 1, Len(Contents)) /\ Len(Contents) \in 0 .. Len(Unopened)
  BY <1>1, <1>2
<1>4. QED
  BY <1>3 DEF Feed!Next, Feed!End, Stop

LEMMA FeedKept ==
  ASSUME Way' = Way, UNCHANGED <<buffer, received, actor>>
  PROVE  UNCHANGED Feed!vars
BY DEF Feed!vars, Unopened

(* Every step is a step of the feed or leaves it as it is. *)
LEMMA FeedStep ==
  ASSUME IInv, [Next]_vars
  PROVE  [Feed!Next]_(Feed!vars)
<1> USE DEF IInv, Types
<1>0. /\ Contents \in Seq(Message) /\ Len(Contents) = Len(Way)
      /\ Unopened = Contents \o buffer.items /\ buffer.items \in Seq(Message)
      /\ Way \in Seq(Sealed)
  BY ContentsTyped, WayTyped
<1>1. CASE ClientOpen
  <2>1. /\ Way' = Tail(Way) /\ Way # <<>> /\ Head(Way) = Head(s2c)
        /\ received' = Append(received, Head(s2c).msg) /\ UNCHANGED <<buffer, actor>>
    BY <1>1, WayOpened DEF ClientOpen, tasks
  <2>2. Len(Way) \in Nat \ {0} /\ Len(Way') = Len(Way) - 1
        /\ \A k \in 1 .. Len(Way) - 1 : Way'[k] = Way[k + 1]
    BY <1>0, <2>1, EmptySeq
  <2>3. Contents # <<>> /\ Head(Contents) = Head(s2c).msg
    <3>1. Contents # <<>> /\ Head(Contents) = Contents[1] /\ Head(Way) = Way[1]
      BY <1>0, <2>1, <2>2
    <3>2. QED
      BY <2>1, <2>2, <3>1 DEF Contents
  <2>4. Contents' = Tail(Contents)
    <3>1. /\ Tail(Contents) \in Seq(Message) /\ Len(Tail(Contents)) = Len(Way) - 1
          /\ \A k \in 1 .. Len(Way) - 1 : Tail(Contents)[k] = Contents[k + 1]
      BY <1>0, <2>2, <2>3, HeadTailProperties
    <3>2. /\ \A k \in 1 .. Len(Way) - 1 : Contents[k + 1] = Way[k + 1].msg
          /\ \A k \in 1 .. Len(Way) - 1 : Contents[k + 1] \in Message
      BY <1>0, <2>2 DEF Contents
    <3>3. Contents' = [k \in 1 .. Len(Way) - 1 |-> Contents[k + 1]]
      BY <2>2, <3>2 DEF Contents
    <3>4. Contents' \in Seq(Message) /\ Len(Contents') = Len(Way) - 1
      BY <2>2, <3>2, <3>3
    <3>5. QED
      BY <3>1, <3>3, <3>4, SeqEqual
  <2>5. Unopened # <<>> /\ Unopened' = Tail(Unopened) /\ Head(Unopened) = Head(s2c).msg
    <3>1. Unopened' = Tail(Contents) \o buffer.items
      BY <2>1, <2>4 DEF Unopened, Contents
    <3>2. QED
      BY <1>0, <2>3, <3>1, ConcatTail
  <2>6. Feed!Deliver
    BY <2>1, <2>5 DEF Feed!Deliver
  <2>7. QED
    BY <2>6 DEF Feed!Next
<1>2. CASE EnqueueSnapshot
  <2>1. Stamped(Snapshot[started + 1], 0) \in Message
    BY <1>2, MessagesMade DEF EnqueueSnapshot, TypeOK
  <2>2. Way' = Way /\ received' = received /\ actor # "stopped"
    BY <1>2 DEF EnqueueSnapshot, Way, wires, client
  <2>3. QED
    BY <1>2, <2>1, <2>2, FeedPush DEF EnqueueSnapshot, CONTINUE
<1>3. CASE drain
  <2>1. CASE buffer.items = <<>>
    BY <1>3, <2>1 DEF drain, Feed!vars, Unopened, Way, wires, client
  <2>2. CASE buffer.items # <<>> /\ Stop("WriterLag") /\ UNCHANGED sealed
    <3>1. Way' = Way /\ received' = received
      BY <1>3, <2>2 DEF drain, Way, wires, client
    <3>2. QED
      BY <2>2, <3>1, FeedStop
  <2> DEFINE frame == [seq |-> send_sequence, msg |-> Head(buffer.items)]
  <2>3. CASE /\ buffer.items # <<>> /\ sealed' = Append(sealed, frame)
             /\ buffer' = pop(buffer) /\ UNCHANGED actor
    <3>1. frame \in Sealed /\ frame.msg = Head(buffer.items) /\ Head(buffer.items) \in Message
      BY <2>3 DEF TypeOK, Sealed
    <3>2. Way' = Append(Way, frame) /\ received' = received
      BY <1>3, <2>3, <3>1, WaySealed DEF drain, wires, client
    <3>3. /\ Len(Way') = Len(Way) + 1 /\ Way'[Len(Way) + 1] = frame /\ Len(Way) \in Nat
          /\ \A k \in 1 .. Len(Way) : Way'[k] = Way[k]
      <4> HIDE DEF frame
      <4>1. QED
        BY <1>0, <3>1, <3>2
    <3>4. Contents' = Append(Contents, Head(buffer.items))
      <4>1. Contents' = [k \in 1 .. Len(Way) + 1 |-> IF k = Len(Way) + 1 THEN frame.msg ELSE Way[k].msg]
        BY <3>3 DEF Contents
      <4>2. Append(Contents, Head(buffer.items)) =
              [k \in 1 .. Len(Way) + 1 |-> IF k = Len(Way) + 1 THEN frame.msg ELSE Contents[k]]
        BY <1>0, <3>1
      <4>3. \A k \in 1 .. Len(Way) : Contents[k] = Way[k].msg
        BY DEF Contents
      <4>4. QED
        BY <3>3, <4>1, <4>2, <4>3
    <3>5. Unopened' = Append(Contents, Head(buffer.items)) \o Tail(buffer.items)
      BY <2>3, <3>4 DEF Unopened, Contents, pop
    <3>6. Unopened' = Unopened
      BY <1>0, <2>3, <3>5, ConcatShift
    <3>7. QED
      BY <2>3, <3>2, <3>6 DEF Feed!vars
  <2>4. QED
    BY <1>3, <2>1, <2>2, <2>3 DEF drain, hand_over
<1>4. CASE Shutdown
  <2>1. Way' = Way /\ received' = received
    BY <1>4 DEF Shutdown, Way, wires, client
  <2>2. QED
    BY <1>4, <2>1, FeedStop DEF Shutdown
<1>5. CASE handle_frame
  <2>1. Way' = Way /\ received' = received /\ actor = "select"
    BY <1>5 DEF handle_frame, Way, wires, client
  <2>2. command_result(Head(inbox).seq) \in Message
    BY <1>5, QueueHead, MessagesMade DEF handle_frame, TypeOK, Numbered
  <2>3. ASSUME NEW cause, Stop(cause) PROVE Feed!Next
    BY <2>1, <2>3, FeedStop
  <2>4. CASE handle_push(command_result(Head(inbox).seq), CONTINUE)
    BY <2>1, <2>2, <2>4, FeedPush DEF CONTINUE
  <2>5. CASE actor' = CONTINUE /\ UNCHANGED buffer
    BY <2>1, <2>5 DEF Feed!vars, Unopened, CONTINUE
  <2>6. QED
    BY <1>5, <2>3, <2>4, <2>5 DEF handle_frame
<1>6. CASE HandlePush
  <2>1. Way' = Way /\ received' = received /\ actor # "stopped" /\ Head(outq) \in Message
    BY <1>6 DEF HandlePush, Way, wires, client, TypeOK
  <2>2. QED
    BY <1>6, <2>1, FeedPush DEF HandlePush, CONTINUE
<1>7. CASE WriterTake
  BY <1>7, WayTaken, FeedKept DEF WriterTake, client, tasks
<1>8. CASE WriteDone
  BY <1>8, WayWritten, FeedKept DEF WriteDone, client, tasks
<1>9. CASE UNCHANGED <<s2c, writing, sealed, received, buffer, actor>>
  BY <1>9, FeedKept DEF Way
<1>10. QED
  BY <1>1, <1>2, <1>3, <1>4, <1>5, <1>6, <1>7, <1>8, <1>9
     DEF Next, Client, Reader, Actor, Producers, Writer, ClientSend, ClientClose, ReadFrame,
         ReadEnd, ReaderExit, ActionDone, Produce, Kill, WriteFails, WriterExit, vars, wires,
         client, keys, tasks

(* The session implements ClientFeed: what the actor pushes reaches the client *)
(* in order and complete up to the replacement of an unsent tail of the same   *)
(* kind, and anything else is given up only from the back and with the session *)
(* (handle_push, drain, evict and writer_pump together).                       *)
THEOREM ImplementsFeed == Spec => FeedImplemented
<1>1. Init => Feed!Init
  BY DEF Init, Feed!Init, Unopened, Way, EmptyBuffer, CONTINUE
<1>2. IInv /\ [Next]_vars => [Feed!Next]_(Feed!vars)
  BY FeedStep
<1>3. QED
  BY <1>1, <1>2, Inductive, PTL DEF Spec, FeedImplemented, Feed!Spec
=============================================================================
