----------------------------- MODULE RelaySession -----------------------------
(***************************************************************************)
(* One established session (lerdr-relay/src/session.rs): the reader pump,  *)
(* the session actor, the writer pump, the producers that push through a   *)
(* ClientSink, and the client at the other end of the encrypted channel    *)
(* (lerdr-e2ee/src/session.rs).                                            *)
(*                                                                         *)
(*   client -> c2s -> reader -> inbox -> ACTOR -> buffer -> sealed         *)
(*   producers, spawned actions -> outq ---^                  |            *)
(*   client <- s2c <--------------------- writer <------------+            *)
(*                                                                         *)
(* Every queue is bounded.  The three tasks run in parallel and share a    *)
(* kill switch whose first directive wins.                                 *)
(*                                                                         *)
(* Abstractions.  A ciphertext is its sequence number and its content, and *)
(* opens when the number is the expected one.  A request is answered by    *)
(* the actor itself ("local"), by a spawned action ("routed") or is not a  *)
(* JSON object ("malformed"); a result and its receipt are one message.    *)
(* The sequence limit 2^53 is out of reach.  The revocation deadline is in *)
(* RelayHub; here it is a Kill.                                            *)
(***************************************************************************)
EXTENDS SendBuffer, FiniteSets

CONSTANTS
  InboundCapacity,   \* INBOUND_CAPACITY
  OutboundCapacity,  \* OUTBOUND_CAPACITY
  WireCapacity,      \* frames in flight per direction
  Requests,          \* the kinds of frame the client sends
  MaxRequests,       \* bound: frames the client sends
  Broadcasts,        \* the messages producers push
  MaxPushes,         \* bound: pushes by producers
  Snapshot           \* config.snapshot_fn: the messages sent first

ASSUME QueuesAssumption ==
  /\ InboundCapacity \in Nat \ {0} /\ OutboundCapacity \in Nat \ {0}
  /\ WireCapacity \in Nat \ {0} /\ MaxRequests \in Nat /\ MaxPushes \in Nat

ASSUME InputsAssumption ==
  /\ Requests \subseteq {"local", "routed", "malformed"}
  /\ Broadcasts \subseteq [kind : Kinds, size : Nat]
  /\ Snapshot \in Seq([kind : Kinds, size : Nat])
  /\ {"command_result", "busy"} \subseteq Kinds \ Replaceable

(* The id of a message tells the copies of one kind apart: the number of the  *)
(* request it answers, or of the push.                                        *)
Sizes == {1} \cup {m.size : m \in Broadcasts} \cup {Snapshot[k].size : k \in DOMAIN Snapshot}

Message == [kind : Kinds, size : Sizes, id : 0 .. MaxRequests + MaxPushes]

Frame == [seq : Nat, kind : Requests]

Sealed == [seq : Nat, msg : Message]

Stamped(m, id) == [kind |-> m.kind, size |-> m.size, id |-> id]
command_result(i) == [kind |-> "command_result", size |-> 1, id |-> i]
busy_response(i) == [kind |-> "busy", size |-> 1, id |-> i]

VARIABLES
  c2s, s2c,       \* the transport, one queue per direction
  peer,           \* the client's end is "open" or "closed"
  sent,           \* the client's send_sequence
  received,       \* what the client opened; its length is its receive_sequence
  inbox,          \* the reader's mpsc
  outq,           \* the ClientSink mpsc
  running,        \* requests whose spawned action has not finished
  buffer,         \* Actor.buffer
  receive_sequence, send_sequence,  \* Actor.session
  sealed,         \* the sealed mpsc
  writing,        \* the frame in write_frame, if any
  actor,          \* "start", "select", "drain" or "stopped"
  started,        \* snapshot messages enqueued so far
  reader,         \* "running" or "exited"
  writer,         \* "running" or "closed"
  directive,      \* Signal.directive: the first cause, or "none"
  parent,         \* the relay is shutting down
  pushes,         \* pushes by producers so far
  refused         \* history: frames answered with busy

client == <<peer, sent, received>>
wires == <<c2s, s2c>>
keys == <<receive_sequence, send_sequence>>
tasks == <<actor, reader, writer>>
vars == <<c2s, s2c, peer, sent, received, inbox, outq, running, buffer, receive_sequence,
          send_sequence, sealed, writing, actor, started, reader, writer, directive,
          parent, pushes, refused>>

cancelled == directive # "none"

(* Signal::fire *)
fire(cause) == directive' = IF directive = "none" THEN cause ELSE directive

(* The sink refuses when the queue is full or the actor is gone. *)
SinkOpen == actor # "stopped" /\ Len(outq) < OutboundCapacity

-----------------------------------------------------------------------------
(* The client. *)

(* A frame sent after the reader has gone is lost and left out. *)
ClientSend(kind) ==
  /\ peer = "open" /\ reader = "running" /\ sent < MaxRequests /\ Len(c2s) < WireCapacity
  /\ c2s' = Append(c2s, [seq |-> sent, kind |-> kind])
  /\ sent' = sent + 1
  /\ UNCHANGED <<s2c, peer, received, inbox, outq, running, buffer, keys, sealed, writing,
                 tasks, started, directive, parent, pushes, refused>>

(* open: the sequence number has to be the next one. *)
ClientOpen ==
  /\ peer = "open" /\ s2c # <<>> /\ Head(s2c).seq = Len(received)
  /\ received' = Append(received, Head(s2c).msg)
  /\ s2c' = Tail(s2c)
  /\ UNCHANGED <<c2s, peer, sent, inbox, outq, running, buffer, keys, sealed, writing,
                 tasks, started, directive, parent, pushes, refused>>

ClientClose ==
  /\ peer = "open" /\ peer' = "closed"
  /\ UNCHANGED <<wires, sent, received, inbox, outq, running, buffer, keys, sealed, writing,
                 tasks, started, directive, parent, pushes, refused>>

-----------------------------------------------------------------------------
(* reader_pump *)

(* Mutant: the frame is dropped without an answer. *)
drop_frame(f) == UNCHANGED <<outq, refused, directive, reader>>

(* A frame that finds the inbox full is dropped and answered with busy through *)
(* the producers' queue; when that is full too the client is evicted.          *)
refuse_frame(f) ==
  \/ /\ SinkOpen
     /\ outq' = Append(outq, busy_response(f.seq))
     /\ refused' = refused \cup {f.seq}
     /\ UNCHANGED <<directive, reader>>
  \/ /\ ~SinkOpen
     /\ fire("InboundLag") /\ reader' = "exited"
     /\ UNCHANGED <<outq, refused>>

ReadFrame ==
  /\ reader = "running" /\ ~cancelled /\ c2s # <<>>
  /\ c2s' = Tail(c2s)
  /\ \/ /\ Len(inbox) < InboundCapacity
        /\ inbox' = Append(inbox, Head(c2s))
        /\ UNCHANGED <<outq, refused, directive, reader>>
     \/ /\ Len(inbox) = InboundCapacity
        /\ refuse_frame(Head(c2s))
        /\ UNCHANGED inbox
  /\ UNCHANGED <<s2c, client, running, buffer, keys, sealed, writing, actor, writer, started,
                 parent, pushes>>

(* The read side fails, or reports the peer's close after its last frame. *)
ReadEnd ==
  /\ reader = "running" /\ ~cancelled
  /\ \/ fire("TransportFailed")
     \/ peer = "closed" /\ c2s = <<>> /\ fire("PeerClosed")
  /\ reader' = "exited"
  /\ UNCHANGED <<wires, client, inbox, outq, running, buffer, keys, sealed, writing, actor,
                 writer, started, parent, pushes, refused>>

ReaderExit ==
  /\ reader = "running" /\ cancelled
  /\ reader' = "exited"
  /\ UNCHANGED <<wires, client, inbox, outq, running, buffer, keys, sealed, writing, actor,
                 writer, started, directive, parent, pushes, refused>>

-----------------------------------------------------------------------------
(* The actor.  Between two of its awaits nothing it owns is shared, but the   *)
(* other tasks fill and empty its channels.                                   *)

(* evict, and every other way out of `run': the buffer goes with the actor. *)
Stop(cause) ==
  /\ fire(cause)
  /\ actor' = "stopped"
  /\ buffer' = EmptyBuffer

(* A step that returns CONTINUE is followed by a drain. *)
CONTINUE == "drain"

(* handle_push: a rejected push evicts. *)
handle_push(m, goto) ==
  LET v == push_typed(buffer, m)
  IN \/ Admitted(v) /\ buffer' = v.buffer /\ actor' = goto /\ UNCHANGED directive
     \/ ~Admitted(v) /\ Stop("SendBufferFull")

(* run, before the loop: the snapshot. *)
EnqueueSnapshot ==
  /\ actor = "start" /\ started < Len(Snapshot)
  /\ handle_push(Stamped(Snapshot[started + 1], 0),
                 IF started + 1 = Len(Snapshot) THEN CONTINUE ELSE "start")
  /\ started' = started + 1
  /\ UNCHANGED <<wires, client, inbox, outq, running, keys, sealed, writing, reader, writer,
                 parent, pushes, refused>>

(* Mutants: a full sealed channel drops the frame; the channel has no bound. *)
hand_over_dropping(frame) ==
  /\ sealed' = IF Len(sealed) < MaxItems THEN Append(sealed, frame) ELSE sealed
  /\ buffer' = pop(buffer) /\ UNCHANGED <<actor, directive>>
hand_over_unbounded(frame) ==
  /\ sealed' = Append(sealed, frame)
  /\ buffer' = pop(buffer) /\ UNCHANGED <<actor, directive>>

(* The sealed frame goes to the writer; a full sealed channel evicts. *)
hand_over(frame) ==
  \/ /\ Len(sealed) < MaxItems
     /\ sealed' = Append(sealed, frame)
     /\ buffer' = pop(buffer) /\ UNCHANGED <<actor, directive>>
  \/ /\ Len(sealed) = MaxItems
     /\ Stop("WriterLag")
     /\ UNCHANGED sealed

(* drain: pop, seal, hand over, until the buffer is empty. *)
drain ==
  /\ actor = "drain"
  /\ \/ /\ buffer.items = <<>>
        /\ actor' = "select"
        /\ UNCHANGED <<buffer, sealed, send_sequence, directive>>
     \/ /\ buffer.items # <<>>
        /\ send_sequence' = send_sequence + 1
        /\ hand_over([seq |-> send_sequence, msg |-> Head(buffer.items)])
  /\ UNCHANGED <<wires, client, inbox, outq, running, receive_sequence, writing, reader, writer,
                 started, parent, pushes, refused>>

(* The first two arms of the biased select. *)
Shutdown ==
  /\ actor = "select" /\ (parent \/ cancelled)
  /\ Stop("Shutdown")
  /\ UNCHANGED <<wires, client, inbox, outq, running, keys, sealed, writing, reader, writer,
                 started, parent, pushes, refused>>

(* handle_frame: open, decode, dispatch. *)
handle_frame ==
  LET f == Head(inbox)
  IN /\ actor = "select" /\ ~parent /\ ~cancelled /\ inbox # <<>>
     /\ inbox' = Tail(inbox)
     /\ \/ /\ f.seq # receive_sequence
           /\ Stop("DecryptFailed") /\ UNCHANGED <<receive_sequence, running>>
        \/ /\ f.seq = receive_sequence /\ receive_sequence' = receive_sequence + 1
           /\ \/ f.kind = "malformed" /\ Stop("MalformedMessage") /\ UNCHANGED running
              \/ f.kind = "local" /\ handle_push(command_result(f.seq), CONTINUE)
                   /\ UNCHANGED running
              \/ f.kind = "routed" /\ running' = running \cup {f.seq} /\ actor' = CONTINUE
                   /\ UNCHANGED <<buffer, directive>>
     /\ UNCHANGED <<wires, client, outq, send_sequence, sealed, writing, reader, writer, started,
                    parent, pushes, refused>>

(* The last arm: a producer's message, when no frame waits. *)
HandlePush ==
  /\ actor = "select" /\ ~parent /\ ~cancelled /\ inbox = <<>> /\ outq # <<>>
  /\ handle_push(Head(outq), CONTINUE)
  /\ outq' = Tail(outq)
  /\ UNCHANGED <<wires, client, inbox, running, keys, sealed, writing, reader, writer, started,
                 parent, pushes, refused>>

-----------------------------------------------------------------------------
(* Producers.  try_send on a full or closed queue is an error, which none of  *)
(* them turns into an eviction: the message is gone.  Once the actor has      *)
(* stopped every push fails, and is left out.                                 *)

(* push_later: a spawned action finishes. *)
ActionDone(i) ==
  /\ actor # "stopped" /\ i \in running
  /\ running' = running \ {i}
  /\ outq' = IF SinkOpen THEN Append(outq, command_result(i)) ELSE outq
  /\ UNCHANGED <<wires, client, inbox, buffer, keys, sealed, writing, tasks, started, directive,
                 parent, pushes, refused>>

(* broadcast, the topology forwarder, watches and feeds. *)
Produce(m) ==
  /\ actor # "stopped" /\ pushes < MaxPushes
  /\ pushes' = pushes + 1
  /\ outq' = IF SinkOpen THEN Append(outq, Stamped(m, pushes + 1)) ELSE outq
  /\ UNCHANGED <<wires, client, inbox, running, buffer, keys, sealed, writing, tasks, started,
                 directive, parent, refused>>

(* close_credential_revoked from the registry, or the relay's shutdown. *)
Kill ==
  /\ actor # "stopped"
  /\ \/ ~cancelled /\ fire("CredentialRevoked") /\ UNCHANGED parent
     \/ ~parent /\ parent' = TRUE /\ UNCHANGED directive
  /\ UNCHANGED <<wires, client, inbox, outq, running, buffer, keys, sealed, writing, tasks,
                 started, pushes, refused>>

-----------------------------------------------------------------------------
(* writer_pump *)

WriterTake ==
  /\ writer = "running" /\ writing = <<>> /\ ~cancelled /\ sealed # <<>>
  /\ writing' = <<Head(sealed)>>
  /\ sealed' = Tail(sealed)
  /\ UNCHANGED <<wires, client, inbox, outq, running, buffer, keys, tasks, started, directive,
                 parent, pushes, refused>>

WriteDone ==
  /\ writer = "running" /\ writing # <<>> /\ Len(s2c) < WireCapacity
  /\ s2c' = Append(s2c, writing[1])
  /\ writing' = <<>>
  /\ UNCHANGED <<c2s, client, inbox, outq, running, buffer, keys, sealed, tasks, started,
                 directive, parent, pushes, refused>>

(* Mutant: only an error ends a write, never its duration. *)
may_fail_unbounded == Len(s2c) < WireCapacity

(* A write may fail, and lasts at most SEND_TIMEOUT. *)
may_fail == TRUE

WriteFails ==
  /\ writer = "running" /\ writing # <<>> /\ may_fail
  /\ fire("TransportFailed") /\ writer' = "closed"
  /\ UNCHANGED <<wires, client, inbox, outq, running, buffer, keys, sealed, writing, actor, reader,
                 started, parent, pushes, refused>>

WriterExit ==
  /\ writer = "running" /\ writing = <<>> /\ cancelled
  /\ writer' = "closed"
  /\ UNCHANGED <<wires, client, inbox, outq, running, buffer, keys, sealed, writing, actor, reader,
                 started, directive, parent, pushes, refused>>

-----------------------------------------------------------------------------
(* serve_session: the registration and the queues come before the tasks. *)
Init ==
  /\ c2s = <<>> /\ s2c = <<>> /\ peer = "open" /\ sent = 0 /\ received = <<>>
  /\ inbox = <<>> /\ outq = <<>> /\ running = {}
  /\ buffer = EmptyBuffer /\ receive_sequence = 0 /\ send_sequence = 0
  /\ sealed = <<>> /\ writing = <<>>
  /\ actor = (IF Snapshot = <<>> THEN CONTINUE ELSE "start") /\ started = 0
  /\ reader = "running" /\ writer = "running" /\ directive = "none"
  /\ parent = FALSE /\ pushes = 0 /\ refused = {}

Client == (\E kind \in Requests : ClientSend(kind)) \/ ClientOpen \/ ClientClose
Reader == ReadFrame \/ ReadEnd \/ ReaderExit
Actor == EnqueueSnapshot \/ drain \/ Shutdown \/ handle_frame \/ HandlePush
Producers == (\E i \in running : ActionDone(i)) \/ \E m \in Broadcasts : Produce(m)
Writer == WriterTake \/ WriteDone \/ WriteFails \/ WriterExit

Next == Client \/ Reader \/ Actor \/ Producers \/ Kill \/ Writer

(* The runtime keeps scheduling the three tasks: the pumps' frames and exits,  *)
(* the actor's steps.  Transport failures, producers and the client owe        *)
(* nothing; a write that the client does not drain ends by its timeout.        *)
Fairness ==
  /\ WF_vars(Actor)
  /\ WF_vars(ReadFrame \/ ReaderExit)
  /\ WF_vars(Writer)

Spec == Init /\ [][Next]_vars

FairSpec == Spec /\ Fairness

-----------------------------------------------------------------------------
(* Properties *)

Causes ==
  {"none", "InboundLag", "TransportFailed", "PeerClosed", "SendBufferFull", "WriterLag",
   "Shutdown", "DecryptFailed", "MalformedMessage", "CredentialRevoked"}

(* Types, and every queue within its capacity. *)
TypeOK ==
  /\ c2s \in Seq(Frame) /\ inbox \in Seq(Frame)
  /\ s2c \in Seq(Sealed) /\ sealed \in Seq(Sealed) /\ writing \in Seq(Sealed)
  /\ outq \in Seq(Message) /\ received \in Seq(Message)
  /\ buffer.items \in Seq(Message) /\ buffer.bytes \in 0 .. MaxBytes
  /\ Len(inbox) <= InboundCapacity /\ Len(outq) <= OutboundCapacity
  /\ Len(buffer.items) <= MaxItems /\ Len(sealed) <= MaxItems /\ Len(writing) <= 1
  /\ peer \in {"open", "closed"} /\ sent \in Nat /\ running \subseteq Nat
  /\ receive_sequence \in Nat /\ send_sequence \in Nat
  /\ actor \in {"start", "select", "drain", "stopped"} /\ started \in 0 .. Len(Snapshot)
  /\ reader \in {"running", "exited"} /\ writer \in {"running", "closed"}
  /\ directive \in Causes /\ parent \in BOOLEAN /\ pushes \in Nat /\ refused \subseteq Nat

(* Sealed frames the client has not opened, oldest first. *)
Way == s2c \o writing \o sealed

(* Messages enqueued and not opened. *)
Unopened == [k \in 1 .. Len(Way) |-> Way[k].msg] \o buffer.items

(* The client can open everything that is on its way, whatever was evicted,    *)
(* timed out or dropped before: the sequence numbers of received, s2c, writing *)
(* and sealed follow each other (seal runs in the actor, one writer, and a     *)
(* frame that finds no room ends the session).                                 *)
ClientInSync ==
  \A k \in 1 .. Len(Way) : Way[k].seq = Len(received) + k - 1

(* A client that numbers its frames correctly is evicted for an encrypted      *)
(* frame only after one of its frames was refused with busy.                   *)
DecryptFailsOnlyAfterBusy == directive = "DecryptFailed" => refused # {}

(* What the actor hands to the writer is a ClientFeed: in order, complete up   *)
(* to replacement, and lost only together with the session.                    *)
Feed == INSTANCE ClientFeed WITH
  Messages <- Message,
  pending <- Unopened,
  delivered <- received,
  open <- actor # "stopped"

FeedImplemented == Feed!Spec

(* A request the actor answers itself settles: its result or a busy answer is  *)
(* on the wire, or the session has ended.                                      *)
OnWire(kinds, i) ==
  \/ \E k \in 1 .. Len(received) : received[k].kind \in kinds /\ received[k].id = i
  \/ \E k \in 1 .. Len(s2c) : s2c[k].msg.kind \in kinds /\ s2c[k].msg.id = i
Ended == actor = "stopped" /\ reader = "exited" /\ writer = "closed"
LocalRequestSettles ==
  \A i \in 0 .. MaxRequests - 1 :
    (\E k \in 1 .. Len(inbox) : inbox[k].seq = i /\ inbox[k].kind = "local")
      ~> (OnWire({"command_result"}, i) \/ Ended)

(* A frame that was refused is answered. *)
BusyIsAnswered ==
  \A i \in 0 .. MaxRequests - 1 : (i \in refused) ~> (OnWire({"busy"}, i) \/ Ended)

(* Whoever fires the switch, all three tasks end, also with a client that has  *)
(* stopped reading: serve_session joins them.                                  *)
TeardownCompletes == cancelled ~> Ended

(* Refuted: ingress overflow is not an eviction (sendbuffer.md, section 7).    *)
BusyIsNotEviction == directive # "DecryptFailed"

(* Refuted: a burst of one replaceable kind coalesces in the send buffer       *)
(* instead of queueing behind a slow writer.                                   *)
BurstCoalesces ==
  \A k \in 1 .. Len(sealed) - 1 :
    sealed[k].msg.kind \in Replaceable => sealed[k + 1].msg.kind # sealed[k].msg.kind
=============================================================================
