------------------------------ MODULE SendBuffer ------------------------------
(***************************************************************************)
(* The per-client outbound buffer (lerdr-core/src/sendbuffer.rs) as        *)
(* operators on a buffer value.  It is bounded in items and in bytes; an   *)
(* overflow is rejected and leaves the queue as it was; a replaceable      *)
(* message takes the place of a tail of its own kind.                      *)
(*                                                                         *)
(* A message is a record with at least `kind' and `size'.                  *)
(***************************************************************************)
EXTENDS Naturals, Sequences

CONSTANTS
  Kinds,        \* message types
  Replaceable,  \* REPLACEABLE_TYPES
  MaxItems,     \* DEFAULT_MAX_ITEMS
  MaxBytes      \* DEFAULT_MAX_BYTES

ASSUME KindsAssumption == Replaceable \subseteq Kinds

ASSUME CapacityAssumption == MaxItems \in Nat \ {0} /\ MaxBytes \in Nat

is_replaceable(kind) == kind \in Replaceable

EmptyBuffer == [items |-> <<>>, bytes |-> 0]

Tail_(b) == b.items[Len(b.items)]

(* Whether the message merges with the tail. *)
Coalesces(b, m) ==
  /\ is_replaceable(m.kind) /\ b.items # <<>>
  /\ is_replaceable(Tail_(b).kind) /\ Tail_(b).kind = m.kind

Verdict(b, result) == [buffer |-> b, result |-> result]

(* push_typed: the merge is tried first, then the item cap, then the byte cap. *)
push_typed(b, m) ==
  LET merged == b.bytes - Tail_(b).size + m.size
  IN CASE Coalesces(b, m) /\ merged > MaxBytes -> Verdict(b, "CoalesceByteLimit")
       [] Coalesces(b, m) /\ merged <= MaxBytes ->
            Verdict([items |-> [b.items EXCEPT ![Len(b.items)] = m], bytes |-> merged], "Coalesced")
       [] ~Coalesces(b, m) /\ Len(b.items) >= MaxItems -> Verdict(b, "ItemLimit")
       [] ~Coalesces(b, m) /\ Len(b.items) < MaxItems /\ b.bytes + m.size > MaxBytes ->
            Verdict(b, "ByteLimit")
       [] OTHER ->
            Verdict([items |-> Append(b.items, m), bytes |-> b.bytes + m.size], "Queued")

Admitted(v) == v.result \in {"Queued", "Coalesced"}

(* pop: what is left after the front item. *)
pop(b) == [items |-> Tail(b.items), bytes |-> b.bytes - Head(b.items).size]
=============================================================================
