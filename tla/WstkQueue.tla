------------------------------ MODULE WstkQueue ------------------------------
(***************************************************************************)
(* wstk_queue_t (wstk-queue.c): an array of Size+1 pointers, a write index *)
(* `in' and a read index `out'.  The array is not a ring: both indices go  *)
(* back to 0 together, and only then does the space before `out' become    *)
(* usable again.                                                           *)
(*                                                                         *)
(* Every operation runs under queue->mutex, so each one is a single step   *)
(* here.  The destructor takes no part in that locking protocol (it frees  *)
(* the mutex): that nobody calls it while another operation is in flight   *)
(* is the owner's business, and is modelled with the owner (WstkWorker).   *)
(***************************************************************************)
EXTENDS Naturals, Sequences, FiniteSets

CONSTANTS Items,   \* the pointers callers push
          NULL,    \* the null pointer
          Size     \* queue->size

ASSUME QueueAssumption ==
  /\ Size \in Nat \ {0}
  /\ NULL \notin Items

VARIABLES data,          \* queue->data
          in,            \* queue->in
          out,           \* queue->out
          fl_destroyed,  \* no queue: not created yet, or destroyed
          ret            \* the last operation and what it gave its caller

store == <<data, in, out>>
vars == <<data, in, out, fl_destroyed, ret>>

Slots == 0..Size
Zeroed == [i \in Slots |-> NULL]

Outcome(op, status, val) == [op |-> op, status |-> status, val |-> val]

Init ==
  /\ data = Zeroed
  /\ in = 0
  /\ out = 0
  /\ fl_destroyed = TRUE
  /\ ret = Outcome("none", "SUCCESS", NULL)

(***************************************************************************)
(* The effect of an operation on the array and the indices.                *)
(***************************************************************************)
Write(d) ==
  /\ data' = [data EXCEPT ![in] = d]
  /\ in' = in + 1
  /\ out' = out

Clear == data' = [data EXCEPT ![out] = NULL]
Rewind == in' = 0 /\ out' = 0
Advance == in' = in /\ out' = out + 1

PushSlot(d) == in < Size /\ Write(d)

(* Mutated forms, for the runs that show what each property excludes. *)
PopSlotKept == in > 0 /\ UNCHANGED data /\ (IF out + 1 > in \/ out + 1 >= Size THEN Rewind ELSE Advance)
PopSlotSwapped == in > 0 /\ Clear /\ (IF out + 1 > in \/ in >= Size THEN Rewind ELSE Advance)
PopSlotInKept == in > 0 /\ Clear /\ in' = in /\ out' = (IF out + 1 > in \/ out + 1 >= Size THEN 0 ELSE out + 1)

PopSlot ==
  /\ in > 0
  /\ Clear
  /\ IF out + 1 > in \/ out + 1 >= Size THEN Rewind ELSE Advance

(* How often the destructor's loop, over slots 0..in when in > 0, releases  *)
(* each item.                                                               *)
Released ==
  [d \in Items |-> IF in = 0 THEN 0 ELSE Cardinality({i \in 0..in : data[i] = d})]

(* What the three queries answer. *)
wstk_queue_len == in
wstk_queue_is_empty == in = 0
wstk_queue_is_full == in >= Size

-----------------------------------------------------------------------------
wstk_queue_create ==
  /\ fl_destroyed
  /\ fl_destroyed' = FALSE
  /\ data' = Zeroed
  /\ in' = 0
  /\ out' = 0
  /\ ret' = Outcome("create", "SUCCESS", NULL)

wstk_queue_push(d) ==
  /\ ~fl_destroyed
  /\ \/ /\ PushSlot(d)
        /\ ret' = Outcome("push", "SUCCESS", d)
     \/ /\ in >= Size
        /\ ret' = Outcome("push", "NOSPACE", NULL)
        /\ UNCHANGED store
  /\ UNCHANGED fl_destroyed

wstk_queue_pop ==
  /\ ~fl_destroyed
  /\ \/ /\ PopSlot
        /\ ret' = Outcome("pop", "SUCCESS", data[out])
     \/ /\ in = 0
        /\ ret' = Outcome("pop", "NODATA", NULL)
        /\ UNCHANGED store
  /\ UNCHANGED fl_destroyed

destructor ==
  /\ ~fl_destroyed
  /\ fl_destroyed' = TRUE
  /\ ret' = Outcome("destroy", "SUCCESS", Released)
  /\ data' = Zeroed
  /\ in' = 0
  /\ out' = 0

Next ==
  \/ wstk_queue_create
  \/ \E d \in Items : wstk_queue_push(d)
  \/ wstk_queue_pop
  \/ destructor

Spec == Init /\ [][Next]_vars

(* Consumers that keep coming back, as a worker's sub-threads do while they *)
(* live (wstk-worker.c:254); nothing obliges anybody to push or destroy.    *)
FairSpec == Spec /\ WF_vars(wstk_queue_pop)

-----------------------------------------------------------------------------
(* The items still to be delivered, oldest first: the slots out..in-1. *)
Pending == [i \in 1..(IF in >= out THEN in - out ELSE 0) |-> data[out + i - 1]]

Abstract == INSTANCE BoundedFifo
              WITH items <- Pending, live <- ~fl_destroyed

(* The queue is a first-in first-out buffer: no reset of the indices, and   *)
(* no pop of an empty slot, loses, repeats or reorders an item, and the     *)
(* destructor releases exactly the items nobody popped (wstk-queue.c:33).   *)
FifoSpec == Abstract!Spec

StoreTypeOK ==
  /\ data \in [Slots -> Items \cup {NULL}]
  /\ in \in 0..Size
  /\ out \in 0..Size

TypeOK ==
  /\ StoreTypeOK
  /\ fl_destroyed \in BOOLEAN
  /\ ret.op \in {"none", "create", "push", "pop", "destroy"}
  /\ ret.status \in {"SUCCESS", "NOSPACE", "NODATA"}

(* The occupied slots are exactly out..in-1: the read index never overtakes *)
(* the write index, stays inside the array, and no popped pointer is left   *)
(* behind for the destructor to release a second time (wstk-queue.c:191).   *)
SlotsInv ==
  /\ out <= in
  /\ out < Size
  /\ \A i \in Slots : data[i] # NULL <=> out <= i /\ i < in

(* A pop may succeed and hand out NULL, but only from a queue with nothing  *)
(* in it, and it leaves the queue reset: a caller draining the queue in a   *)
(* loop (wstk-worker.c:254) sees at most one such NULL before NODATA.       *)
NullPopResets ==
  [][(ret' = Outcome("pop", "SUCCESS", NULL) /\ wstk_queue_pop)
        => Pending = <<>> /\ wstk_queue_is_empty']_vars

(* A queue that refuses insertions accepts them again once its consumers    *)
(* have caught up: the space in front of `out' is always recovered.         *)
SpaceComesBack == wstk_queue_is_full ~> ~wstk_queue_is_full
=============================================================================
