---------------------------- MODULE WstkQueueProofs ----------------------------
(***************************************************************************)
(* Theorems about WstkQueue for every capacity and every set of items: the *)
(* occupied slots are out..in-1 at all times, a pop that hands out NULL    *)
(* resets the queue, and the queue implements BoundedFifo.                 *)
(***************************************************************************)
EXTENDS WstkQueue, SequenceTheorems, FiniteSetTheorems, TLAPS

(* TypeOK and SlotsInv together are inductive: the type bounds the index    *)
(* at which SlotsInv is then updated, and SlotsInv keeps `out' inside the   *)
(* array.                                                                   *)
IInv == TypeOK /\ SlotsInv

LEMMA InitIInv == Init => IInv
<1> SUFFICES ASSUME Init PROVE IInv
  OBVIOUS
<1>1. TypeOK
  BY QueueAssumption DEF Init, TypeOK, StoreTypeOK, Zeroed, Slots, Outcome
<1>2. SlotsInv
  BY QueueAssumption DEF Init, SlotsInv, Zeroed, Slots
<1> QED
  BY <1>1, <1>2 DEF IInv

(* An insertion fills the slot after the last occupied one. *)
LEMMA PushSlotIInv ==
  ASSUME StoreTypeOK, SlotsInv, NEW d \in Items, PushSlot(d)
  PROVE  StoreTypeOK' /\ SlotsInv'
<1> USE DEF StoreTypeOK, Slots
<1>1. in \in 0..Size /\ in + 1 \in 0..Size
  BY QueueAssumption DEF PushSlot
<1>2. StoreTypeOK'
  BY <1>1, QueueAssumption DEF PushSlot, Write
<1>3. out' <= in' /\ out' < Size
  BY <1>1, QueueAssumption DEF PushSlot, Write, SlotsInv
<1>4. ASSUME NEW i \in Slots
      PROVE  data'[i] # NULL <=> out' <= i /\ i < in'
  BY <1>1, QueueAssumption DEF PushSlot, Write, SlotsInv
<1> QED
  BY <1>2, <1>3, <1>4 DEF SlotsInv

(* A removal empties the first occupied slot, or finds none and resets. *)
LEMMA PopSlotIInv ==
  ASSUME StoreTypeOK, SlotsInv, PopSlot
  PROVE  StoreTypeOK' /\ SlotsInv'
<1> USE DEF StoreTypeOK, Slots
<1>1. out \in 0..Size /\ in \in 0..Size /\ out < Size /\ out <= in
  BY DEF SlotsInv
<1>2. CASE out + 1 > in \/ out + 1 >= Size
  <2>1. \A i \in Slots : data'[i] = NULL
    BY <1>1, <1>2, QueueAssumption DEF PopSlot, Clear, SlotsInv
  <2>2. StoreTypeOK'
    BY <1>1, <1>2, QueueAssumption DEF PopSlot, Clear, Rewind
  <2> QED
    BY <1>2, <2>1, <2>2, QueueAssumption DEF PopSlot, Rewind, SlotsInv
<1>3. CASE ~(out + 1 > in \/ out + 1 >= Size)
  <2>1. StoreTypeOK'
    BY <1>1, <1>3, QueueAssumption DEF PopSlot, Clear, Advance
  <2>2. out' <= in' /\ out' < Size
    BY <1>1, <1>3, QueueAssumption DEF PopSlot, Advance
  <2>3. ASSUME NEW i \in Slots
        PROVE  data'[i] # NULL <=> out' <= i /\ i < in'
    BY <1>1, <1>3, QueueAssumption DEF PopSlot, Clear, Advance, SlotsInv
  <2> QED
    BY <2>1, <2>2, <2>3 DEF SlotsInv
<1> QED
  BY <1>2, <1>3

LEMMA EmptyIInv ==
  ASSUME data' = Zeroed, in' = 0, out' = 0
  PROVE  StoreTypeOK' /\ SlotsInv'
BY QueueAssumption DEF StoreTypeOK, SlotsInv, Zeroed, Slots

LEMMA NextIInv == IInv /\ [Next]_vars => IInv'
<1> SUFFICES ASSUME IInv, [Next]_vars PROVE IInv'
  OBVIOUS
<1> USE DEF IInv
<1>1. StoreTypeOK /\ SlotsInv
  BY DEF TypeOK
<1>2. StoreTypeOK' /\ SlotsInv'
  <2>1. CASE wstk_queue_create
    BY <2>1, EmptyIInv DEF wstk_queue_create
  <2>2. ASSUME NEW d \in Items, wstk_queue_push(d)
        PROVE  StoreTypeOK' /\ SlotsInv'
    <3>1. CASE PushSlot(d)
      BY <1>1, <3>1, PushSlotIInv
    <3>2. CASE UNCHANGED store
      BY <1>1, <3>2 DEF store, StoreTypeOK, SlotsInv
    <3> QED
      BY <2>2, <3>1, <3>2 DEF wstk_queue_push
  <2>3. CASE wstk_queue_pop
    <3>1. CASE PopSlot
      BY <1>1, <3>1, PopSlotIInv
    <3>2. CASE UNCHANGED store
      BY <1>1, <3>2 DEF store, StoreTypeOK, SlotsInv
    <3> QED
      BY <2>3, <3>1, <3>2 DEF wstk_queue_pop
  <2>4. CASE destructor
    BY <2>4, EmptyIInv DEF destructor
  <2>5. CASE UNCHANGED vars
    BY <1>1, <2>5 DEF vars, StoreTypeOK, SlotsInv
  <2> QED
    BY <2>1, <2>2, <2>3, <2>4, <2>5 DEF Next
<1>3. fl_destroyed' \in BOOLEAN
  BY DEF TypeOK, Next, vars, wstk_queue_create, wstk_queue_push, wstk_queue_pop, destructor
<1>4. /\ ret'.op \in {"none", "create", "push", "pop", "destroy"}
      /\ ret'.status \in {"SUCCESS", "NOSPACE", "NODATA"}
  BY DEF TypeOK, Next, vars, wstk_queue_create, wstk_queue_push, wstk_queue_pop, destructor,
         Outcome
<1> QED
  BY <1>2, <1>3, <1>4 DEF TypeOK

LEMMA AlwaysIInv == Spec => []IInv
BY InitIInv, NextIInv, PTL DEF Spec

(* Every field of wstk_queue_t stays within its range: no operation writes  *)
(* or reads outside the array of size + 1 pointers.                         *)
THEOREM QueueTypeOK == Spec => []TypeOK
BY AlwaysIInv, PTL DEF IInv

(* The occupied slots are out..in-1, whatever the sequence of operations.   *)
THEOREM QueueSlots == Spec => []SlotsInv
BY AlwaysIInv, PTL DEF IInv

-----------------------------------------------------------------------------
(* What Pending is, for any array, once its indices are in order. *)
Segment(d, lo, hi) == [i \in 1..(IF hi >= lo THEN hi - lo ELSE 0) |-> d[lo + i - 1]]

LEMMA SegmentIsSeq ==
  ASSUME NEW d \in [Slots -> Items \cup {NULL}], NEW lo \in 0..Size, NEW hi \in 0..Size,
         lo <= hi, \A i \in Slots : d[i] # NULL <=> lo <= i /\ i < hi
  PROVE  /\ Segment(d, lo, hi) \in Seq(Items)
         /\ Len(Segment(d, lo, hi)) = hi - lo
         /\ \A i \in 1..(hi - lo) : Segment(d, lo, hi)[i] = d[lo + i - 1]
<1> DEFINE n == hi - lo
<1>1. n \in Nat /\ hi \in Nat /\ lo \in Nat /\ hi <= Size
  BY QueueAssumption
<1>2. Segment(d, lo, hi) = [i \in 1..n |-> d[lo + i - 1]]
  BY <1>1 DEF Segment
<1>3. ASSUME NEW i \in 1..n
      PROVE  d[lo + i - 1] \in Items
  <2>1. lo + i - 1 \in Slots /\ lo <= lo + i - 1 /\ lo + i - 1 < hi
    BY <1>1, <1>3, QueueAssumption DEF Slots
  <2> QED
    BY <2>1
<1>4. Segment(d, lo, hi) \in [1..n -> Items]
  BY <1>2, <1>3
<1>5. Segment(d, lo, hi) \in Seq(Items)
  BY <1>1, <1>4, SeqDef
<1>6. Len(Segment(d, lo, hi)) = n
  BY <1>1, <1>4, <1>5, LenProperties
<1> QED
  BY <1>2, <1>5, <1>6

LEMMA PendingLen ==
  ASSUME StoreTypeOK, SlotsInv
  PROVE  /\ Pending \in Seq(Items)
         /\ Len(Pending) = in - out
         /\ \A i \in 1..(in - out) : Pending[i] = data[out + i - 1]
<1>1. Pending = Segment(data, out, in)
  BY DEF Pending, Segment
<1> QED
  BY <1>1, SegmentIsSeq DEF StoreTypeOK, SlotsInv

LEMMA PendingLenPrime ==
  ASSUME StoreTypeOK', SlotsInv'
  PROVE  /\ Pending' \in Seq(Items)
         /\ Len(Pending') = in' - out'
         /\ \A i \in 1..(in' - out') : Pending'[i] = data'[out' + i - 1]
<1>1. Pending' = Segment(data', out', in')
  BY DEF Pending, Segment
<1> QED
  BY <1>1, SegmentIsSeq DEF StoreTypeOK, SlotsInv, Slots

(* A pop that gives NULL found nothing pending and leaves the queue reset.  *)
THEOREM QueueNullPop == Spec => NullPopResets
<1>1. ASSUME IInv, wstk_queue_pop, ret' = Outcome("pop", "SUCCESS", NULL)
      PROVE  Pending = <<>> /\ wstk_queue_is_empty'
  <2>1. StoreTypeOK /\ SlotsInv
    BY <1>1 DEF IInv, TypeOK
  <2>2. PopSlot /\ data[out] = NULL
    BY <1>1 DEF wstk_queue_pop, Outcome
  <2>3. in \in Nat /\ out \in Nat /\ out \in Slots /\ in <= out
    BY <2>1, <2>2, QueueAssumption DEF StoreTypeOK, SlotsInv, Slots
  <2>4. in = out
    BY <2>1, <2>3 DEF SlotsInv
  <2>5. Pending = <<>>
    BY <2>1, <2>3, <2>4, PendingLen, EmptySeq
  <2>6. in' = 0
    BY <2>2, <2>3, <2>4 DEF PopSlot, Rewind
  <2> QED
    BY <2>5, <2>6 DEF wstk_queue_is_empty
<1>2. IInv => ((ret' = Outcome("pop", "SUCCESS", NULL) /\ wstk_queue_pop)
                 => Pending = <<>> /\ wstk_queue_is_empty')
  BY <1>1
<1> QED
  BY <1>2, AlwaysIInv, PTL DEF Spec, NullPopResets

-----------------------------------------------------------------------------
(***************************************************************************)
(* The steps of the queue are steps of BoundedFifo.                        *)
(***************************************************************************)
LEMMA PushAppends ==
  ASSUME StoreTypeOK, SlotsInv, StoreTypeOK', SlotsInv', NEW d \in Items, PushSlot(d)
  PROVE  Len(Pending) < Size /\ Pending' = Append(Pending, d)
<1>1. /\ Pending \in Seq(Items) /\ Len(Pending) = in - out
      /\ \A i \in 1..(in - out) : Pending[i] = data[out + i - 1]
  BY PendingLen
<1>2. /\ Pending' \in Seq(Items) /\ Len(Pending') = in' - out'
      /\ \A i \in 1..(in' - out') : Pending'[i] = data'[out' + i - 1]
  BY PendingLenPrime
<1>3. /\ in \in Nat /\ out \in Nat /\ out <= in /\ in < Size /\ in \in Slots
      /\ in' = in + 1 /\ out' = out /\ data' = [data EXCEPT ![in] = d]
  BY QueueAssumption DEF StoreTypeOK, SlotsInv, PushSlot, Write, Slots
<1>4. /\ Append(Pending, d) \in Seq(Items) /\ Len(Append(Pending, d)) = in - out + 1
      /\ \A i \in 1..(in - out) : Append(Pending, d)[i] = Pending[i]
      /\ Append(Pending, d)[in - out + 1] = d
  BY <1>1, <1>3
<1>5. ASSUME NEW i \in 1..Len(Pending')
      PROVE  Pending'[i] = Append(Pending, d)[i]
  <2>1. i \in 1..(in - out + 1) /\ Pending'[i] = data'[out + i - 1]
    BY <1>2, <1>3, <1>5
  <2>2. CASE i = in - out + 1
    BY <1>3, <1>4, <2>1, <2>2 DEF StoreTypeOK
  <2>3. CASE i # in - out + 1
    <3>1. i \in 1..(in - out) /\ out + i - 1 # in /\ out + i - 1 \in Slots
      BY <1>3, <2>1, <2>3, QueueAssumption DEF Slots
    <3> QED
      BY <1>1, <1>3, <1>4, <2>1, <3>1 DEF StoreTypeOK
  <2> QED
    BY <2>2, <2>3
<1>6. Len(Pending') = Len(Append(Pending, d))
  BY <1>2, <1>3, <1>4
<1>7. Pending' = Append(Pending, d)
  BY <1>2, <1>4, <1>5, <1>6, SeqEqual
<1>8. Len(Pending) < Size
  BY <1>1, <1>3, QueueAssumption
<1> QED
  BY <1>7, <1>8

LEMMA PopRemovesFirst ==
  ASSUME StoreTypeOK, SlotsInv, StoreTypeOK', SlotsInv', PopSlot, in # out
  PROVE  /\ Pending # <<>>
         /\ data[out] = Head(Pending)
         /\ Pending' = Tail(Pending)
<1>1. /\ Pending \in Seq(Items) /\ Len(Pending) = in - out
      /\ \A i \in 1..(in - out) : Pending[i] = data[out + i - 1]
  BY PendingLen
<1>2. /\ Pending' \in Seq(Items) /\ Len(Pending') = in' - out'
      /\ \A i \in 1..(in' - out') : Pending'[i] = data'[out' + i - 1]
  BY PendingLenPrime
<1>3. /\ in \in Nat /\ out \in Nat /\ out < in /\ in <= Size /\ out < Size /\ out \in Slots
      /\ data' = [data EXCEPT ![out] = NULL]
  BY QueueAssumption DEF StoreTypeOK, SlotsInv, PopSlot, Clear, Slots
<1>4. Pending # <<>> /\ Pending[1] = data[out]
  BY <1>1, <1>3, EmptySeq
<1>5. data[out] = Head(Pending)
  BY <1>1, <1>4
<1>6. /\ Tail(Pending) \in Seq(Items) /\ Len(Tail(Pending)) = in - out - 1
      /\ \A i \in 1..(in - out - 1) : Tail(Pending)[i] = Pending[i + 1]
  BY <1>1, <1>4, HeadTailProperties
<1>7. in' - out' = in - out - 1
  BY <1>3, QueueAssumption DEF PopSlot, Rewind, Advance
<1>8. ASSUME NEW i \in 1..Len(Pending')
      PROVE  Pending'[i] = Tail(Pending)[i]
  <2>1. i \in 1..(in - out - 1) /\ i + 1 \in 1..(in - out)
    BY <1>2, <1>3, <1>7, <1>8
  <2>2. in' # 0 /\ in' = in /\ out' = out + 1
    BY <1>3, <1>7, <2>1 DEF PopSlot, Rewind, Advance
  <2>3. out + i \in Slots /\ out + i # out
    BY <1>3, <2>1, QueueAssumption DEF Slots
  <2>4. Pending'[i] = data[out + i]
    BY <1>2, <1>3, <1>7, <2>1, <2>2, <2>3 DEF StoreTypeOK
  <2>5. Tail(Pending)[i] = data[out + i]
    BY <1>1, <1>3, <1>6, <2>1
  <2> QED
    BY <2>4, <2>5
<1>9. Pending' = Tail(Pending)
  BY <1>2, <1>6, <1>7, <1>8, SeqEqual
<1> QED
  BY <1>4, <1>5, <1>9

LEMMA EmptyPending ==
  ASSUME StoreTypeOK, SlotsInv
  PROVE  in = out <=> Pending = <<>>
BY PendingLen, EmptySeq, QueueAssumption DEF StoreTypeOK

(* The destructor's loop releases each item as often as it is pending: slot *)
(* out + k - 1 holds the k-th pending item, and the other slots are empty.  *)
LEMMA ReleasedIsContent ==
  ASSUME StoreTypeOK, SlotsInv
  PROVE  Released = Abstract!Content
<1>1. /\ Pending \in Seq(Items) /\ Len(Pending) = in - out
      /\ \A i \in 1..(in - out) : Pending[i] = data[out + i - 1]
  BY PendingLen
<1>2. in \in Nat /\ out \in Nat /\ out <= in /\ in <= Size
  BY QueueAssumption DEF StoreTypeOK, SlotsInv
<1>3. ASSUME NEW d \in Items
      PROVE  (IF in = 0 THEN 0 ELSE Cardinality({i \in 0..in : data[i] = d}))
               = Cardinality({i \in 1..Len(Pending) : Pending[i] = d})
  <2> DEFINE P == {i \in 1..(in - out) : Pending[i] = d}
             S == {i \in 0..in : data[i] = d}
             f == [i \in P |-> out + i - 1]
  <2>1. IsFiniteSet(P)
    BY <1>2, FS_Interval, FS_Subset
  <2>2. ASSUME NEW i \in S
        PROVE  i + 1 - out \in P /\ out + (i + 1 - out) - 1 = i
    <3>1. i \in Slots /\ i \in Nat /\ data[i] # NULL
      BY <1>2, <1>3, <2>2, QueueAssumption DEF Slots
    <3>2. out <= i /\ i < in
      BY <3>1 DEF SlotsInv
    <3>3. i + 1 - out \in 1..(in - out) /\ out + (i + 1 - out) - 1 = i
      BY <1>2, <3>1, <3>2
    <3> QED
      BY <1>1, <2>2, <3>3
  <2>3. ASSUME NEW i \in P
        PROVE  f[i] \in S /\ i \in Nat
    BY <1>1, <1>2, <2>3
  <2>4. f \in Bijection(P, S)
    <3>1. f \in [P -> S]
      BY <2>3
    <3>2. \A a, b \in P : f[a] = f[b] => a = b
      BY <1>2, <2>3
    <3>3. \A i \in S : \E a \in P : f[a] = i
      BY <2>2
    <3> QED
      BY <3>1, <3>2, <3>3 DEF Bijection, Injection, IsInjective, Surjection
  <2>5. Cardinality(S) = Cardinality(P)
    BY <2>1, <2>4, FS_Bijection DEF ExistsBijection
  <2>6. CASE in = 0
    <3>1. P = {}
      BY <1>2, <2>6
    <3> QED
      BY <1>1, <2>6, <3>1, FS_EmptySet
  <2> QED
    BY <1>1, <2>5, <2>6
<1>4. \A T : Abstract!Cardinality(T) = Cardinality(T)
  BY DEF Abstract!Cardinality, Cardinality
<1> QED
  BY <1>3, <1>4 DEF Released, Abstract!Content

LEMMA PendingZeroed ==
  ASSUME data' = Zeroed, in' = 0, out' = 0
  PROVE  Pending' = <<>>
<1>1. StoreTypeOK' /\ SlotsInv'
  BY EmptyIInv
<1> QED
  BY <1>1, PendingLenPrime, EmptySeq

LEMMA InitRefines == Init => Abstract!Init
<1> SUFFICES ASSUME Init PROVE Abstract!Init
  OBVIOUS
<1>1. StoreTypeOK /\ SlotsInv
  BY InitIInv DEF IInv, TypeOK
<1>2. Pending = <<>>
  BY <1>1, EmptyPending DEF Init
<1> QED
  BY <1>2 DEF Init, Abstract!Init, Outcome, Abstract!Outcome

LEMMA NextRefines == IInv /\ IInv' /\ [Next]_vars => [Abstract!Next]_Abstract!vars
<1> SUFFICES ASSUME IInv, IInv', [Next]_vars
             PROVE  [Abstract!Next]_Abstract!vars
  OBVIOUS
<1> USE DEF Outcome, Abstract!Outcome
<1>1. StoreTypeOK /\ SlotsInv /\ StoreTypeOK' /\ SlotsInv' /\ fl_destroyed \in BOOLEAN
  BY DEF IInv, TypeOK
<1>2. CASE wstk_queue_create
  <2>1. Pending' = <<>>
    BY <1>2, PendingZeroed DEF wstk_queue_create
  <2>2. Abstract!Create
    BY <1>2, <2>1 DEF wstk_queue_create, Abstract!Create
  <2> QED
    BY <2>2 DEF Abstract!Next
<1>3. ASSUME NEW d \in Items, wstk_queue_push(d)
      PROVE  Abstract!Next
  <2>1. CASE PushSlot(d) /\ ret' = Outcome("push", "SUCCESS", d)
    <3>1. Len(Pending) < Size /\ Pending' = Append(Pending, d)
      BY <1>1, <2>1, PushAppends
    <3>2. Abstract!Insert(d)
      BY <1>3, <2>1, <3>1 DEF wstk_queue_push, Abstract!Insert
    <3> QED
      BY <3>2 DEF Abstract!Next
  <2>2. CASE UNCHANGED store /\ ret' = Outcome("push", "NOSPACE", NULL)
    <3>1. Pending' = Pending
      BY <2>2 DEF store, Pending
    <3>2. Abstract!Refuse
      BY <1>3, <2>2, <3>1 DEF wstk_queue_push, Abstract!Refuse
    <3> QED
      BY <3>2 DEF Abstract!Next
  <2> QED
    BY <1>3, <2>1, <2>2 DEF wstk_queue_push
<1>4. CASE wstk_queue_pop
  <2>1. CASE PopSlot /\ ret' = Outcome("pop", "SUCCESS", data[out]) /\ in # out
    <3>1. Pending # <<>> /\ data[out] = Head(Pending) /\ Pending' = Tail(Pending)
      BY <1>1, <2>1, PopRemovesFirst
    <3>2. Abstract!Remove
      BY <1>4, <2>1, <3>1 DEF wstk_queue_pop, Abstract!Remove
    <3> QED
      BY <3>2 DEF Abstract!Next
  <2>2. CASE PopSlot /\ ret' = Outcome("pop", "SUCCESS", data[out]) /\ in = out
    <3>1. Pending = <<>>
      BY <1>1, <2>2, EmptyPending
    <3>2. in' = 0 /\ out' = 0
      BY <1>1, <2>2, QueueAssumption DEF PopSlot, Rewind, StoreTypeOK
    <3>3. Pending' = <<>>
      BY <1>1, <3>2, PendingLenPrime, EmptySeq
    <3>4. data[out] = NULL
      BY <1>1, <2>2, QueueAssumption DEF StoreTypeOK, SlotsInv, Slots
    <3>5. Abstract!RemoveNothing
      BY <1>4, <2>2, <3>1, <3>3, <3>4 DEF wstk_queue_pop, Abstract!RemoveNothing
    <3> QED
      BY <3>5 DEF Abstract!Next
  <2>3. CASE in = 0 /\ UNCHANGED store /\ ret' = Outcome("pop", "NODATA", NULL)
    <3>1. Pending = <<>>
      BY <1>1, <2>3, EmptyPending, QueueAssumption DEF StoreTypeOK, SlotsInv
    <3>2. Pending' = Pending
      BY <2>3 DEF store, Pending
    <3>3. Abstract!RemoveNothing
      BY <1>4, <2>3, <3>1, <3>2 DEF wstk_queue_pop, Abstract!RemoveNothing
    <3> QED
      BY <3>3 DEF Abstract!Next
  <2> QED
    BY <1>4, <2>1, <2>2, <2>3 DEF wstk_queue_pop
<1>5. CASE destructor
  <2>1. Pending' = <<>>
    BY <1>5, PendingZeroed DEF destructor
  <2>2. Abstract!Destroy
    BY <1>1, <1>5, <2>1, ReleasedIsContent DEF destructor, Abstract!Destroy
  <2> QED
    BY <2>2 DEF Abstract!Next
<1>6. CASE UNCHANGED vars
  BY <1>6 DEF vars, Abstract!vars, Pending
<1> QED
  BY <1>2, <1>3, <1>4, <1>5, <1>6 DEF Next

(* The queue is a first-in first-out buffer: seen from its callers, every   *)
(* operation of wstk-queue.c is one of BoundedFifo on the pending items.    *)
THEOREM QueueIsFifo == Spec => FifoSpec
BY AlwaysIInv, InitRefines, NextRefines, PTL DEF Spec, FifoSpec, Abstract!Spec
=============================================================================
