----------------------------- MODULE BoundedFifo -----------------------------
(***************************************************************************)
(* What a job queue promises its callers, without slots and indices: items *)
(* leave in the order they entered, each exactly once, and those left when *)
(* the queue is destroyed are released with it.  An insertion may be       *)
(* refused at any time and a removal from an empty queue may answer        *)
(* "nothing" in two ways; how often a refusal may come is not part of this *)
(* specification.                                                          *)
(***************************************************************************)
EXTENDS Naturals, Sequences, FiniteSets

CONSTANTS Items,   \* what callers put in
          NULL,    \* "no item"
          Size     \* the capacity

VARIABLES items,   \* the items held, oldest first
          live,    \* the queue exists
          ret      \* the last operation and its outcome

vars == <<items, live, ret>>

Outcome(op, status, val) == [op |-> op, status |-> status, val |-> val]

(* How many times each item is in the buffer. *)
Content == [d \in Items |-> Cardinality({i \in 1..Len(items) : items[i] = d})]

Init == items = <<>> /\ live = FALSE /\ ret = Outcome("none", "SUCCESS", NULL)

Create ==
  /\ ~live
  /\ live' = TRUE
  /\ items' = <<>>
  /\ ret' = Outcome("create", "SUCCESS", NULL)

Insert(d) ==
  /\ live
  /\ Len(items) < Size
  /\ items' = Append(items, d)
  /\ ret' = Outcome("push", "SUCCESS", d)
  /\ UNCHANGED live

Refuse ==
  /\ live
  /\ ret' = Outcome("push", "NOSPACE", NULL)
  /\ UNCHANGED <<items, live>>

Remove ==
  /\ live
  /\ items # <<>>
  /\ items' = Tail(items)
  /\ ret' = Outcome("pop", "SUCCESS", Head(items))
  /\ UNCHANGED live

RemoveNothing ==
  /\ live
  /\ items = <<>>
  /\ ret' \in {Outcome("pop", "NODATA", NULL), Outcome("pop", "SUCCESS", NULL)}
  /\ UNCHANGED <<items, live>>

Destroy ==
  /\ live
  /\ live' = FALSE
  /\ items' = <<>>
  /\ ret' = Outcome("destroy", "SUCCESS", Content)

Next ==
  \/ Create
  \/ \E d \in Items : Insert(d)
  \/ Refuse
  \/ Remove
  \/ RemoveNothing
  \/ Destroy

Spec == Init /\ [][Next]_vars
=============================================================================
