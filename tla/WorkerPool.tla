------------------------------ MODULE WorkerPool ------------------------------
(***************************************************************************)
(* What a worker promises those who queue jobs, without threads, counters  *)
(* or a queue: each accepted job is taken at most once, a taken job is     *)
(* handled, and only when the pool closes may a job be dropped after it    *)
(* was taken, or be released without having been taken.  Nothing is in     *)
(* hand when the pool is gone.  The servers are modelled on this promise.  *)
(***************************************************************************)
EXTENDS FiniteSets

CONSTANTS Jobs

VARIABLES waiting,   \* accepted, not yet taken
          taken,     \* in the hands of a thread
          handled,   \* its handler has returned
          released,  \* dereferenced by the pool when it was destroyed
          closing,   \* the owner has begun to destroy the pool
          gone       \* the pool is destroyed

vars == <<waiting, taken, handled, released, closing, gone>>

Init ==
  /\ waiting = {} /\ taken = {} /\ handled = {} /\ released = {}
  /\ closing = FALSE /\ gone = FALSE

Perform(j) ==
  /\ ~gone
  /\ j \notin waiting \cup taken \cup handled \cup released
  /\ waiting' = waiting \cup {j}
  /\ UNCHANGED <<taken, handled, released, closing, gone>>

Take(j) ==
  /\ j \in waiting
  /\ waiting' = waiting \ {j}
  /\ taken' = taken \cup {j}
  /\ UNCHANGED <<handled, released, closing, gone>>

Finish(j) ==
  /\ j \in taken
  /\ taken' = taken \ {j}
  /\ handled' = handled \cup {j}
  /\ UNCHANGED <<waiting, released, closing, gone>>

Drop(j) ==
  /\ closing
  /\ j \in taken
  /\ taken' = taken \ {j}
  /\ UNCHANGED <<waiting, handled, released, closing, gone>>

Close == ~closing /\ closing' = TRUE /\ UNCHANGED <<waiting, taken, handled, released, gone>>

Release ==
  /\ closing /\ ~gone
  /\ taken = {}
  /\ gone' = TRUE
  /\ released' = released \cup waiting
  /\ waiting' = {}
  /\ UNCHANGED <<taken, handled, closing>>

Next ==
  \/ \E j \in Jobs : Perform(j) \/ Take(j) \/ Finish(j) \/ Drop(j)
  \/ Close
  \/ Release

Spec == Init /\ [][Next]_vars
=============================================================================
