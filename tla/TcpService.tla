----------------------------- MODULE TcpService -----------------------------
(***************************************************************************)
(* What the TCP server promises the application whose handler it calls,    *)
(* without sockets, descriptors, polling and reference counts: a           *)
(* connection has one request at a time, queued or in the handler; none is *)
(* queued once the connection is being destroyed, but the last one is      *)
(* still handled; the attributes are freed when no request is left; no     *)
(* connection comes once the server is being destroyed, which ends when    *)
(* all are gone.  The HTTP server is modelled on this promise.             *)
(***************************************************************************)
EXTENDS Naturals

CONSTANTS Conns

VARIABLES life,      \* "none", "open", "dying": being destroyed, "attrs": its attributes are freed
          queued,    \* how many requests wait for a thread
          handled,   \* in how many threads its handler is
          serving    \* "up", "closing": the owner destroys the server, "gone"

vars == <<life, queued, handled, serving>>

Init ==
  /\ life = [c \in Conns |-> "none"]
  /\ queued = [c \in Conns |-> 0] /\ handled = [c \in Conns |-> 0]
  /\ serving = "up"

NoRequest(c) == queued[c] = 0 /\ handled[c] = 0

Becomes(c, from, to) ==
  /\ life[c] = from
  /\ life' = [life EXCEPT ![c] = to]
  /\ UNCHANGED <<queued, handled, serving>>

Connect(c) == serving = "up" /\ Becomes(c, "none", "open")

(* the connection's destructor: fl_destroyed, the wait, the attributes *)
Disconnect(c) == Becomes(c, "open", "dying")
Unused(c) == NoRequest(c) /\ Becomes(c, "dying", "attrs")
Free(c) == Becomes(c, "attrs", "none")

Request(c) ==
  /\ life[c] = "open" /\ NoRequest(c)
  /\ queued' = [queued EXCEPT ![c] = 1]
  /\ UNCHANGED <<life, handled, serving>>

Take(c) ==
  /\ queued[c] = 1 /\ handled[c] = 0
  /\ queued' = [queued EXCEPT ![c] = 0]
  /\ handled' = [handled EXCEPT ![c] = 1]
  /\ UNCHANGED <<life, serving>>

Return(c) ==
  /\ handled[c] = 1
  /\ handled' = [handled EXCEPT ![c] = 0]
  /\ UNCHANGED <<life, queued, serving>>

Serve(from, to) ==
  /\ serving = from
  /\ serving' = to
  /\ UNCHANGED <<life, queued, handled>>

Destroy == Serve("up", "closing")

Gone ==
  /\ \A c \in Conns : life[c] = "none" /\ NoRequest(c)
  /\ Serve("closing", "gone")

Next ==
  \/ \E c \in Conns :
       \/ Connect(c) \/ Disconnect(c) \/ Unused(c) \/ Free(c)
       \/ Request(c) \/ Take(c) \/ Return(c)
  \/ Destroy \/ Gone

Spec == Init /\ [][Next]_vars
=============================================================================
