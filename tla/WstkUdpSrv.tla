------------------------------ MODULE WstkUdpSrv ------------------------------
(***************************************************************************)
(* wstk_udp_srv_t (wstk-udp-srv.c): a thread waits for datagrams; each is  *)
(* copied into a connection of its own, counted by srv->refs and           *)
(* srv->connections, and queued to srv->worker, whose sub-threads run the  *)
(* handler and dereference the connection.  The server is kept by          *)
(* srv->refs, for which its destructor waits.                              *)
(*                                                                         *)
(* Threads: the polling thread (ppc), the sub-threads of the worker (hpc), *)
(* the owner (opc).  The worker is reduced to WorkerPool's promise: what   *)
(* it accepts is taken once.  A connection has one reference: of the       *)
(* polling thread, the queue, or the handler.                              *)
(***************************************************************************)
EXTENDS Naturals, Sequences, FiniteSets

CONSTANTS
  Conns,      \* names of connections; used again once freed
  NULL,
  Handlers,   \* sub-threads of srv->worker
  MaxConns,   \* srv->max_conns
  MaxInbox,   \* bound: datagrams the socket holds
  Signals     \* whether a signal may interrupt the select

ASSUME UdpAssumption ==
  /\ IsFiniteSet(Conns) /\ IsFiniteSet(Handlers)
  /\ NULL \notin Conns
  /\ MaxConns \in Nat \ {0} /\ MaxInbox \in Nat
  /\ Signals \in BOOLEAN

VARIABLES
  refs, connections, fl_ready, fl_destroyed,
  fd,          \* srv->sock->fd: "none" (no listener), "open", "closed" (0)
  enqueued,    \* the connections with fl_enqueued
  inbox,       \* the kernel: datagrams not yet received, "data" or "empty" (of length 0)
  ppc, cur,    \* the polling thread, and the connection it is at
  queue,       \* srv->worker: connections queued
  hpc, hconn,  \* its sub-threads
  opc          \* the owner

counters == <<refs, connections>>
flags == <<fl_ready, fl_destroyed>>
worker == <<queue, hpc, hconn>>
vars == <<counters, flags, fd, enqueued, inbox, ppc, cur, worker, opc>>

Datagrams == {"data", "empty"}

Dec(n) == IF n > 0 THEN n - 1 ELSE 0

Held == {cur} \cup {hconn[t] : t \in Handlers}
Freed == Conns \ (Held \cup queue)

(* wstk_udp_srv_create *)
Init ==
  /\ refs = 0 /\ connections = 0
  /\ fl_ready = FALSE /\ fl_destroyed = FALSE
  /\ fd = "none" /\ enqueued = {} /\ inbox = <<>>
  /\ ppc = "none" /\ cur = NULL
  /\ queue = {}
  /\ hpc = [t \in Handlers |-> "idle"] /\ hconn = [t \in Handlers |-> NULL]
  /\ opc = "using"

-----------------------------------------------------------------------------
(***************************************************************************)
(* wstk_mem_deref of the last reference of a connection: its destructor.   *)
(***************************************************************************)
ConnDerefUncounted(c) ==
  /\ enqueued' = enqueued \ {c}
  /\ refs' = IF c \in enqueued THEN Dec(refs) ELSE refs
  /\ UNCHANGED connections

ConnDeref(c) ==
  /\ enqueued' = enqueued \ {c}
  /\ refs' = IF c \in enqueued THEN Dec(refs) ELSE refs
  /\ connections' = IF c \in enqueued THEN Dec(connections) ELSE connections

-----------------------------------------------------------------------------
(***************************************************************************)
(* polling_thread                                                          *)
(***************************************************************************)
Goto(from, to) ==
  /\ ppc = from
  /\ ppc' = to
  /\ UNCHANGED <<fd, hpc, hconn, opc>>

Test(from, to) ==
  /\ Goto(from, to)
  /\ UNCHANGED <<counters, flags, enqueued, inbox, cur, queue>>

PollerRefs ==
  /\ Goto("start", "worker")
  /\ refs' = refs + 1
  /\ UNCHANGED <<connections, flags, enqueued, inbox, cur, queue>>

(* srv->worker gets ready, as the runs of WstkWorker show; no memory for    *)
(* the buffer ends the thread                                               *)
PollerWorker == Test("worker", IF fl_destroyed THEN "out" ELSE "mbuf")

PollerMbuf == \E to \in {"ready", "out"} : Test("mbuf", to)

PollerReady ==
  /\ Goto("ready", "loop")
  /\ fl_ready' = TRUE
  /\ UNCHANGED <<counters, fl_destroyed, enqueued, inbox, cur, queue>>

PollerLoop == Test("loop", IF fl_destroyed THEN "out" ELSE "select")

(* select: something to read, a timeout, or an error: a signal, or the      *)
(* descriptor that the owner has closed                                     *)
Readable == inbox # <<>> /\ fd = "open"

PollerSelect ==
  \/ Readable /\ Test("select", "selected")
  \/ ~Readable /\ Test("select", "loop")
  \/ (Signals \/ fd = "closed") /\ Test("select", "out")

PollerSelected == Test("selected", IF fl_destroyed THEN "out" ELSE "recv")

(* wstk_udp_recv asks FIONREAD first, and leaves a datagram of length zero  *)
(* where it is.  connections is read without the mutex; a request too many  *)
(* is dropped, as it is when there is no memory for a connection.           *)
Receivable == Readable /\ Head(inbox) = "data"

PollerRecvNothing == ~Receivable /\ Test("recv", "loop")

PollerRecvDropsKeeps == Receivable /\ Test("recv", "loop")

PollerRecvDrops ==
  /\ Receivable
  /\ Goto("recv", "loop")
  /\ inbox' = Tail(inbox)
  /\ UNCHANGED <<counters, flags, enqueued, cur, queue>>

PollerRecv(c) ==
  /\ Receivable /\ connections < MaxConns /\ c \in Freed
  /\ Goto("recv", "count")
  /\ inbox' = Tail(inbox)
  /\ cur' = c
  /\ UNCHANGED <<counters, flags, enqueued, queue>>

PollerCount ==
  /\ Goto("count", "perform")
  /\ refs' = refs + 1
  /\ connections' = connections + 1
  /\ enqueued' = enqueued \cup {cur}
  /\ UNCHANGED <<flags, inbox, cur, queue>>

PollerPerform ==
  /\ Goto("perform", "loop")
  /\ queue' = queue \cup {cur}
  /\ cur' = NULL
  /\ UNCHANGED <<counters, flags, enqueued, inbox>>

PollerPerformRefusedKeeps ==
  /\ Goto("perform", "loop")
  /\ cur' = NULL
  /\ UNCHANGED <<counters, flags, enqueued, inbox, queue>>

PollerPerformRefused ==
  /\ Goto("perform", "loop")
  /\ ConnDeref(cur)
  /\ cur' = NULL
  /\ UNCHANGED <<flags, inbox, queue>>

PollerOut ==
  /\ Goto("out", "end")
  /\ refs' = Dec(refs)
  /\ UNCHANGED <<connections, flags, enqueued, inbox, cur, queue>>

Poller ==
  \/ PollerRefs \/ PollerWorker \/ PollerMbuf \/ PollerReady \/ PollerLoop
  \/ PollerSelect \/ PollerSelected \/ PollerRecvNothing \/ PollerRecvDrops
  \/ PollerCount \/ PollerPerform \/ PollerPerformRefused \/ PollerOut
  \/ \E c \in Conns : PollerRecv(c)

-----------------------------------------------------------------------------
(***************************************************************************)
(* worker_handler; a handler may answer with wstk_udp_srv_write.           *)
(***************************************************************************)
Thread(t, from, to) ==
  /\ hpc[t] = from
  /\ hpc' = [hpc EXCEPT ![t] = to]
  /\ UNCHANGED <<flags, fd, inbox, ppc, cur, opc>>

HandlerTake(t, c) ==
  /\ Thread(t, "idle", "start")
  /\ c \in queue
  /\ queue' = queue \ {c}
  /\ hconn' = [hconn EXCEPT ![t] = c]
  /\ UNCHANGED <<counters, enqueued>>

HandlerStart(t) ==
  /\ Thread(t, "start", IF fl_ready THEN "run" ELSE "deref")
  /\ UNCHANGED <<counters, enqueued, queue, hconn>>

HandlerWrite(t) ==
  /\ Thread(t, "run", IF fl_destroyed THEN "run" ELSE "send")
  /\ UNCHANGED <<counters, enqueued, queue, hconn>>

(* wstk_udp_send on srv->sock, which fails when the descriptor is closed *)
HandlerSend(t) ==
  /\ Thread(t, "send", "run")
  /\ UNCHANGED <<counters, enqueued, queue, hconn>>

HandlerReturn(t) ==
  /\ Thread(t, "run", "deref")
  /\ UNCHANGED <<counters, enqueued, queue, hconn>>

HandlerDeref(t) ==
  /\ Thread(t, "deref", "idle")
  /\ ConnDeref(hconn[t])
  /\ hconn' = [hconn EXCEPT ![t] = NULL]
  /\ UNCHANGED queue

Handler(t) ==
  \/ HandlerStart(t) \/ HandlerWrite(t) \/ HandlerSend(t) \/ HandlerReturn(t) \/ HandlerDeref(t)
  \/ \E c \in Conns : HandlerTake(t, c)

-----------------------------------------------------------------------------
(***************************************************************************)
(* The owner: wstk_udp_srv_start, desctuctor__wstk_udp_srv_t.              *)
(***************************************************************************)
OwnerGoto(from, to) ==
  /\ opc = from
  /\ opc' = to
  /\ UNCHANGED <<counters, enqueued, inbox, cur, worker>>

(* A call once the server is ready does nothing; one before that would run  *)
(* a second polling thread, and the owner does not make it.                 *)
OwnerStart ==
  /\ OwnerGoto("using", "using")
  /\ fd = "none"
  /\ fd' = "open" /\ ppc' = "start"
  /\ UNCHANGED flags

(* The owner of a started server waits until its polling thread runs, for   *)
(* instance until wstk_udp_srv_is_ready.                                    *)
MayDestroy == ppc # "start"

OwnerDestroy ==
  /\ MayDestroy
  /\ OwnerGoto("using", "flag")
  /\ fl_ready' = FALSE
  /\ UNCHANGED <<fl_destroyed, fd, ppc>>

OwnerFlag ==
  /\ OwnerGoto("flag", "close")
  /\ fl_destroyed' = TRUE
  /\ UNCHANGED <<fl_ready, fd, ppc>>

OwnerClose ==
  /\ OwnerGoto("close", "wait")
  /\ fd' = IF fd = "open" THEN "closed" ELSE fd
  /\ UNCHANGED <<flags, ppc>>

OwnerWaitConns ==
  /\ connections = 0
  /\ OwnerGoto("wait", "worker")
  /\ UNCHANGED <<flags, fd, ppc>>

OwnerWait ==
  /\ refs = 0
  /\ OwnerGoto("wait", "worker")
  /\ UNCHANGED <<flags, fd, ppc>>

(* attributes, socket, then the worker, whose destructor waits for its      *)
(* threads and dereferences what is still queued: UdpOutlives says that     *)
(* nothing is; then the mutex and the server                                *)
OwnerWorker ==
  /\ \A t \in Handlers : hpc[t] = "idle"
  /\ opc = "worker" /\ opc' = "freed"
  /\ queue' = {}
  /\ UNCHANGED <<counters, flags, fd, enqueued, inbox, ppc, cur, hpc, hconn>>

Destroying == OwnerFlag \/ OwnerClose \/ OwnerWait \/ OwnerWorker

Owner == OwnerStart \/ OwnerDestroy \/ Destroying

Peer(d) ==
  /\ fd = "open" /\ Len(inbox) < MaxInbox
  /\ inbox' = Append(inbox, d)
  /\ UNCHANGED <<counters, flags, fd, enqueued, ppc, cur, worker, opc>>

(* the server is gone; UdpOutlives says that nobody still has it *)
Stopped == opc = "freed" /\ UNCHANGED vars

Next ==
  \/ Poller \/ Owner \/ Stopped
  \/ \E t \in Handlers : Handler(t)
  \/ \E d \in Datagrams : Peer(d)

Spec == Init /\ [][Next]_vars

(* Threads are scheduled; a handler returns in the end (it may answer as    *)
(* often as it likes before); nobody has to send or destroy.                *)
Fairness ==
  /\ WF_vars(Poller) /\ WF_vars(Destroying)
  /\ \A t \in Handlers : WF_vars(Handler(t)) /\ SF_vars(HandlerReturn(t))

FairSpec == Spec /\ Fairness

-----------------------------------------------------------------------------
PollerCounted == ppc \notin {"none", "start", "end"}

TypeOK ==
  /\ refs \in Nat /\ connections \in Nat
  /\ fl_ready \in BOOLEAN /\ fl_destroyed \in BOOLEAN
  /\ fd \in {"none", "open", "closed"}
  /\ enqueued \subseteq Conns /\ queue \subseteq Conns
  /\ inbox \in Seq(Datagrams)
  /\ ppc \in {"none", "start", "worker", "mbuf", "ready", "loop", "select", "selected",
              "recv", "count", "perform", "out", "end"}
  /\ cur \in Conns \cup {NULL}
  /\ hpc \in [Handlers -> {"idle", "start", "run", "send", "deref"}]
  /\ hconn \in [Handlers -> Conns \cup {NULL}]
  /\ opc \in {"using", "flag", "close", "wait", "worker", "freed"}

(* srv->refs counts the polling thread and each connection that was         *)
(* counted and not yet freed, srv->connections those connections: no        *)
(* refusal, drop or destroy shifts them, and the guards of the decrements   *)
(* never hide one too many.  A count too high and the destructor never      *)
(* returns; too low and it frees a server in use.                           *)
UdpCountsExact ==
  /\ TypeOK
  /\ enqueued = (queue \cup Held) \ ({NULL} \cup (IF ppc = "count" THEN {cur} ELSE {}))
  /\ connections = Cardinality(enqueued)
  /\ refs = connections + (IF PollerCounted THEN 1 ELSE 0)

(* When the destructor stops waiting, the polling thread has left, no       *)
(* handler has a connection, and the queue of the worker it is about to     *)
(* destroy is empty: destroying a queued connection there would lock the    *)
(* mutex and change the counters of a server half freed.                    *)
UdpOutlives ==
  opc \in {"worker", "freed"} =>
    ppc \in {"none", "end"} /\ queue = {} /\ \A t \in Handlers : hpc[t] = "idle"

(* Destroying a server ends, wherever the polling thread and the handlers   *)
(* are.                                                                     *)
UdpDestroyEnds == opc = "flag" ~> opc = "freed"

(* A full socket buffer is read from again in the end, while the polling    *)
(* thread lives, also after datagrams were dropped or refused: unless one   *)
(* of length zero is in it, which wstk_udp_recv never takes away.           *)
UdpReceived ==
  (Len(inbox) = MaxInbox /\ \A i \in DOMAIN inbox : inbox[i] = "data")
    ~> (Len(inbox) < MaxInbox \/ ppc = "end")
=============================================================================
