------------------------------ MODULE WstkTcpSrv ------------------------------
(***************************************************************************)
(* wstk_tcp_srv_t (wstk-tcp-srv.c): a thread polls the listener and the    *)
(* connections, accepts, reads a request into the connection's buffer and  *)
(* queues the connection to worker_tcp; sub-threads of worker_tcp run the  *)
(* handler; closed and expired connections are dereferenced by the polling *)
(* thread, or by worker_gc while somebody still uses them.                 *)
(*                                                                         *)
(* A connection is kept by the memory references of its socket (mrefs,     *)
(* whose last release runs the destructors of socket and connection) and   *)
(* by conn->refs (users), for which the connection's destructor waits.     *)
(* The server is kept by srv->refs, for which its destructor waits.        *)
(*                                                                         *)
(* Threads: the polling thread (ppc), the sub-threads of worker_tcp (hpc), *)
(* those of worker_gc (one per connection in gcd), the owner (opc), and    *)
(* the peers.  A section under a mutex is one step; so is each read of a   *)
(* shared field outside of one.  The steps of a destructor are the same    *)
(* whoever runs it (conn[c].stage).  The poll is that of WstkPoll; the     *)
(* workers are reduced to WorkerPool's promise.                            *)
(***************************************************************************)
EXTENDS Naturals, FiniteSets

CONSTANTS
  Conns,      \* names of connections, with their sockets; used again once freed
  LISTENER,   \* srv->sock
  NULL,
  Ids,        \* what wstk_sa_hash may return
  Fds,        \* descriptors; 0 is what wstk_sock_close_fd leaves
  Handlers,   \* sub-threads of worker_tcp
  MaxConns,   \* srv->max_conns
  Acts,       \* what handlers do besides returning: see HandlerActs
  Expires,    \* whether max_idle may pass
  Contract    \* when the owner destroys: see MayDestroy

HandlerActs == {"close", "read", "lookup"}

ASSUME TcpAssumption ==
  /\ IsFiniteSet(Conns) /\ IsFiniteSet(Handlers)
  /\ LISTENER \notin Conns /\ NULL \notin Conns \cup {LISTENER}
  /\ Fds \subseteq Nat \ {0} /\ Fds # {} /\ Ids # {}
  /\ MaxConns \in Nat \ {0}
  /\ Acts \subseteq HandlerActs
  /\ Expires \in BOOLEAN
  /\ Contract \in {"never", "ready", "quiet"}

VARIABLES
  srefs, connections, fl_ready, fl_destroyed, clients,
  poll,                            \* srv->poll: "set", "destroying", "freed" (the pointer remains), "null"
  sockets, slist1, slist2, fl_polling, todo,  \* the poll, see WstkPoll
  fd, mrefs,                       \* of the sockets
  conn,                            \* the fields of a connection and of its socket
  owner, net,                      \* the kernel: whose a descriptor is; what has arrived
  ppc, cur, ready,                 \* the polling thread
  waiting, hpc, hconn, hother,     \* worker_tcp: queued connections; threads
  gcq, gcd,                        \* worker_gc: queued sockets; being destroyed
  opc, met                         \* the owner; whether its destroy met an accept (recorded, never read)

srv == <<srefs, connections, fl_ready, fl_destroyed, clients, poll>>
pollv == <<sockets, slist1, slist2, fl_polling, todo>>
socks == <<fd, mrefs>>
kernel == <<owner, net>>
poller == <<ppc, cur, ready>>
tcp == <<waiting, hpc, hconn, hother>>
gc == <<gcq, gcd>>
owning == <<opc, met>>
vars == <<srv, pollv, socks, conn, kernel, poller, tcp, gc, owning>>

Sockets == Conns \cup {LISTENER}

P == INSTANCE WstkPoll WITH Size <- MaxConns + 1, Fds <- Fds \cup {0},
                           method <- "select", expiring <- FALSE

Dec(n) == IF n > 0 THEN n - 1 ELSE 0

(* a connection just allocated: zeroed, and its id *)
Fresh(i) == [stage |-> "live", id |-> i, refs |-> 0, fl_enpolled |-> FALSE,
             fl_destroyed |-> FALSE, sock_destroyed |-> FALSE,
             fl_do_close |-> FALSE, rdlock |-> FALSE]

Freed(c) == conn[c].stage = "none"

Silent == [data |-> FALSE, closed |-> FALSE]

AnyFd == CHOOSE f \in Fds : TRUE
NoConn == [Fresh(CHOOSE i \in Ids : TRUE) EXCEPT !.stage = "none"]

(* wstk_tcp_srv_start has opened the listener and created the thread        *)
Init ==
  /\ srefs = 0 /\ connections = 0 /\ fl_ready = FALSE /\ fl_destroyed = FALSE
  /\ clients = [i \in Ids |-> NULL]
  /\ poll = "set"
  /\ sockets = {} /\ slist1 = {} /\ slist2 = {} /\ fl_polling = FALSE /\ todo = {}
  /\ fd = [s \in Sockets |-> IF s = LISTENER THEN AnyFd ELSE 0]
  /\ mrefs = [s \in Sockets |-> IF s = LISTENER THEN 1 ELSE 0]
  /\ conn = [c \in Conns |-> NoConn]
  /\ owner = [f \in Fds |-> IF f = AnyFd THEN LISTENER ELSE NULL]
  /\ net = [c \in Conns |-> Silent]
  /\ ppc = "start" /\ cur = NULL /\ ready = {}
  /\ waiting = [c \in Conns |-> 0]
  /\ hpc = [t \in Handlers |-> "idle"]
  /\ hconn = [t \in Handlers |-> NULL]
  /\ hother = [t \in Handlers |-> NULL]
  /\ gcq = {} /\ gcd = {}
  /\ opc = "using" /\ met = FALSE

-----------------------------------------------------------------------------
(***************************************************************************)
(* Releasing a socket, and the destructors it leads to.                    *)
(***************************************************************************)
(* wstk_mem_deref(socket): the last reference starts the destructors        *)
SockDeref(c) ==
  /\ mrefs' = [mrefs EXCEPT ![c] = @ - 1]
  /\ conn' = IF mrefs[c] = 1 THEN [conn EXCEPT ![c].stage = "sock"] ELSE conn

LastRef(c) == mrefs[c] = 1

InStage(c, from) ==
  /\ conn[c].stage = from
  /\ UNCHANGED <<pollv, socks, poller, tcp, gcq, owning>>

(* the socket's destructor: fl_destroyed, then close(fd), then its udata,   *)
(* which is the connection                                                  *)
SockMark(c) ==
  /\ InStage(c, "sock")
  /\ conn' = [conn EXCEPT ![c].stage = "fd", ![c].sock_destroyed = TRUE]
  /\ UNCHANGED <<srv, kernel, gcd>>

SockCloseFd(c) ==
  /\ InStage(c, "fd")
  /\ conn' = [conn EXCEPT ![c].stage = "mark"]
  /\ owner' = [owner EXCEPT ![fd[c]] = NULL]
  /\ net' = [net EXCEPT ![c] = Silent]
  /\ UNCHANGED <<srv, gcd>>

ConnMark(c) ==
  /\ InStage(c, "mark")
  /\ conn' = [conn EXCEPT ![c].stage = "unmap", ![c].fl_destroyed = TRUE]
  /\ UNCHANGED <<srv, kernel, gcd>>

(* under mutex_clients; deletes whatever the id now leads to *)
ConnUnmap(c) ==
  /\ InStage(c, "unmap")
  /\ conn' = [conn EXCEPT ![c].stage = "wait"]
  /\ clients' = [clients EXCEPT ![conn[c].id] = NULL]
  /\ UNCHANGED <<srefs, connections, fl_ready, fl_destroyed, poll, kernel, gcd>>

ConnWaitNot(c) ==
  /\ InStage(c, "wait")
  /\ conn' = [conn EXCEPT ![c].stage = "derefs"]
  /\ UNCHANGED <<srv, kernel, gcd>>

ConnWait(c) ==
  /\ InStage(c, "wait")
  /\ conn[c].refs = 0
  /\ conn' = [conn EXCEPT ![c].stage = "derefs"]
  /\ UNCHANGED <<srv, kernel, gcd>>

ConnSrvDerefNot(c) ==
  /\ InStage(c, "derefs")
  /\ conn' = [conn EXCEPT ![c].stage = "free"]
  /\ UNCHANGED <<srv, kernel, gcd>>

ConnSrvDeref(c) ==
  /\ InStage(c, "derefs")
  /\ conn' = [conn EXCEPT ![c].stage = "free"]
  /\ srefs' = IF conn[c].fl_enpolled THEN Dec(srefs) ELSE srefs
  /\ UNCHANGED <<connections, fl_ready, fl_destroyed, clients, poll, kernel, gcd>>

ConnFree(c) ==
  /\ conn[c].stage = "free"
  /\ conn' = [conn EXCEPT ![c] = NoConn]
  /\ fd' = [fd EXCEPT ![c] = 0]
  /\ gcd' = gcd \ {c}
  /\ UNCHANGED <<srv, pollv, mrefs, kernel, poller, tcp, gcq, owning>>

Destructor(c) ==
  \/ SockMark(c) \/ SockCloseFd(c) \/ ConnMark(c) \/ ConnUnmap(c)
  \/ ConnWait(c) \/ ConnSrvDeref(c) \/ ConnFree(c)

-----------------------------------------------------------------------------
(***************************************************************************)
(* The polling thread: polling_thread, wstk_poll_select_polling, and the   *)
(* handler it calls, poll_handler.                                         *)
(***************************************************************************)
Goto(from, to) ==
  /\ ppc = from
  /\ ppc' = to
  /\ UNCHANGED <<tcp, owning>>

Test(from, to) ==
  /\ Goto(from, to)
  /\ UNCHANGED <<srv, pollv, socks, conn, kernel, cur, ready, gc>>

(* srv_refs reads fl_destroyed before it locks; its result is ignored *)
PollerRefs == Test("start", IF fl_destroyed THEN "workers" ELSE "start_inc")

PollerRefsInc ==
  /\ Goto("start_inc", "workers")
  /\ srefs' = srefs + 1
  /\ UNCHANGED <<connections, fl_ready, fl_destroyed, clients, poll, pollv, socks, conn, kernel, cur, ready, gc>>

(* worker_tcp gets ready, as the runs of WstkWorker show *)
PollerWorkers == Test("workers", IF fl_destroyed THEN "out" ELSE "listen")

PollerListen ==
  /\ Goto("listen", "loop")
  /\ P!Add(LISTENER)
  /\ fl_ready' = TRUE
  /\ UNCHANGED <<srefs, connections, fl_destroyed, clients, poll, socks, conn, kernel, cur, ready, gc>>

PollerLoop == Test("loop", IF fl_destroyed THEN "out" ELSE "select")

(* select returns with the sockets that are readable at that moment, or     *)
(* with none after a timeout; whether somebody is connecting is left open   *)
Readable(c) == net[c].data \/ net[c].closed

PollerSelect ==
  /\ Goto("select", "walk")
  /\ P!Begin
  /\ \E somebody \in SUBSET {LISTENER} :
       ready' = {c \in P!table \ {LISTENER} : Readable(c)} \cup (somebody \cap P!table)
  /\ UNCHANGED <<srv, socks, conn, kernel, cur, gc>>

(* The owner has closed the listener's descriptor; its 0 may be no open     *)
(* descriptor for select.                                                   *)
PollerSelectFails == fd[LISTENER] = 0 /\ Test("select", "loop")

(* The walk comes to socket s.  Bytes to read (FIONREAD) and the read lock  *)
(* are looked at now, not when select returned.  A connection whose expiry  *)
(* is over is reported whether or not it is ready; the listener has none.   *)
SeenClosed(c) == c \in ready /\ ~conn[c].rdlock /\ ~net[c].data

Reported(s) ==
  IF s \notin ready THEN "walk"
  ELSE IF fl_destroyed THEN "close"
  ELSE IF s = LISTENER THEN "accept"
  ELSE IF SeenClosed(s) THEN "close" ELSE "read_refs"

PollerVisit(s) ==
  /\ P!Visit(s)
  /\ \/ Goto("walk", Reported(s))
     \/ Expires /\ s # LISTENER /\ Goto("walk", "close")
  /\ cur' = IF ppc' = "walk" THEN NULL ELSE s
  /\ UNCHANGED <<srv, socks, conn, kernel, ready, gc>>

PollerEndWalk ==
  /\ Goto("walk", "lists")
  /\ P!EndWalk
  /\ ready' = {}
  /\ UNCHANGED <<srv, socks, conn, kernel, cur, gc>>

PollerCloseForgets ==
  /\ Goto("close", IF cur = LISTENER THEN "walk" ELSE "close_refs")
  /\ connections' = IF cur = LISTENER THEN Dec(connections) ELSE connections
  /\ cur' = IF cur = LISTENER THEN NULL ELSE cur
  /\ UNCHANGED <<srefs, fl_ready, fl_destroyed, clients, poll, pollv, socks, conn, kernel, ready, gc>>

(* poll_handler, first branch: wstk_poll_del, then, for the listener, only  *)
(* the counter                                                              *)
PollerClose ==
  /\ Goto("close", IF cur = LISTENER THEN "walk" ELSE "close_refs")
  /\ P!Del(cur)
  /\ mrefs' = [mrefs EXCEPT ![cur] = @ + P!DelRefs]
  /\ connections' = IF cur = LISTENER THEN Dec(connections) ELSE connections
  /\ cur' = IF cur = LISTENER THEN NULL ELSE cur
  /\ UNCHANGED <<srefs, fl_ready, fl_destroyed, clients, poll, fd, conn, kernel, ready, gc>>

(* conn->refs is read without its mutex *)
PollerCloseRefs == ppc = "close_refs" /\ Test("close_refs", IF conn[cur].refs > 0 THEN "gc" ELSE "drop")

(* where poll_handler returns to *)
Back == IF poll = "set" THEN "walk" ELSE "poll_next"

PollerGcUncounted ==
  /\ Goto("gc", Back)
  /\ gcq' = gcq \cup {cur}
  /\ cur' = NULL
  /\ UNCHANGED <<srv, pollv, socks, conn, kernel, ready, gcd>>

PollerGc ==
  /\ Goto("gc", Back)
  /\ gcq' = gcq \cup {cur}
  /\ connections' = Dec(connections)
  /\ cur' = NULL
  /\ UNCHANGED <<srefs, fl_ready, fl_destroyed, clients, poll, pollv, socks, conn, kernel, ready, gcd>>

(* wstk_worker_perform refused: no free place, or worker_gc not ready       *)
PollerGcRefused == Test("gc", "drop")

(* wstk_mem_deref(socket) here; a destructor keeps the polling thread busy  *)
PollerDrop ==
  /\ ppc = "drop"
  /\ Goto("drop", IF LastRef(cur) THEN "destructor" ELSE Back)
  /\ SockDeref(cur)
  /\ connections' = Dec(connections)
  /\ cur' = IF LastRef(cur) THEN cur ELSE NULL
  /\ UNCHANGED <<srefs, fl_ready, fl_destroyed, clients, poll, pollv, fd, kernel, ready, gc>>

PollerDestructed ==
  /\ Goto("destructor", IF poll = "set" THEN "lists" ELSE "poll_next")
  /\ Freed(cur)
  /\ cur' = NULL
  /\ UNCHANGED <<srv, pollv, socks, conn, kernel, ready, gc>>

(* the listener was readable, but nobody to accept, or one too many         *)
PollerAcceptNone == Goto("accept", "walk") /\ cur' = NULL
                    /\ UNCHANGED <<srv, pollv, socks, conn, kernel, ready, gc>>

(* wstk_tcp_accept, the new connection with the lowest free descriptor,     *)
(* wstk_inthash_insert under mutex_clients, wstk_poll_add (deferred)        *)
FreeFds == {f \in Fds : owner[f] = NULL}

PollerAccept(c, i) ==
  /\ Goto("accept", "accept_refs")
  /\ connections < MaxConns
  /\ Freed(c)
  /\ \E f \in FreeFds :
       /\ \A g \in FreeFds : f <= g
       /\ fd' = [fd EXCEPT ![c] = f]
       /\ owner' = [owner EXCEPT ![f] = c]
  /\ mrefs' = [mrefs EXCEPT ![c] = 1]
  /\ conn' = [conn EXCEPT ![c] = Fresh(i)]
  /\ net' = [net EXCEPT ![c] = Silent]
  /\ clients' = [clients EXCEPT ![i] = c]
  /\ P!Add(c)
  /\ cur' = c
  /\ UNCHANGED <<srefs, connections, fl_ready, fl_destroyed, poll, ready, gc>>

(* srv_refs reads fl_destroyed; its result is ignored here too              *)
Enpolled(c) == conn' = [conn EXCEPT ![c].fl_enpolled = TRUE]

PollerAcceptRefs ==
  \/ /\ ~fl_destroyed
     /\ Test("accept_refs", "accept_inc")
  \/ /\ fl_destroyed
     /\ Goto("accept_refs", "read")
     /\ connections' = connections + 1
     /\ Enpolled(cur)
     /\ UNCHANGED <<srefs, fl_ready, fl_destroyed, clients, poll, pollv, socks, kernel, cur, ready, gc>>

PollerAcceptInc ==
  /\ Goto("accept_inc", "read")
  /\ srefs' = srefs + 1
  /\ connections' = connections + 1
  /\ Enpolled(cur)
  /\ UNCHANGED <<fl_ready, fl_destroyed, clients, poll, pollv, socks, kernel, cur, ready, gc>>

PollerReadAlways ==
  /\ Goto("read_refs", "read")
  /\ UNCHANGED <<srv, pollv, socks, conn, kernel, cur, ready, gc>>

(* the read branch: nothing is read while somebody uses the connection      *)
PollerReadRefs ==
  /\ ppc = "read_refs"
  /\ Goto("read_refs", IF conn[cur].refs = 0 THEN "read" ELSE "walk")
  /\ cur' = IF conn[cur].refs = 0 THEN cur ELSE NULL
  /\ UNCHANGED <<srv, pollv, socks, conn, kernel, ready, gc>>

(* polling_read_and_perform: overwrites conn->mbuf, then conn_refs          *)
PollerRead ==
  /\ ppc = "read"
  /\ Goto("read", IF net[cur].data THEN "perform" ELSE "walk")
  /\ net' = [net EXCEPT ![cur].data = FALSE]
  /\ conn' = IF net[cur].data THEN [conn EXCEPT ![cur].refs = @ + 1] ELSE conn
  /\ cur' = IF net[cur].data THEN cur ELSE NULL
  /\ UNCHANGED <<srv, pollv, socks, owner, ready, gc>>

PollerPerform ==
  /\ ppc = "perform" /\ ppc' = "walk"
  /\ waiting' = [waiting EXCEPT ![cur] = @ + 1]
  /\ cur' = NULL
  /\ UNCHANGED <<srv, pollv, socks, conn, kernel, ready, hpc, hconn, hother, gc, owning>>

PollerPerformRefusedKeeps ==
  /\ Goto("perform", "walk")
  /\ cur' = NULL
  /\ UNCHANGED <<srv, pollv, socks, conn, kernel, ready, gc>>

PollerPerformRefused ==
  /\ Goto("perform", "walk")
  /\ conn' = [conn EXCEPT ![cur].refs = Dec(@)]
  /\ cur' = NULL
  /\ UNCHANGED <<srv, pollv, socks, kernel, ready, gc>>

(* the end of a round: deletions, additions, each followed by its deref     *)
ListDeref(s) ==
  /\ SockDeref(s)
  /\ cur' = IF LastRef(s) THEN s ELSE NULL
  /\ Goto("lists", IF LastRef(s) THEN "destructor" ELSE "lists")

PollerDelPerform(s) ==
  /\ P!DelPerform(s)
  /\ ListDeref(s)
  /\ UNCHANGED <<srv, fd, kernel, ready, gc>>

PollerAddPerform(s) ==
  /\ P!AddPerform(s)
  /\ IF P!Fits(s) THEN Goto("lists", "lists") /\ UNCHANGED <<mrefs, conn, cur>>
     ELSE ListDeref(s)
  /\ UNCHANGED <<srv, fd, kernel, ready, gc>>

PollerRoundDone == slist1 = {} /\ slist2 = {} /\ Test("lists", "loop")

(* out: the poll is destroyed; each socket left in it is deleted and        *)
(* reported closed, and wstk_poll_del refuses meanwhile                     *)
PollerOut ==
  /\ Goto("out", "poll_next")
  /\ fl_ready' = FALSE
  /\ poll' = "destroying"
  /\ todo' = P!table
  /\ UNCHANGED <<srefs, connections, fl_destroyed, clients, sockets, slist1, slist2, fl_polling, socks, conn, kernel, cur, ready, gc>>

PollerPollNextSilent(s) ==
  /\ Goto("poll_next", "poll_next")
  /\ s \in todo
  /\ todo' = todo \ {s}
  /\ sockets' = P!Without(s)
  /\ UNCHANGED <<srv, slist1, slist2, fl_polling, socks, conn, kernel, cur, ready, gc>>

PollerPollNext(s) ==
  /\ Goto("poll_next", IF s = LISTENER THEN "poll_next" ELSE "close_refs")
  /\ s \in todo
  /\ todo' = todo \ {s}
  /\ sockets' = P!Without(s)
  /\ cur' = IF s = LISTENER THEN NULL ELSE s
  /\ connections' = IF s = LISTENER THEN Dec(connections) ELSE connections
  /\ UNCHANGED <<srefs, fl_ready, fl_destroyed, clients, poll, slist1, slist2, fl_polling, socks, conn, kernel, ready, gc>>

PollerPollFreed ==
  /\ todo = {}
  /\ Goto("poll_next", "poll_null")
  /\ poll' = "freed"
  /\ sockets' = {}
  /\ UNCHANGED <<srefs, connections, fl_ready, fl_destroyed, clients, slist1, slist2, fl_polling, todo, socks, conn, kernel, cur, ready, gc>>

PollerPollNull ==
  /\ Goto("poll_null", "derefs")
  /\ poll' = "null"
  /\ UNCHANGED <<srefs, connections, fl_ready, fl_destroyed, clients, pollv, socks, conn, kernel, cur, ready, gc>>

PollerDerefs ==
  /\ Goto("derefs", "end")
  /\ srefs' = Dec(srefs)
  /\ UNCHANGED <<connections, fl_ready, fl_destroyed, clients, poll, pollv, socks, conn, kernel, cur, ready, gc>>

Poller ==
  \/ PollerRefs \/ PollerRefsInc \/ PollerWorkers \/ PollerListen \/ PollerLoop
  \/ PollerSelect \/ PollerSelectFails \/ PollerEndWalk
  \/ PollerClose \/ PollerCloseRefs \/ PollerGc \/ PollerGcRefused \/ PollerDrop \/ PollerDestructed
  \/ PollerAcceptNone \/ PollerAcceptRefs \/ PollerAcceptInc
  \/ PollerReadRefs \/ PollerRead \/ PollerPerform \/ PollerPerformRefused
  \/ PollerRoundDone \/ PollerOut \/ PollerPollFreed \/ PollerPollNull \/ PollerDerefs
  \/ \E s \in Sockets :
       PollerVisit(s) \/ PollerDelPerform(s) \/ PollerAddPerform(s) \/ PollerPollNext(s)
  \/ \E c \in Conns, i \in Ids : PollerAccept(c, i)

-----------------------------------------------------------------------------
(***************************************************************************)
(* worker_tcp: tcp_worker_handler, and what a handler may call.            *)
(***************************************************************************)
Thread(t, from, to) ==
  /\ hpc[t] = from
  /\ hpc' = [hpc EXCEPT ![t] = to]
  /\ UNCHANGED <<srv, pollv, socks, poller, gc, owning>>

ConnRef(c) == conn' = [conn EXCEPT ![c].refs = @ + 1]
ConnDeref(c) == conn' = [conn EXCEPT ![c].refs = Dec(@)]

HandlerTake(t, c) ==
  /\ Thread(t, "idle", "start")
  /\ waiting[c] > 0
  /\ waiting' = [waiting EXCEPT ![c] = @ - 1]
  /\ hconn' = [hconn EXCEPT ![t] = c]
  /\ UNCHANGED <<hother, conn, kernel>>

HandlerStart(t) ==
  /\ Thread(t, "start", IF fl_destroyed THEN "derefs" ELSE "run")
  /\ UNCHANGED <<waiting, hconn, hother, conn, kernel>>

(* wstk_tcp_srv_conn_close *)
HandlerClose(t) ==
  /\ "close" \in Acts
  /\ Thread(t, "run", "run")
  /\ ~conn[hconn[t]].fl_destroyed
  /\ conn' = [conn EXCEPT ![hconn[t]].fl_do_close = TRUE]
  /\ UNCHANGED <<waiting, hconn, hother, kernel>>

(* A handler that reads on by itself holds the read lock meanwhile:         *)
(* wstk_tcp_srv_conn_rdlock, wstk_tcp_srv_conn_read, ..._rdlock             *)
HandlerRdlock(t, flag) ==
  /\ "read" \in Acts
  /\ Thread(t, "run", "run")
  /\ ~conn[hconn[t]].fl_destroyed /\ ~conn[hconn[t]].sock_destroyed
  /\ conn[hconn[t]].rdlock # flag
  /\ conn' = [conn EXCEPT ![hconn[t]].rdlock = flag]
  /\ UNCHANGED <<waiting, hconn, hother, kernel>>

(* wstk_tcp_read; its test of sock->fl_destroyed (wstk-net-tcp.c:362) and   *)
(* the recv are one step, although the socket may be destroyed in between.  *)
HandlerRead(t) ==
  /\ Thread(t, "run", "run")
  /\ conn[hconn[t]].rdlock
  /\ ~conn[hconn[t]].fl_destroyed /\ ~conn[hconn[t]].sock_destroyed
  /\ net[hconn[t]].data
  /\ net' = [net EXCEPT ![hconn[t]].data = FALSE]
  /\ UNCHANGED <<waiting, hconn, hother, conn, owner>>

(* ... and when the peer has left or the expiry is over *)
HandlerReadFails(t) ==
  /\ Thread(t, "run", "run")
  /\ conn[hconn[t]].rdlock
  /\ ~conn[hconn[t]].fl_destroyed
  /\ ~net[hconn[t]].data
  /\ net[hconn[t]].closed \/ Expires
  /\ conn' = [conn EXCEPT ![hconn[t]].fl_do_close = TRUE]
  /\ UNCHANGED <<waiting, hconn, hother, kernel>>

(* wstk_tcp_srv_lookup_conn of any id.  The read of conn->fl_destroyed and  *)
(* the increment are one step: a destructor that begins in between still    *)
(* needs mutex_clients, which the lookup holds, before it waits for refs.   *)
HandlerLookup(t, i) ==
  /\ "lookup" \in Acts
  /\ Thread(t, "run", "run")
  /\ hother[t] = NULL
  /\ ~fl_destroyed
  /\ clients[i] # NULL
  /\ ~conn[clients[i]].fl_destroyed
  /\ ConnRef(clients[i])
  /\ hother' = [hother EXCEPT ![t] = clients[i]]
  /\ UNCHANGED <<waiting, hconn, kernel>>

HandlerRelease(t) ==
  /\ Thread(t, "run", "run")
  /\ hother[t] # NULL
  /\ ConnDeref(hother[t])
  /\ hother' = [hother EXCEPT ![t] = NULL]
  /\ UNCHANGED <<waiting, hconn, kernel>>

HandlerReturn(t) ==
  /\ Thread(t, "run", "returned")
  /\ hother[t] = NULL
  /\ ~conn[hconn[t]].rdlock \/ conn[hconn[t]].sock_destroyed
  /\ UNCHANGED <<waiting, hconn, hother, conn, kernel>>

WillShutdown(c) == ~conn[c].fl_destroyed /\ ~conn[c].sock_destroyed /\ conn[c].fl_do_close

HandlerReturned(t) ==
  /\ hpc[t] = "returned"
  /\ Thread(t, "returned", IF WillShutdown(hconn[t]) THEN "shutdown" ELSE "derefs")
  /\ UNCHANGED <<waiting, hconn, hother, conn, kernel>>

(* shutdown(conn->sock->fd), whatever the descriptor is by now *)
HandlerShutdown(t) ==
  /\ Thread(t, "shutdown", "derefs")
  /\ net' = [c \in Conns |-> IF owner[fd[hconn[t]]] = c THEN [net[c] EXCEPT !.closed = TRUE] ELSE net[c]]
  /\ UNCHANGED <<waiting, hconn, hother, conn, owner>>

HandlerDerefsNot(t) ==
  /\ Thread(t, "derefs", "idle")
  /\ hconn' = [hconn EXCEPT ![t] = NULL]
  /\ UNCHANGED <<waiting, hother, conn, kernel>>

HandlerDerefs(t) ==
  /\ Thread(t, "derefs", "idle")
  /\ ConnDeref(hconn[t])
  /\ hconn' = [hconn EXCEPT ![t] = NULL]
  /\ UNCHANGED <<waiting, hother, kernel>>

Handler(t) ==
  \/ HandlerStart(t) \/ HandlerClose(t) \/ HandlerRead(t) \/ HandlerReadFails(t) \/ HandlerRelease(t)
  \/ HandlerReturn(t) \/ HandlerReturned(t) \/ HandlerShutdown(t) \/ HandlerDerefs(t)
  \/ \E c \in Conns : HandlerTake(t, c)
  \/ \E flag \in BOOLEAN : HandlerRdlock(t, flag)
  \/ \E i \in Ids : HandlerLookup(t, i)

(* worker_gc: gc_worker_handler dereferences the socket *)
GcDeref(c) ==
  /\ c \in gcq
  /\ gcq' = gcq \ {c}
  /\ SockDeref(c)
  /\ gcd' = IF LastRef(c) THEN gcd \cup {c} ELSE gcd
  /\ UNCHANGED <<srv, pollv, fd, kernel, poller, tcp, owning>>

-----------------------------------------------------------------------------
(***************************************************************************)
(* The owner: desctuctor__wstk_tcp_srv_t.                                  *)
(***************************************************************************)
(* "ready": the owner has seen wstk_tcp_srv_is_ready.                       *)
(* "quiet": besides, no connection is between poll_handler's look at        *)
(* fl_destroyed and its srv_refs.                                           *)
Accepting == ppc \in {"accept", "accept_refs"}

MayDestroy ==
  CASE Contract = "never" -> FALSE
    [] Contract = "ready" -> fl_ready
    [] Contract = "quiet" -> fl_ready /\ ~Accepting

OwnerGoto(from, to) ==
  /\ opc = from
  /\ opc' = to
  /\ met' = IF from = "using" THEN Accepting ELSE met
  /\ UNCHANGED <<kernel, poller, hpc, hconn, hother, gcd>>

OwnerDestroy ==
  /\ MayDestroy
  /\ OwnerGoto("using", "close")
  /\ fl_ready' = FALSE
  /\ fl_destroyed' = TRUE
  /\ UNCHANGED <<srefs, connections, clients, poll, pollv, socks, conn, waiting, gcq>>

OwnerCloseListener ==
  /\ opc = "close" /\ opc' = "interrupt"
  /\ owner' = [owner EXCEPT ![fd[LISTENER]] = NULL]
  /\ fd' = [fd EXCEPT ![LISTENER] = 0]
  /\ UNCHANGED <<srv, pollv, mrefs, conn, net, poller, tcp, gc, met>>

(* if(srv->poll) wstk_poll_interrupt(srv->poll): does nothing with select,  *)
(* but looks at the poll                                                    *)
OwnerInterrupt ==
  /\ OwnerGoto("interrupt", IF poll = "null" THEN "wait" ELSE "poll")
  /\ UNCHANGED <<srv, pollv, socks, conn, waiting, gcq>>

OwnerPoll ==
  /\ OwnerGoto("poll", "wait")
  /\ UNCHANGED <<srv, pollv, socks, conn, waiting, gcq>>

OwnerWaitNot ==
  /\ OwnerGoto("wait", "free")
  /\ UNCHANGED <<srv, pollv, socks, conn, waiting, gcq>>

OwnerWait ==
  /\ srefs = 0
  /\ OwnerGoto("wait", "free")
  /\ UNCHANGED <<srv, pollv, socks, conn, waiting, gcq>>

(* the clients map, and the listener *)
OwnerFree ==
  /\ OwnerGoto("free", "workers")
  /\ clients' = [i \in Ids |-> NULL]
  /\ mrefs' = [mrefs EXCEPT ![LISTENER] = @ - 1]
  /\ UNCHANGED <<srefs, connections, fl_ready, fl_destroyed, poll, pollv, fd, conn, waiting, gcq>>

(* The workers' destructors wait for their threads and dereference what is  *)
(* still queued: ServerOutlives says that nothing is                        *)
OwnerWorkers ==
  /\ OwnerGoto("workers", "freed")
  /\ gcd = {} /\ \A t \in Handlers : hpc[t] = "idle"
  /\ gcq' = {}
  /\ waiting' = [c \in Conns |-> 0]
  /\ UNCHANGED <<srv, pollv, socks, conn>>

Destroying ==
  \/ OwnerCloseListener \/ OwnerInterrupt \/ OwnerPoll
  \/ OwnerWait \/ OwnerFree \/ OwnerWorkers

Owner == OwnerDestroy \/ Destroying

-----------------------------------------------------------------------------
(* The peers of the connections that are open *)
Connected(c) == fd[c] \in Fds /\ owner[fd[c]] = c

PeerSend(c) ==
  /\ Connected(c) /\ ~net[c].closed /\ ~net[c].data
  /\ net' = [net EXCEPT ![c].data = TRUE]
  /\ UNCHANGED <<srv, pollv, socks, conn, owner, poller, tcp, gc, owning>>

PeerClose(c) ==
  /\ Connected(c) /\ ~net[c].closed
  /\ net' = [net EXCEPT ![c].closed = TRUE]
  /\ UNCHANGED <<srv, pollv, socks, conn, owner, poller, tcp, gc, owning>>

(* the server is gone; ServerOutlives says that nobody still has it *)
Stopped == opc = "freed" /\ UNCHANGED vars

Next ==
  \/ Poller \/ Owner \/ Stopped
  \/ \E t \in Handlers : Handler(t)
  \/ \E c \in Conns : Destructor(c) \/ GcDeref(c) \/ PeerSend(c) \/ PeerClose(c)

Spec == Init /\ [][Next]_vars

(* Every thread is scheduled, and a handler returns in the end.  Nothing is *)
(* assumed of the peers, nor that the owner ever destroys the server.       *)
Fairness ==
  /\ WF_vars(Poller) /\ WF_vars(Destroying)
  /\ \A t \in Handlers : WF_vars(Handler(t)) /\ SF_vars(HandlerReturn(t))
  /\ \A c \in Conns : WF_vars(Destructor(c)) /\ WF_vars(GcDeref(c))

FairSpec == Spec /\ Fairness

-----------------------------------------------------------------------------
Connection == [stage : {"none", "live", "sock", "fd", "mark", "unmap", "wait", "derefs", "free"},
               id : Ids, refs : Nat, fl_enpolled : BOOLEAN, fl_destroyed : BOOLEAN,
               sock_destroyed : BOOLEAN, fl_do_close : BOOLEAN, rdlock : BOOLEAN]
Traffic == [data : BOOLEAN, closed : BOOLEAN]

TypeOK ==
  /\ srefs \in Nat /\ connections \in Nat
  /\ fl_ready \in BOOLEAN /\ fl_destroyed \in BOOLEAN
  /\ clients \in [Ids -> Conns \cup {NULL}]
  /\ poll \in {"set", "destroying", "freed", "null"}
  /\ sockets \subseteq (Fds \cup {0}) \X Sockets /\ slist1 \subseteq Sockets /\ slist2 \subseteq Sockets
  /\ todo \subseteq Sockets /\ fl_polling \in BOOLEAN
  /\ fd \in [Sockets -> Fds \cup {0}] /\ mrefs \in [Sockets -> 0..2]
  /\ conn \in [Conns -> Connection]
  /\ owner \in [Fds -> Sockets \cup {NULL}]
  /\ net \in [Conns -> Traffic]
  /\ ppc \in {"start", "start_inc", "workers", "listen", "loop", "select", "walk", "lists",
              "close", "close_refs", "gc", "drop", "destructor", "accept", "accept_refs", "accept_inc",
              "read_refs", "read", "perform", "out", "poll_next", "poll_null", "derefs", "end"}
  /\ met \in BOOLEAN
  /\ cur \in Sockets \cup {NULL} /\ ready \subseteq Sockets
  /\ waiting \in [Conns -> Nat]
  /\ hpc \in [Handlers -> {"idle", "start", "run", "returned", "shutdown", "derefs"}]
  /\ hconn \in [Handlers -> Conns \cup {NULL}] /\ hother \in [Handlers -> Conns \cup {NULL}]
  /\ gcq \subseteq Conns /\ gcd \subseteq Conns
  /\ opc \in {"using", "close", "interrupt", "poll", "wait", "free", "workers", "freed"}

Running(c) == {t \in Handlers : hconn[t] = c}
Guests(c) == {t \in Handlers : hother[t] = c}

(* conn->refs is what keeps a connection alive while it is queued, handled  *)
(* or looked up.  It counts exactly these uses: the increments and          *)
(* decrements of the polling thread, the handlers and the lookups match,    *)
(* also when the queue refuses, and the guard of conn_derefs never hides a  *)
(* decrement too many.                                                      *)
ConnRefsExact ==
  \A c \in Conns : ~Freed(c) =>
    conn[c].refs = waiting[c] + Cardinality(Running(c)) + Cardinality(Guests(c))
                   + (IF ppc = "perform" /\ cur = c THEN 1 ELSE 0)

(* Nobody holds a connection that is freed: not the queue, not a handler,   *)
(* its own or another one that looked it up, not the clients map, not the   *)
(* poll, its lists or the sockets it has collected, and not worker_gc.      *)
ConnOutlivesUsers ==
  \A c \in Conns : Freed(c) =>
    /\ waiting[c] = 0 /\ Running(c) = {} /\ Guests(c) = {}
    /\ \A i \in Ids : clients[i] # c
    /\ c \notin P!table \cup slist1 \cup slist2 \cup gcq \cup gcd
    /\ cur = c => ppc = "destructor"

(* A connection has one buffer: it is in the hands of at most one handler,  *)
(* queued or running, and the polling thread reads into it only when there  *)
(* is none.                                                                 *)
BufferHasOneUser ==
  \A c \in Conns :
    /\ waiting[c] + Cardinality(Running(c)) <= 1
    /\ ppc = "read" /\ cur = c => waiting[c] + Cardinality(Running(c)) = 0

(* srv->refs counts the polling thread and every connection that was        *)
(* entered in the poll and has not come to the end of its destructor.  When *)
(* the destroy begins in the middle of an accept, whose srv_refs then fails *)
(* unnoticed, the count is short by that one connection and no more, in     *)
(* whatever order the connections are given back, until the owner stops     *)
(* waiting for it.                                                          *)
PollerCounted == ppc \notin {"start", "start_inc", "end"}
Counted(c) == conn[c].fl_enpolled /\ conn[c].stage \notin {"none", "free"}

SrvRefsExact ==
  LET holders == Cardinality({c \in Conns : Counted(c)}) + (IF PollerCounted THEN 1 ELSE 0)
  IN  IF ~met THEN srefs = holders
      ELSE opc \in {"close", "interrupt", "poll", "wait"} => srefs \in {holders - 1, holders}

(* When the destructor of the server stops waiting, no thread has the       *)
(* server before it, and the workers it is about to destroy hold nothing:   *)
(* a queued connection would be dereferenced there a second time.  This is  *)
(* so unless the destroy met an accept.                                     *)
ServerOutlives ==
  opc \in {"free", "workers", "freed"} /\ ~met =>
    /\ ppc = "end"
    /\ \A t \in Handlers : hpc[t] = "idle"
    /\ \A c \in Conns : conn[c].stage \in {"none", "free"} /\ waiting[c] = 0
    /\ gcq = {}

(* srv->connections, which decides whether a client is turned away, is the  *)
(* number of connections the poll is left with after the round.             *)
ConnectionsExact ==
  /\ TypeOK
  /\ ~fl_destroyed =>
       connections = Cardinality(P!Watched \ {LISTENER})
                     + (IF ppc \in {"close_refs", "gc", "drop"} THEN 1 ELSE 0)
                     - (IF ppc \in {"accept_refs", "accept_inc"} THEN 1 ELSE 0)

(* What the poll watches is open and is what it was when it was added: no   *)
(* descriptor in the table was closed, let alone given to another socket;   *)
(* and an accepted connection is never dropped because its descriptor or    *)
(* its place in the table is still taken.                                   *)
PollSound ==
  /\ \A c \in P!table \cap Conns : conn[c].stage = "live" /\ owner[fd[c]] = c
  /\ ppc = "lists" /\ slist2 = {} => \A s \in slist1 : P!Fits(s)

(* Seen from the application, the server is TcpService: whatever the        *)
(* polling thread, the sub-threads, worker_gc and the owner do at the same  *)
(* time, a connection has one request at a time, its last one is handled    *)
(* before its attributes are freed, and the destroy of the server ends      *)
(* after all of them.                                                       *)
Life(c) ==
  CASE conn[c].stage \in {"live", "sock", "fd", "mark"} -> "open"
    [] conn[c].stage \in {"unmap", "wait"} -> "dying"
    [] conn[c].stage = "derefs" -> "attrs"
    [] OTHER -> "none"

Service == INSTANCE TcpService WITH
  life <- [c \in Conns |-> Life(c)],
  queued <- waiting,
  handled <- [c \in Conns |-> Cardinality(Running(c))],
  serving <- CASE ~fl_destroyed -> "up" [] opc \in {"free", "workers", "freed"} -> "gone"
               [] OTHER -> "closing"

ServiceSpec == Service!Spec

(* Destroying the server ends: everything its destructor and those of the   *)
(* connections wait for happens, and in no circle.                          *)
DestroyEnds == opc = "close" ~> opc = "freed"

(* A connection that was closed by its peer, expired or is in the way of a  *)
(* destroyed server is freed in the end, whoever still uses it and whoever  *)
(* of the polling thread and worker_gc comes last.                          *)
ClosedFreed == \A c \in Conns : (ppc = "close_refs" /\ cur = c) ~> Freed(c)

(* What a client has sent is taken off its socket in the end, also when it  *)
(* came while the connection was queued or handled, or its predecessor was  *)
(* refused by the queue: the connection is not deaf.                        *)
RequestRead == \A c \in Conns : net[c].data ~> ~net[c].data

-----------------------------------------------------------------------------
(* What comments promise and the code does not keep. *)

(* wstk-tcp-srv.c:1186: "Protect the socket from reading on the polling".   *)
(* A connection whose peer is there is not taken for closed, because its    *)
(* handler read, under the lock, what select had reported.                  *)
NoFalseClose ==
  ppc = "close" /\ ~fl_destroyed /\ cur # LISTENER => net[cur].closed
=============================================================================
