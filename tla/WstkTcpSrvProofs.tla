---------------------------- MODULE WstkTcpSrvProofs ----------------------------
(***************************************************************************)
(* Theorems about WstkTcpSrv for any connections, descriptors, handlers    *)
(* and limits: the invariant, and that a step keeps the parts of it about  *)
(* the polling thread, its poll, the descriptors and the memory of the     *)
(* sockets.  WstkTcpSrvCounts goes on with the counters.                   *)
(*                                                                         *)
(* The destroy that meets an accept may free the server while somebody is  *)
(* left, and the model says nothing of what comes after: Valid holds until *)
(* then, and the invariant is that of the valid states.                    *)
(***************************************************************************)
EXTENDS WstkTcpSrv, FiniteSetTheorems, TLAPS

(* The server is not freed too early. *)
Valid == ~met \/ opc \in {"using", "close", "interrupt", "poll", "wait"}

-----------------------------------------------------------------------------
(* Where the polling thread can be.                                         *)
Before == {"start", "start_inc", "workers", "listen"}
InWalk == {"walk", "close", "accept", "accept_refs", "accept_inc", "read_refs", "read", "perform"}
Dropping == {"close_refs", "gc", "drop"}
After == {"poll_next", "poll_null", "derefs", "end"}

(* fl_polling, the pointer to the poll and the lists go with the place of   *)
(* the polling thread; only the poll's destructor comes to Dropping with a  *)
(* poll that is no longer set.                                              *)
PollPhase ==
  /\ ppc \in InWalk => fl_polling
  /\ fl_polling => ppc \in InWalk \cup Dropping
  /\ ppc \in Dropping => (fl_polling <=> poll = "set")
  /\ ppc \in Dropping \cup {"destructor"} => poll \in {"set", "destroying"}
  /\ ppc = "poll_next" => poll = "destroying"
  /\ ppc = "poll_null" => poll = "freed"
  /\ ppc \in {"derefs", "end"} => poll = "null"
  /\ ppc \notin Dropping \cup After \cup {"destructor"} => poll = "set"

Lists ==
  /\ ppc \notin InWalk \cup Dropping \cup {"lists", "destructor"} => slist1 = {} /\ slist2 = {}
  /\ poll # "set" => slist1 = {} /\ slist2 = {}
  /\ slist1 \subseteq Conns /\ slist1 \cap P!table = {}
  /\ slist2 \subseteq P!table

(* The walk comes to a socket once, and before it is deleted.               *)
Walk ==
  /\ todo \subseteq P!table
  /\ todo \cap slist2 = {}
  /\ ppc \in Before => sockets = {}
  /\ poll = "set" /\ ~fl_polling => todo = {}
  /\ poll # "set" => P!table \subseteq todo \cup {LISTENER}

(* What the polling thread has in its hands.                                *)
Cur ==
  /\ cur = NULL <=> ppc \notin (InWalk \ {"walk"}) \cup Dropping \cup {"destructor"}
  /\ ppc = "accept" => cur = LISTENER
  /\ ppc \in {"close", "read_refs"} => cur \in P!table \ (slist2 \cup todo)
  /\ ppc \in {"accept_refs", "accept_inc"} => cur \in slist1
  /\ ppc \in {"read", "perform"} => cur \in P!Watched
  /\ ppc \in Dropping \cup {"destructor", "accept_refs", "accept_inc", "read_refs", "read", "perform"} => cur \in Conns
  /\ ppc = "close" /\ cur = LISTENER => fl_destroyed
  /\ ppc \in Dropping /\ fl_polling => cur \in slist2

(* Who destroys has seen fl_ready; the polling thread leaves its loop only  *)
(* then; and an accept that is still under way is the one the destroy met.  *)
Destroyed ==
  /\ fl_destroyed <=> opc # "using"
  /\ fl_ready => ppc \notin Before
  /\ fl_destroyed => ppc \notin Before
  /\ ppc = "out" \/ poll # "set" => fl_destroyed
  /\ met => fl_destroyed
  /\ fl_destroyed /\ ppc \in {"accept", "accept_refs"} => met
  /\ fl_destroyed => ppc # "accept_inc" \/ ~met

Control == PollPhase /\ Lists /\ Walk /\ Cur /\ Destroyed

-----------------------------------------------------------------------------
(* A descriptor is the number of one open socket.                           *)
Descriptors ==
  /\ \A f \in Fds : owner[f] # NULL => fd[owner[f]] = f
  /\ \A c \in Conns : conn[c].stage \in {"live", "sock", "fd"} <=> \E f \in Fds : owner[f] = c
  /\ fd[LISTENER] # 0 => owner[fd[LISTENER]] = LISTENER
  /\ fd[LISTENER] = 0 <=> opc \notin {"using", "close"}

(* An entry of the poll is under the descriptor of its socket, but for the  *)
(* listener's after it was closed, and no other entry is.                   *)
Keys ==
  /\ \A e \in sockets : e[1] \in Fds /\ (e[2] = LISTENER => fd[LISTENER] # 0) => e[1] = fd[e[2]]
  /\ \A e \in sockets : e[1] # 0
  /\ \A d, e \in sockets : d[1] = e[1] \/ d[2] = e[2] => d = e

(* A reference of a connection's socket is held by the deletion list, and   *)
(* one by the poll that watches it, or the polling thread that is about to  *)
(* give it up, or worker_gc's queue.                                        *)
InHand(c) == ppc \in Dropping /\ cur = c
Kept(c) == c \in P!Watched \/ InHand(c) \/ c \in gcq

SockRefs ==
  \A c \in Conns :
    /\ mrefs[c] = (IF c \in slist2 THEN 1 ELSE 0) + (IF Kept(c) THEN 1 ELSE 0)
    /\ c \in gcq => c \notin P!Watched /\ ~InHand(c)
    /\ InHand(c) => c \notin P!Watched
    /\ conn[c].stage = "live" <=> mrefs[c] > 0

(* A destructor is run by the polling thread or by worker_gc.               *)
Destructors ==
  \A c \in Conns :
    /\ c \in gcd <=> conn[c].stage \notin {"none", "live"} /\ ~(ppc = "destructor" /\ cur = c)
    /\ ppc = "destructor" /\ cur = c => conn[c].stage # "live"

ListenerRefs ==
  mrefs[LISTENER] = (IF LISTENER \in slist2 THEN 1 ELSE 0)
                    + (IF opc \in {"workers", "freed"} THEN 0 ELSE 1)

Memory == Descriptors /\ Keys /\ SockRefs /\ Destructors /\ ListenerRefs

-----------------------------------------------------------------------------
(* The uses of a connection: queued, handled, looked up, or about to be     *)
(* queued.                                                                  *)
Handling ==
  \A t \in Handlers :
    /\ hconn[t] # NULL <=> hpc[t] # "idle"
    /\ hother[t] # NULL => hpc[t] = "run"

Users(c) == waiting[c] + Cardinality(Running(c)) + Cardinality(Guests(c))
            + (IF ppc = "perform" /\ cur = c THEN 1 ELSE 0)

ConnRefs ==
  \A c \in Conns :
    /\ conn[c].refs = Users(c)
    /\ conn[c].stage \in {"none", "derefs", "free"} => conn[c].refs = 0

(* The map leads to a connection by its id until its destructor has taken   *)
(* it out.                                                                  *)
Clients ==
  \A i \in Ids : clients[i] # NULL =>
    /\ conn[clients[i]].id = i
    /\ conn[clients[i]].stage \in {"live", "sock", "fd", "mark", "unmap"}

OneUser ==
  \A c \in Conns :
    /\ waiting[c] + Cardinality(Running(c)) <= 1
    /\ ppc \in {"accept_refs", "accept_inc", "read", "perform"} /\ cur = c =>
         waiting[c] + Cardinality(Running(c)) = 0

Uses == Handling /\ ConnRefs /\ Clients /\ OneUser

-----------------------------------------------------------------------------
(* srv->refs is taken for the polling thread and for every connection, and  *)
(* its decrement is due when fl_enpolled says so.                           *)
AllEnpolled ==
  \A c \in Conns : conn[c].stage \notin {"none", "free"} =>
    (conn[c].fl_enpolled <=> ~(ppc \in {"accept_refs", "accept_inc"} /\ cur = c))

Holders == Cardinality({c \in Conns : Counted(c)}) + (IF PollerCounted THEN 1 ELSE 0)

SrvRefs ==
  IF ~met \/ ppc \in {"accept", "accept_refs"} THEN srefs = Holders
  ELSE srefs \in {Holders - 1, Holders}

Serving == AllEnpolled /\ SrvRefs /\ ServerOutlives

-----------------------------------------------------------------------------
(* srv->connections counts an accepted connection a step late and forgets   *)
(* a closed one a step late.                                                *)
Accepted ==
  ~fl_destroyed =>
    /\ connections = Cardinality(P!Watched \ {LISTENER})
                     + (IF ppc \in Dropping THEN 1 ELSE 0)
                     - (IF ppc \in {"accept_refs", "accept_inc"} THEN 1 ELSE 0)
    /\ Cardinality(P!Watched \ {LISTENER}) <= MaxConns

Inv == TypeOK /\ Control /\ Memory /\ Uses /\ Serving /\ Accepted

IInv == Valid => Inv

-----------------------------------------------------------------------------
(***************************************************************************)
(* The fields of connections, and types.                                   *)
(***************************************************************************)
(* A connection stays one when its references are counted.                  *)
LEMMA RefsWritten ==
  ASSUME conn \in [Conns -> Connection], NEW c \in Conns, NEW n \in Nat, conn' = [conn EXCEPT ![c].refs = n]
  PROVE  conn' \in [Conns -> Connection]
BY DEF Connection

(* ... and when its socket is released.                                     *)
LEMMA SockDerefWritten ==
  ASSUME conn \in [Conns -> Connection], NEW s \in Sockets, SockDeref(s)
  PROVE  conn' \in [Conns -> Connection]
<1>1. CASE s \notin Conns
  BY <1>1 DEF SockDeref
<1>2. CASE s \in Conns
  <2>1. conn' = conn \/ conn' = [conn EXCEPT ![s].stage = "sock"]
    BY DEF SockDeref
  <2> QED
    BY <1>2, <2>1 DEF Connection
<1> QED
  BY <1>1, <1>2

(* What the threads write into connections and their traffic keeps its form. *)
LEMMA NextRecords ==
  ASSUME Inv, Next
  PROVE  conn' \in [Conns -> Connection] /\ net' \in [Conns -> Traffic]
<1>a. conn \in [Conns -> Connection] /\ net \in [Conns -> Traffic]
  BY DEF Inv, TypeOK
<1>b. /\ \A t \in Handlers : hpc[t] # "idle" => hconn[t] \in Conns
      /\ \A t \in Handlers : hother[t] # NULL => hother[t] \in Conns
      /\ \A i \in Ids : clients[i] # NULL => clients[i] \in Conns
      /\ ppc \in {"drop", "accept_refs", "accept_inc", "read", "perform"} => cur \in Conns
  BY DEF Inv, TypeOK, Control, Cur, InWalk, Dropping, Uses, Handling
<1>c. \A c \in Conns : conn[c].refs \in Nat
  BY <1>a DEF Connection
<1> USE <1>a
<1>1. CASE Poller
  <2>1. CASE PollerRefs
    BY <2>1 DEF PollerRefs, Goto, Test, kernel
  <2>2. CASE PollerRefsInc
    BY <2>2 DEF PollerRefsInc, Goto, kernel
  <2>3. CASE PollerWorkers
    BY <2>3 DEF PollerWorkers, Goto, Test, kernel
  <2>4. CASE PollerListen
    BY <2>4 DEF PollerListen, Goto, P!Add, kernel
  <2>5. CASE PollerLoop
    BY <2>5 DEF PollerLoop, Goto, Test, kernel
  <2>6. CASE PollerSelect
    BY <2>6 DEF PollerSelect, Goto, P!Begin, P!Idle, kernel
  <2>7. CASE PollerSelectFails
    BY <2>7 DEF PollerSelectFails, Goto, Test, kernel
  <2>8. CASE PollerEndWalk
    BY <2>8 DEF PollerEndWalk, Goto, P!EndWalk, kernel
  <2>9. CASE PollerClose
    BY <2>9 DEF PollerClose, Goto, P!Del, P!DelRefs, kernel
  <2>10. CASE PollerCloseRefs
    BY <2>10 DEF PollerCloseRefs, Goto, Test, kernel
  <2>11. CASE PollerGc
    BY <2>11 DEF PollerGc, Goto, Back, kernel
  <2>12. CASE PollerGcRefused
    BY <2>12 DEF PollerGcRefused, Goto, Test, kernel
  <2>13. CASE PollerDrop
    <3>1. cur \in Sockets /\ net' = net /\ (conn' = conn \/ SockDeref(cur))
      BY <2>13, <1>b DEF PollerDrop, kernel, Sockets
    <3> QED
      BY <3>1, SockDerefWritten
  <2>14. CASE PollerDestructed
    BY <2>14 DEF PollerDestructed, Goto, Freed, kernel
  <2>15. CASE PollerAcceptNone
    BY <2>15 DEF PollerAcceptNone, Goto, kernel
  <2>16. CASE PollerAcceptRefs
    <3>1. cur \in Conns /\ net' = net /\ (conn' = conn \/ Enpolled(cur))
      BY <2>16, <1>b DEF PollerAcceptRefs, Test, Goto, kernel
    <3>2. CASE Enpolled(cur)
      BY <3>1, <3>2 DEF Connection, Enpolled
    <3> QED
      BY <3>1, <3>2
  <2>17. CASE PollerAcceptInc
    <3>1. cur \in Conns /\ conn' = [conn EXCEPT ![cur].fl_enpolled = TRUE] /\ net' = net
      BY <2>17, <1>b DEF PollerAcceptInc, Goto, Enpolled, kernel
    <3> QED
      BY <3>1 DEF Connection
  <2>18. CASE PollerReadRefs
    BY <2>18 DEF PollerReadRefs, Goto, kernel
  <2>19. CASE PollerRead
    <3>1. cur \in Conns /\ net' = [net EXCEPT ![cur].data = FALSE]
      BY <2>19, <1>b DEF PollerRead
    <3>2. net' \in [Conns -> Traffic]
      BY <3>1 DEF Traffic
    <3>3. conn' = conn \/ conn' = [conn EXCEPT ![cur].refs = conn[cur].refs + 1]
      BY <2>19 DEF PollerRead
    <3>4. conn' \in [Conns -> Connection]
      BY <3>1, <3>3, <1>c, RefsWritten
    <3> QED
      BY <3>2, <3>4
  <2>20. CASE PollerPerform
    BY <2>20 DEF PollerPerform, kernel
  <2>21. CASE PollerPerformRefused
    <3>1. cur \in Conns /\ conn' = [conn EXCEPT ![cur].refs = Dec(conn[cur].refs)] /\ net' = net
      BY <2>21, <1>b DEF PollerPerformRefused, Goto, kernel
    <3>2. Dec(conn[cur].refs) \in Nat
      BY <3>1, <1>c DEF Dec
    <3> QED
      BY <3>1, <3>2, RefsWritten
  <2>22. CASE PollerRoundDone
    BY <2>22 DEF PollerRoundDone, Goto, Test, kernel
  <2>23. CASE PollerOut
    BY <2>23 DEF PollerOut, Goto, kernel
  <2>24. CASE PollerPollFreed
    BY <2>24 DEF PollerPollFreed, Goto, kernel
  <2>25. CASE PollerPollNull
    BY <2>25 DEF PollerPollNull, Goto, kernel
  <2>26. CASE PollerDerefs
    BY <2>26 DEF PollerDerefs, Goto, kernel
  <2>27. ASSUME NEW s \in Sockets, PollerVisit(s)
        PROVE  conn' \in [Conns -> Connection] /\ net' \in [Conns -> Traffic]
    BY <2>27 DEF PollerVisit, Goto, P!Visit, Reported, kernel
  <2>28. ASSUME NEW s \in Sockets, PollerDelPerform(s)
        PROVE  conn' \in [Conns -> Connection] /\ net' \in [Conns -> Traffic]
    <3>1. s \in Sockets /\ net' = net /\ (conn' = conn \/ SockDeref(s))
      BY <2>28, <1>b DEF PollerDelPerform, ListDeref, kernel, Sockets
    <3> QED
      BY <3>1, SockDerefWritten
  <2>29. ASSUME NEW s \in Sockets, PollerAddPerform(s)
        PROVE  conn' \in [Conns -> Connection] /\ net' \in [Conns -> Traffic]
    <3>1. s \in Sockets /\ net' = net /\ (conn' = conn \/ SockDeref(s))
      BY <2>29, <1>b DEF PollerAddPerform, ListDeref, kernel, Sockets
    <3> QED
      BY <3>1, SockDerefWritten
  <2>30. ASSUME NEW s \in Sockets, PollerPollNext(s)
        PROVE  conn' \in [Conns -> Connection] /\ net' \in [Conns -> Traffic]
    BY <2>30 DEF PollerPollNext, Goto, kernel
  <2>31. ASSUME NEW c \in Conns, NEW i \in Ids, PollerAccept(c, i)
        PROVE  conn' \in [Conns -> Connection] /\ net' \in [Conns -> Traffic]
    <3>1. conn' = [conn EXCEPT ![c] = Fresh(i)] /\ net' = [net EXCEPT ![c] = Silent]
      BY <2>31 DEF PollerAccept
    <3>2. Fresh(i) \in Connection /\ Silent \in Traffic
      BY DEF Fresh, Connection, Silent, Traffic
    <3> QED
      BY <3>1, <3>2
  <2> QED
    BY <1>1, <2>1, <2>2, <2>3, <2>4, <2>5, <2>6, <2>7, <2>8, <2>9, <2>10, <2>11, <2>12, <2>13, <2>14, <2>15,
       <2>16, <2>17, <2>18, <2>19, <2>20, <2>21, <2>22, <2>23, <2>24, <2>25, <2>26, <2>27, <2>28, <2>29,
       <2>30, <2>31 DEF Poller
<1>2. ASSUME NEW t \in Handlers, Handler(t)
      PROVE  conn' \in [Conns -> Connection] /\ net' \in [Conns -> Traffic]
  <2>1. CASE HandlerStart(t)
    BY <2>1 DEF HandlerStart, Thread, kernel
  <2>2. CASE HandlerClose(t)
    <3>1. hconn[t] \in Conns /\ conn' = [conn EXCEPT ![hconn[t]].fl_do_close = TRUE] /\ net' = net
      BY <2>2, <1>b DEF HandlerClose, Thread, kernel
    <3> QED
      BY <3>1 DEF Connection
  <2>3. CASE HandlerRead(t)
    <3>1. hconn[t] \in Conns /\ net' = [net EXCEPT ![hconn[t]].data = FALSE] /\ conn' = conn
      BY <2>3, <1>b DEF HandlerRead, Thread
    <3> QED
      BY <3>1 DEF Traffic, Silent
  <2>4. CASE HandlerReadFails(t)
    <3>1. hconn[t] \in Conns /\ conn' = [conn EXCEPT ![hconn[t]].fl_do_close = TRUE] /\ net' = net
      BY <2>4, <1>b DEF HandlerReadFails, Thread, kernel
    <3> QED
      BY <3>1 DEF Connection
  <2>5. CASE HandlerRelease(t)
    <3>1. hother[t] \in Conns /\ conn' = [conn EXCEPT ![hother[t]].refs = Dec(conn[hother[t]].refs)] /\ net' = net
      BY <2>5, <1>b DEF HandlerRelease, ConnDeref, Thread, kernel
    <3>2. Dec(conn[hother[t]].refs) \in Nat
      BY <3>1, <1>c DEF Dec
    <3> QED
      BY <3>1, <3>2, RefsWritten
  <2>6. CASE HandlerReturn(t)
    BY <2>6 DEF HandlerReturn, Thread, kernel
  <2>7. CASE HandlerReturned(t)
    BY <2>7 DEF HandlerReturned, Thread, kernel
  <2>8. CASE HandlerShutdown(t)
    <3>1. conn' = conn /\ net' = [c \in Conns |-> IF owner[fd[hconn[t]]] = c THEN [net[c] EXCEPT !.closed = TRUE] ELSE net[c]]
      BY <2>8 DEF HandlerShutdown
    <3> QED
      BY <3>1 DEF Traffic
  <2>9. CASE HandlerDerefs(t)
    <3>1. hconn[t] \in Conns /\ conn' = [conn EXCEPT ![hconn[t]].refs = Dec(conn[hconn[t]].refs)] /\ net' = net
      BY <2>9, <1>b DEF HandlerDerefs, ConnDeref, Thread, kernel
    <3>2. Dec(conn[hconn[t]].refs) \in Nat
      BY <3>1, <1>c DEF Dec
    <3> QED
      BY <3>1, <3>2, RefsWritten
  <2>10. ASSUME NEW c \in Conns, HandlerTake(t, c)
        PROVE  conn' \in [Conns -> Connection] /\ net' \in [Conns -> Traffic]
    BY <2>10 DEF HandlerTake, Thread, kernel
  <2>11. ASSUME NEW flag \in BOOLEAN, HandlerRdlock(t, flag)
        PROVE  conn' \in [Conns -> Connection] /\ net' \in [Conns -> Traffic]
    <3>1. hconn[t] \in Conns /\ conn' = [conn EXCEPT ![hconn[t]].rdlock = flag] /\ net' = net
      BY <2>11, <1>b DEF HandlerRdlock, Thread, kernel
    <3> QED
      BY <3>1 DEF Connection
  <2>12. ASSUME NEW i \in Ids, HandlerLookup(t, i)
        PROVE  conn' \in [Conns -> Connection] /\ net' \in [Conns -> Traffic]
    <3>1. clients[i] \in Conns /\ conn' = [conn EXCEPT ![clients[i]].refs = conn[clients[i]].refs + 1] /\ net' = net
      BY <2>12, <1>b DEF HandlerLookup, ConnRef, Thread, kernel
    <3>2. conn[clients[i]].refs + 1 \in Nat
      BY <3>1, <1>c DEF Dec
    <3> QED
      BY <3>1, <3>2, RefsWritten
  <2> QED
    BY <1>2, <2>1, <2>2, <2>3, <2>4, <2>5, <2>6, <2>7, <2>8, <2>9, <2>10, <2>11, <2>12 DEF Handler
<1>3. ASSUME NEW c \in Conns, Destructor(c)
      PROVE  conn' \in [Conns -> Connection] /\ net' \in [Conns -> Traffic]
  <2>1. CASE SockMark(c)
    <3>1. c \in Conns /\ conn' = [conn EXCEPT ![c].stage = "fd", ![c].sock_destroyed = TRUE] /\ net' = net
      BY <2>1 DEF SockMark, kernel
    <3> QED
      BY <3>1 DEF Connection
  <2>2. CASE SockCloseFd(c)
    <3>1. conn' = [conn EXCEPT ![c].stage = "mark"] /\ net' = [net EXCEPT ![c] = Silent]
      BY <2>2 DEF SockCloseFd
    <3>2. Silent \in Traffic
      BY DEF Silent, Traffic
    <3>3. net' \in [Conns -> Traffic]
      BY <3>1, <3>2
    <3>4. conn' \in [Conns -> Connection]
      BY <3>1 DEF Connection
    <3> QED
      BY <3>3, <3>4
  <2>3. CASE ConnMark(c)
    <3>1. c \in Conns /\ conn' = [conn EXCEPT ![c].stage = "unmap", ![c].fl_destroyed = TRUE] /\ net' = net
      BY <2>3 DEF ConnMark, kernel
    <3> QED
      BY <3>1 DEF Connection
  <2>4. CASE ConnUnmap(c)
    <3>1. c \in Conns /\ conn' = [conn EXCEPT ![c].stage = "wait"] /\ net' = net
      BY <2>4 DEF ConnUnmap, kernel
    <3> QED
      BY <3>1 DEF Connection
  <2>5. CASE ConnWait(c)
    <3>1. c \in Conns /\ conn' = [conn EXCEPT ![c].stage = "derefs"] /\ net' = net
      BY <2>5 DEF ConnWait, kernel
    <3> QED
      BY <3>1 DEF Connection
  <2>6. CASE ConnSrvDeref(c)
    <3>1. c \in Conns /\ conn' = [conn EXCEPT ![c].stage = "free"] /\ net' = net
      BY <2>6 DEF ConnSrvDeref, kernel
    <3> QED
      BY <3>1 DEF Connection
  <2>7. CASE ConnFree(c)
    <3>1. conn' = [conn EXCEPT ![c] = NoConn] /\ net' = net
      BY <2>7 DEF ConnFree, kernel
    <3>2. NoConn \in Connection
      BY TcpAssumption DEF NoConn, Fresh, Connection
    <3> QED
      BY <3>1, <3>2
  <2> QED
    BY <1>3, <2>1, <2>2, <2>3, <2>4, <2>5, <2>6, <2>7 DEF Destructor
<1>4. ASSUME NEW c \in Conns, GcDeref(c)
      PROVE  conn' \in [Conns -> Connection] /\ net' \in [Conns -> Traffic]
  <2>1. c \in Sockets /\ net' = net /\ (conn' = conn \/ SockDeref(c))
    BY <1>4, <1>b DEF GcDeref, kernel, Sockets
  <2> QED
    BY <2>1, SockDerefWritten
<1>5. CASE Owner
  <2>1. CASE OwnerDestroy
    BY <2>1 DEF OwnerDestroy, OwnerGoto, MayDestroy, Accepting, kernel
  <2>2. CASE OwnerCloseListener
    BY <2>2 DEF OwnerCloseListener, kernel
  <2>3. CASE OwnerInterrupt
    BY <2>3 DEF OwnerInterrupt, OwnerGoto, kernel
  <2>4. CASE OwnerPoll
    BY <2>4 DEF OwnerPoll, OwnerGoto, kernel
  <2>5. CASE OwnerWait
    BY <2>5 DEF OwnerWait, OwnerGoto, kernel
  <2>6. CASE OwnerFree
    BY <2>6 DEF OwnerFree, OwnerGoto, kernel
  <2>7. CASE OwnerWorkers
    BY <2>7 DEF OwnerWorkers, OwnerGoto, kernel
  <2> QED
    BY <1>5, <2>1, <2>2, <2>3, <2>4, <2>5, <2>6, <2>7 DEF Owner, Destroying
<1>6. ASSUME NEW c \in Conns, PeerSend(c) \/ PeerClose(c)
      PROVE  conn' \in [Conns -> Connection] /\ net' \in [Conns -> Traffic]
  <2>1. conn' = conn /\ (net' = [net EXCEPT ![c].data = TRUE] \/ net' = [net EXCEPT ![c].closed = TRUE])
    BY <1>6 DEF PeerSend, PeerClose
  <2> QED
    BY <2>1 DEF Traffic
<1>7. CASE Stopped
  BY <1>7 DEF Stopped, vars, kernel
<1> QED
  BY <1>1, <1>2, <1>3, <1>4, <1>5, <1>6, <1>7 DEF Next

(* A step keeps every field in its type: the poll takes only sockets of the *)
(* server, and a socket gets its second reference at most once.             *)
LEMMA NextTypeOK ==
  ASSUME Inv, Next
  PROVE  TypeOK'
<1> USE TcpAssumption, NextRecords DEF srv, pollv, socks, kernel, poller, tcp, gc, owning, P!SamePass,
        P!lists, P!walk, Sockets, TypeOK, Dec
<1>a. TypeOK
  BY DEF Inv
<1>b. /\ P!table \subseteq Sockets
      /\ \A s \in Sockets : P!With(s) \subseteq (Fds \cup {0}) \X Sockets /\ P!Without(s) \subseteq (Fds \cup {0}) \X Sockets
  BY <1>a DEF P!table, P!With, P!Without
<1>c. /\ ppc \in {"close", "close_refs", "gc", "drop"} => cur \in Sockets
      /\ ppc \in {"close_refs", "gc", "drop", "perform"} => cur \in Conns
      /\ slist1 \subseteq Conns
      /\ \A i \in Ids : clients[i] # NULL => clients[i] \in Conns
  BY <1>a, <1>b DEF Inv, Control, Cur, Lists, InWalk, Dropping
<1>d. /\ \A s \in Sockets : s \in slist1 \cup slist2 => mrefs[s] > 0
      /\ \A c \in Conns : c \in gcq => mrefs[c] > 0
      /\ ppc = "drop" => mrefs[cur] > 0
      /\ ppc = "close" => mrefs[cur] <= 1
      /\ opc = "free" => mrefs[LISTENER] > 0
  BY <1>a, <1>c DEF Inv, Control, Cur, Lists, InWalk, Dropping, Memory, SockRefs, ListenerRefs, Kept, InHand,
     P!Watched
<1>e. /\ \A c \in Conns : conn[c].id \in Ids
      /\ \A c \in Conns : conn[c].stage = "fd" => fd[c] \in Fds
      /\ opc = "close" => fd[LISTENER] \in Fds
  BY <1>a DEF Connection, Inv, Memory, Descriptors
<1> USE <1>a, <1>b, <1>c, <1>d, <1>e
<1>1. CASE Poller
  <2>1. CASE PollerRefs
    BY <2>1 DEF PollerRefs, Goto, Test
  <2>2. CASE PollerRefsInc
    BY <2>2 DEF PollerRefsInc, Goto
  <2>3. CASE PollerWorkers
    BY <2>3 DEF PollerWorkers, Goto, Test
  <2>4. CASE PollerListen
    BY <2>4 DEF PollerListen, Goto, P!Add
  <2>5. CASE PollerLoop
    BY <2>5 DEF PollerLoop, Goto, Test
  <2>6. CASE PollerSelect
    BY <2>6 DEF PollerSelect, Goto, P!Begin, P!Idle
  <2>7. CASE PollerSelectFails
    BY <2>7 DEF PollerSelectFails, Goto, Test
  <2>8. CASE PollerEndWalk
    BY <2>8 DEF PollerEndWalk, Goto, P!EndWalk
  <2>9. CASE PollerClose
    BY <2>9 DEF PollerClose, Goto, P!Del, P!DelRefs
  <2>10. CASE PollerCloseRefs
    BY <2>10 DEF PollerCloseRefs, Goto, Test
  <2>11. CASE PollerGc
    BY <2>11 DEF PollerGc, Goto, Back
  <2>12. CASE PollerGcRefused
    BY <2>12 DEF PollerGcRefused, Goto, Test
  <2>13. CASE PollerDrop
    BY <2>13 DEF PollerDrop, Goto, Back, LastRef, SockDeref
  <2>14. CASE PollerDestructed
    BY <2>14 DEF PollerDestructed, Goto, Freed
  <2>15. CASE PollerAcceptNone
    BY <2>15 DEF PollerAcceptNone, Goto
  <2>16. CASE PollerAcceptRefs
    BY <2>16 DEF PollerAcceptRefs, Goto, Test, Enpolled
  <2>17. CASE PollerAcceptInc
    BY <2>17 DEF PollerAcceptInc, Goto, Enpolled
  <2>18. CASE PollerReadRefs
    BY <2>18 DEF PollerReadRefs, Goto
  <2>19. CASE PollerRead
    BY <2>19 DEF PollerRead, Goto
  <2>20. CASE PollerPerform
    BY <2>20 DEF PollerPerform
  <2>21. CASE PollerPerformRefused
    BY <2>21 DEF PollerPerformRefused, Goto
  <2>22. CASE PollerRoundDone
    BY <2>22 DEF PollerRoundDone, Goto, Test
  <2>23. CASE PollerOut
    BY <2>23 DEF PollerOut, Goto
  <2>24. CASE PollerPollFreed
    BY <2>24 DEF PollerPollFreed, Goto
  <2>25. CASE PollerPollNull
    BY <2>25 DEF PollerPollNull, Goto
  <2>26. CASE PollerDerefs
    BY <2>26 DEF PollerDerefs, Goto
  <2>27. ASSUME NEW s \in Sockets, PollerVisit(s)
        PROVE  TypeOK'
    BY <2>27 DEF PollerVisit, Goto, P!Visit, Reported
  <2>28. ASSUME NEW s \in Sockets, PollerDelPerform(s)
        PROVE  TypeOK'
    BY <2>28 DEF PollerDelPerform, Goto, P!DelPerform, ListDeref, LastRef, SockDeref
  <2>29. ASSUME NEW s \in Sockets, PollerAddPerform(s)
        PROVE  TypeOK'
    BY <2>29 DEF PollerAddPerform, Goto, P!AddPerform, P!Refused, ListDeref, LastRef, SockDeref
  <2>30. ASSUME NEW s \in Sockets, PollerPollNext(s)
        PROVE  TypeOK'
    BY <2>30 DEF PollerPollNext, Goto
  <2>31. ASSUME NEW c \in Conns, NEW i \in Ids, PollerAccept(c, i)
        PROVE  TypeOK'
    BY <2>31 DEF PollerAccept, Goto, P!Add, Freed, Fresh, FreeFds
  <2> QED
    BY <1>1, <2>1, <2>2, <2>3, <2>4, <2>5, <2>6, <2>7, <2>8, <2>9, <2>10, <2>11, <2>12, <2>13, <2>14, <2>15,
       <2>16, <2>17, <2>18, <2>19, <2>20, <2>21, <2>22, <2>23, <2>24, <2>25, <2>26, <2>27, <2>28, <2>29,
       <2>30, <2>31 DEF Poller
<1>2. ASSUME NEW t \in Handlers, Handler(t)
      PROVE  TypeOK'
  <2>1. CASE HandlerStart(t)
    BY <2>1 DEF HandlerStart, Thread
  <2>2. CASE HandlerClose(t)
    BY <2>2 DEF HandlerClose, Thread
  <2>3. CASE HandlerRead(t)
    BY <2>3 DEF HandlerRead, Thread
  <2>4. CASE HandlerReadFails(t)
    BY <2>4 DEF HandlerReadFails, Thread
  <2>5. CASE HandlerRelease(t)
    BY <2>5 DEF HandlerRelease, Thread, ConnDeref
  <2>6. CASE HandlerReturn(t)
    BY <2>6 DEF HandlerReturn, Thread
  <2>7. CASE HandlerReturned(t)
    BY <2>7 DEF HandlerReturned, Thread
  <2>8. CASE HandlerShutdown(t)
    BY <2>8 DEF HandlerShutdown, Thread
  <2>9. CASE HandlerDerefs(t)
    BY <2>9 DEF HandlerDerefs, Thread, ConnDeref
  <2>10. ASSUME NEW c \in Conns, HandlerTake(t, c)
        PROVE  TypeOK'
    BY <2>10 DEF HandlerTake, Thread
  <2>11. ASSUME NEW flag \in BOOLEAN, HandlerRdlock(t, flag)
        PROVE  TypeOK'
    BY <2>11 DEF HandlerRdlock, Thread
  <2>12. ASSUME NEW i \in Ids, HandlerLookup(t, i)
        PROVE  TypeOK'
    BY <2>12 DEF HandlerLookup, Thread, ConnRef
  <2> QED
    BY <1>2, <2>1, <2>2, <2>3, <2>4, <2>5, <2>6, <2>7, <2>8, <2>9, <2>10, <2>11, <2>12 DEF Handler
<1>3. ASSUME NEW c \in Conns, Destructor(c)
      PROVE  TypeOK'
  <2>1. CASE SockMark(c)
    BY <2>1 DEF SockMark, InStage
  <2>2. CASE SockCloseFd(c)
    BY <2>2 DEF SockCloseFd, InStage
  <2>3. CASE ConnMark(c)
    BY <2>3 DEF ConnMark, InStage
  <2>4. CASE ConnUnmap(c)
    BY <2>4 DEF ConnUnmap, InStage
  <2>5. CASE ConnWait(c)
    BY <2>5 DEF ConnWait, InStage
  <2>6. CASE ConnSrvDeref(c)
    BY <2>6 DEF ConnSrvDeref, InStage
  <2>7. CASE ConnFree(c)
    BY <2>7 DEF ConnFree, NoConn, Fresh
  <2> QED
    BY <1>3, <2>1, <2>2, <2>3, <2>4, <2>5, <2>6, <2>7 DEF Destructor
<1>4. ASSUME NEW c \in Conns, GcDeref(c)
      PROVE  TypeOK'
  BY <1>4 DEF GcDeref, SockDeref, LastRef
<1>5. CASE Owner
  <2>1. CASE OwnerDestroy
    <3>1. met' \in BOOLEAN
      <4>1. Accepting \in BOOLEAN
        BY DEF Accepting
      <4> QED
        BY <2>1, <4>1 DEF OwnerDestroy, OwnerGoto
    <3>2. opc' = "close" /\ fl_ready' = FALSE /\ fl_destroyed' = TRUE
      BY <2>1 DEF OwnerDestroy, OwnerGoto
    <3> QED
      BY <2>1, <3>1, <3>2 DEF OwnerDestroy, OwnerGoto, Accepting
  <2>2. CASE OwnerCloseListener
    BY <2>2 DEF OwnerCloseListener
  <2>3. CASE OwnerInterrupt
    BY <2>3 DEF OwnerInterrupt, OwnerGoto
  <2>4. CASE OwnerPoll
    BY <2>4 DEF OwnerPoll, OwnerGoto
  <2>5. CASE OwnerWait
    BY <2>5 DEF OwnerWait, OwnerGoto
  <2>6. CASE OwnerFree
    BY <2>6 DEF OwnerFree, OwnerGoto
  <2>7. CASE OwnerWorkers
    BY <2>7 DEF OwnerWorkers, OwnerGoto
  <2> QED
    BY <1>5, <2>1, <2>2, <2>3, <2>4, <2>5, <2>6, <2>7 DEF Owner, Destroying
<1>6. ASSUME NEW c \in Conns, PeerSend(c) \/ PeerClose(c)
      PROVE  TypeOK'
  BY <1>6 DEF PeerSend, PeerClose
<1>7. CASE Stopped
  BY <1>7 DEF Stopped, vars, srv, pollv, socks, kernel, poller, tcp, gc, owning
<1> QED
  BY <1>1, <1>2, <1>3, <1>4, <1>5, <1>6, <1>7 DEF Next

-----------------------------------------------------------------------------
(***************************************************************************)
(* What the threads leave alone.                                           *)
(***************************************************************************)
(* The polling thread touches no handler and is not the owner.              *)
LEMMA PollerKeeps ==
  ASSUME Poller
  PROVE  UNCHANGED <<hpc, hconn, hother, opc, met, fl_destroyed>>
BY DEF Poller, Goto, Test, PollerRefs, PollerRefsInc, PollerWorkers, PollerListen, PollerLoop, PollerSelect,
       PollerSelectFails, PollerVisit, PollerEndWalk, PollerClose, PollerCloseRefs, PollerGc, PollerGcRefused,
       PollerDrop, PollerDestructed, PollerAcceptNone, PollerAccept, PollerAcceptRefs, PollerAcceptInc,
       PollerReadRefs, PollerRead, PollerPerform, PollerPerformRefused, ListDeref, PollerDelPerform,
       PollerAddPerform, PollerRoundDone, PollerOut, PollerPollNext, PollerPollFreed, PollerPollNull,
       PollerDerefs, srv, tcp, owning

(* Handlers touch connections and what they read, nothing else.             *)
LEMMA HandlerKeeps ==
  ASSUME NEW t \in Handlers, Handler(t)
  PROVE  UNCHANGED <<srv, pollv, socks, owner, poller, gc, owning>>
BY DEF Handler, Thread, HandlerStart, HandlerClose, HandlerRead, HandlerReadFails, HandlerRelease,
       HandlerReturn, HandlerReturned, HandlerShutdown, HandlerDerefs, HandlerTake, HandlerRdlock, HandlerLookup, kernel

(* A destructor leaves the poll and who runs it alone.                      *)
LEMMA DestructorKeeps ==
  ASSUME NEW c \in Conns, Destructor(c)
  PROVE  UNCHANGED <<pollv, mrefs, poller, tcp, gcq, owning, connections, fl_ready, fl_destroyed, poll>>
BY DEF Destructor, InStage, SockMark, SockCloseFd, ConnMark, ConnUnmap, ConnWait, ConnSrvDeref, ConnFree,
   srv, socks

(* The owner leaves connections and the poll alone.                         *)
LEMMA OwnerKeeps ==
  ASSUME Owner
  PROVE  UNCHANGED <<pollv, connections, poll, conn, net, poller, hpc, hconn, hother, gcd>>
BY DEF Owner, Destroying, OwnerGoto, OwnerDestroy, OwnerCloseListener, OwnerInterrupt, OwnerPoll, OwnerWait,
       OwnerFree, OwnerWorkers, srv, socks, kernel, tcp, gc

(***************************************************************************)
(* The table of the poll.                                                  *)
(***************************************************************************)
(* An entry adds its socket to the table.                                   *)
LEMMA Entered ==
  ASSUME NEW s, sockets' = P!With(s)
  PROVE  P!table' = P!table \cup {s}
<1>1. <<fd[s], s>>[2] = s
  OBVIOUS
<1> QED
  BY <1>1 DEF P!With, P!table

(* A deletion takes out its socket, but for a listener that was closed.     *)
LEMMA Deleted ==
  ASSUME TypeOK, Keys, NEW s \in P!table, sockets' = P!Without(s)
  PROVE  /\ sockets' \subseteq sockets
         /\ P!table' = P!table \ {s} \/ (s = LISTENER /\ sockets' = sockets)
<1>1. PICK e \in sockets : e[2] = s
  BY DEF P!table
<1>2. sockets \subseteq (Fds \cup {0}) \X Sockets
  BY DEF TypeOK
<1>3. CASE s = LISTENER /\ fd[s] = 0
  BY <1>3 DEF P!Without, Keys
<1>4. CASE s # LISTENER \/ fd[s] # 0
  <2>1. e[1] = fd[s]
    BY <1>1, <1>2, <1>4 DEF Keys
  <2>2. \A d \in sockets : d[1] = fd[s] <=> d[2] = s
    BY <1>1, <2>1 DEF Keys
  <2>3. \A d \in P!Without(s) : d \in sockets /\ d[2] # s
    BY <2>2 DEF P!Without
  <2>4. \A d \in sockets : d[2] # s => d \in P!Without(s)
    BY <2>2 DEF P!Without
  <2>5. sockets' \subseteq sockets
    BY <2>3
  <2>6. P!table' = P!table \ {s}
    <3>1. \A x \in P!table' : x \in P!table \ {s}
      BY <2>3 DEF P!table
    <3>2. \A x \in P!table \ {s} : x \in P!table'
      BY <2>4 DEF P!table
    <3> QED
      BY <3>1, <3>2
  <2> QED
    BY <2>5, <2>6
<1> QED
  BY <1>3, <1>4 DEF P!Without

(* What the polling thread is at agrees with its poll: one step per action, *)
(* whoever takes it.                                                        *)
LEMMA NextControl ==
  ASSUME Valid, Inv, Next
  PROVE  Control'
<1> USE TcpAssumption DEF srv, pollv, socks, kernel, poller, tcp, gc, owning, Sockets, Control, PollPhase,
        Lists, Walk, Cur, Destroyed, Before, InWalk, Dropping, After, P!table, P!Watched, P!SamePass,
        P!lists, P!walk
<1>a. Control /\ TypeOK
  BY DEF Inv
<1> USE <1>a DEF TypeOK
<1>1. CASE Poller
  <2>1. CASE PollerRefs
    BY <2>1 DEF PollerRefs, Goto, Test
  <2>2. CASE PollerRefsInc
    BY <2>2 DEF PollerRefsInc, Goto
  <2>3. CASE PollerWorkers
    BY <2>3 DEF PollerWorkers, Goto, Test
  <2>4. CASE PollerListen
    BY <2>4 DEF PollerListen, Goto, P!Add
  <2>5. CASE PollerLoop
    BY <2>5 DEF PollerLoop, Goto, Test
  <2>6. CASE PollerSelect
    BY <2>6 DEF PollerSelect, Goto, P!Begin, P!Idle
  <2>7. CASE PollerSelectFails
    BY <2>7 DEF PollerSelectFails, Goto, Test
  <2>8. CASE PollerEndWalk
    BY <2>8 DEF PollerEndWalk, Goto, P!EndWalk
  <2>9. CASE PollerClose
    BY <2>9 DEF PollerClose, Goto, P!Del, P!DelRefs
  <2>10. CASE PollerCloseRefs
    BY <2>10 DEF PollerCloseRefs, Goto, Test
  <2>11. CASE PollerGc
    BY <2>11 DEF PollerGc, Goto, Back
  <2>12. CASE PollerGcRefused
    BY <2>12 DEF PollerGcRefused, Goto, Test
  <2>13. CASE PollerDrop
    <3>1. fl_polling => mrefs[cur] = 2
      BY <2>13 DEF Inv, Memory, SockRefs, Kept, InHand, PollerDrop
    <3> QED
      BY <2>13, <3>1 DEF PollerDrop, Goto, Back, LastRef, SockDeref
  <2>14. CASE PollerDestructed
    BY <2>14 DEF PollerDestructed, Goto, Freed
  <2>15. CASE PollerAcceptNone
    BY <2>15 DEF PollerAcceptNone, Goto
  <2>16. CASE PollerAcceptRefs
    BY <2>16 DEF PollerAcceptRefs, Goto, Test, Enpolled
  <2>17. CASE PollerAcceptInc
    BY <2>17 DEF PollerAcceptInc, Goto, Enpolled
  <2>18. CASE PollerReadRefs
    BY <2>18 DEF PollerReadRefs, Goto
  <2>19. CASE PollerRead
    BY <2>19 DEF PollerRead, Goto
  <2>20. CASE PollerPerform
    BY <2>20 DEF PollerPerform
  <2>21. CASE PollerPerformRefused
    BY <2>21 DEF PollerPerformRefused, Goto
  <2>22. CASE PollerRoundDone
    BY <2>22 DEF PollerRoundDone, Goto, Test
  <2>23. CASE PollerOut
    BY <2>23 DEF PollerOut, Goto
  <2>24. CASE PollerPollFreed
    BY <2>24 DEF PollerPollFreed, Goto
  <2>25. CASE PollerPollNull
    BY <2>25 DEF PollerPollNull, Goto
  <2>26. CASE PollerDerefs
    BY <2>26 DEF PollerDerefs, Goto
  <2>27. ASSUME NEW s \in Sockets, PollerVisit(s)
        PROVE  Control'
    BY <2>27 DEF PollerVisit, Goto, P!Visit, Reported
  <2>28. ASSUME NEW s \in Sockets, PollerDelPerform(s)
        PROVE  Control'
    <3>0. s \in P!table /\ sockets' = P!Without(s)
      BY <2>28 DEF PollerDelPerform, P!DelPerform
    <3>1. P!table' = P!table \ {s} \/ (s = LISTENER /\ sockets' = sockets)
      BY <3>0, Deleted DEF Inv, Memory
    <3>2. s = LISTENER => ~LastRef(s)
      BY <2>28 DEF PollerDelPerform, P!DelPerform, ListDeref, Goto, Inv, Memory, ListenerRefs, Serving,
         ServerOutlives, Valid, LastRef
    <3> QED
      BY <2>28, <3>1, <3>2 DEF PollerDelPerform, Goto, P!DelPerform, ListDeref, LastRef, SockDeref
  <2>29. ASSUME NEW s \in Sockets, PollerAddPerform(s)
        PROVE  Control'
    <3>1. sockets' = sockets \/ P!table' = P!table \cup {s}
      BY <2>29, Entered DEF PollerAddPerform, P!AddPerform, P!Refused, P!table
    <3>2. CASE P!Fits(s)
      BY <2>29, <3>1, <3>2 DEF PollerAddPerform, Goto, P!AddPerform
    <3>3. CASE ~P!Fits(s)
      <4>1. sockets' = sockets /\ s \in slist1 /\ slist1' = slist1 \ {s} /\ UNCHANGED <<slist2, fl_polling, todo>>
        BY <2>29, <3>3 DEF PollerAddPerform, P!AddPerform, P!Refused
      <4>2. ListDeref(s) /\ UNCHANGED <<srv, opc, met>>
        BY <2>29, <3>3 DEF PollerAddPerform, ListDeref, Goto
      <4> QED
        BY <4>1, <4>2 DEF ListDeref, Goto
    <3> QED
      BY <3>2, <3>3
  <2>30. ASSUME NEW s \in Sockets, PollerPollNext(s)
        PROVE  Control'
    <3>0. s \in P!table /\ sockets' = P!Without(s)
      BY <2>30 DEF PollerPollNext
    <3>1. P!table' = P!table \ {s} \/ (s = LISTENER /\ sockets' = sockets)
      BY <3>0, Deleted DEF Inv, Memory
    <3> QED
      BY <2>30, <3>1 DEF PollerPollNext, Goto
  <2>31. ASSUME NEW c \in Conns, NEW i \in Ids, PollerAccept(c, i)
        PROVE  Control'
    <3>1. c \notin P!table \cup slist1 \cup slist2
      BY <2>31 DEF PollerAccept, Freed, Inv, Memory, SockRefs, Kept
    <3> QED
      BY <2>31, <3>1 DEF PollerAccept, Goto, P!Add
  <2> QED
    BY <1>1, <2>1, <2>2, <2>3, <2>4, <2>5, <2>6, <2>7, <2>8, <2>9, <2>10, <2>11, <2>12, <2>13, <2>14, <2>15,
       <2>16, <2>17, <2>18, <2>19, <2>20, <2>21, <2>22, <2>23, <2>24, <2>25, <2>26, <2>27, <2>28, <2>29,
       <2>30, <2>31 DEF Poller
<1>2. ASSUME NEW t \in Handlers, Handler(t)
      PROVE  Control'
  BY <1>2, HandlerKeeps
<1>3. ASSUME NEW c \in Conns, Destructor(c)
      PROVE  Control'
  BY <1>3, DestructorKeeps
<1>4. ASSUME NEW c \in Conns, GcDeref(c)
      PROVE  Control'
  BY <1>4 DEF GcDeref
<1>5. CASE Owner
  <2>1. CASE OwnerDestroy
    BY <2>1 DEF OwnerDestroy, OwnerGoto, MayDestroy, Accepting
  <2>2. CASE OwnerCloseListener
    BY <2>2 DEF OwnerCloseListener
  <2>3. CASE OwnerInterrupt
    BY <2>3 DEF OwnerInterrupt, OwnerGoto
  <2>4. CASE OwnerPoll
    BY <2>4 DEF OwnerPoll, OwnerGoto
  <2>5. CASE OwnerWait
    BY <2>5 DEF OwnerWait, OwnerGoto
  <2>6. CASE OwnerFree
    BY <2>6 DEF OwnerFree, OwnerGoto
  <2>7. CASE OwnerWorkers
    BY <2>7 DEF OwnerWorkers, OwnerGoto
  <2> QED
    BY <1>5, <2>1, <2>2, <2>3, <2>4, <2>5, <2>6, <2>7 DEF Owner, Destroying
<1>6. ASSUME NEW c \in Conns, PeerSend(c) \/ PeerClose(c)
      PROVE  Control'
  BY <1>6 DEF PeerSend, PeerClose
<1>7. CASE Stopped
  BY <1>7 DEF Stopped, vars, srv, pollv, socks, kernel, poller, tcp, gc, owning
<1> QED
  BY <1>1, <1>2, <1>3, <1>4, <1>5, <1>6, <1>7 DEF Next

(* A handler changes no more of a connection than references and marks.     *)
LEMMA HandlerKeepsStages ==
  ASSUME Inv, NEW t \in Handlers, Handler(t), NEW c \in Conns
  PROVE  /\ conn'[c].stage = conn[c].stage /\ conn'[c].id = conn[c].id
         /\ conn'[c].fl_enpolled = conn[c].fl_enpolled
<1>a. conn \in [Conns -> Connection]
  BY DEF Inv, TypeOK
<1>1. CASE UNCHANGED conn
  BY <1>1
<1>2. CASE HandlerClose(t) \/ HandlerReadFails(t)
  BY <1>a, <1>2 DEF HandlerClose, HandlerReadFails, Connection
<1>3. CASE HandlerRelease(t) \/ HandlerDerefs(t)
  BY <1>a, <1>3 DEF HandlerRelease, HandlerDerefs, ConnDeref, Connection
<1>4. CASE \E flag \in BOOLEAN : HandlerRdlock(t, flag)
  BY <1>a, <1>4 DEF HandlerRdlock, Connection
<1>5. CASE \E i \in Ids : HandlerLookup(t, i)
  BY <1>a, <1>5 DEF HandlerLookup, ConnRef, Connection
<1> QED
  BY <1>1, <1>2, <1>3, <1>4, <1>5 DEF Handler, HandlerStart, HandlerRead, HandlerReturn, HandlerReturned,
     HandlerShutdown, HandlerTake

(* What the release of a reference does.                                    *)
LEMMA Released ==
  ASSUME Inv, NEW s \in Sockets, SockDeref(s), mrefs[s] > 0
  PROVE  /\ mrefs' = [mrefs EXCEPT ![s] = @ - 1]
         /\ s \in Conns => conn[s].stage = "live"
         /\ \A c \in Conns :
              /\ conn'[c].stage = (IF c = s /\ mrefs[s] = 1 THEN "sock" ELSE conn[c].stage)
              /\ conn'[c].id = conn[c].id /\ conn'[c].refs = conn[c].refs
              /\ conn'[c].fl_enpolled = conn[c].fl_enpolled
<1>a. conn \in [Conns -> Connection]
  BY DEF Inv, TypeOK
<1> QED
  BY <1>a DEF SockDeref, Connection, Inv, Memory, SockRefs

(* A reference of a socket that is given up was there. *)
LEMMA Referenced ==
  ASSUME Inv
  PROVE  /\ \A s \in Sockets : s \in slist1 \cup slist2 => mrefs[s] > 0
         /\ \A c \in Conns : c \in gcq => mrefs[c] > 0
         /\ ppc = "drop" => cur \in Conns /\ mrefs[cur] > 0
<1>a. TypeOK /\ slist1 \subseteq Conns /\ slist2 \subseteq Sockets
  BY DEF Inv, TypeOK, Control, Lists
<1>b. ppc = "drop" => cur \in Conns
  BY DEF Inv, Control, Cur, Dropping
<1> QED
  BY <1>a, <1>b DEF Inv, TypeOK, Memory, SockRefs, ListenerRefs, Kept, InHand, Dropping, P!Watched, Sockets

(* A connection is new, or there is none.                                   *)
LEMMA FreshConn ==
  \A i \in Ids :
    /\ Fresh(i).stage = "live" /\ Fresh(i).id = i /\ Fresh(i).refs = 0 /\ Fresh(i).fl_enpolled = FALSE
    /\ NoConn.stage = "none" /\ NoConn.refs = 0
BY TcpAssumption DEF Fresh, NoConn

(* The kernel gives a descriptor to one socket, and a connection is deleted *)
(* from the poll by the key it was entered under.                           *)
LEMMA NextDescriptors ==
  ASSUME Valid, Inv, Next
  PROVE  Descriptors' /\ Keys'
<1> USE TcpAssumption DEF srv, pollv, socks, kernel, poller, tcp, gc, owning, Sockets, Descriptors, Keys
<1>a. Control /\ TypeOK /\ Descriptors /\ Keys
  BY DEF Inv, Memory
<1> USE <1>a DEF TypeOK, Connection
<1>1. CASE Poller
  <2>1. CASE PollerRefs
    BY <2>1 DEF PollerRefs, Goto, Test
  <2>2. CASE PollerRefsInc
    BY <2>2 DEF PollerRefsInc, Goto
  <2>3. CASE PollerWorkers
    BY <2>3 DEF PollerWorkers, Goto, Test
  <2>4. CASE PollerListen
    <3>1. sockets = {} /\ fd[LISTENER] \in Fds
      BY <2>4, <1>a DEF PollerListen, Goto, Control, Walk, Before, Destroyed
    <3>2. sockets' = {<<fd[LISTENER], LISTENER>>} \/ sockets' = sockets
      BY <2>4, <3>1 DEF PollerListen, P!Add, P!With
    <3> QED
      BY <2>4, <3>1, <3>2 DEF PollerListen, Goto
  <2>5. CASE PollerLoop
    BY <2>5 DEF PollerLoop, Goto, Test
  <2>6. CASE PollerSelect
    BY <2>6 DEF PollerSelect, Goto, P!Begin, P!Idle
  <2>7. CASE PollerSelectFails
    BY <2>7 DEF PollerSelectFails, Goto, Test
  <2>8. CASE PollerEndWalk
    BY <2>8 DEF PollerEndWalk, Goto, P!EndWalk
  <2>9. CASE PollerClose
    <3>1. sockets' = sockets
      BY <2>9, <1>a DEF PollerClose, Goto, P!Del, Control, PollPhase, InWalk
    <3> QED
      BY <2>9, <3>1 DEF PollerClose, Goto
  <2>10. CASE PollerCloseRefs
    BY <2>10 DEF PollerCloseRefs, Goto, Test
  <2>11. CASE PollerGc
    BY <2>11 DEF PollerGc, Goto, Back
  <2>12. CASE PollerGcRefused
    BY <2>12 DEF PollerGcRefused, Goto, Test
  <2>13. CASE PollerDrop
    <3>1. cur \in Conns /\ mrefs[cur] > 0 /\ SockDeref(cur)
      BY <2>13, Referenced DEF PollerDrop
    <3> QED
      BY <2>13, <3>1, Released DEF PollerDrop, Goto
  <2>14. CASE PollerDestructed
    BY <2>14 DEF PollerDestructed, Goto, Freed
  <2>15. CASE PollerAcceptNone
    BY <2>15 DEF PollerAcceptNone, Goto
  <2>16. CASE PollerAcceptRefs
    BY <2>16 DEF PollerAcceptRefs, Goto, Test, Enpolled
  <2>17. CASE PollerAcceptInc
    BY <2>17 DEF PollerAcceptInc, Goto, Enpolled
  <2>18. CASE PollerReadRefs
    BY <2>18 DEF PollerReadRefs, Goto
  <2>19. CASE PollerRead
    BY <2>19 DEF PollerRead, Goto
  <2>20. CASE PollerPerform
    BY <2>20 DEF PollerPerform
  <2>21. CASE PollerPerformRefused
    BY <2>21 DEF PollerPerformRefused, Goto
  <2>22. CASE PollerRoundDone
    BY <2>22 DEF PollerRoundDone, Goto, Test
  <2>23. CASE PollerOut
    BY <2>23 DEF PollerOut, Goto
  <2>24. CASE PollerPollFreed
    BY <2>24 DEF PollerPollFreed, Goto
  <2>25. CASE PollerPollNull
    BY <2>25 DEF PollerPollNull, Goto
  <2>26. CASE PollerDerefs
    BY <2>26 DEF PollerDerefs, Goto
  <2>27. ASSUME NEW s \in Sockets, PollerVisit(s)
        PROVE  Descriptors' /\ Keys'
    BY <2>27 DEF PollerVisit, Goto, P!Visit, Reported
  <2>28. ASSUME NEW s \in Sockets, PollerDelPerform(s)
        PROVE  Descriptors' /\ Keys'
    <3>1. s \in P!table /\ sockets' = P!Without(s)
      BY <2>28, <1>a DEF PollerDelPerform, P!DelPerform, Control, Lists
    <3>2. sockets' \subseteq sockets
      BY <3>1, <1>a, Deleted
    <3>3. SockDeref(s) /\ mrefs[s] > 0
      BY <2>28, Referenced DEF PollerDelPerform, P!DelPerform, ListDeref
    <3> QED
      BY <2>28, <3>2, <3>3, Released DEF PollerDelPerform, ListDeref, Goto
  <2>29. ASSUME NEW s \in Sockets, PollerAddPerform(s)
        PROVE  Descriptors' /\ Keys'
    <3>1. s \in slist1 \ P!table /\ s \in Conns
      BY <2>29, <1>a DEF PollerAddPerform, P!AddPerform, Control, Lists
    <3>2. conn[s].stage = "live"
      BY <3>1 DEF Inv, Memory, SockRefs, Kept, P!Watched
    <3>3. \/ sockets' = sockets
          \/ P!Fits(s) /\ sockets' = P!With(s)
      BY <2>29 DEF PollerAddPerform, P!AddPerform, P!Refused
    <3>4. \A c \in Conns : conn'[c].stage \in {"live", "sock", "fd"} <=> conn[c].stage \in {"live", "sock", "fd"}
      <4>1. CASE P!Fits(s)
        BY <2>29, <4>1 DEF PollerAddPerform
      <4>2. CASE ~P!Fits(s)
        <5>1. SockDeref(s) /\ mrefs[s] > 0
          BY <2>29, <3>1, <4>2, Referenced DEF PollerAddPerform, ListDeref
        <5> QED
          BY <5>1, <3>1, Released
      <4> QED
        BY <4>1, <4>2
    <3>5. Descriptors'
      BY <2>29, <3>4 DEF PollerAddPerform, ListDeref, Goto
    <3>6. Keys'
      BY <2>29, <3>1, <3>2, <3>3 DEF PollerAddPerform, P!Fits, P!With, P!table
    <3> QED
      BY <3>5, <3>6
  <2>30. ASSUME NEW s \in Sockets, PollerPollNext(s)
        PROVE  Descriptors' /\ Keys'
    <3>1. s \in P!table /\ sockets' = P!Without(s)
      BY <2>30, <1>a DEF PollerPollNext, Control, Walk
    <3>2. sockets' \subseteq sockets
      BY <3>1, <1>a, Deleted
    <3> QED
      BY <2>30, <3>2 DEF PollerPollNext, Goto
  <2>31. ASSUME NEW c \in Conns, NEW i \in Ids, PollerAccept(c, i)
        PROVE  Descriptors' /\ Keys'
    <3>1. /\ \A d \in Conns : conn'[d].stage = (IF d = c THEN "live" ELSE conn[d].stage)
          /\ conn[c].stage = "none"
      BY <2>31, FreshConn DEF PollerAccept, Freed
    <3>2. PICK f \in FreeFds : fd' = [fd EXCEPT ![c] = f] /\ owner' = [owner EXCEPT ![f] = c]
      BY <2>31 DEF PollerAccept
    <3>3. c \notin P!table /\ sockets' = sockets
      BY <2>31, <1>a DEF PollerAccept, Freed, Inv, Memory, SockRefs, Kept, P!Watched, P!Add, Goto, Control,
         PollPhase, InWalk
    <3>4. Descriptors'
      <4>1. owner[f] = NULL /\ ~\E g \in Fds : owner[g] = c
        BY <3>1, <3>2 DEF FreeFds
      <4>2. \A g \in Fds : owner'[g] # NULL => fd'[owner'[g]] = g
        BY <3>2, <4>1
      <4>3. \A d \in Conns : conn'[d].stage \in {"live", "sock", "fd"} <=> \E g \in Fds : owner'[g] = d
        <5>1. f \in Fds /\ owner'[f] = c /\ \A g \in Fds : g # f => owner'[g] = owner[g]
          BY <3>2, <4>1 DEF FreeFds
        <5>2. \A d \in Conns \ {c} : (\E g \in Fds : owner'[g] = d) <=> (\E g \in Fds : owner[g] = d)
          BY <5>1, <4>1
        <5>3. \A d \in Conns \ {c} : conn'[d].stage = conn[d].stage
          BY <3>1
        <5>4. \A d \in Conns \ {c} : conn[d].stage \in {"live", "sock", "fd"} <=> \E g \in Fds : owner[g] = d
          OBVIOUS
        <5> QED
          BY <3>1, <5>1, <5>2, <5>3, <5>4
      <4>4. fd'[LISTENER] = fd[LISTENER] /\ opc' = opc
        BY <2>31, <3>2 DEF PollerAccept, Goto
      <4> QED
        BY <3>2, <4>1, <4>2, <4>3, <4>4
    <3>5. \A e \in sockets : e[2] # c
      BY <3>3 DEF P!table
    <3>6. Keys'
      BY <3>2, <3>3, <3>5
    <3> QED
      BY <3>4, <3>6
  <2> QED
    BY <1>1, <2>1, <2>2, <2>3, <2>4, <2>5, <2>6, <2>7, <2>8, <2>9, <2>10, <2>11, <2>12, <2>13, <2>14, <2>15,
       <2>16, <2>17, <2>18, <2>19, <2>20, <2>21, <2>22, <2>23, <2>24, <2>25, <2>26, <2>27, <2>28, <2>29,
       <2>30, <2>31 DEF Poller
<1>2. ASSUME NEW t \in Handlers, Handler(t)
      PROVE  Descriptors' /\ Keys'
  BY <1>2, HandlerKeeps, HandlerKeepsStages
<1>3. ASSUME NEW c \in Conns, Destructor(c)
      PROVE  Descriptors' /\ Keys'
  <2>1. CASE SockMark(c)
    BY <2>1 DEF SockMark, InStage
  <2>2. CASE SockCloseFd(c)
    BY <2>2 DEF SockCloseFd, InStage
  <2>3. CASE ConnMark(c)
    BY <2>3 DEF ConnMark, InStage
  <2>4. CASE ConnUnmap(c)
    BY <2>4 DEF ConnUnmap, InStage
  <2>5. CASE ConnWait(c)
    BY <2>5 DEF ConnWait, InStage
  <2>6. CASE ConnSrvDeref(c)
    BY <2>6 DEF ConnSrvDeref, InStage
  <2>7. CASE ConnFree(c)
    <3>1. /\ \A d \in Conns : conn'[d].stage = (IF d = c THEN "none" ELSE conn[d].stage)
          /\ conn[c].stage = "free" /\ fd' = [fd EXCEPT ![c] = 0]
      BY <2>7, FreshConn DEF ConnFree
    <3>2. \A e \in sockets : e[2] # c
      BY <3>1 DEF Inv, Memory, SockRefs, Kept, P!Watched, P!table
    <3> QED
      BY <2>7, <3>1, <3>2 DEF ConnFree
  <2> QED
    BY <1>3, <2>1, <2>2, <2>3, <2>4, <2>5, <2>6, <2>7 DEF Destructor
<1>4. ASSUME NEW c \in Conns, GcDeref(c)
      PROVE  Descriptors' /\ Keys'
  <2>1. mrefs[c] > 0 /\ SockDeref(c)
    BY <1>4, Referenced DEF GcDeref
  <2>2. \A d \in Conns : conn'[d].stage \in {"live", "sock", "fd"} <=> conn[d].stage \in {"live", "sock", "fd"}
    BY <2>1, Released
  <2> QED
    BY <1>4, <2>2 DEF GcDeref
<1>5. CASE Owner
  <2>1. CASE OwnerDestroy
    BY <2>1 DEF OwnerDestroy, OwnerGoto, MayDestroy, Accepting
  <2>2. CASE OwnerCloseListener
    BY <2>2 DEF OwnerCloseListener
  <2>3. CASE OwnerInterrupt
    BY <2>3 DEF OwnerInterrupt, OwnerGoto
  <2>4. CASE OwnerPoll
    BY <2>4 DEF OwnerPoll, OwnerGoto
  <2>5. CASE OwnerWait
    BY <2>5 DEF OwnerWait, OwnerGoto
  <2>6. CASE OwnerFree
    BY <2>6 DEF OwnerFree, OwnerGoto
  <2>7. CASE OwnerWorkers
    BY <2>7 DEF OwnerWorkers, OwnerGoto
  <2> QED
    BY <1>5, <2>1, <2>2, <2>3, <2>4, <2>5, <2>6, <2>7 DEF Owner, Destroying
<1>6. ASSUME NEW c \in Conns, PeerSend(c) \/ PeerClose(c)
      PROVE  Descriptors' /\ Keys'
  BY <1>6 DEF PeerSend, PeerClose
<1>7. CASE Stopped
  BY <1>7 DEF Stopped, vars, srv, pollv, socks, kernel, poller, tcp, gc, owning
<1> QED
  BY <1>1, <1>2, <1>3, <1>4, <1>5, <1>6, <1>7 DEF Next

(* fl_enpolled is all that changes when an acceptance ends.                 *)
LEMMA Enrolled ==
  ASSUME Inv, NEW c \in Conns, Enpolled(c), NEW d \in Conns
  PROVE  /\ conn'[d].stage = conn[d].stage /\ conn'[d].id = conn[d].id /\ conn'[d].refs = conn[d].refs
         /\ d # c => conn'[d].fl_enpolled = conn[d].fl_enpolled
         /\ conn'[c].fl_enpolled
<1>a. conn \in [Conns -> Connection]
  BY DEF Inv, TypeOK
<1> QED
  BY <1>a DEF Enpolled, Connection

(* What worker_gc does to the sockets.                                      *)
LEMMA GcReleased ==
  ASSUME Inv, NEW c \in Conns, GcDeref(c)
  PROVE  /\ mrefs' = [mrefs EXCEPT ![c] = @ - 1] /\ mrefs[c] > 0 /\ conn[c].stage = "live"
         /\ \A d \in Conns :
              /\ conn'[d].stage = (IF d = c /\ mrefs[c] = 1 THEN "sock" ELSE conn[d].stage)
              /\ conn'[d].id = conn[d].id /\ conn'[d].refs = conn[d].refs
              /\ conn'[d].fl_enpolled = conn[d].fl_enpolled
<1>1. mrefs[c] > 0 /\ SockDeref(c) /\ c \in Sockets
  BY Referenced DEF GcDeref, Sockets
<1> QED
  BY <1>1, Released

(* What the poll watches besides the listener, and whom the walk finds, is   *)
(* changed by an acceptance, a close, an addition that does not fit, and the *)
(* destruction of the poll.                                                 *)
LEMMA WatchedStays ==
  UNCHANGED <<sockets, slist1, slist2>> => P!table' = P!table /\ P!Watched' = P!Watched
BY DEF P!table, P!Watched

(* The listener is not counted.                                             *)
LEMMA ListenWatched ==
  ASSUME Inv, PollerListen
  PROVE  slist2' = slist2 /\ P!Watched' \ {LISTENER} = P!Watched \ {LISTENER}
<1>1. slist1' = slist1 /\ slist2' = slist2 /\ (P!table' = P!table \/ P!table' = P!table \cup {LISTENER})
  BY Entered DEF PollerListen, P!Add, P!lists, P!table, Inv, Control, PollPhase, InWalk, Dropping, Goto
<1> QED
  BY <1>1 DEF P!Watched

(* Who is closed is no longer watched.                                      *)
LEMMA CloseWatched ==
  ASSUME Inv, PollerClose
  PROVE  /\ fl_polling /\ cur \in P!Watched \ slist2
         /\ slist2' = slist2 \cup {cur} /\ P!Watched' = P!Watched \ {cur}
<1>1. fl_polling /\ cur \in P!table \ slist2 /\ slist1 \cap P!table = {}
  BY DEF PollerClose, Goto, Inv, Control, PollPhase, Cur, Lists, InWalk
<1>2. slist2' = slist2 \cup {cur} /\ slist1' = slist1 /\ sockets' = sockets
  BY <1>1 DEF PollerClose, P!Del
<1> QED
  BY <1>1, <1>2 DEF P!Watched, P!table

(* Who is accepted was not watched before.                                  *)
LEMMA AcceptWatched ==
  ASSUME Inv, NEW c \in Conns, NEW i \in Ids, PollerAccept(c, i)
  PROVE  /\ c \notin P!Watched \cup slist2 \cup gcq
         /\ slist2' = slist2 /\ P!Watched' = P!Watched \cup {c}
<1>1. c \notin P!Watched \cup slist2 \cup gcq
  BY DEF PollerAccept, Freed, Inv, Memory, SockRefs, Kept
<1>2. slist2' = slist2 /\ slist1' = slist1 \cup {c} /\ sockets' = sockets
  BY DEF PollerAccept, Goto, P!Add, Inv, Control, PollPhase, InWalk
<1> QED
  BY <1>1, <1>2 DEF P!Watched, P!table

(* A deletion carried out at the end of the round changes nothing in this.  *)
LEMMA DelWatched ==
  ASSUME Valid, Inv, NEW s \in Sockets, PollerDelPerform(s)
  PROVE  /\ s \in slist2 /\ slist2' = slist2 \ {s}
         /\ P!Watched' \ {LISTENER} = P!Watched \ {LISTENER}
         /\ SockDeref(s) /\ mrefs[s] > 0
         /\ s = LISTENER => ~LastRef(s)
<1>1. s \in slist2 /\ slist2' = slist2 \ {s} /\ slist1' = slist1 /\ sockets' = P!Without(s) /\ s \in P!table
  BY DEF PollerDelPerform, P!DelPerform, Inv, Control, Lists
<1>2. P!table' = P!table \ {s} \/ (s = LISTENER /\ sockets' = sockets)
  BY <1>1, Deleted DEF Inv, Memory
<1>3. SockDeref(s) /\ mrefs[s] > 0 /\ ppc = "lists"
  BY <1>1, Referenced DEF PollerDelPerform, ListDeref, Goto
<1>4. mrefs[LISTENER] = (IF LISTENER \in slist2 THEN 1 ELSE 0) + (IF opc \in {"workers", "freed"} THEN 0 ELSE 1)
  BY DEF Inv, Memory, ListenerRefs
<1>5. opc \notin {"workers", "freed"}
  BY <1>3 DEF Valid, Inv, Serving, ServerOutlives
<1>6. P!Watched' \ {LISTENER} = P!Watched \ {LISTENER}
  BY <1>1, <1>2 DEF P!Watched, P!table
<1> QED
  BY <1>1, <1>3, <1>4, <1>5, <1>6 DEF LastRef

(* An addition neither, if it fits.                                         *)
LEMMA AddWatched ==
  ASSUME Inv, NEW s \in Sockets, PollerAddPerform(s)
  PROVE  /\ s \in Conns /\ s \in P!Watched /\ s \notin P!table /\ slist2 = {} /\ slist2' = slist2
         /\ \/ P!Fits(s) /\ P!Watched' = P!Watched /\ UNCHANGED <<mrefs, conn, ppc, cur>>
            \/ ~P!Fits(s) /\ P!Watched' = P!Watched \ {s} /\ ListDeref(s) /\ mrefs[s] > 0
<1>1. s \in slist1 /\ s \notin P!table /\ s \in Conns /\ slist2 = {} /\ slist2' = {} /\ slist1' = slist1 \ {s}
  BY DEF PollerAddPerform, P!AddPerform, Inv, Control, Lists
<1>2. CASE P!Fits(s)
  <2>1. P!table' = P!table \cup {s}
    BY <1>2, Entered DEF PollerAddPerform, P!AddPerform
  <2> QED
    BY <1>1, <1>2, <2>1 DEF P!Watched, PollerAddPerform, Goto
<1>3. CASE ~P!Fits(s)
  <2>1. P!table' = P!table
    BY <1>3 DEF PollerAddPerform, P!AddPerform, P!Refused, P!table
  <2>2. mrefs[s] > 0
    BY <1>1, Referenced
  <2> QED
    BY <1>1, <1>3, <2>1, <2>2 DEF P!Watched, PollerAddPerform
<1> QED
  BY <1>2, <1>3

(* The destructor of the poll deletes the sockets one by one                *)
LEMMA DestroyWatched ==
  ASSUME Inv, NEW s \in Sockets, PollerPollNext(s)
  PROVE  /\ s \in P!Watched /\ slist2' = slist2
         /\ P!Watched' = P!Watched \ {s} \/ (s = LISTENER /\ P!Watched' = P!Watched)
<1>1. s \in P!table /\ sockets' = P!Without(s) /\ slist1 = {} /\ slist2 = {} /\ slist1' = {} /\ slist2' = {}
  BY DEF PollerPollNext, Goto, Inv, Control, Walk, Lists, InWalk, Dropping
<1>2. P!table' = P!table \ {s} \/ (s = LISTENER /\ sockets' = sockets)
  BY <1>1, Deleted DEF Inv, Memory
<1> QED
  BY <1>1, <1>2 DEF P!Watched, P!table

(* until only the listener may be left.                                     *)
LEMMA FreedWatched ==
  ASSUME Inv, PollerPollFreed
  PROVE  slist2' = slist2 /\ P!Watched \subseteq {LISTENER} /\ P!Watched' = {}
BY DEF PollerPollFreed, Goto, Inv, Control, PollPhase, Walk, Lists, InWalk, Dropping, P!Watched, P!table

(* It gives up the reference that its queue held.                           *)
LEMMA GcReferences ==
  ASSUME Inv, NEW c \in Conns, GcDeref(c)
  PROVE  SockRefs' /\ Destructors' /\ ListenerRefs'
<1>1. /\ c \in gcq /\ gcq' = gcq \ {c} /\ gcd' = IF mrefs[c] = 1 THEN gcd \cup {c} ELSE gcd
      /\ UNCHANGED <<ppc, cur, opc, slist2>> /\ P!Watched' = P!Watched
  BY WatchedStays DEF GcDeref, LastRef, pollv, poller, owning
<1>2. /\ mrefs' = [mrefs EXCEPT ![c] = @ - 1] /\ mrefs[c] > 0 /\ conn[c].stage = "live"
      /\ \A d \in Conns : conn'[d].stage = (IF d = c /\ mrefs[c] = 1 THEN "sock" ELSE conn[d].stage)
  BY GcReleased
<1>3. DOMAIN mrefs = Sockets /\ (\A d \in Conns : mrefs[d] \in 0..2) /\ LISTENER \notin Conns /\ Conns \subseteq Sockets
  BY TcpAssumption DEF Inv, TypeOK, Sockets
<1>4. SockRefs /\ Destructors /\ ListenerRefs
  BY DEF Inv, Memory
<1>5. SockRefs'
  BY <1>1, <1>2, <1>3, <1>4 DEF SockRefs, Kept, InHand
<1>6. Destructors'
  BY <1>1, <1>2, <1>3, <1>4 DEF SockRefs, Destructors, Kept, InHand, Dropping
<1>7. ListenerRefs'
  BY <1>1, <1>2, <1>3, <1>4 DEF ListenerRefs
<1> QED
  BY <1>5, <1>6, <1>7

(* A reference of a socket is passed on from the poll to the polling thread *)
(* and to worker_gc, and given back once; the one that a deferred deletion  *)
(* took goes with it.                                                       *)
LEMMA NextReferences ==
  ASSUME Valid, Inv, Next
  PROVE  SockRefs' /\ Destructors' /\ ListenerRefs'
<1> USE TcpAssumption, WatchedStays DEF srv, pollv, socks, kernel, poller, tcp, gc, owning, P!SamePass,
        P!lists, P!walk, Sockets, SockRefs, Destructors, ListenerRefs, Kept, InHand, Dropping
<1>a. TypeOK /\ SockRefs /\ Destructors /\ ListenerRefs
  BY DEF Inv, Memory
<1>b. /\ ppc \in Dropping \cup {"destructor"} => cur \in Conns
      /\ ppc \in Dropping /\ fl_polling => cur \in slist2
  BY DEF Inv, Control, Cur
<1> USE <1>a, <1>b DEF TypeOK, Connection
<1>1. CASE Poller
  <2>1. CASE PollerRefs
    BY <2>1 DEF PollerRefs, Goto, Test
  <2>2. CASE PollerRefsInc
    BY <2>2 DEF PollerRefsInc, Goto
  <2>3. CASE PollerWorkers
    BY <2>3 DEF PollerWorkers, Goto, Test
  <2>4. CASE PollerListen
    BY <2>4, ListenWatched DEF PollerListen, Goto
  <2>5. CASE PollerLoop
    BY <2>5 DEF PollerLoop, Goto, Test
  <2>6. CASE PollerSelect
    BY <2>6 DEF PollerSelect, Goto, P!Begin, P!Idle
  <2>7. CASE PollerSelectFails
    BY <2>7 DEF PollerSelectFails, Goto, Test
  <2>8. CASE PollerEndWalk
    BY <2>8 DEF PollerEndWalk, Goto, P!EndWalk
  <2>9. CASE PollerClose
    BY <2>9, CloseWatched DEF PollerClose, Goto, P!DelRefs
  <2>10. CASE PollerCloseRefs
    BY <2>10 DEF PollerCloseRefs, Goto, Test
  <2>11. CASE PollerGc
    BY <2>11 DEF PollerGc, Goto, Back
  <2>12. CASE PollerGcRefused
    BY <2>12 DEF PollerGcRefused, Goto, Test
  <2>13. CASE PollerDrop
    <3>1. cur \in Conns /\ mrefs[cur] > 0 /\ SockDeref(cur)
      BY <2>13, Referenced DEF PollerDrop
    <3> QED
      BY <2>13, <3>1, Released DEF PollerDrop, Goto, Back, LastRef
  <2>14. CASE PollerDestructed
    BY <2>14 DEF PollerDestructed, Goto, Freed
  <2>15. CASE PollerAcceptNone
    BY <2>15 DEF PollerAcceptNone, Goto
  <2>16. CASE PollerAcceptRefs
    <3>1. cur \in Conns
      BY <2>16 DEF PollerAcceptRefs, Test, Goto, Inv, Control, Cur
    <3>2. \A d \in Conns : conn'[d].stage = conn[d].stage
      BY <2>16, <3>1, Enrolled DEF PollerAcceptRefs, Test
    <3> QED
      BY <2>16, <3>2 DEF PollerAcceptRefs, Test, Goto
  <2>17. CASE PollerAcceptInc
    BY <2>17 DEF PollerAcceptInc, Goto, Enpolled
  <2>18. CASE PollerReadRefs
    BY <2>18 DEF PollerReadRefs, Goto
  <2>19. CASE PollerRead
    BY <2>19 DEF PollerRead, Goto
  <2>20. CASE PollerPerform
    BY <2>20 DEF PollerPerform
  <2>21. CASE PollerPerformRefused
    BY <2>21 DEF PollerPerformRefused, Goto
  <2>22. CASE PollerRoundDone
    BY <2>22 DEF PollerRoundDone, Goto, Test
  <2>23. CASE PollerOut
    BY <2>23 DEF PollerOut, Goto
  <2>24. CASE PollerPollFreed
    BY <2>24, FreedWatched DEF PollerPollFreed, Goto
  <2>25. CASE PollerPollNull
    BY <2>25 DEF PollerPollNull, Goto
  <2>26. CASE PollerDerefs
    BY <2>26 DEF PollerDerefs, Goto
  <2>27. ASSUME NEW s \in Sockets, PollerVisit(s)
        PROVE  SockRefs' /\ Destructors' /\ ListenerRefs'
    BY <2>27 DEF PollerVisit, Goto, P!Visit, Reported
  <2>28. ASSUME NEW s \in Sockets, PollerDelPerform(s)
        PROVE  SockRefs' /\ Destructors' /\ ListenerRefs'
    BY <2>28, DelWatched, Released DEF PollerDelPerform, ListDeref, Goto, LastRef
  <2>29. ASSUME NEW s \in Sockets, PollerAddPerform(s)
        PROVE  SockRefs' /\ Destructors' /\ ListenerRefs'
    <3>1. CASE P!Fits(s)
      BY <2>29, <3>1, AddWatched DEF PollerAddPerform, Goto
    <3>2. CASE ~P!Fits(s)
      BY <2>29, <3>2, AddWatched, Released DEF PollerAddPerform, ListDeref, Goto, LastRef
    <3> QED
      BY <3>1, <3>2
  <2>30. ASSUME NEW s \in Sockets, PollerPollNext(s)
        PROVE  SockRefs' /\ Destructors' /\ ListenerRefs'
    BY <2>30, DestroyWatched DEF PollerPollNext, Goto
  <2>31. ASSUME NEW c \in Conns, NEW i \in Ids, PollerAccept(c, i)
        PROVE  SockRefs' /\ Destructors' /\ ListenerRefs'
    <3>1. /\ \A d \in Conns : conn'[d].stage = (IF d = c THEN "live" ELSE conn[d].stage)
          /\ conn[c].stage = "none"
      BY <2>31, FreshConn DEF PollerAccept, Freed
    <3>2. /\ c \notin P!Watched \cup slist2 \cup gcq
          /\ slist2' = slist2 /\ P!Watched' = P!Watched \cup {c}
      BY <2>31, AcceptWatched
    <3>3. mrefs' = [mrefs EXCEPT ![c] = 1] /\ ppc' = "accept_refs" /\ ppc = "accept" /\ UNCHANGED <<gcq, gcd, opc>>
      BY <2>31 DEF PollerAccept, Goto
    <3>4. SockRefs'
      BY <3>1, <3>2, <3>3
    <3> QED
      BY <3>1, <3>2, <3>3, <3>4
  <2> QED
    BY <1>1, <2>1, <2>2, <2>3, <2>4, <2>5, <2>6, <2>7, <2>8, <2>9, <2>10, <2>11, <2>12, <2>13, <2>14, <2>15,
       <2>16, <2>17, <2>18, <2>19, <2>20, <2>21, <2>22, <2>23, <2>24, <2>25, <2>26, <2>27, <2>28, <2>29,
       <2>30, <2>31 DEF Poller
<1>2. ASSUME NEW t \in Handlers, Handler(t)
      PROVE  SockRefs' /\ Destructors' /\ ListenerRefs'
  BY <1>2, HandlerKeeps, HandlerKeepsStages
<1>3. ASSUME NEW c \in Conns, Destructor(c)
      PROVE  SockRefs' /\ Destructors' /\ ListenerRefs'
  <2>1. CASE SockMark(c)
    BY <2>1 DEF SockMark, InStage
  <2>2. CASE SockCloseFd(c)
    BY <2>2 DEF SockCloseFd, InStage
  <2>3. CASE ConnMark(c)
    BY <2>3 DEF ConnMark, InStage
  <2>4. CASE ConnUnmap(c)
    BY <2>4 DEF ConnUnmap, InStage
  <2>5. CASE ConnWait(c)
    BY <2>5 DEF ConnWait, InStage
  <2>6. CASE ConnSrvDeref(c)
    BY <2>6 DEF ConnSrvDeref, InStage
  <2>7. CASE ConnFree(c)
    <3>1. /\ \A d \in Conns : conn'[d].stage = (IF d = c THEN "none" ELSE conn[d].stage)
          /\ conn[c].stage = "free"
      BY <2>7, FreshConn DEF ConnFree
    <3> QED
      BY <2>7, <3>1 DEF ConnFree
  <2> QED
    BY <1>3, <2>1, <2>2, <2>3, <2>4, <2>5, <2>6, <2>7 DEF Destructor
<1>4. ASSUME NEW c \in Conns, GcDeref(c)
      PROVE  SockRefs' /\ Destructors' /\ ListenerRefs'
  BY <1>4, GcReferences
<1>5. CASE Owner
  <2>1. CASE OwnerDestroy
    BY <2>1 DEF OwnerDestroy, OwnerGoto, MayDestroy, Accepting
  <2>2. CASE OwnerCloseListener
    BY <2>2 DEF OwnerCloseListener
  <2>3. CASE OwnerInterrupt
    BY <2>3 DEF OwnerInterrupt, OwnerGoto
  <2>4. CASE OwnerPoll
    BY <2>4 DEF OwnerPoll, OwnerGoto
  <2>5. CASE OwnerWait
    BY <2>5 DEF OwnerWait, OwnerGoto
  <2>6. CASE OwnerFree
    BY <2>6 DEF OwnerFree, OwnerGoto
  <2>7. CASE OwnerWorkers
    <3>1. gcq = {}
      BY <2>7 DEF OwnerWorkers, OwnerGoto, Inv, Serving, ServerOutlives, Valid
    <3> QED
      BY <2>7, <3>1 DEF OwnerWorkers, OwnerGoto
  <2> QED
    BY <1>5, <2>1, <2>2, <2>3, <2>4, <2>5, <2>6, <2>7 DEF Owner, Destroying
<1>6. ASSUME NEW c \in Conns, PeerSend(c) \/ PeerClose(c)
      PROVE  SockRefs' /\ Destructors' /\ ListenerRefs'
  BY <1>6 DEF PeerSend, PeerClose
<1>7. CASE Stopped
  BY <1>7 DEF Stopped, vars, srv, pollv, socks, kernel, poller, tcp, gc, owning
<1> QED
  BY <1>1, <1>2, <1>3, <1>4, <1>5, <1>6, <1>7 DEF Next
=============================================================================
