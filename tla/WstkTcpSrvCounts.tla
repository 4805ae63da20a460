---------------------------- MODULE WstkTcpSrvCounts ----------------------------
(***************************************************************************)
(* Theorems about WstkTcpSrv, second part: the counters of connections and *)
(* server, the invariant as a whole, and what it implies.                  *)
(***************************************************************************)
EXTENDS WstkTcpSrvProofs

-----------------------------------------------------------------------------
(***************************************************************************)
(* Who uses a connection: a handler that runs for it or has looked it up.  *)
(***************************************************************************)
(* Both are numbers.                                                        *)
LEMMA Counting == \A c : Cardinality(Running(c)) \in Nat /\ Cardinality(Guests(c)) \in Nat
BY TcpAssumption, FS_Subset, FS_CardinalityType DEF Running, Guests

(* The uses change only with the handlers.                                  *)
LEMMA UsersStay ==
  /\ hconn' = hconn => \A c \in Conns : Running(c)' = Running(c)
  /\ hother' = hother => \A c \in Conns : Guests(c)' = Guests(c)
BY DEF Running, Guests

(* A sub-thread has a connection as long as it is not idle.                 *)
LEMMA NextHandling ==
  ASSUME Valid, Inv, Next
  PROVE  Handling'
<1> USE TcpAssumption DEF srv, pollv, socks, kernel, poller, tcp, gc, owning, P!SamePass, P!lists, P!walk,
        Handling
<1>a. Handling /\ TypeOK
  BY DEF Inv, Uses
<1> USE <1>a DEF TypeOK
<1>1. CASE Poller
  <2>1. UNCHANGED <<hpc, hconn, hother>>
    BY <1>1, PollerKeeps
  <2> QED
    BY <2>1
<1>2. ASSUME NEW t \in Handlers, Handler(t)
      PROVE  Handling'
  <2>1. CASE HandlerStart(t)
    BY <2>1 DEF HandlerStart, Thread
  <2>2. CASE HandlerClose(t)
    BY <2>2 DEF HandlerClose, Thread
  <2>3. CASE HandlerRead(t)
    BY <2>3 DEF HandlerRead, Thread
  <2>4. CASE HandlerReadFails(t)
    BY <2>4 DEF HandlerReadFails, Thread
  <2>5. CASE HandlerRelease(t)
    BY <2>5 DEF HandlerRelease, Thread, ConnDeref
  <2>6. CASE HandlerReturn(t)
    BY <2>6 DEF HandlerReturn, Thread
  <2>7. CASE HandlerReturned(t)
    BY <2>7 DEF HandlerReturned, Thread
  <2>8. CASE HandlerShutdown(t)
    BY <2>8 DEF HandlerShutdown, Thread
  <2>9. CASE HandlerDerefs(t)
    BY <2>9 DEF HandlerDerefs, Thread, ConnDeref
  <2>10. ASSUME NEW c \in Conns, HandlerTake(t, c)
        PROVE  Handling'
    BY <2>10 DEF HandlerTake, Thread
  <2>11. ASSUME NEW flag \in BOOLEAN, HandlerRdlock(t, flag)
        PROVE  Handling'
    BY <2>11 DEF HandlerRdlock, Thread
  <2>12. ASSUME NEW i \in Ids, HandlerLookup(t, i)
        PROVE  Handling'
    BY <2>12 DEF HandlerLookup, Thread, ConnRef
  <2> QED
    BY <1>2, <2>1, <2>2, <2>3, <2>4, <2>5, <2>6, <2>7, <2>8, <2>9, <2>10, <2>11, <2>12 DEF Handler
<1>3. ASSUME NEW c \in Conns, Destructor(c)
      PROVE  Handling'
  BY <1>3, DestructorKeeps
<1>4. ASSUME NEW c \in Conns, GcDeref(c)
      PROVE  Handling'
  BY <1>4 DEF GcDeref
<1>5. CASE Owner
  BY <1>5, OwnerKeeps
<1>6. ASSUME NEW c \in Conns, PeerSend(c) \/ PeerClose(c)
      PROVE  Handling'
  BY <1>6 DEF PeerSend, PeerClose
<1>7. CASE Stopped
  BY <1>7 DEF Stopped, vars, srv, pollv, socks, kernel, poller, tcp, gc, owning
<1> QED
  BY <1>1, <1>2, <1>3, <1>4, <1>5, <1>6, <1>7 DEF Next

(* A sub-thread that takes a connection is one more that runs for it,       *)
LEMMA TakeCounts ==
  ASSUME Inv, NEW t \in Handlers, NEW c \in Conns, HandlerTake(t, c)
  PROVE  /\ c \in Conns
         /\ \A d \in Conns : Cardinality(Running(d)') =
              IF d = c THEN Cardinality(Running(d)) + 1 ELSE Cardinality(Running(d))
<1>1. /\ hconn \in [Handlers -> Conns \cup {NULL}] /\ hconn[t] = NULL /\ c \in Conns
      /\ hconn' = [hconn EXCEPT ![t] = c] /\ NULL \notin Conns
  BY TcpAssumption DEF HandlerTake, Thread, Inv, TypeOK, Uses, Handling
<1>2. Running(c)' = Running(c) \cup {t} /\ t \notin Running(c) /\ IsFiniteSet(Running(c))
  BY <1>1, TcpAssumption, FS_Subset DEF Running
<1>3. \A d \in Conns : d # c => Running(d)' = Running(d)
  BY <1>1 DEF Running
<1> QED
  BY <1>1, <1>2, <1>3, FS_AddElement

(* and one less when it is done;                                            *)
LEMMA DerefsCounts ==
  ASSUME Inv, NEW t \in Handlers, HandlerDerefs(t)
  PROVE  /\ hconn[t] \in Conns /\ Cardinality(Running(hconn[t])) > 0
         /\ \A d \in Conns : Cardinality(Running(d)') =
              IF d = hconn[t] THEN Cardinality(Running(d)) - 1 ELSE Cardinality(Running(d))
<1>1. /\ hconn \in [Handlers -> Conns \cup {NULL}] /\ hconn[t] # NULL
      /\ hconn' = [hconn EXCEPT ![t] = NULL] /\ NULL \notin Conns
  BY TcpAssumption DEF HandlerDerefs, Thread, Inv, TypeOK, Uses, Handling
<1>2. \A d \in Conns : d # hconn[t] => Running(d)' = Running(d)
  BY <1>1 DEF Running
<1>3. PICK c \in Conns : c = hconn[t]
  BY <1>1
<1>4. Running(c)' = Running(c) \ {t} /\ t \in Running(c) /\ IsFiniteSet(Running(c))
  BY <1>1, <1>3, TcpAssumption, FS_Subset DEF Running
<1>5. Cardinality(Running(c)') = Cardinality(Running(c)) - 1 /\ Cardinality(Running(c)) \in Nat /\ Cardinality(Running(c)) # 0
  BY <1>4, FS_RemoveElement, FS_CardinalityType, FS_EmptySet
<1> QED
  BY <1>2, <1>3, <1>5

(* one that has looked it up is one more guest,                             *)
LEMMA LookupCounts ==
  ASSUME Inv, NEW t \in Handlers, NEW i \in Ids, HandlerLookup(t, i)
  PROVE  /\ clients[i] \in Conns
         /\ \A d \in Conns : Cardinality(Guests(d)') =
              IF d = clients[i] THEN Cardinality(Guests(d)) + 1 ELSE Cardinality(Guests(d))
<1>1. /\ hother \in [Handlers -> Conns \cup {NULL}] /\ hother[t] = NULL /\ clients[i] \in Conns
      /\ hother' = [hother EXCEPT ![t] = clients[i]] /\ NULL \notin Conns
  BY TcpAssumption DEF HandlerLookup, Thread, Inv, TypeOK, Uses, Handling
<1>2. PICK c \in Conns : c = clients[i]
  BY <1>1
<1>3. Guests(c)' = Guests(c) \cup {t} /\ t \notin Guests(c) /\ IsFiniteSet(Guests(c))
  BY <1>1, <1>2, TcpAssumption, FS_Subset DEF Guests
<1>4. Cardinality(Guests(c)') = Cardinality(Guests(c)) + 1
  BY <1>3, FS_AddElement
<1>5. \A d \in Conns : d # c => Guests(d)' = Guests(d)
  BY <1>1, <1>2 DEF Guests
<1> QED
  BY <1>1, <1>2, <1>4, <1>5

(* and one less when it releases it.                                        *)
LEMMA ReleaseCounts ==
  ASSUME Inv, NEW t \in Handlers, HandlerRelease(t)
  PROVE  /\ hother[t] \in Conns /\ Cardinality(Guests(hother[t])) > 0
         /\ \A d \in Conns : Cardinality(Guests(d)') =
              IF d = hother[t] THEN Cardinality(Guests(d)) - 1 ELSE Cardinality(Guests(d))
<1>1. /\ hother \in [Handlers -> Conns \cup {NULL}] /\ hother[t] # NULL
      /\ hother' = [hother EXCEPT ![t] = NULL] /\ NULL \notin Conns
  BY TcpAssumption DEF HandlerRelease, Thread, Inv, TypeOK, Uses, Handling
<1>2. \A d \in Conns : d # hother[t] => Guests(d)' = Guests(d)
  BY <1>1 DEF Guests
<1>3. PICK c \in Conns : c = hother[t]
  BY <1>1
<1>4. Guests(c)' = Guests(c) \ {t} /\ t \in Guests(c) /\ IsFiniteSet(Guests(c))
  BY <1>1, <1>3, TcpAssumption, FS_Subset DEF Guests
<1>5. Cardinality(Guests(c)') = Cardinality(Guests(c)) - 1 /\ Cardinality(Guests(c)) \in Nat /\ Cardinality(Guests(c)) # 0
  BY <1>4, FS_RemoveElement, FS_CardinalityType, FS_EmptySet
<1> QED
  BY <1>2, <1>3, <1>5

(* An accepted connection may take the id of another one in the map, and a  *)
(* destructor then deletes the other: an id leads to a connection that was  *)
(* not deleted, or to none.                                                 *)
LEMMA NextClients ==
  ASSUME Valid, Inv, Next
  PROVE  Clients'
<1> USE TcpAssumption DEF srv, pollv, socks, kernel, poller, tcp, gc, owning, Clients
<1>a. /\ Clients /\ clients \in [Ids -> Conns \cup {NULL}] /\ conn \in [Conns -> Connection]
      /\ ppc \in {"accept_refs", "accept_inc", "read", "perform"} => cur \in Conns
  BY DEF Inv, Uses, TypeOK, Control, Cur
<1>1. CASE Poller
  <2>1. CASE PollerRefs
    BY <2>1, <1>a DEF PollerRefs, Goto, Test, Connection
  <2>2. CASE PollerRefsInc
    BY <2>2, <1>a DEF PollerRefsInc, Goto, Connection
  <2>3. CASE PollerWorkers
    BY <2>3, <1>a DEF PollerWorkers, Goto, Test, Connection
  <2>4. CASE PollerListen
    BY <2>4, <1>a DEF PollerListen, Goto, P!Add, Connection
  <2>5. CASE PollerLoop
    BY <2>5, <1>a DEF PollerLoop, Goto, Test, Connection
  <2>6. CASE PollerSelect
    BY <2>6, <1>a DEF PollerSelect, Goto, P!Begin, P!Idle, Connection
  <2>7. CASE PollerSelectFails
    BY <2>7, <1>a DEF PollerSelectFails, Goto, Test, Connection
  <2>8. CASE PollerEndWalk
    BY <2>8, <1>a DEF PollerEndWalk, Goto, P!EndWalk, Connection
  <2>9. CASE PollerClose
    BY <2>9, <1>a DEF PollerClose, Goto, P!Del, P!DelRefs, Connection
  <2>10. CASE PollerCloseRefs
    BY <2>10, <1>a DEF PollerCloseRefs, Goto, Test, Connection
  <2>11. CASE PollerGc
    BY <2>11, <1>a DEF PollerGc, Goto, Back, Connection
  <2>12. CASE PollerGcRefused
    BY <2>12, <1>a DEF PollerGcRefused, Goto, Test, Connection
  <2>13. CASE PollerDrop
    <3>1. cur \in Conns /\ mrefs[cur] > 0 /\ SockDeref(cur) /\ clients' = clients
      BY <2>13, Referenced DEF PollerDrop
    <3> QED
      BY <3>1, <1>a, Released DEF Sockets
  <2>14. CASE PollerDestructed
    BY <2>14, <1>a DEF PollerDestructed, Goto, Freed, Connection
  <2>15. CASE PollerAcceptNone
    BY <2>15, <1>a DEF PollerAcceptNone, Goto, Connection
  <2>16. CASE PollerAcceptRefs
    <3>1. cur \in Conns /\ clients' = clients
      BY <2>16 DEF PollerAcceptRefs, Test, Goto, Inv, Control, Cur
    <3> QED
      BY <2>16, <3>1, <1>a, Enrolled DEF PollerAcceptRefs, Test
  <2>17. CASE PollerAcceptInc
    <3>1. cur \in Conns /\ clients' = clients
      BY <2>17 DEF PollerAcceptInc, Goto, Inv, Control, Cur
    <3> QED
      BY <2>17, <3>1, <1>a, Enrolled DEF PollerAcceptInc
  <2>18. CASE PollerReadRefs
    BY <2>18, <1>a DEF PollerReadRefs, Goto, Connection
  <2>19. CASE PollerRead
    BY <2>19, <1>a DEF PollerRead, Goto, Connection
  <2>20. CASE PollerPerform
    BY <2>20, <1>a DEF PollerPerform, Connection
  <2>21. CASE PollerPerformRefused
    BY <2>21, <1>a DEF PollerPerformRefused, Goto, Connection
  <2>22. CASE PollerRoundDone
    BY <2>22, <1>a DEF PollerRoundDone, Goto, Test, Connection
  <2>23. CASE PollerOut
    BY <2>23, <1>a DEF PollerOut, Goto, Connection
  <2>24. CASE PollerPollFreed
    BY <2>24, <1>a DEF PollerPollFreed, Goto, Connection
  <2>25. CASE PollerPollNull
    BY <2>25, <1>a DEF PollerPollNull, Goto, Connection
  <2>26. CASE PollerDerefs
    BY <2>26, <1>a DEF PollerDerefs, Goto, Connection
  <2>27. ASSUME NEW s \in Sockets, PollerVisit(s)
        PROVE  Clients'
    BY <2>27, <1>a DEF PollerVisit, Goto, P!Visit, Reported, Connection
  <2>28. ASSUME NEW s \in Sockets, PollerDelPerform(s)
        PROVE  Clients'
    BY <2>28, <1>a, DelWatched, Released DEF PollerDelPerform
  <2>29. ASSUME NEW s \in Sockets, PollerAddPerform(s)
        PROVE  Clients'
    BY <2>29, <1>a, AddWatched, Released DEF PollerAddPerform, ListDeref
  <2>30. ASSUME NEW s \in Sockets, PollerPollNext(s)
        PROVE  Clients'
    BY <2>30, <1>a DEF PollerPollNext, Goto, Connection
  <2>31. ASSUME NEW c \in Conns, NEW i \in Ids, PollerAccept(c, i)
        PROVE  Clients'
    <3>1. conn[c].stage = "none" /\ \A d \in Conns : conn'[d] = IF d = c THEN Fresh(i) ELSE conn[d]
      BY <2>31, <1>a DEF PollerAccept, Freed
    <3> QED
      BY <2>31, <3>1, <1>a, FreshConn DEF PollerAccept
  <2> QED
    BY <1>1, <2>1, <2>2, <2>3, <2>4, <2>5, <2>6, <2>7, <2>8, <2>9, <2>10, <2>11, <2>12, <2>13, <2>14, <2>15,
       <2>16, <2>17, <2>18, <2>19, <2>20, <2>21, <2>22, <2>23, <2>24, <2>25, <2>26, <2>27, <2>28, <2>29,
       <2>30, <2>31 DEF Poller
<1>2. ASSUME NEW t \in Handlers, Handler(t)
      PROVE  Clients'
  <2>1. clients' = clients
    BY <1>2, HandlerKeeps DEF srv
  <2> QED
    BY <1>2, <2>1, <1>a, HandlerKeepsStages
<1>3. ASSUME NEW c \in Conns, Destructor(c)
      PROVE  Clients'
  <2>1. CASE SockMark(c)
    BY <2>1, <1>a DEF SockMark, InStage, Connection
  <2>2. CASE SockCloseFd(c)
    BY <2>2, <1>a DEF SockCloseFd, InStage, Connection
  <2>3. CASE ConnMark(c)
    BY <2>3, <1>a DEF ConnMark, InStage, Connection
  <2>4. CASE ConnUnmap(c)
    BY <2>4, <1>a DEF ConnUnmap, InStage, Connection
  <2>5. CASE ConnWait(c)
    BY <2>5, <1>a DEF ConnWait, InStage, Connection
  <2>6. CASE ConnSrvDeref(c)
    BY <2>6, <1>a DEF ConnSrvDeref, InStage, Connection
  <2>7. CASE ConnFree(c)
    <3>1. conn[c].stage = "free" /\ \A d \in Conns : d # c => conn'[d] = conn[d]
      BY <2>7, <1>a DEF ConnFree
    <3> QED
      BY <2>7, <3>1, <1>a DEF ConnFree
  <2> QED
    BY <1>3, <2>1, <2>2, <2>3, <2>4, <2>5, <2>6, <2>7 DEF Destructor
<1>4. ASSUME NEW c \in Conns, GcDeref(c)
      PROVE  Clients'
  <2>1. UNCHANGED <<clients, ppc, cur, waiting, hconn, hother>>
    BY <1>4 DEF GcDeref
  <2>2. /\ conn[c].stage = "live"
        /\ \A d \in Conns : /\ conn'[d].stage = (IF d = c /\ mrefs[c] = 1 THEN "sock" ELSE conn[d].stage)
                          /\ conn'[d].id = conn[d].id /\ conn'[d].refs = conn[d].refs
    BY <1>4, GcReleased
  <2> QED
    BY <2>1, <2>2, <1>a
<1>5. CASE Owner
  <2>1. CASE OwnerDestroy
    BY <2>1, <1>a DEF OwnerDestroy, OwnerGoto, MayDestroy, Accepting, Connection
  <2>2. CASE OwnerCloseListener
    BY <2>2, <1>a DEF OwnerCloseListener, Connection
  <2>3. CASE OwnerInterrupt
    BY <2>3, <1>a DEF OwnerInterrupt, OwnerGoto, Connection
  <2>4. CASE OwnerPoll
    BY <2>4, <1>a DEF OwnerPoll, OwnerGoto, Connection
  <2>5. CASE OwnerWait
    BY <2>5, <1>a DEF OwnerWait, OwnerGoto, Connection
  <2>6. CASE OwnerFree
    BY <2>6, <1>a DEF OwnerFree, OwnerGoto, Connection
  <2>7. CASE OwnerWorkers
    BY <2>7, <1>a DEF OwnerWorkers, OwnerGoto, Connection
  <2> QED
    BY <1>5, <2>1, <2>2, <2>3, <2>4, <2>5, <2>6, <2>7 DEF Owner, Destroying
<1>6. ASSUME NEW c \in Conns, PeerSend(c) \/ PeerClose(c)
      PROVE  Clients'
  BY <1>6, <1>a DEF PeerSend, PeerClose
<1>7. CASE Stopped
  BY <1>7, <1>a DEF Stopped, vars, srv, pollv, socks, kernel, poller, tcp, gc, owning
<1> QED
  BY <1>1, <1>2, <1>3, <1>4, <1>5, <1>6, <1>7 DEF Next

(* Every step that changes conn->refs changes the uses by as much.          *)
LEMMA NextConnRefs ==
  ASSUME Valid, Inv, Next
  PROVE  ConnRefs' /\ OneUser'
<1> USE TcpAssumption, Counting, UsersStay DEF srv, pollv, socks, kernel, poller, tcp, gc, owning,
        P!SamePass, P!lists, P!walk, ConnRefs, OneUser, Users
<1>a. ConnRefs /\ OneUser /\ conn \in [Conns -> Connection] /\ waiting \in [Conns -> Nat]
  BY DEF Inv, Uses, TypeOK
<1>b. /\ ppc \in {"accept_refs", "accept_inc", "read_refs", "read", "perform"} => cur \in Conns
      /\ ppc \in {"read", "perform"} => conn[cur].stage = "live"
      /\ hconn \in [Handlers -> Conns \cup {NULL}] /\ hother \in [Handlers -> Conns \cup {NULL}]
      /\ \A t \in Handlers : hconn[t] # NULL <=> hpc[t] # "idle"
  BY DEF Inv, Uses, Handling, TypeOK, Control, Cur, Memory, SockRefs, Kept
<1>1. CASE Poller
  <2>1. CASE PollerRefs
    BY <2>1, <1>a DEF PollerRefs, Goto, Test, Connection
  <2>2. CASE PollerRefsInc
    BY <2>2, <1>a DEF PollerRefsInc, Goto, Connection
  <2>3. CASE PollerWorkers
    BY <2>3, <1>a DEF PollerWorkers, Goto, Test, Connection
  <2>4. CASE PollerListen
    BY <2>4, <1>a DEF PollerListen, Goto, P!Add, Connection
  <2>5. CASE PollerLoop
    BY <2>5, <1>a DEF PollerLoop, Goto, Test, Connection
  <2>6. CASE PollerSelect
    BY <2>6, <1>a DEF PollerSelect, Goto, P!Begin, P!Idle, Connection
  <2>7. CASE PollerSelectFails
    BY <2>7, <1>a DEF PollerSelectFails, Goto, Test, Connection
  <2>8. CASE PollerEndWalk
    BY <2>8, <1>a DEF PollerEndWalk, Goto, P!EndWalk, Connection
  <2>9. CASE PollerClose
    BY <2>9, <1>a DEF PollerClose, Goto, P!Del, P!DelRefs, Connection
  <2>10. CASE PollerCloseRefs
    BY <2>10, <1>a DEF PollerCloseRefs, Goto, Test, Connection
  <2>11. CASE PollerGc
    BY <2>11, <1>a DEF PollerGc, Goto, Back, Connection
  <2>12. CASE PollerGcRefused
    BY <2>12, <1>a DEF PollerGcRefused, Goto, Test, Connection
  <2>13. CASE PollerDrop
    <3>1. cur \in Conns /\ mrefs[cur] > 0 /\ SockDeref(cur) /\ conn[cur].stage = "live"
      BY <2>13, Referenced, Released DEF PollerDrop, Sockets
    <3> QED
      BY <2>13, <3>1, <1>a, Released DEF PollerDrop, Goto, Back, Sockets
  <2>14. CASE PollerDestructed
    BY <2>14, <1>a DEF PollerDestructed, Goto, Freed, Connection
  <2>15. CASE PollerAcceptNone
    BY <2>15, <1>a DEF PollerAcceptNone, Goto, Connection
  <2>16. CASE PollerAcceptRefs
    BY <2>16, <1>a, <1>b, Enrolled DEF PollerAcceptRefs, Test, Goto
  <2>17. CASE PollerAcceptInc
    BY <2>17, <1>a, <1>b, Enrolled DEF PollerAcceptInc, Goto
  <2>18. CASE PollerReadRefs
    BY <2>18, <1>a, <1>b DEF PollerReadRefs, Goto
  <2>19. CASE PollerRead
    <3>1. cur \in Conns /\ conn[cur].stage = "live"
      BY <2>19, <1>b DEF PollerRead
    <3>2. CASE net[cur].data
      BY <2>19, <3>1, <3>2, <1>a DEF PollerRead, Goto, Connection
    <3>3. CASE ~net[cur].data
      BY <2>19, <3>1, <3>3, <1>a DEF PollerRead, Goto
    <3> QED
      BY <3>2, <3>3
  <2>20. CASE PollerPerform
    BY <2>20, <1>a, <1>b DEF PollerPerform
  <2>21. CASE PollerPerformRefused
    BY <2>21, <1>a, <1>b DEF PollerPerformRefused, Goto, Connection, Dec
  <2>22. CASE PollerRoundDone
    BY <2>22, <1>a DEF PollerRoundDone, Goto, Test, Connection
  <2>23. CASE PollerOut
    BY <2>23, <1>a DEF PollerOut, Goto, Connection
  <2>24. CASE PollerPollFreed
    BY <2>24, <1>a DEF PollerPollFreed, Goto, Connection
  <2>25. CASE PollerPollNull
    BY <2>25, <1>a DEF PollerPollNull, Goto, Connection
  <2>26. CASE PollerDerefs
    BY <2>26, <1>a DEF PollerDerefs, Goto, Connection
  <2>27. ASSUME NEW s \in Sockets, PollerVisit(s)
        PROVE  ConnRefs' /\ OneUser'
    BY <2>27, <1>a DEF PollerVisit, Goto, P!Visit, Reported, Connection
  <2>28. ASSUME NEW s \in Sockets, PollerDelPerform(s)
        PROVE  ConnRefs' /\ OneUser'
    BY <2>28, <1>a, DelWatched, Released DEF PollerDelPerform, ListDeref, Goto
  <2>29. ASSUME NEW s \in Sockets, PollerAddPerform(s)
        PROVE  ConnRefs' /\ OneUser'
    BY <2>29, <1>a, AddWatched, Released DEF PollerAddPerform, ListDeref, Goto
  <2>30. ASSUME NEW s \in Sockets, PollerPollNext(s)
        PROVE  ConnRefs' /\ OneUser'
    BY <2>30, <1>a DEF PollerPollNext, Goto, Connection
  <2>31. ASSUME NEW c \in Conns, NEW i \in Ids, PollerAccept(c, i)
        PROVE  ConnRefs' /\ OneUser'
    <3>1. conn[c].stage = "none" /\ \A d \in Conns : conn'[d] = IF d = c THEN Fresh(i) ELSE conn[d]
      BY <2>31, <1>a DEF PollerAccept, Freed
    <3>2. waiting[c] = 0 /\ Cardinality(Running(c)) = 0 /\ Cardinality(Guests(c)) = 0
      BY <2>31, <3>1, <1>a DEF PollerAccept, Goto
    <3> QED
      BY <2>31, <3>1, <3>2, <1>a, FreshConn DEF PollerAccept, Goto
  <2> QED
    BY <1>1, <2>1, <2>2, <2>3, <2>4, <2>5, <2>6, <2>7, <2>8, <2>9, <2>10, <2>11, <2>12, <2>13, <2>14, <2>15,
       <2>16, <2>17, <2>18, <2>19, <2>20, <2>21, <2>22, <2>23, <2>24, <2>25, <2>26, <2>27, <2>28, <2>29,
       <2>30, <2>31 DEF Poller
<1>2. ASSUME NEW t \in Handlers, Handler(t)
      PROVE  ConnRefs' /\ OneUser'
  <2>1. CASE HandlerStart(t)
    BY <2>1, <1>a DEF HandlerStart, Thread, Connection
  <2>2. CASE HandlerClose(t)
    BY <2>2, <1>a DEF HandlerClose, Thread, Connection
  <2>3. CASE HandlerRead(t)
    BY <2>3, <1>a DEF HandlerRead, Thread, Connection
  <2>4. CASE HandlerReadFails(t)
    BY <2>4, <1>a DEF HandlerReadFails, Thread, Connection
  <2>5. CASE HandlerRelease(t)
    <3>1. \A c \in Conns : conn'[c].stage = conn[c].stage /\ conn'[c].refs = IF c = hother[t] THEN Dec(conn[c].refs) ELSE conn[c].refs
      BY <2>5, <1>a, ReleaseCounts DEF HandlerRelease, ConnDeref, Connection
    <3>2. UNCHANGED <<ppc, cur, waiting, hconn>>
      BY <2>5 DEF HandlerRelease, Thread
    <3> QED
      BY <2>5, <3>1, <3>2, <1>a, ReleaseCounts DEF Dec
  <2>6. CASE HandlerReturn(t)
    BY <2>6, <1>a DEF HandlerReturn, Thread, Connection
  <2>7. CASE HandlerReturned(t)
    BY <2>7, <1>a DEF HandlerReturned, Thread, Connection
  <2>8. CASE HandlerShutdown(t)
    BY <2>8, <1>a DEF HandlerShutdown, Thread, Connection
  <2>9. CASE HandlerDerefs(t)
    <3>1. \A c \in Conns : conn'[c].stage = conn[c].stage /\ conn'[c].refs = IF c = hconn[t] THEN Dec(conn[c].refs) ELSE conn[c].refs
      BY <2>9, <1>a DEF HandlerDerefs, ConnDeref, Connection
    <3>2. UNCHANGED <<ppc, cur, waiting, hother>>
      BY <2>9 DEF HandlerDerefs, Thread
    <3> QED
      BY <2>9, <3>1, <3>2, <1>a, DerefsCounts DEF Dec
  <2>10. ASSUME NEW c \in Conns, HandlerTake(t, c)
        PROVE  ConnRefs' /\ OneUser'
    <3>1. waiting' = [waiting EXCEPT ![c] = waiting[c] - 1] /\ waiting[c] > 0 /\ UNCHANGED <<conn, ppc, cur, hother>>
      BY <2>10 DEF HandlerTake, Thread
    <3>2. \A d \in Conns : Cardinality(Running(d)') = IF d = c THEN Cardinality(Running(d)) + 1 ELSE Cardinality(Running(d))
      BY <2>10, TakeCounts
    <3>3. \A d \in Conns : Guests(d)' = Guests(d)
      BY <3>1
    <3>4. ConnRefs'
      BY <3>1, <3>2, <3>3, <1>a
    <3>5. OneUser'
      BY <3>1, <3>2, <3>3, <1>a
    <3> QED
      BY <3>4, <3>5
  <2>11. ASSUME NEW flag \in BOOLEAN, HandlerRdlock(t, flag)
        PROVE  ConnRefs' /\ OneUser'
    BY <2>11, <1>a DEF HandlerRdlock, Thread, Connection
  <2>12. ASSUME NEW i \in Ids, HandlerLookup(t, i)
        PROVE  ConnRefs' /\ OneUser'
    <3>1. /\ conn[clients[i]].stage \notin {"none", "derefs", "free"}
          /\ \A c \in Conns : conn'[c].stage = conn[c].stage /\ conn'[c].refs = IF c = clients[i] THEN conn[c].refs + 1 ELSE conn[c].refs
      BY <2>12, <1>a, LookupCounts DEF HandlerLookup, ConnRef, Connection, Inv, Uses, Clients
    <3>2. UNCHANGED <<ppc, cur, waiting, hconn>>
      BY <2>12 DEF HandlerLookup, Thread
    <3> QED
      BY <2>12, <3>1, <3>2, <1>a, LookupCounts
  <2> QED
    BY <1>2, <2>1, <2>2, <2>3, <2>4, <2>5, <2>6, <2>7, <2>8, <2>9, <2>10, <2>11, <2>12 DEF Handler
<1>3. ASSUME NEW c \in Conns, Destructor(c)
      PROVE  ConnRefs' /\ OneUser'
  <2>1. CASE SockMark(c)
    BY <2>1, <1>a DEF SockMark, InStage, Connection
  <2>2. CASE SockCloseFd(c)
    BY <2>2, <1>a DEF SockCloseFd, InStage, Connection
  <2>3. CASE ConnMark(c)
    BY <2>3, <1>a DEF ConnMark, InStage, Connection
  <2>4. CASE ConnUnmap(c)
    BY <2>4, <1>a DEF ConnUnmap, InStage, Connection
  <2>5. CASE ConnWait(c)
    BY <2>5, <1>a DEF ConnWait, InStage, Connection
  <2>6. CASE ConnSrvDeref(c)
    BY <2>6, <1>a DEF ConnSrvDeref, InStage, Connection
  <2>7. CASE ConnFree(c)
    <3>1. conn[c].stage = "free" /\ \A d \in Conns : conn'[d] = IF d = c THEN NoConn ELSE conn[d]
      BY <2>7, <1>a DEF ConnFree
    <3>2. NoConn.stage = "none" /\ NoConn.refs = 0
      BY TcpAssumption, FreshConn DEF NoConn, Fresh
    <3>3. UNCHANGED <<ppc, cur, waiting, hconn, hother>>
      BY <2>7 DEF ConnFree
    <3> QED
      BY <3>1, <3>2, <3>3, <1>a
  <2> QED
    BY <1>3, <2>1, <2>2, <2>3, <2>4, <2>5, <2>6, <2>7 DEF Destructor
<1>4. ASSUME NEW c \in Conns, GcDeref(c)
      PROVE  ConnRefs' /\ OneUser'
  <2>1. UNCHANGED <<clients, ppc, cur, waiting, hconn, hother>>
    BY <1>4 DEF GcDeref
  <2>2. /\ conn[c].stage = "live"
        /\ \A d \in Conns : /\ conn'[d].stage = (IF d = c /\ mrefs[c] = 1 THEN "sock" ELSE conn[d].stage)
                          /\ conn'[d].id = conn[d].id /\ conn'[d].refs = conn[d].refs
    BY <1>4, GcReleased
  <2> QED
    BY <2>1, <2>2, <1>a
<1>5. CASE Owner
  <2>1. CASE OwnerDestroy
    BY <2>1, <1>a DEF OwnerDestroy, OwnerGoto, MayDestroy, Accepting, Connection
  <2>2. CASE OwnerCloseListener
    BY <2>2, <1>a DEF OwnerCloseListener, Connection
  <2>3. CASE OwnerInterrupt
    BY <2>3, <1>a DEF OwnerInterrupt, OwnerGoto, Connection
  <2>4. CASE OwnerPoll
    BY <2>4, <1>a DEF OwnerPoll, OwnerGoto, Connection
  <2>5. CASE OwnerWait
    BY <2>5, <1>a DEF OwnerWait, OwnerGoto, Connection
  <2>6. CASE OwnerFree
    BY <2>6, <1>a DEF OwnerFree, OwnerGoto, Connection
  <2>7. CASE OwnerWorkers
    <3>1. \A c \in Conns : waiting[c] = 0
      BY <2>7 DEF OwnerWorkers, OwnerGoto, Inv, Serving, ServerOutlives, Valid
    <3> QED
      BY <2>7, <3>1, <1>a DEF OwnerWorkers, OwnerGoto
  <2> QED
    BY <1>5, <2>1, <2>2, <2>3, <2>4, <2>5, <2>6, <2>7 DEF Owner, Destroying
<1>6. ASSUME NEW c \in Conns, PeerSend(c) \/ PeerClose(c)
      PROVE  ConnRefs' /\ OneUser'
  BY <1>6, <1>a DEF PeerSend, PeerClose
<1>7. CASE Stopped
  BY <1>7, <1>a DEF Stopped, vars, srv, pollv, socks, kernel, poller, tcp, gc, owning
<1> QED
  BY <1>1, <1>2, <1>3, <1>4, <1>5, <1>6, <1>7 DEF Next

(* fl_enpolled is set when the acceptance is over.                          *)
LEMMA NextEnpolled ==
  ASSUME Valid, Inv, Next
  PROVE  AllEnpolled'
<1> USE TcpAssumption DEF srv, pollv, socks, kernel, poller, tcp, gc, owning, AllEnpolled
<1>a. AllEnpolled /\ conn \in [Conns -> Connection]
  BY DEF Inv, Serving, TypeOK
<1>b. ppc \in {"accept_refs", "accept_inc", "read_refs", "read", "perform"} => cur \in Conns
  BY DEF Inv, Control, Cur
<1>1. CASE Poller
  <2>1. CASE PollerRefs
    BY <2>1, <1>a DEF PollerRefs, Goto, Test, Connection
  <2>2. CASE PollerRefsInc
    BY <2>2, <1>a DEF PollerRefsInc, Goto, Connection
  <2>3. CASE PollerWorkers
    BY <2>3, <1>a DEF PollerWorkers, Goto, Test, Connection
  <2>4. CASE PollerListen
    BY <2>4, <1>a DEF PollerListen, Goto, P!Add, Connection
  <2>5. CASE PollerLoop
    BY <2>5, <1>a DEF PollerLoop, Goto, Test, Connection
  <2>6. CASE PollerSelect
    BY <2>6, <1>a DEF PollerSelect, Goto, P!Begin, P!Idle, Connection
  <2>7. CASE PollerSelectFails
    BY <2>7, <1>a DEF PollerSelectFails, Goto, Test, Connection
  <2>8. CASE PollerEndWalk
    BY <2>8, <1>a DEF PollerEndWalk, Goto, P!EndWalk, Connection
  <2>9. CASE PollerClose
    BY <2>9, <1>a DEF PollerClose, Goto, P!Del, P!DelRefs, Connection
  <2>10. CASE PollerCloseRefs
    BY <2>10, <1>a DEF PollerCloseRefs, Goto, Test, Connection
  <2>11. CASE PollerGc
    BY <2>11, <1>a DEF PollerGc, Goto, Back, Connection
  <2>12. CASE PollerGcRefused
    BY <2>12, <1>a DEF PollerGcRefused, Goto, Test, Connection
  <2>13. CASE PollerDrop
    <3>1. cur \in Conns /\ mrefs[cur] > 0 /\ SockDeref(cur) /\ conn[cur].stage = "live"
      BY <2>13, Referenced, Released DEF PollerDrop, Sockets
    <3> QED
      BY <2>13, <3>1, <1>a, Released DEF PollerDrop, Goto, Back, Sockets
  <2>14. CASE PollerDestructed
    BY <2>14, <1>a DEF PollerDestructed, Goto, Freed, Connection
  <2>15. CASE PollerAcceptNone
    BY <2>15, <1>a DEF PollerAcceptNone, Goto, Connection
  <2>16. CASE PollerAcceptRefs
    <3>1. ppc = "accept_refs" /\ cur' = cur /\ cur \in Conns
      BY <2>16, <1>b DEF PollerAcceptRefs, Test, Goto
    <3>2. CASE fl_destroyed
      BY <2>16, <3>1, <3>2, <1>a, Enrolled DEF PollerAcceptRefs, Goto
    <3>3. CASE ~fl_destroyed
      BY <2>16, <3>1, <3>3, <1>a DEF PollerAcceptRefs, Test, Goto
    <3> QED
      BY <3>2, <3>3
  <2>17. CASE PollerAcceptInc
    <3>1. ppc = "accept_inc" /\ ppc' = "read" /\ cur' = cur /\ cur \in Conns /\ Enpolled(cur)
      BY <2>17, <1>b DEF PollerAcceptInc, Goto
    <3> QED
      BY <3>1, <1>a, Enrolled
  <2>18. CASE PollerReadRefs
    BY <2>18, <1>a DEF PollerReadRefs, Goto, Connection
  <2>19. CASE PollerRead
    BY <2>19, <1>a DEF PollerRead, Goto, Connection
  <2>20. CASE PollerPerform
    BY <2>20, <1>a DEF PollerPerform, Connection
  <2>21. CASE PollerPerformRefused
    BY <2>21, <1>a DEF PollerPerformRefused, Goto, Connection
  <2>22. CASE PollerRoundDone
    BY <2>22, <1>a DEF PollerRoundDone, Goto, Test, Connection
  <2>23. CASE PollerOut
    BY <2>23, <1>a DEF PollerOut, Goto, Connection
  <2>24. CASE PollerPollFreed
    BY <2>24, <1>a DEF PollerPollFreed, Goto, Connection
  <2>25. CASE PollerPollNull
    BY <2>25, <1>a DEF PollerPollNull, Goto, Connection
  <2>26. CASE PollerDerefs
    BY <2>26, <1>a DEF PollerDerefs, Goto, Connection
  <2>27. ASSUME NEW s \in Sockets, PollerVisit(s)
        PROVE  AllEnpolled'
    BY <2>27, <1>a DEF PollerVisit, Goto, P!Visit, Reported, Connection
  <2>28. ASSUME NEW s \in Sockets, PollerDelPerform(s)
        PROVE  AllEnpolled'
    BY <2>28, <1>a, DelWatched, Released DEF PollerDelPerform, ListDeref, Goto
  <2>29. ASSUME NEW s \in Sockets, PollerAddPerform(s)
        PROVE  AllEnpolled'
    BY <2>29, <1>a, AddWatched, Released DEF PollerAddPerform, ListDeref, Goto
  <2>30. ASSUME NEW s \in Sockets, PollerPollNext(s)
        PROVE  AllEnpolled'
    BY <2>30, <1>a DEF PollerPollNext, Goto, Connection
  <2>31. ASSUME NEW c \in Conns, NEW i \in Ids, PollerAccept(c, i)
        PROVE  AllEnpolled'
    <3>1. conn[c].stage = "none" /\ \A d \in Conns : conn'[d] = IF d = c THEN Fresh(i) ELSE conn[d]
      BY <2>31, <1>a DEF PollerAccept, Freed
    <3>2. ppc = "accept" /\ ppc' = "accept_refs" /\ cur' = c
      BY <2>31 DEF PollerAccept, Goto
    <3> QED
      BY <3>1, <3>2, <1>a, FreshConn
  <2> QED
    BY <1>1, <2>1, <2>2, <2>3, <2>4, <2>5, <2>6, <2>7, <2>8, <2>9, <2>10, <2>11, <2>12, <2>13, <2>14, <2>15,
       <2>16, <2>17, <2>18, <2>19, <2>20, <2>21, <2>22, <2>23, <2>24, <2>25, <2>26, <2>27, <2>28, <2>29,
       <2>30, <2>31 DEF Poller
<1>2. ASSUME NEW t \in Handlers, Handler(t)
      PROVE  AllEnpolled'
  <2>1. UNCHANGED <<ppc, cur, srefs, opc, met>>
    BY <1>2, HandlerKeeps
  <2>2. \A c \in Conns : conn'[c].stage = conn[c].stage /\ conn'[c].fl_enpolled = conn[c].fl_enpolled
    BY <1>2, HandlerKeepsStages
  <2> QED
    BY <2>1, <2>2, <1>a
<1>3. ASSUME NEW c \in Conns, Destructor(c)
      PROVE  AllEnpolled'
  <2>1. CASE SockMark(c)
    <3>1. conn[c].stage = "sock" /\ conn'[c].stage = "fd" /\ conn'[c].fl_enpolled = conn[c].fl_enpolled
      BY <2>1, <1>a DEF SockMark, InStage, Connection
    <3>2. UNCHANGED <<ppc, cur>> /\ \A d \in Conns : d # c => conn'[d] = conn[d]
      BY <2>1, <1>a DEF SockMark, InStage
    <3> QED
      BY <3>1, <3>2, <1>a
  <2>2. CASE SockCloseFd(c)
    <3>1. conn[c].stage = "fd" /\ conn'[c].stage = "mark" /\ conn'[c].fl_enpolled = conn[c].fl_enpolled
      BY <2>2, <1>a DEF SockCloseFd, InStage, Connection
    <3>2. UNCHANGED <<ppc, cur>> /\ \A d \in Conns : d # c => conn'[d] = conn[d]
      BY <2>2, <1>a DEF SockCloseFd, InStage
    <3> QED
      BY <3>1, <3>2, <1>a
  <2>3. CASE ConnMark(c)
    <3>1. conn[c].stage = "mark" /\ conn'[c].stage = "unmap" /\ conn'[c].fl_enpolled = conn[c].fl_enpolled
      BY <2>3, <1>a DEF ConnMark, InStage, Connection
    <3>2. UNCHANGED <<ppc, cur>> /\ \A d \in Conns : d # c => conn'[d] = conn[d]
      BY <2>3, <1>a DEF ConnMark, InStage
    <3> QED
      BY <3>1, <3>2, <1>a
  <2>4. CASE ConnUnmap(c)
    <3>1. conn[c].stage = "unmap" /\ conn'[c].stage = "wait" /\ conn'[c].fl_enpolled = conn[c].fl_enpolled
      BY <2>4, <1>a DEF ConnUnmap, InStage, Connection
    <3>2. UNCHANGED <<ppc, cur>> /\ \A d \in Conns : d # c => conn'[d] = conn[d]
      BY <2>4, <1>a DEF ConnUnmap, InStage
    <3> QED
      BY <3>1, <3>2, <1>a
  <2>5. CASE ConnWait(c)
    <3>1. conn[c].stage = "wait" /\ conn'[c].stage = "derefs" /\ conn'[c].fl_enpolled = conn[c].fl_enpolled
      BY <2>5, <1>a DEF ConnWait, InStage, Connection
    <3>2. UNCHANGED <<ppc, cur>> /\ \A d \in Conns : d # c => conn'[d] = conn[d]
      BY <2>5, <1>a DEF ConnWait, InStage
    <3> QED
      BY <3>1, <3>2, <1>a
  <2>6. CASE ConnSrvDeref(c)
    <3>1. conn[c].stage = "derefs" /\ conn'[c].stage = "free" /\ conn'[c].fl_enpolled = conn[c].fl_enpolled
      BY <2>6, <1>a DEF ConnSrvDeref, InStage, Connection
    <3>2. UNCHANGED <<ppc, cur>> /\ \A d \in Conns : d # c => conn'[d] = conn[d]
      BY <2>6, <1>a DEF ConnSrvDeref, InStage
    <3> QED
      BY <3>1, <3>2, <1>a
  <2>7. CASE ConnFree(c)
    <3>1. conn[c].stage = "free" /\ \A d \in Conns : conn'[d] = IF d = c THEN NoConn ELSE conn[d]
      BY <2>7, <1>a DEF ConnFree
    <3>2. UNCHANGED <<ppc, cur>>
      BY <2>7 DEF ConnFree
    <3> QED
      BY <3>1, <3>2, <1>a, TcpAssumption DEF NoConn, Fresh
  <2> QED
    BY <1>3, <2>1, <2>2, <2>3, <2>4, <2>5, <2>6, <2>7 DEF Destructor
<1>4. ASSUME NEW c \in Conns, GcDeref(c)
      PROVE  AllEnpolled'
  <2>1. UNCHANGED <<ppc, cur, srefs, opc, met>>
    BY <1>4 DEF GcDeref
  <2>2. \A d \in Conns : /\ conn[d].stage # "none" <=> conn'[d].stage # "none"
                         /\ conn[d].stage # "free" <=> conn'[d].stage # "free"
                         /\ conn'[d].fl_enpolled = conn[d].fl_enpolled
    BY <1>4, GcReleased
  <2> QED
    BY <2>1, <2>2, <1>a
<1>5. CASE Owner
  <2>1. CASE OwnerDestroy
    BY <2>1, <1>a DEF OwnerDestroy, OwnerGoto, MayDestroy, Accepting, Connection
  <2>2. CASE OwnerCloseListener
    BY <2>2, <1>a DEF OwnerCloseListener, Connection
  <2>3. CASE OwnerInterrupt
    BY <2>3, <1>a DEF OwnerInterrupt, OwnerGoto, Connection
  <2>4. CASE OwnerPoll
    BY <2>4, <1>a DEF OwnerPoll, OwnerGoto, Connection
  <2>5. CASE OwnerWait
    BY <2>5, <1>a DEF OwnerWait, OwnerGoto, Connection
  <2>6. CASE OwnerFree
    BY <2>6, <1>a DEF OwnerFree, OwnerGoto, Connection
  <2>7. CASE OwnerWorkers
    BY <2>7, <1>a DEF OwnerWorkers, OwnerGoto, Connection
  <2> QED
    BY <1>5, <2>1, <2>2, <2>3, <2>4, <2>5, <2>6, <2>7 DEF Owner, Destroying
<1>6. ASSUME NEW c \in Conns, PeerSend(c) \/ PeerClose(c)
      PROVE  AllEnpolled'
  BY <1>6, <1>a DEF PeerSend, PeerClose
<1>7. CASE Stopped
  BY <1>7, <1>a DEF Stopped, vars, srv, pollv, socks, kernel, poller, tcp, gc, owning
<1> QED
  BY <1>1, <1>2, <1>3, <1>4, <1>5, <1>6, <1>7 DEF Next

-----------------------------------------------------------------------------
(***************************************************************************)
(* The references of the server.                                           *)
(***************************************************************************)
CountedConns == {c \in Conns : Counted(c)}

(* There are finitely many connections to count.                            *)
LEMMA CountedFinite == IsFiniteSet(CountedConns) /\ Cardinality(CountedConns) \in Nat
BY TcpAssumption, FS_Subset, FS_CardinalityType DEF CountedConns

(* The count changes only with the stages and fl_enpolled.                  *)
LEMMA CountedStays ==
  ASSUME \A c \in Conns : /\ conn'[c].stage \in {"none", "free"} <=> conn[c].stage \in {"none", "free"}
                          /\ conn'[c].fl_enpolled = conn[c].fl_enpolled
  PROVE  CountedConns' = CountedConns
BY DEF CountedConns, Counted

(* The end of an acceptance counts one more,                                *)
LEMMA EnrolledCounted ==
  ASSUME Inv, ppc \in {"accept_refs", "accept_inc"}, Enpolled(cur)
  PROVE  Cardinality(CountedConns') = Cardinality(CountedConns) + 1
<1>1. cur \in Conns /\ cur \in slist1
  BY DEF Inv, Control, Cur
<1>2. conn[cur].stage = "live" /\ ~conn[cur].fl_enpolled
  BY <1>1 DEF Inv, Memory, SockRefs, Kept, P!Watched, Serving, AllEnpolled
<1>3. \A d \in Conns : /\ conn'[d].stage = conn[d].stage
                       /\ d # cur => conn'[d].fl_enpolled = conn[d].fl_enpolled
                       /\ conn'[cur].fl_enpolled
  BY <1>1, Enrolled
<1>4. CountedConns' = CountedConns \cup {cur} /\ cur \notin CountedConns
  BY <1>1, <1>2, <1>3 DEF CountedConns, Counted
<1> QED
  BY <1>4, CountedFinite, FS_AddElement

(* the srv_derefs of a destructor one less, and fl_enpolled is set then.    *)
LEMMA DerefedCounted ==
  ASSUME Inv, NEW c \in Conns, ConnSrvDeref(c)
  PROVE  /\ srefs' = Dec(srefs)
         /\ Cardinality(CountedConns') = Cardinality(CountedConns) - 1 /\ Cardinality(CountedConns) > 0
<1>1. conn \in [Conns -> Connection]
  BY DEF Inv, TypeOK
<1>2. /\ conn[c].stage = "derefs" /\ conn'[c].stage = "free"
      /\ \A d \in Conns : d # c => conn'[d] = conn[d]
  BY <1>1 DEF ConnSrvDeref, InStage, Connection
<1>3. ~(ppc \in {"accept_refs", "accept_inc"} /\ cur = c)
  BY <1>2 DEF Inv, Control, Cur, Memory, SockRefs, Kept, P!Watched
<1>4. conn[c].fl_enpolled
  BY <1>2, <1>3 DEF Inv, Serving, AllEnpolled
<1>5. CountedConns' = CountedConns \ {c} /\ c \in CountedConns
  BY <1>2, <1>4 DEF CountedConns, Counted
<1>6. Cardinality(CountedConns') = Cardinality(CountedConns) - 1 /\ Cardinality(CountedConns) # 0
  BY <1>5, CountedFinite, FS_RemoveElement, FS_EmptySet
<1> QED
  BY <1>4, <1>6, CountedFinite DEF ConnSrvDeref

(* srv->refs changes with the connections that are counted and the polling  *)
(* thread; the accept that the destroy met adds a connection without it.    *)
LEMMA NextSrvRefs ==
  ASSUME Valid, Inv, Next
  PROVE  SrvRefs'
<1> USE TcpAssumption, CountedFinite DEF srv, pollv, socks, kernel, poller, tcp, gc, owning, SrvRefs,
        Holders, PollerCounted
<1>a. SrvRefs /\ conn \in [Conns -> Connection] /\ srefs \in Nat /\ Holders = Cardinality(CountedConns) + (IF PollerCounted THEN 1 ELSE 0)
  BY DEF Inv, Serving, TypeOK, Holders, CountedConns
<1>b. /\ met => fl_destroyed
      /\ fl_destroyed => ppc \notin Before
      /\ fl_destroyed => ppc # "accept_inc" \/ ~met
      /\ fl_destroyed /\ ppc \in {"accept", "accept_refs"} => met
  BY DEF Inv, Control, Destroyed
<1>c. conn' = conn => CountedConns' = CountedConns
  BY CountedStays
<1>d. Holders' = Cardinality(CountedConns') + (IF PollerCounted' THEN 1 ELSE 0)
  BY DEF Holders, CountedConns
<1> HIDE DEF Holders
<1> USE <1>d
<1>1. CASE Poller
  <2>1. CASE PollerRefs
    <3>1. ~met /\ ~fl_destroyed
      BY <2>1, <1>b DEF Before, PollerRefs, Test, Goto
    <3>2. ppc = "start" /\ ppc' = "start_inc" /\ UNCHANGED <<conn, srefs, met>>
      BY <2>1, <3>1 DEF PollerRefs, Test, Goto
    <3> QED
      BY <3>1, <3>2, <1>a, <1>c
  <2>2. CASE PollerRefsInc
    <3>1. ~met /\ ~fl_destroyed
      BY <2>2, <1>b DEF Before, PollerRefsInc, Goto
    <3>2. ppc = "start_inc" /\ ppc' = "workers" /\ srefs' = srefs + 1 /\ UNCHANGED <<conn, met>>
      BY <2>2 DEF PollerRefsInc, Goto
    <3> QED
      BY <3>1, <3>2, <1>a, <1>c
  <2>3. CASE PollerWorkers
    BY <2>3, <1>a, <1>c DEF PollerWorkers, Goto, Test
  <2>4. CASE PollerListen
    BY <2>4, <1>a, <1>c DEF PollerListen, Goto, P!Add
  <2>5. CASE PollerLoop
    BY <2>5, <1>a, <1>c DEF PollerLoop, Goto, Test
  <2>6. CASE PollerSelect
    BY <2>6, <1>a, <1>c DEF PollerSelect, Goto, P!Begin, P!Idle
  <2>7. CASE PollerSelectFails
    BY <2>7, <1>a, <1>c DEF PollerSelectFails, Goto, Test
  <2>8. CASE PollerEndWalk
    BY <2>8, <1>a, <1>c DEF PollerEndWalk, Goto, P!EndWalk
  <2>9. CASE PollerClose
    BY <2>9, <1>a, <1>c DEF PollerClose, Goto, P!Del, P!DelRefs
  <2>10. CASE PollerCloseRefs
    BY <2>10, <1>a, <1>c DEF PollerCloseRefs, Goto, Test
  <2>11. CASE PollerGc
    BY <2>11, <1>a, <1>c DEF PollerGc, Goto, Back
  <2>12. CASE PollerGcRefused
    BY <2>12, <1>a, <1>c DEF PollerGcRefused, Goto, Test
  <2>13. CASE PollerDrop
    <3>1. cur \in Conns /\ mrefs[cur] > 0 /\ SockDeref(cur) /\ conn[cur].stage = "live"
      BY <2>13, Referenced, Released DEF PollerDrop, Sockets
    <3>2. CountedConns' = CountedConns
      BY <3>1, Released, CountedStays DEF Sockets
    <3> QED
      BY <2>13, <3>2, <1>a DEF PollerDrop, Goto, Back
  <2>14. CASE PollerDestructed
    BY <2>14, <1>a, <1>c DEF PollerDestructed, Goto, Freed
  <2>15. CASE PollerAcceptNone
    BY <2>15, <1>a, <1>c DEF PollerAcceptNone, Goto
  <2>16. CASE PollerAcceptRefs
    <3>1. ppc = "accept_refs" /\ met' = met /\ srefs' = srefs
      BY <2>16 DEF PollerAcceptRefs, Test, Goto
    <3>2. CASE fl_destroyed
      BY <2>16, <3>1, <3>2, <1>a, <1>b, EnrolledCounted DEF PollerAcceptRefs, Goto
    <3>3. CASE ~fl_destroyed
      BY <2>16, <3>1, <3>3, <1>a, <1>b, <1>c DEF PollerAcceptRefs, Test, Goto
    <3> QED
      BY <3>2, <3>3
  <2>17. CASE PollerAcceptInc
    <3>1. ~met
      BY <2>17, <1>b DEF PollerAcceptInc, Goto
    <3> QED
      BY <2>17, <3>1, <1>a, EnrolledCounted DEF PollerAcceptInc, Goto
  <2>18. CASE PollerReadRefs
    BY <2>18, <1>a, <1>c DEF PollerReadRefs, Goto
  <2>19. CASE PollerRead
    <3>1. CountedConns' = CountedConns
      BY <2>19, <1>a, CountedStays DEF PollerRead, Connection
    <3> QED
      BY <2>19, <3>1, <1>a DEF PollerRead, Goto
  <2>20. CASE PollerPerform
    BY <2>20, <1>a, <1>c DEF PollerPerform
  <2>21. CASE PollerPerformRefused
    <3>1. CountedConns' = CountedConns
      BY <2>21, <1>a, CountedStays DEF PollerPerformRefused, Connection
    <3> QED
      BY <2>21, <3>1, <1>a DEF PollerPerformRefused, Goto
  <2>22. CASE PollerRoundDone
    BY <2>22, <1>a, <1>c DEF PollerRoundDone, Goto, Test
  <2>23. CASE PollerOut
    BY <2>23, <1>a, <1>c DEF PollerOut, Goto
  <2>24. CASE PollerPollFreed
    BY <2>24, <1>a, <1>c DEF PollerPollFreed, Goto
  <2>25. CASE PollerPollNull
    BY <2>25, <1>a, <1>c DEF PollerPollNull, Goto
  <2>26. CASE PollerDerefs
    <3>1. CountedConns' = CountedConns /\ srefs' = Dec(srefs) /\ met' = met /\ ppc = "derefs" /\ ppc' = "end"
      BY <2>26, <1>c DEF PollerDerefs, Goto
    <3> QED
      BY <3>1, <1>a DEF Dec
  <2>27. ASSUME NEW s \in Sockets, PollerVisit(s)
        PROVE  SrvRefs'
    <3>1. ppc' # "accept" \/ ~met
      BY <2>27, <1>b DEF PollerVisit, Goto, Reported
    <3>2. ppc = "walk" /\ ppc' \in {"walk", "close", "accept", "read_refs"} /\ UNCHANGED <<conn, srefs, met>>
      BY <2>27 DEF PollerVisit, Goto, Reported
    <3> QED
      BY <3>1, <3>2, <1>a, <1>c
  <2>28. ASSUME NEW s \in Sockets, PollerDelPerform(s)
        PROVE  SrvRefs'
    <3>1. CountedConns' = CountedConns
      BY <2>28, DelWatched, Released, CountedStays
    <3> QED
      BY <2>28, <3>1, <1>a DEF PollerDelPerform, ListDeref, Goto
  <2>29. ASSUME NEW s \in Sockets, PollerAddPerform(s)
        PROVE  SrvRefs'
    <3>1. CountedConns' = CountedConns
      BY <2>29, AddWatched, Released, CountedStays DEF ListDeref
    <3>2. UNCHANGED <<srefs, met>> /\ ppc = "lists" /\ ppc' \in {"lists", "destructor"}
      BY <2>29 DEF PollerAddPerform, ListDeref, Goto
    <3> QED
      BY <3>1, <3>2, <1>a
  <2>30. ASSUME NEW s \in Sockets, PollerPollNext(s)
        PROVE  SrvRefs'
    BY <2>30, <1>a, <1>c DEF PollerPollNext, Goto
  <2>31. ASSUME NEW c \in Conns, NEW i \in Ids, PollerAccept(c, i)
        PROVE  SrvRefs'
    <3>1. conn[c].stage = "none" /\ \A d \in Conns : conn'[d] = IF d = c THEN Fresh(i) ELSE conn[d]
      BY <2>31, <1>a DEF PollerAccept, Freed
    <3>2. CountedConns' = CountedConns
      BY <3>1, FreshConn DEF CountedConns, Counted
    <3> QED
      BY <2>31, <3>2, <1>a DEF PollerAccept, Goto
  <2> QED
    BY <1>1, <2>1, <2>2, <2>3, <2>4, <2>5, <2>6, <2>7, <2>8, <2>9, <2>10, <2>11, <2>12, <2>13, <2>14, <2>15,
       <2>16, <2>17, <2>18, <2>19, <2>20, <2>21, <2>22, <2>23, <2>24, <2>25, <2>26, <2>27, <2>28, <2>29,
       <2>30, <2>31 DEF Poller
<1>2. ASSUME NEW t \in Handlers, Handler(t)
      PROVE  SrvRefs'
  <2>1. UNCHANGED <<ppc, srefs, met>>
    BY <1>2, HandlerKeeps
  <2>2. CountedConns' = CountedConns
    BY <1>2, HandlerKeepsStages, CountedStays
  <2> QED
    BY <2>1, <2>2, <1>a
<1>3. ASSUME NEW c \in Conns, Destructor(c)
      PROVE  SrvRefs'
  <2>1. CASE SockMark(c)
    <3>1. conn[c].stage = "sock" /\ conn'[c].stage = "fd" /\ conn'[c].fl_enpolled = conn[c].fl_enpolled
      BY <2>1, <1>a DEF SockMark, InStage, Connection
    <3>2. UNCHANGED <<ppc, srefs, met>> /\ \A d \in Conns : d # c => conn'[d] = conn[d]
      BY <2>1, <1>a DEF SockMark, InStage
    <3>3. CountedConns' = CountedConns
      BY <3>1, <3>2, CountedStays
    <3> QED
      BY <3>2, <3>3, <1>a
  <2>2. CASE SockCloseFd(c)
    <3>1. conn[c].stage = "fd" /\ conn'[c].stage = "mark" /\ conn'[c].fl_enpolled = conn[c].fl_enpolled
      BY <2>2, <1>a DEF SockCloseFd, InStage, Connection
    <3>2. UNCHANGED <<ppc, srefs, met>> /\ \A d \in Conns : d # c => conn'[d] = conn[d]
      BY <2>2, <1>a DEF SockCloseFd, InStage
    <3>3. CountedConns' = CountedConns
      BY <3>1, <3>2, CountedStays
    <3> QED
      BY <3>2, <3>3, <1>a
  <2>3. CASE ConnMark(c)
    <3>1. conn[c].stage = "mark" /\ conn'[c].stage = "unmap" /\ conn'[c].fl_enpolled = conn[c].fl_enpolled
      BY <2>3, <1>a DEF ConnMark, InStage, Connection
    <3>2. UNCHANGED <<ppc, srefs, met>> /\ \A d \in Conns : d # c => conn'[d] = conn[d]
      BY <2>3, <1>a DEF ConnMark, InStage
    <3>3. CountedConns' = CountedConns
      BY <3>1, <3>2, CountedStays
    <3> QED
      BY <3>2, <3>3, <1>a
  <2>4. CASE ConnUnmap(c)
    <3>1. conn[c].stage = "unmap" /\ conn'[c].stage = "wait" /\ conn'[c].fl_enpolled = conn[c].fl_enpolled
      BY <2>4, <1>a DEF ConnUnmap, InStage, Connection
    <3>2. UNCHANGED <<ppc, srefs, met>> /\ \A d \in Conns : d # c => conn'[d] = conn[d]
      BY <2>4, <1>a DEF ConnUnmap, InStage
    <3>3. CountedConns' = CountedConns
      BY <3>1, <3>2, CountedStays
    <3> QED
      BY <3>2, <3>3, <1>a
  <2>5. CASE ConnWait(c)
    <3>1. conn[c].stage = "wait" /\ conn'[c].stage = "derefs" /\ conn'[c].fl_enpolled = conn[c].fl_enpolled
      BY <2>5, <1>a DEF ConnWait, InStage, Connection
    <3>2. UNCHANGED <<ppc, srefs, met>> /\ \A d \in Conns : d # c => conn'[d] = conn[d]
      BY <2>5, <1>a DEF ConnWait, InStage
    <3>3. CountedConns' = CountedConns
      BY <3>1, <3>2, CountedStays
    <3> QED
      BY <3>2, <3>3, <1>a
  <2>6. CASE ConnSrvDeref(c)
    <3>1. UNCHANGED <<ppc, met>>
      BY <2>6, <1>a DEF ConnSrvDeref, InStage
    <3> QED
      BY <2>6, <3>1, <1>a, DerefedCounted DEF Dec
  <2>7. CASE ConnFree(c)
    <3>1. conn[c].stage = "free" /\ \A d \in Conns : conn'[d] = IF d = c THEN NoConn ELSE conn[d]
      BY <2>7, <1>a DEF ConnFree
    <3>2. UNCHANGED <<ppc, srefs, met>>
      BY <2>7 DEF ConnFree
    <3>3. NoConn.stage = "none"
      BY <1>a, TcpAssumption DEF NoConn, Fresh
    <3>4. CountedConns' = CountedConns
      BY <3>1, <3>3 DEF CountedConns, Counted
    <3> QED
      BY <3>2, <3>4, <1>a
  <2> QED
    BY <1>3, <2>1, <2>2, <2>3, <2>4, <2>5, <2>6, <2>7 DEF Destructor
<1>4. ASSUME NEW c \in Conns, GcDeref(c)
      PROVE  SrvRefs'
  <2>1. UNCHANGED <<ppc, srefs, met>>
    BY <1>4 DEF GcDeref
  <2>2. CountedConns' = CountedConns
    BY <1>4, GcReleased, CountedStays
  <2> QED
    BY <2>1, <2>2, <1>a
<1>5. CASE Owner
  <2>1. UNCHANGED <<ppc, conn>> /\ CountedConns' = CountedConns
    BY <1>5, OwnerKeeps, CountedStays
  <2>2. srefs' = srefs /\ (met' = met \/ ~met)
    BY <1>5, <1>a DEF Owner, Destroying, OwnerDestroy, OwnerCloseListener, OwnerInterrupt, OwnerPoll,
       OwnerWait, OwnerFree,
                 OwnerWorkers, OwnerGoto, Inv, Control, Destroyed
  <2> QED
    BY <2>1, <2>2, <1>a
<1>6. ASSUME NEW c \in Conns, PeerSend(c) \/ PeerClose(c)
      PROVE  SrvRefs'
  <2>1. UNCHANGED <<ppc, srefs, met, conn>> /\ CountedConns' = CountedConns
    BY <1>6, CountedStays DEF PeerSend, PeerClose
  <2> QED
    BY <2>1, <1>a
<1>7. CASE Stopped
  BY <1>7, <1>a, <1>c DEF Stopped, vars, srv, pollv, socks, kernel, poller, tcp, gc, owning
<1> QED
  BY <1>1, <1>2, <1>3, <1>4, <1>5, <1>6, <1>7 DEF Next

(* Once nobody is counted, the owner is the only one left. *)
LEMMA NobodyLeft ==
  ASSUME Inv, ~met, opc = "wait", srefs = 0
  PROVE  /\ ppc = "end"
         /\ \A t \in Handlers : hpc[t] = "idle"
         /\ \A c \in Conns : conn[c].stage \in {"none", "free"} /\ waiting[c] = 0
         /\ gcq = {}
<1>1. Holders = 0 /\ Holders = Cardinality(CountedConns) + (IF PollerCounted THEN 1 ELSE 0)
  BY DEF Inv, Serving, SrvRefs, Holders, CountedConns
<1>2. CountedConns = {} /\ ~PollerCounted
  BY <1>1, CountedFinite, FS_EmptySet
<1>3. ppc = "end"
  BY <1>2 DEF PollerCounted, Inv, Control, Destroyed, Before
<1>4. \A c \in Conns : conn[c].stage \in {"none", "free"}
  BY <1>2, <1>3 DEF CountedConns, Counted, Inv, Serving, AllEnpolled
<1>5. ASSUME NEW c \in Conns
      PROVE  waiting[c] = 0 /\ Running(c) = {}
  <2>1. IsFiniteSet(Running(c)) /\ Cardinality(Running(c)) \in Nat /\ Cardinality(Guests(c)) \in Nat
    BY TcpAssumption, FS_Subset, FS_CardinalityType DEF Running, Guests
  <2>2. waiting[c] + Cardinality(Running(c)) + Cardinality(Guests(c)) = 0 /\ waiting[c] \in Nat
    BY <1>3, <1>4, <2>1 DEF Inv, TypeOK, Uses, ConnRefs, Users
  <2> QED
    BY <2>1, <2>2, FS_EmptySet
<1>6. ASSUME NEW t \in Handlers
      PROVE  hpc[t] = "idle"
  <2>1. hconn[t] \in Conns \cup {NULL} /\ (hconn[t] = NULL => hpc[t] = "idle")
    BY DEF Inv, TypeOK, Uses, Handling
  <2>2. hconn[t] \notin Conns
    BY <1>5 DEF Running
  <2> QED
    BY <2>1, <2>2
<1>7. gcq = {}
  <2> SUFFICES ASSUME NEW c \in gcq
               PROVE  FALSE
    OBVIOUS
  <2>1. c \in Conns /\ mrefs[c] = (IF c \in slist2 THEN 1 ELSE 0) + 1 /\ (conn[c].stage = "live" <=> mrefs[c] > 0)
    BY DEF Inv, TypeOK, Memory, SockRefs, Kept
  <2> QED
    BY <2>1, <1>4
<1> QED
  BY <1>3, <1>4, <1>5, <1>6, <1>7

(* Nothing happens in the server after that.                                *)
LEMMA NextServerOutlives ==
  ASSUME Valid, Inv, Next
  PROVE  ServerOutlives'
<1> USE DEF srv, pollv, socks, kernel, poller, tcp, gc, owning
<1> DEFINE Gone == /\ ppc = "end"
                   /\ \A t \in Handlers : hpc[t] = "idle"
                   /\ \A c \in Conns : conn[c].stage \in {"none", "free"} /\ waiting[c] = 0
                   /\ gcq = {}
<1> SUFFICES ASSUME opc' \in {"free", "workers", "freed"}, ~met'
             PROVE  Gone'
  BY DEF ServerOutlives
<1>1. CASE opc \in {"free", "workers", "freed"}
  <2>1. ~met /\ Gone
    BY <1>1 DEF Valid, Inv, Serving, ServerOutlives
  <2>2. ~Poller
    BY <2>1 DEF Poller, PollerRefs, PollerRefsInc, PollerWorkers, PollerListen, PollerLoop, PollerSelect,
                PollerSelectFails, PollerEndWalk, PollerClose, PollerCloseRefs, PollerGc, PollerGcRefused, PollerDrop,
                PollerDestructed, PollerAcceptNone, PollerAcceptRefs, PollerAcceptInc, PollerReadRefs, PollerRead,
                PollerPerform, PollerRoundDone, PollerOut, PollerPollFreed, PollerPollNull, PollerDerefs,
                PollerPerformRefused, PollerVisit, PollerDelPerform, PollerAddPerform, PollerPollNext, PollerAccept,
                ListDeref, Test, Goto
  <2>3. ASSUME NEW t \in Handlers
        PROVE  ~Handler(t)
    <3>1. ~(HandlerStart(t) \/ HandlerClose(t) \/ HandlerRead(t) \/ HandlerReadFails(t) \/ HandlerRelease(t))
      BY <2>1 DEF HandlerStart, HandlerClose, HandlerRead, HandlerReadFails, HandlerRelease, Thread
    <3>2. ~(HandlerReturn(t) \/ HandlerReturned(t) \/ HandlerShutdown(t) \/ HandlerDerefs(t))
      BY <2>1 DEF HandlerReturn, HandlerReturned, HandlerShutdown, HandlerDerefs, Thread
    <3>3. ~\E c \in Conns : HandlerTake(t, c)
      BY <2>1 DEF HandlerTake
    <3>4. ~\E flag \in BOOLEAN : HandlerRdlock(t, flag)
      BY <2>1 DEF HandlerRdlock, Thread
    <3>5. ~\E i \in Ids : HandlerLookup(t, i)
      BY <2>1 DEF HandlerLookup, Thread
    <3> QED
      BY <3>1, <3>2, <3>3, <3>4, <3>5 DEF Handler
  <2>4. ASSUME NEW c \in Conns, Destructor(c)
        PROVE  Gone'
    <3>1. ConnFree(c)
      BY <2>1, <2>4 DEF Destructor, SockMark, SockCloseFd, ConnMark, ConnUnmap, ConnWait, ConnSrvDeref,
         InStage
    <3>2. /\ UNCHANGED <<ppc, hpc, waiting, gcq>>
          /\ \A d \in Conns : conn'[d] = IF d = c THEN NoConn ELSE conn[d]
      BY <3>1 DEF ConnFree, Inv, TypeOK
    <3>3. NoConn.stage = "none"
      BY TcpAssumption DEF NoConn, Fresh
    <3> QED
      BY <2>1, <3>2, <3>3
  <2>5. ASSUME NEW c \in Conns
        PROVE  ~GcDeref(c)
    BY <2>1 DEF GcDeref
  <2>6. CASE Owner
    BY <1>1, <2>1, <2>6 DEF Owner, Destroying, OwnerDestroy, OwnerCloseListener, OwnerInterrupt, OwnerPoll,
       OwnerWait,
                            OwnerFree, OwnerWorkers, OwnerGoto
  <2>7. CASE Stopped \/ \E c \in Conns : PeerSend(c) \/ PeerClose(c)
    BY <2>1, <2>7 DEF Stopped, vars, PeerSend, PeerClose
  <2> QED
    BY <2>2, <2>3, <2>4, <2>5, <2>6, <2>7 DEF Next
<1>2. CASE opc \notin {"free", "workers", "freed"}
  <2>1. OwnerWait
    <3>1. CASE Poller \/ \E t \in Handlers : Handler(t)
      BY <1>2, <3>1, PollerKeeps, HandlerKeeps
    <3>2. CASE Stopped \/ \E c \in Conns : Destructor(c) \/ GcDeref(c) \/ PeerSend(c) \/ PeerClose(c)
      BY <1>2, <3>2 DEF Destructor, SockMark, SockCloseFd, ConnMark, ConnUnmap, ConnWait, ConnSrvDeref,
         ConnFree, InStage,
                        GcDeref, PeerSend, PeerClose, Stopped, vars
    <3>3. CASE Owner
      BY <1>2, <3>3 DEF Owner, Destroying, OwnerDestroy, OwnerCloseListener, OwnerInterrupt, OwnerPoll,
         OwnerWait,
                        OwnerFree, OwnerWorkers, OwnerGoto
    <3> QED
      BY <3>1, <3>2, <3>3 DEF Next
  <2>2. opc = "wait" /\ srefs = 0 /\ ~met /\ UNCHANGED <<ppc, hpc, conn, waiting, gcq>>
    BY <2>1 DEF OwnerWait, OwnerGoto
  <2> QED
    BY <2>2, NobodyLeft
<1> QED
  BY <1>1, <1>2

-----------------------------------------------------------------------------
(***************************************************************************)
(* The number of connections.                                              *)
(***************************************************************************)
(* There are finitely many connections to watch.                            *)
LEMMA WatchedFinite ==
  ASSUME Inv
  PROVE  /\ IsFiniteSet(P!Watched \ {LISTENER}) /\ Cardinality(P!Watched \ {LISTENER}) \in Nat
         /\ P!Watched \ {LISTENER} \subseteq Conns
<1>1. P!Watched \ {LISTENER} \subseteq Conns
  BY DEF P!Watched, P!table, Sockets, Inv, TypeOK
<1> QED
  BY <1>1, TcpAssumption, FS_Subset, FS_CardinalityType

(* One less is watched,                                                     *)
LEMMA WatchedLess ==
  ASSUME Inv, NEW s \in P!Watched, s # LISTENER, P!Watched' = P!Watched \ {s}
  PROVE  /\ Cardinality(P!Watched' \ {LISTENER}) = Cardinality(P!Watched \ {LISTENER}) - 1
         /\ Cardinality(P!Watched \ {LISTENER}) > 0
<1> DEFINE W == P!Watched \ {LISTENER}
<1>1. P!Watched' \ {LISTENER} = W \ {s} /\ s \in W
  OBVIOUS
<1>2. IsFiniteSet(W) /\ Cardinality(W) \in Nat
  BY WatchedFinite
<1>3. Cardinality(W \ {s}) = Cardinality(W) - 1 /\ Cardinality(W) # 0
  BY <1>1, <1>2, FS_RemoveElement, FS_EmptySet
<1>4. Cardinality(P!Watched' \ {LISTENER}) = Cardinality(W \ {s})
  BY <1>1
<1> HIDE DEF W
<1>5. Cardinality(W \ {s}) = Cardinality(W) - 1 /\ Cardinality(W) > 0
  BY <1>2, <1>3
<1> QED
  BY <1>4, <1>5 DEF W

(* and one more.                                                            *)
LEMMA WatchedMore ==
  ASSUME Inv, NEW c \in Conns, c \notin P!Watched, P!Watched' = P!Watched \cup {c}
  PROVE  Cardinality(P!Watched' \ {LISTENER}) = Cardinality(P!Watched \ {LISTENER}) + 1
<1> DEFINE W == P!Watched \ {LISTENER}
<1>1. P!Watched' \ {LISTENER} = W \cup {c} /\ c \notin W
  BY TcpAssumption
<1> QED
  BY <1>1, WatchedFinite, FS_AddElement

(* There are as many entries as sockets in the table.                       *)
LEMMA TableCounts ==
  ASSUME Inv
  PROVE  IsFiniteSet(sockets) /\ Cardinality(sockets) = Cardinality(P!table)
<1> DEFINE f == [e \in sockets |-> e[2]]
           g == [x \in P!table |-> CHOOSE e \in sockets : e[2] = x]
<1>1. P!table \subseteq Sockets /\ IsFiniteSet(Sockets) /\ IsFiniteSet(P!table)
  <2>1. P!table \subseteq Sockets
    BY DEF P!table, Inv, TypeOK
  <2>2. IsFiniteSet(Sockets)
    BY TcpAssumption, FS_AddElement DEF Sockets
  <2> QED
    BY <2>1, <2>2, FS_Subset
<1>2. \A x \in P!table : g[x] \in sockets /\ g[x][2] = x
  BY DEF P!table
<1>3. \A d, e \in sockets : d[2] = e[2] => d = e
  BY DEF Inv, Memory, Keys
<1>4. \A e \in sockets : e[2] \in P!table /\ g[e[2]] = e
  BY <1>2, <1>3 DEF P!table
<1>5. g \in Surjection(P!table, sockets)
  BY <1>2, <1>4 DEF Surjection
<1>6. IsFiniteSet(sockets) /\ Cardinality(sockets) <= Cardinality(P!table)
  BY <1>1, <1>5, FS_Surjection
<1>7. f \in Surjection(sockets, P!table)
  BY <1>2, <1>4 DEF Surjection
<1>8. Cardinality(P!table) <= Cardinality(sockets)
  BY <1>6, <1>7, FS_Surjection
<1> QED
  BY <1>1, <1>6, <1>8, FS_CardinalityType

(* The place and the descriptor of an accepted connection are not taken     *)
(* when the round is over.                                                  *)
LEMMA AcceptedFits ==
  ASSUME Inv, ~fl_destroyed, slist2 = {}, NEW s \in slist1, s \notin P!table
  PROVE  P!Fits(s)
<1>1. s \in Conns /\ s \in P!Watched /\ P!table \subseteq P!Watched
  BY DEF Inv, Control, Lists, P!Watched
<1>2. Cardinality(sockets) < MaxConns + 1
  <2> DEFINE W == P!Watched \ {LISTENER}
  <2>1. IsFiniteSet(W) /\ Cardinality(W) \in Nat /\ Cardinality(W) <= MaxConns
    BY WatchedFinite DEF Inv, Accepted
  <2>2. W \ {s} \subseteq W /\ IsFiniteSet(W \ {s}) /\ Cardinality(W \ {s}) = Cardinality(W) - 1
    BY <1>1, <2>1, TcpAssumption, FS_RemoveElement
  <2>3. P!table \subseteq (W \ {s}) \cup {LISTENER}
    BY <1>1
  <2>4. IsFiniteSet((W \ {s}) \cup {LISTENER}) /\ Cardinality((W \ {s}) \cup {LISTENER}) = Cardinality(W)
    BY <2>1, <2>2, FS_AddElement
  <2>5. Cardinality(P!table) <= Cardinality(W) /\ Cardinality(P!table) \in Nat
    BY <2>3, <2>4, FS_Subset, FS_CardinalityType
  <2> QED
    BY <2>1, <2>5, TableCounts, TcpAssumption
<1>3. ASSUME NEW e \in sockets
      PROVE  e[1] # fd[s]
  <2>1. e[2] \in P!table /\ e[2] # s /\ e[2] \in Sockets /\ e[1] \in Fds \cup {0}
    BY DEF P!table, Inv, TypeOK
  <2>2. opc = "using"
    BY DEF Inv, Control, Destroyed
  <2>3. fd[LISTENER] # 0 /\ owner[fd[LISTENER]] = LISTENER
    BY <2>2 DEF Inv, Memory, Descriptors
  <2>4. \A c \in Conns \cap P!Watched : \E f \in Fds : owner[f] = c /\ fd[c] = f
    <3>1. SUFFICES ASSUME NEW c \in Conns, c \in P!Watched
                   PROVE  \E f \in Fds : owner[f] = c /\ fd[c] = f
      OBVIOUS
    <3>2. conn[c].stage = "live"
      BY <3>1 DEF Inv, TypeOK, Memory, SockRefs, Kept
    <3>3. PICK f \in Fds : owner[f] = c
      BY <3>2 DEF Inv, Memory, Descriptors
    <3>4. fd[c] = f
      BY <3>3, TcpAssumption DEF Inv, Memory, Descriptors
    <3> QED
      BY <3>3, <3>4
  <2>5. fd[e[2]] # fd[s]
    BY <1>1, <2>1, <2>3, <2>4, TcpAssumption DEF Sockets
  <2>6. e[1] = fd[e[2]]
    BY <2>1, <2>3 DEF Inv, Memory, Keys
  <2> QED
    BY <2>5, <2>6
<1>4. P!Cardinality(sockets) = Cardinality(sockets)
  BY DEF P!Cardinality, Cardinality
<1> QED
  BY <1>2, <1>3, <1>4 DEF P!Fits

(* srv->connections changes with what the poll watches.                     *)
LEMMA NextAccepted ==
  ASSUME Valid, Inv, Next
  PROVE  Accepted'
<1> USE DEF srv, pollv, socks, kernel, poller, tcp, gc, owning, Accepted, Dropping, P!lists, P!walk,
        P!SamePass
<1>a. /\ Accepted /\ connections \in Nat
      /\ Cardinality(P!Watched \ {LISTENER}) \in Nat
  BY WatchedFinite DEF Inv, TypeOK
<1>b. /\ ppc = "out" \/ poll # "set" => fl_destroyed
      /\ ppc = "close" /\ cur = LISTENER => fl_destroyed
  BY DEF Inv, Control, Destroyed, Cur
<1>c. ppc \in {"poll_next", "poll_null"} => poll # "set"
  BY DEF Inv, Control, PollPhase
<1>1. CASE Poller
  <2>1. CASE PollerRefs
    BY <2>1, <1>a, WatchedStays DEF PollerRefs, Goto, Test
  <2>2. CASE PollerRefsInc
    BY <2>2, <1>a, WatchedStays DEF PollerRefsInc, Goto
  <2>3. CASE PollerWorkers
    BY <2>3, <1>a, WatchedStays DEF PollerWorkers, Goto, Test
  <2>4. CASE PollerListen
    <3>1. P!Watched' \ {LISTENER} = P!Watched \ {LISTENER}
      BY <2>4, ListenWatched
    <3> QED
      BY <2>4, <3>1, <1>a DEF PollerListen, Goto
  <2>5. CASE PollerLoop
    BY <2>5, <1>a, WatchedStays DEF PollerLoop, Goto, Test
  <2>6. CASE PollerSelect
    BY <2>6, <1>a, WatchedStays DEF PollerSelect, Goto, P!Begin, P!Idle
  <2>7. CASE PollerSelectFails
    BY <2>7, <1>a, WatchedStays DEF PollerSelectFails, Goto, Test
  <2>8. CASE PollerEndWalk
    BY <2>8, <1>a, WatchedStays DEF PollerEndWalk, Goto, P!EndWalk
  <2>9. CASE PollerClose
    <3>1. cur \in P!Watched /\ P!Watched' = P!Watched \ {cur}
      BY <2>9, CloseWatched
    <3>2. ppc = "close" /\ fl_destroyed' = fl_destroyed
      BY <2>9 DEF PollerClose, Goto
    <3>3. ~fl_destroyed => cur # LISTENER
      BY <3>2, <1>b
    <3>4. cur # LISTENER => connections' = connections /\ ppc' = "close_refs"
      BY <2>9 DEF PollerClose, Goto
    <3>5. CASE cur # LISTENER
      <4>1. /\ Cardinality(P!Watched' \ {LISTENER}) = Cardinality(P!Watched \ {LISTENER}) - 1
            /\ Cardinality(P!Watched \ {LISTENER}) > 0
        BY <3>1, <3>5, WatchedLess
      <4> QED
        BY <3>2, <3>4, <3>5, <4>1, <1>a, TcpAssumption
    <3> QED
      BY <3>2, <3>3, <3>5
  <2>10. CASE PollerCloseRefs
    BY <2>10, <1>a, WatchedStays DEF PollerCloseRefs, Goto, Test
  <2>11. CASE PollerGc
    <3>1. ppc = "gc" /\ ppc' \in {"walk", "poll_next"} /\ connections' = Dec(connections) /\ fl_destroyed' = fl_destroyed
      BY <2>11 DEF PollerGc, Goto, Back
    <3>2. P!Watched' = P!Watched
      BY <2>11, WatchedStays DEF PollerGc
    <3> QED
      BY <3>1, <3>2, <1>a DEF Dec
  <2>12. CASE PollerGcRefused
    BY <2>12, <1>a, WatchedStays DEF PollerGcRefused, Goto, Test
  <2>13. CASE PollerDrop
    <3>1. ppc = "drop" /\ ppc' \in {"destructor", "walk", "poll_next"} /\ connections' = Dec(connections) /\ fl_destroyed' = fl_destroyed
      BY <2>13 DEF PollerDrop, Goto, Back
    <3>2. P!Watched' = P!Watched
      BY <2>13, WatchedStays DEF PollerDrop
    <3> QED
      BY <3>1, <3>2, <1>a DEF Dec
  <2>14. CASE PollerDestructed
    BY <2>14, <1>a, WatchedStays DEF PollerDestructed, Goto, Freed
  <2>15. CASE PollerAcceptNone
    BY <2>15, <1>a, WatchedStays DEF PollerAcceptNone, Goto
  <2>16. CASE PollerAcceptRefs
    BY <2>16, <1>a, WatchedStays DEF PollerAcceptRefs, Goto, Test, Enpolled
  <2>17. CASE PollerAcceptInc
    BY <2>17, <1>a, WatchedStays DEF PollerAcceptInc, Goto, Enpolled
  <2>18. CASE PollerReadRefs
    BY <2>18, <1>a, WatchedStays DEF PollerReadRefs, Goto
  <2>19. CASE PollerRead
    BY <2>19, <1>a, WatchedStays DEF PollerRead, Goto
  <2>20. CASE PollerPerform
    BY <2>20, <1>a, WatchedStays DEF PollerPerform
  <2>21. CASE PollerPerformRefused
    BY <2>21, <1>a, WatchedStays DEF PollerPerformRefused, Goto
  <2>22. CASE PollerRoundDone
    BY <2>22, <1>a, WatchedStays DEF PollerRoundDone, Goto, Test
  <2>23. CASE PollerOut
    BY <2>23, <1>a, WatchedStays DEF PollerOut, Goto
  <2>24. CASE PollerPollFreed
    <3>1. fl_destroyed /\ fl_destroyed' = fl_destroyed
      BY <2>24, <1>b, <1>c DEF PollerPollFreed, Goto
    <3> QED
      BY <3>1
  <2>25. CASE PollerPollNull
    <3>1. fl_destroyed /\ fl_destroyed' = fl_destroyed
      BY <2>25, <1>b, <1>c DEF PollerPollNull, Goto
    <3> QED
      BY <3>1
  <2>26. CASE PollerDerefs
    BY <2>26, <1>a, WatchedStays DEF PollerDerefs, Goto
  <2>27. ASSUME NEW s \in Sockets, PollerVisit(s)
        PROVE  Accepted'
    BY <2>27, <1>a, WatchedStays DEF PollerVisit, Goto, P!Visit, Reported
  <2>28. ASSUME NEW s \in Sockets, PollerDelPerform(s)
        PROVE  Accepted'
    <3>1. P!Watched' \ {LISTENER} = P!Watched \ {LISTENER}
      BY <2>28, DelWatched
    <3> QED
      BY <2>28, <3>1, <1>a DEF PollerDelPerform, ListDeref, Goto
  <2>29. ASSUME NEW s \in Sockets, PollerAddPerform(s)
        PROVE  Accepted'
    <3>1. ~fl_destroyed => P!Fits(s)
      BY <2>29, AddWatched, AcceptedFits DEF PollerAddPerform, P!AddPerform
    <3>2. P!Fits(s) => P!Watched' = P!Watched /\ UNCHANGED <<ppc, connections, fl_destroyed>>
      BY <2>29, AddWatched DEF PollerAddPerform
    <3>3. fl_destroyed' = fl_destroyed
      BY <2>29 DEF PollerAddPerform
    <3> QED
      BY <3>1, <3>2, <3>3, <1>a
  <2>30. ASSUME NEW s \in Sockets, PollerPollNext(s)
        PROVE  Accepted'
    <3>1. fl_destroyed /\ fl_destroyed' = fl_destroyed
      BY <2>30, <1>b, <1>c DEF PollerPollNext, Goto
    <3> QED
      BY <3>1
  <2>31. ASSUME NEW c \in Conns, NEW i \in Ids, PollerAccept(c, i)
        PROVE  Accepted'
    <3>1. c \notin P!Watched /\ P!Watched' = P!Watched \cup {c}
      BY <2>31, AcceptWatched
    <3>2. /\ ppc = "accept" /\ ppc' = "accept_refs" /\ UNCHANGED <<fl_destroyed, connections>>
          /\ connections < MaxConns
      BY <2>31 DEF PollerAccept, Goto
    <3>3. Cardinality(P!Watched' \ {LISTENER}) = Cardinality(P!Watched \ {LISTENER}) + 1
      BY <3>1, WatchedMore
    <3> QED
      BY <3>2, <3>3, <1>a, TcpAssumption
  <2> QED
    BY <1>1, <2>1, <2>2, <2>3, <2>4, <2>5, <2>6, <2>7, <2>8, <2>9, <2>10, <2>11, <2>12, <2>13, <2>14, <2>15,
       <2>16, <2>17, <2>18, <2>19, <2>20, <2>21, <2>22, <2>23, <2>24, <2>25, <2>26, <2>27, <2>28, <2>29,
       <2>30, <2>31 DEF Poller
<1>2. ASSUME NEW t \in Handlers, Handler(t)
      PROVE  Accepted'
  <2>1. UNCHANGED <<connections, ppc, fl_destroyed>> /\ P!Watched' = P!Watched
    BY <1>2, HandlerKeeps, WatchedStays DEF srv, pollv, poller
  <2> QED
    BY <2>1, <1>a
<1>3. ASSUME NEW c \in Conns, Destructor(c)
      PROVE  Accepted'
  <2>1. UNCHANGED <<connections, ppc, fl_destroyed>> /\ P!Watched' = P!Watched
    BY <1>3, DestructorKeeps, WatchedStays DEF srv, pollv, poller
  <2> QED
    BY <2>1, <1>a
<1>4. ASSUME NEW c \in Conns, GcDeref(c)
      PROVE  Accepted'
  <2>1. UNCHANGED <<connections, ppc, fl_destroyed>> /\ P!Watched' = P!Watched
    BY <1>4, <1>a, WatchedStays DEF GcDeref, srv, pollv, poller
  <2> QED
    BY <2>1, <1>a
<1>5. CASE Owner
  <2>1. UNCHANGED <<connections, ppc>> /\ P!Watched' = P!Watched
    BY <1>5, OwnerKeeps, WatchedStays DEF pollv, poller
  <2>2. ~fl_destroyed' => ~fl_destroyed
    BY <1>5 DEF Owner, Destroying, OwnerDestroy, OwnerCloseListener, OwnerInterrupt, OwnerPoll, OwnerWait,
       OwnerFree,
             OwnerWorkers, srv
  <2> QED
    BY <2>1, <2>2, <1>a
<1>6. ASSUME NEW c \in Conns, PeerSend(c) \/ PeerClose(c)
      PROVE  Accepted'
  <2>1. UNCHANGED <<connections, ppc, fl_destroyed>> /\ P!Watched' = P!Watched
    BY <1>6, <1>a, WatchedStays DEF PeerSend, PeerClose, srv, pollv, poller
  <2> QED
    BY <2>1, <1>a
<1>7. CASE Stopped
  BY <1>7, <1>a, WatchedStays DEF Stopped, vars, srv, pollv, socks, kernel, poller, tcp, gc, owning
<1> QED
  BY <1>1, <1>2, <1>3, <1>4, <1>5, <1>6, <1>7 DEF Next

-----------------------------------------------------------------------------
(***************************************************************************)
(* The invariant.                                                          *)
(***************************************************************************)
(* A server that was freed too early stays so.                              *)
LEMMA ValidBefore ==
  ASSUME Next, Valid'
  PROVE  Valid
<1>1. CASE Poller \/ \E t \in Handlers : Handler(t)
  BY <1>1, PollerKeeps, HandlerKeeps DEF Valid, owning
<1>2. CASE Stopped \/ \E c \in Conns : Destructor(c) \/ GcDeref(c) \/ PeerSend(c) \/ PeerClose(c)
  BY <1>2, DestructorKeeps DEF GcDeref, PeerSend, PeerClose, Stopped, vars, owning, Valid
<1>3. CASE Owner
  BY <1>3 DEF Owner, Destroying, OwnerDestroy, OwnerCloseListener, OwnerInterrupt, OwnerPoll, OwnerWait,
              OwnerFree, OwnerWorkers, OwnerGoto, Valid
<1> QED
  BY <1>1, <1>2, <1>3 DEF Next

(* A step keeps the invariant.                                              *)
LEMMA NextInv == Valid /\ Inv /\ Next => Inv'
BY NextTypeOK, NextControl, NextDescriptors, NextReferences, NextHandling, NextConnRefs, NextClients,
   NextEnpolled,
   NextSrvRefs, NextServerOutlives, NextAccepted DEF Inv, Memory, Uses, Serving

(* The server as wstk_tcp_srv_start leaves it has it.                       *)
LEMMA InitInv == Init => Inv
<1> SUFFICES ASSUME Init
             PROVE  Inv
  OBVIOUS
<1> USE TcpAssumption DEF Init
<1>1. AnyFd \in Fds /\ AnyFd # 0 /\ AnyFd \in Nat
  BY DEF AnyFd
<1>2. NoConn \in Connection /\ NoConn.stage = "none" /\ NoConn.refs = 0
  BY DEF NoConn, Fresh, Connection
<1>3. \A c \in Conns : conn[c].stage = "none" /\ conn[c].refs = 0 /\ mrefs[c] = 0
  BY <1>2 DEF Sockets
<1>4. P!table = {} /\ P!Watched = {}
  BY DEF P!table, P!Watched
<1>5. TypeOK
  <2>1. fd \in [Sockets -> Fds \cup {0}] /\ mrefs \in [Sockets -> 0..2] /\ owner \in [Fds -> Sockets \cup {NULL}]
    BY <1>1 DEF Sockets
  <2>2. conn \in [Conns -> Connection] /\ net \in [Conns -> Traffic]
    BY <1>2 DEF Silent, Traffic
  <2> QED
    BY <2>1, <2>2 DEF TypeOK
<1>6. Control
  BY <1>4 DEF Control, PollPhase, Lists, Walk, Cur, Destroyed, InWalk, Dropping, After, Before
<1>7. Descriptors /\ Keys
  <2>1. fd[LISTENER] = AnyFd /\ \A f \in Fds : owner[f] = IF f = AnyFd THEN LISTENER ELSE NULL
    BY DEF Sockets
  <2> QED
    BY <1>1, <1>3, <2>1 DEF Descriptors, Keys
<1>8. SockRefs /\ Destructors /\ ListenerRefs
  BY <1>3, <1>4 DEF SockRefs, Destructors, ListenerRefs, Kept, InHand, Dropping, Sockets
<1>9. \A c \in Conns : Running(c) = {} /\ Guests(c) = {} /\ Cardinality(Running(c)) = 0 /\ Cardinality(Guests(c)) = 0
  BY FS_EmptySet DEF Running, Guests
<1>10. Uses
  <2>1. Handling /\ Clients
    BY DEF Handling, Clients
  <2>2. ConnRefs
    <3>1. ASSUME NEW c \in Conns
          PROVE  Users(c) = 0
      BY <1>9 DEF Users
    <3> QED
      BY <1>3, <3>1 DEF ConnRefs
  <2>3. OneUser
    BY <1>9 DEF OneUser
  <2> QED
    BY <2>1, <2>2, <2>3 DEF Uses
<1>11. Serving
  <2>1. {c \in Conns : Counted(c)} = {}
    BY <1>3 DEF Counted
  <2>2. Holders = 0
    BY <2>1, FS_EmptySet DEF Holders, PollerCounted
  <2> QED
    BY <1>3, <2>2 DEF Serving, AllEnpolled, SrvRefs, ServerOutlives
<1>12. Accepted
  <2>1. Cardinality(P!Watched \ {LISTENER}) = 0
    BY <1>4, FS_EmptySet
  <2> QED
    BY <2>1 DEF Accepted, Dropping
<1> QED
  BY <1>5, <1>6, <1>7, <1>8, <1>10, <1>11, <1>12 DEF Inv, Memory

(* So does one in which nothing happens.                                    *)
LEMMA SameInv == Inv /\ UNCHANGED vars => Inv'
<1> SUFFICES ASSUME Inv, UNCHANGED vars
             PROVE  Inv'
  OBVIOUS
<1> USE DEF vars, srv, pollv, socks, kernel, poller, tcp, gc, owning
<1>1. P!table' = P!table /\ P!Watched' = P!Watched
  BY WatchedStays
<1>2. \A c \in Conns : Users(c)' = Users(c) /\ Running(c)' = Running(c)
  BY DEF Users, Running, Guests
<1>3. Holders' = Holders
  BY DEF Holders, Counted, PollerCounted
<1>4. TypeOK' /\ Control'
  BY <1>1 DEF Inv, TypeOK, Control, PollPhase, Lists, Walk, Cur, Destroyed
<1>5. Memory'
  BY <1>1 DEF Inv, Memory, Descriptors, Keys, SockRefs, Kept, InHand, Destructors, ListenerRefs
<1>6. Uses'
  BY <1>2 DEF Inv, Uses, Handling, ConnRefs, Clients, OneUser
<1>7. Serving'
  BY <1>3 DEF Inv, Serving, AllEnpolled, SrvRefs, ServerOutlives
<1>8. Accepted'
  BY <1>1 DEF Inv, Accepted
<1> QED
  BY <1>4, <1>5, <1>6, <1>7, <1>8 DEF Inv

(* The inductive invariant holds in every state of the server, up to where  *)
(* a destroy that met an accept stops waiting (wstk-tcp-srv.c:170).         *)
THEOREM TcpInvariant == Spec => []IInv
<1>1. Init => IInv
  BY InitInv DEF IInv
<1>2. IInv /\ [Next]_vars => IInv'
  <2> SUFFICES ASSUME IInv, [Next]_vars, Valid'
               PROVE  Inv'
    BY DEF IInv
  <2>1. CASE Next
    BY <2>1, ValidBefore, NextInv DEF IInv
  <2>2. CASE UNCHANGED vars
    <3>1. Valid
      BY <2>2 DEF Valid, vars, owning
    <3> QED
      BY <2>2, <3>1, SameInv DEF IInv
  <2> QED
    BY <2>1, <2>2
<1> QED
  BY <1>1, <1>2, PTL DEF Spec

-----------------------------------------------------------------------------
(***************************************************************************)
(* What it implies.                                                        *)
(***************************************************************************)
(* An owner that looks never destroys in the middle of an accept,           *)
LEMMA NeverMet ==
  ASSUME Contract # "ready"
  PROVE  Spec => []~met
<1>1. Init => ~met
  BY DEF Init
<1>2. ASSUME ~met, [Next]_vars
      PROVE  ~met'
  <2>1. CASE Poller \/ \E t \in Handlers : Handler(t)
    BY <1>2, <2>1, PollerKeeps, HandlerKeeps DEF owning
  <2>2. CASE UNCHANGED vars \/ Stopped \/ \E c \in Conns : Destructor(c) \/ GcDeref(c) \/ PeerSend(c) \/ PeerClose(c)
    BY <1>2, <2>2, DestructorKeeps DEF GcDeref, PeerSend, PeerClose, Stopped, vars, owning
  <2>3. CASE OwnerDestroy
    BY <2>3, TcpAssumption DEF OwnerDestroy, OwnerGoto, MayDestroy
  <2>4. CASE Destroying
    BY <1>2, <2>4 DEF Destroying, OwnerCloseListener, OwnerInterrupt, OwnerPoll, OwnerWait, OwnerFree,
       OwnerWorkers, OwnerGoto
  <2> QED
    BY <1>2, <2>1, <2>2, <2>3, <2>4 DEF Next, Owner
<1> QED
  BY <1>1, <1>2, PTL DEF Spec

(* and keeps the server in these states.                                    *)
LEMMA AlwaysValid ==
  ASSUME Contract # "ready"
  PROVE  Spec => []Valid
<1>1. ~met => Valid
  BY DEF Valid
<1> QED
  BY <1>1, NeverMet, PTL

(* Every field stays within its type: the references of a socket's memory   *)
(* never exceed two (wstk-tcp-srv.c:341, 358).                              *)
THEOREM TcpTypeOK ==
  /\ Spec => [](Valid => TypeOK)
  /\ Contract # "ready" => (Spec => []TypeOK)
<1>1. IInv => (Valid => TypeOK)
  BY DEF IInv, Inv
<1>2. Spec => [](Valid => TypeOK)
  BY <1>1, TcpInvariant, PTL
<1>3. ASSUME Contract # "ready"
      PROVE  Spec => []TypeOK
  BY <1>2, <1>3, AlwaysValid, PTL
<1> QED
  BY <1>2, <1>3

(* conn->refs, which the connection's destructor waits for                  *)
(* (wstk-tcp-srv.c:114), is the number of its uses, whatever the order in   *)
(* which the polling thread, the handlers and the lookups take and give it. *)
THEOREM TcpConnRefs ==
  /\ Spec => [](Valid => ConnRefsExact)
  /\ Contract # "ready" => (Spec => []ConnRefsExact)
<1>1. IInv => (Valid => ConnRefsExact)
  BY DEF IInv, Inv, Uses, ConnRefs, Users, ConnRefsExact
<1>2. Spec => [](Valid => ConnRefsExact)
  BY <1>1, TcpInvariant, PTL
<1>3. ASSUME Contract # "ready"
      PROVE  Spec => []ConnRefsExact
  BY <1>2, <1>3, AlwaysValid, PTL
<1> QED
  BY <1>2, <1>3

(* The buffer of a connection, which the polling thread overwrites          *)
(* (wstk-tcp-srv.c:248) without a lock, is never in the hands of two.       *)
THEOREM TcpBuffer ==
  /\ Spec => [](Valid => BufferHasOneUser)
  /\ Contract # "ready" => (Spec => []BufferHasOneUser)
<1>1. IInv => (Valid => BufferHasOneUser)
  BY DEF IInv, Inv, Uses, OneUser, BufferHasOneUser
<1>2. Spec => [](Valid => BufferHasOneUser)
  BY <1>1, TcpInvariant, PTL
<1>3. ASSUME Contract # "ready"
      PROVE  Spec => []BufferHasOneUser
  BY <1>2, <1>3, AlwaysValid, PTL
<1> QED
  BY <1>2, <1>3

(* When the destructor of a connection has freed it (wstk-tcp-srv.c:142),   *)
(* nobody still has it.                                                     *)
THEOREM TcpConnOutlives ==
  /\ Spec => [](Valid => ConnOutlivesUsers)
  /\ Contract # "ready" => (Spec => []ConnOutlivesUsers)
<1>1. IInv => (Valid => ConnOutlivesUsers)
  <2> SUFFICES ASSUME Inv, NEW c \in Conns, Freed(c)
               PROVE  /\ waiting[c] = 0 /\ Running(c) = {} /\ Guests(c) = {}
                      /\ \A i \in Ids : clients[i] # c
                      /\ c \notin P!table \cup slist1 \cup slist2 \cup gcq \cup gcd
                      /\ cur = c => ppc = "destructor"
    BY DEF IInv, ConnOutlivesUsers
  <2>1. conn[c].stage = "none"
    BY DEF Freed
  <2>2. c \notin P!Watched \cup slist2 \cup gcq \cup gcd /\ ~InHand(c)
    BY <2>1 DEF Inv, TypeOK, Memory, SockRefs, Destructors, Kept
  <2>3. c \notin P!table \cup slist1
    BY <2>2 DEF P!Watched
  <2>4. waiting[c] = 0 /\ Running(c) = {} /\ Guests(c) = {}
    <3>1. /\ IsFiniteSet(Running(c)) /\ IsFiniteSet(Guests(c))
          /\ Cardinality(Running(c)) \in Nat /\ Cardinality(Guests(c)) \in Nat
      BY TcpAssumption, FS_Subset, FS_CardinalityType DEF Running, Guests
    <3>2. waiting[c] \in Nat /\ Users(c) = 0
      BY <2>1 DEF Inv, TypeOK, Uses, ConnRefs
    <3>3. CASE ppc = "perform" /\ cur = c
      BY <3>3, <2>2, TcpAssumption DEF Inv, Control, Cur
    <3>4. CASE ~(ppc = "perform" /\ cur = c)
      <4>1. waiting[c] + Cardinality(Running(c)) + Cardinality(Guests(c)) = 0
        BY <3>1, <3>2, <3>4 DEF Users
      <4>2. Cardinality(Running(c)) = 0 /\ Cardinality(Guests(c)) = 0 /\ waiting[c] = 0
        BY <3>1, <3>2, <4>1
      <4> QED
        BY <3>1, <4>2, FS_EmptySet
    <3> QED
      BY <3>3, <3>4
  <2>5. \A i \in Ids : clients[i] # c
    BY <2>1, TcpAssumption DEF Inv, Uses, Clients
  <2>6. cur = c => ppc = "destructor"
    BY <2>2, <2>3, TcpAssumption DEF Inv, Control, Cur, InHand, InWalk
  <2> QED
    BY <2>2, <2>3, <2>4, <2>5, <2>6
<1>2. Spec => [](Valid => ConnOutlivesUsers)
  BY <1>1, TcpInvariant, PTL
<1>3. ASSUME Contract # "ready"
      PROVE  Spec => []ConnOutlivesUsers
  BY <1>2, <1>3, AlwaysValid, PTL
<1> QED
  BY <1>2, <1>3

(* srv->connections, with which a client is accepted or turned away         *)
(* (wstk-tcp-srv.c:373), is the number of connections.                      *)
THEOREM TcpConnections ==
  /\ Spec => [](Valid => ConnectionsExact)
  /\ Contract # "ready" => (Spec => []ConnectionsExact)
<1>1. IInv => (Valid => ConnectionsExact)
  BY DEF IInv, Inv, Accepted, Dropping, ConnectionsExact
<1>2. Spec => [](Valid => ConnectionsExact)
  BY <1>1, TcpInvariant, PTL
<1>3. ASSUME Contract # "ready"
      PROVE  Spec => []ConnectionsExact
  BY <1>2, <1>3, AlwaysValid, PTL
<1> QED
  BY <1>2, <1>3

(* srv->refs, which the destructor of the server waits for                  *)
(* (wstk-tcp-srv.c:170), is exact, and short by at most one if the destroy  *)
(* met an accept, however many connections there are.                       *)
THEOREM TcpSrvRefs == Spec => []SrvRefsExact
<1>1. IInv => SrvRefsExact
  BY DEF IInv, Valid, Inv, Serving, SrvRefs, Holders, SrvRefsExact
<1> QED
  BY <1>1, TcpInvariant, PTL

(* The destructor of the server goes on (wstk-tcp-srv.c:174) only when the  *)
(* polling thread, the handlers, the connections and worker_gc have left    *)
(* the server, unless the destroy met an accept.                            *)
THEOREM TcpServerOutlives == Spec => []ServerOutlives
<1>1. IInv => ServerOutlives
  BY DEF IInv, Valid, Inv, Serving, ServerOutlives
<1> QED
  BY <1>1, TcpInvariant, PTL

(* The descriptors in the poll's table are open and their own sockets', and *)
(* until the server is destroyed every accepted connection gets its place   *)
(* in the table (wstk-poll-select.c:383).                                   *)
THEOREM TcpPollSound ==
  /\ Spec => [](Valid /\ ~fl_destroyed => PollSound)
  /\ Spec => [](Valid => \A c \in P!table \cap Conns : conn[c].stage = "live" /\ owner[fd[c]] = c)
  /\ Contract = "never" => (Spec => []PollSound)
<1> DEFINE Open == \A c \in P!table \cap Conns : conn[c].stage = "live" /\ owner[fd[c]] = c
<1>1. ASSUME Inv
      PROVE  Open
  <2> SUFFICES ASSUME NEW c \in Conns, c \in P!table
               PROVE  conn[c].stage = "live" /\ owner[fd[c]] = c
    OBVIOUS
  <2>1. c \in slist2 \/ c \in P!Watched
    BY DEF P!Watched
  <2>2. conn[c].stage = "live"
    BY <1>1, <2>1 DEF Inv, TypeOK, Memory, SockRefs, Kept
  <2>3. PICK f \in Fds : owner[f] = c
    BY <1>1, <2>2 DEF Inv, Memory, Descriptors
  <2>4. fd[c] = f
    BY <1>1, <2>3, TcpAssumption DEF Inv, Memory, Descriptors
  <2> QED
    BY <2>2, <2>3, <2>4
<1>2. ASSUME Inv, ~fl_destroyed
      PROVE  PollSound
  <2>1. ppc = "lists" => \A s \in slist1 : s \notin P!table
    BY <1>2 DEF Inv, Control, Lists
  <2> QED
    BY <1>1, <1>2, <2>1, AcceptedFits DEF PollSound
<1>3. Spec => [](Valid /\ ~fl_destroyed => PollSound)
  <2>1. IInv => (Valid /\ ~fl_destroyed => PollSound)
    BY <1>2 DEF IInv
  <2> QED
    BY <2>1, TcpInvariant, PTL
<1>4. Spec => [](Valid => Open)
  <2>1. IInv => (Valid => Open)
    BY <1>1 DEF IInv
  <2> QED
    BY <2>1, TcpInvariant, PTL
<1>5. ASSUME Contract = "never"
      PROVE  Spec => []PollSound
  <2>1. Init => ~fl_destroyed
    BY DEF Init
  <2>2. ASSUME ~fl_destroyed, [Next]_vars
        PROVE  ~fl_destroyed'
    <3>1. CASE Poller \/ \E t \in Handlers : Handler(t)
      BY <2>2, <3>1, PollerKeeps, HandlerKeeps DEF srv
    <3>2. CASE UNCHANGED vars \/ Stopped \/ \E c \in Conns : Destructor(c) \/ GcDeref(c) \/ PeerSend(c) \/ PeerClose(c)
      BY <2>2, <3>2, DestructorKeeps DEF GcDeref, PeerSend, PeerClose, Stopped, vars, srv
    <3>3. ~OwnerDestroy
      BY <1>5, TcpAssumption DEF OwnerDestroy, MayDestroy
    <3>4. CASE Destroying
      BY <2>2, <3>4 DEF Destroying, OwnerCloseListener, OwnerInterrupt, OwnerPoll, OwnerWait, OwnerFree,
         OwnerWorkers, srv
    <3> QED
      BY <2>2, <3>1, <3>2, <3>3, <3>4 DEF Next, Owner
  <2>3. Spec => []~fl_destroyed
    BY <2>1, <2>2, PTL DEF Spec
  <2>4. Contract # "ready"
    BY <1>5
  <2>5. Spec => []Valid
    BY <2>4, AlwaysValid
  <2> QED
    BY <2>3, <2>5, <1>3, PTL
<1> QED
  BY <1>3, <1>4, <1>5

-----------------------------------------------------------------------------
(***************************************************************************)
(* The server implements TcpService.                                       *)
(***************************************************************************)
Served == [Service!Next]_(Service!vars)

(* what the service does not see of a step: who runs for whom, and how far  *)
(* the owner is                                                             *)
Waited == opc \in {"free", "workers", "freed"}

SameRest ==
  /\ \A c \in Conns : Running(c)' = Running(c)
  /\ waiting' = waiting /\ fl_destroyed' = fl_destroyed /\ (Waited' <=> Waited)

Alike == SameRest /\ \A c \in Conns : Life(c)' = Life(c)

(* Up to the first mark of its destructor a connection is open.             *)
LEMMA LifeStays ==
  ASSUME NEW c \in Conns, conn'[c].stage = conn[c].stage \/ (conn[c].stage = "live" /\ conn'[c].stage = "sock")
  PROVE  Life(c)' = Life(c)
BY DEF Life

(* The service's functions are those of the connections.                    *)
LEMMA RestIs ==
  ASSUME SameRest
  PROVE  /\ [c \in Conns |-> Cardinality(Running(c)')] = [c \in Conns |-> Cardinality(Running(c))]
         /\ (CASE ~fl_destroyed' -> "up" [] opc' \in {"free", "workers", "freed"} -> "gone" [] OTHER -> "closing")
            = (CASE ~fl_destroyed -> "up" [] opc \in {"free", "workers", "freed"} -> "gone" [] OTHER -> "closing")
<1>1. [c \in Conns |-> Cardinality(Running(c)')] = [c \in Conns |-> Cardinality(Running(c))]
  BY DEF SameRest
<1>2. /\ fl_destroyed' = fl_destroyed
      /\ opc' \in {"free", "workers", "freed"} <=> opc \in {"free", "workers", "freed"}
  BY DEF SameRest, Waited
<1> QED
  BY <1>1, <1>2

LEMMA Unserved ==
  ASSUME Alike
  PROVE  Served
<1>1. [c \in Conns |-> Life(c)'] = [c \in Conns |-> Life(c)] /\ waiting' = waiting /\ SameRest
  BY DEF Alike, SameRest
<1> QED
  BY <1>1, RestIs DEF Served, Service!vars

LEMMA BecomesIs ==
  ASSUME SameRest, NEW c \in Conns, NEW from, NEW to, Life(c) = from, Life(c)' = to,
         \A d \in Conns : d # c => Life(d)' = Life(d)
  PROVE  Service!Becomes(c, from, to)
<1>1. waiting' = waiting
  BY DEF SameRest
<1>2. [d \in Conns |-> Life(d)'] = [[d \in Conns |-> Life(d)] EXCEPT ![c] = to]
  OBVIOUS
<1> QED
  BY <1>1, <1>2, RestIs DEF Service!Becomes

(* What the polling thread does besides accepting and queueing.             *)
LEMMA PollerLives ==
  ASSUME Valid, Inv, Poller, ~PollerPerform, \A c \in Conns, i \in Ids : ~PollerAccept(c, i)
  PROVE  /\ waiting' = waiting
         /\ \A c \in Conns :
              conn'[c].stage = conn[c].stage \/ (conn[c].stage = "live" /\ conn'[c].stage = "sock")
<1> USE DEF tcp
<1> DEFINE Goal == /\ waiting' = waiting
                   /\ \A c \in Conns :
                        conn'[c].stage = conn[c].stage \/ (conn[c].stage = "live" /\ conn'[c].stage = "sock")
<1>a. conn \in [Conns -> Connection] /\ (ppc \in {"accept_refs", "accept_inc", "read", "perform"} => cur \in Conns)
  BY DEF Inv, TypeOK, Control, Cur
<1>1. PollerRefs => Goal
  BY DEF PollerRefs, Goto, Test
<1>2. PollerRefsInc => Goal
  BY DEF PollerRefsInc, Goto
<1>3. PollerWorkers => Goal
  BY DEF PollerWorkers, Goto, Test
<1>4. PollerListen => Goal
  BY DEF PollerListen, Goto
<1>5. PollerLoop => Goal
  BY DEF PollerLoop, Goto, Test
<1>6. PollerSelect => Goal
  BY DEF PollerSelect, Goto
<1>7. PollerSelectFails => Goal
  BY DEF PollerSelectFails, Goto, Test
<1>8. PollerEndWalk => Goal
  BY DEF PollerEndWalk, Goto
<1>9. PollerClose => Goal
  BY DEF PollerClose, Goto
<1>10. PollerCloseRefs => Goal
  BY DEF PollerCloseRefs, Goto, Test
<1>11. PollerGc => Goal
  BY DEF PollerGc, Goto
<1>12. PollerGcRefused => Goal
  BY DEF PollerGcRefused, Goto, Test
<1>13. PollerDestructed => Goal
  BY DEF PollerDestructed, Goto
<1>14. PollerAcceptNone => Goal
  BY DEF PollerAcceptNone, Goto
<1>15. PollerReadRefs => Goal
  BY DEF PollerReadRefs, Goto
<1>16. PollerRoundDone => Goal
  BY DEF PollerRoundDone, Goto, Test
<1>17. PollerOut => Goal
  BY DEF PollerOut, Goto
<1>18. PollerPollFreed => Goal
  BY DEF PollerPollFreed, Goto
<1>19. PollerPollNull => Goal
  BY DEF PollerPollNull, Goto
<1>20. PollerDerefs => Goal
  BY DEF PollerDerefs, Goto
<1>21. PollerDrop => Goal
  <2> SUFFICES ASSUME PollerDrop
               PROVE  Goal
    OBVIOUS
  <2>1. cur \in Conns /\ mrefs[cur] > 0 /\ SockDeref(cur) /\ waiting' = waiting /\ conn[cur].stage = "live"
    BY Referenced, Released DEF PollerDrop, Goto, Sockets
  <2> QED
    BY <2>1, Released DEF Sockets
<1>22. PollerAcceptRefs => Goal
  BY <1>a, Enrolled DEF PollerAcceptRefs, Test, Goto
<1>23. PollerAcceptInc => Goal
  BY <1>a, Enrolled DEF PollerAcceptInc, Goto
<1>24. PollerRead => Goal
  BY <1>a DEF PollerRead, Goto, Connection
<1>25. PollerPerformRefused => Goal
  BY <1>a DEF PollerPerformRefused, Goto, Connection
<1>26. ASSUME NEW s \in Sockets
      PROVE  PollerVisit(s) \/ PollerPollNext(s) => Goal
  BY DEF PollerVisit, PollerPollNext, Goto
<1>27. ASSUME NEW s \in Sockets
      PROVE  PollerDelPerform(s) => Goal
  BY DelWatched, Released DEF PollerDelPerform, ListDeref, Goto
<1>28. ASSUME NEW s \in Sockets
      PROVE  PollerAddPerform(s) => Goal
  BY AddWatched, Released DEF PollerAddPerform, ListDeref, Goto
<1> QED
  BY <1>1, <1>2, <1>3, <1>4, <1>5, <1>6, <1>7, <1>8, <1>9, <1>10, <1>11, <1>12,
     <1>13, <1>14, <1>15, <1>16, <1>17, <1>18, <1>19, <1>20, <1>21, <1>22, <1>23, <1>24,
     <1>25, <1>26, <1>27, <1>28 DEF Poller

(* An acceptance, which no destroy has met, is the service's Connect; what  *)
(* is read is queued for a connection that is open and has no request.      *)
LEMMA PollerServed ==
  ASSUME Valid, Inv, ~met, Poller
  PROVE  Served
<1>a. UNCHANGED <<hconn, opc, fl_destroyed>>
  BY PollerKeeps
<1>1. ASSUME NEW c \in Conns, NEW i \in Ids, PollerAccept(c, i)
      PROVE  Served
  <2>1. Life(c) = "none" /\ conn \in [Conns -> Connection]
    BY <1>1 DEF PollerAccept, Freed, Life, Inv, TypeOK
  <2>2. conn' = [conn EXCEPT ![c] = Fresh(i)]
    BY <1>1 DEF PollerAccept
  <2>3. Life(c)' = "open" /\ \A d \in Conns : d # c => Life(d)' = Life(d)
    BY <2>1, <2>2, FreshConn DEF Life
  <2>4. SameRest
    BY <1>1, <1>a, UsersStay DEF PollerAccept, Goto, tcp, SameRest, Waited
  <2>5. ~fl_destroyed /\ opc = "using"
    BY <1>1 DEF PollerAccept, Goto, Inv, Control, Destroyed
  <2>6. Service!Becomes(c, "none", "open")
    BY <2>1, <2>3, <2>4, BecomesIs
  <2>7. (CASE ~fl_destroyed -> "up" [] opc \in {"free", "workers", "freed"} -> "gone" [] OTHER -> "closing") = "up"
    BY <2>5
  <2>8. Service!Connect(c)
    BY <2>6, <2>7 DEF Service!Connect
  <2> QED
    BY <2>8 DEF Service!Next, Served
<1>2. CASE PollerPerform
  <2>1. cur \in Conns /\ cur \in P!Watched
    BY <1>2 DEF PollerPerform, Inv, Control, Cur
  <2>2. mrefs[cur] > 0
    BY <2>1 DEF Inv, Memory, SockRefs, Kept
  <2>3. Life(cur) = "open"
    BY <2>1, <2>2 DEF Inv, Memory, SockRefs, Life
  <2>4. waiting[cur] + Cardinality(Running(cur)) = 0 /\ waiting \in [Conns -> Nat]
    BY <1>2, <2>1 DEF PollerPerform, Inv, Uses, OneUser, TypeOK
  <2>5. waiting[cur] = 0 /\ Cardinality(Running(cur)) = 0
    BY <2>1, <2>4, Counting
  <2>6. waiting' = [waiting EXCEPT ![cur] = 1] /\ conn' = conn
    BY <1>2, <2>5 DEF PollerPerform
  <2>7. [c \in Conns |-> Life(c)'] = [c \in Conns |-> Life(c)]
    BY <2>6 DEF Life
  <2>8. [c \in Conns |-> Cardinality(Running(c)')] = [c \in Conns |-> Cardinality(Running(c))]
    BY <1>a, UsersStay
  <2>9. Service!Request(cur)
    BY <1>a, <2>1, <2>3, <2>5, <2>6, <2>7, <2>8 DEF Service!Request, Service!NoRequest
  <2> QED
    BY <2>1, <2>9 DEF Service!Next, Served
<1>3. CASE ~PollerPerform /\ \A c \in Conns, i \in Ids : ~PollerAccept(c, i)
  <2>1. Alike
    BY <1>3, <1>a, PollerLives, LifeStays, UsersStay DEF Alike, SameRest, Waited
  <2> QED
    BY <2>1, Unserved
<1> QED
  BY <1>1, <1>2, <1>3

(* A sub-thread takes a request and returns.                                *)
LEMMA HandlerServed ==
  ASSUME Inv, NEW t \in Handlers, Handler(t)
  PROVE  Served
<1> DEFINE Goal == UNCHANGED <<hconn, waiting>>
<1>a. UNCHANGED <<opc, fl_destroyed>> /\ \A c \in Conns : Life(c)' = Life(c)
  BY HandlerKeeps, HandlerKeepsStages DEF srv, owning, Life
<1>b. [c \in Conns |-> Life(c)'] = [c \in Conns |-> Life(c)]
  BY <1>a
<1>1. ASSUME NEW c \in Conns, HandlerTake(t, c)
      PROVE  Served
  <2>1. waiting[c] > 0 /\ waiting' = [waiting EXCEPT ![c] = @ - 1]
    BY <1>1 DEF HandlerTake
  <2>2. waiting[c] + Cardinality(Running(c)) <= 1 /\ waiting[c] \in Nat
    BY DEF Inv, Uses, OneUser, TypeOK
  <2>3. waiting[c] = 1 /\ Cardinality(Running(c)) = 0
    BY <2>1, <2>2, Counting
  <2>4. [d \in Conns |-> Cardinality(Running(d)')] = [[d \in Conns |-> Cardinality(Running(d))] EXCEPT ![c] = 1]
    <3>1. \A d \in Conns : Cardinality(Running(d)') = IF d = c THEN 1 ELSE Cardinality(Running(d))
      BY <1>1, <2>3, TakeCounts
    <3> QED
      BY <3>1
  <2>5. waiting' = [waiting EXCEPT ![c] = 0]
    BY <2>1, <2>3
  <2>6. Service!Take(c)
    BY <1>a, <1>b, <2>3, <2>4, <2>5 DEF Service!Take
  <2> QED
    BY <2>6 DEF Service!Next, Served
<1>2. CASE HandlerDerefs(t)
  <2>1. PICK c \in Conns : c = hconn[t]
    BY <1>2, DerefsCounts
  <2>2. waiting[c] + Cardinality(Running(c)) <= 1 /\ waiting[c] \in Nat
    BY DEF Inv, Uses, OneUser, TypeOK
  <2>3. Cardinality(Running(c)) = 1
    BY <1>2, <2>1, <2>2, Counting, DerefsCounts
  <2>4. [d \in Conns |-> Cardinality(Running(d)')] = [[d \in Conns |-> Cardinality(Running(d))] EXCEPT ![c] = 0]
    <3>1. \A d \in Conns : Cardinality(Running(d)') = IF d = c THEN 0 ELSE Cardinality(Running(d))
      BY <1>2, <2>1, <2>3, DerefsCounts
    <3> QED
      BY <3>1
  <2>5. waiting' = waiting
    BY <1>2 DEF HandlerDerefs
  <2>6. Service!Return(c)
    BY <1>a, <1>b, <2>3, <2>4, <2>5 DEF Service!Return
  <2> QED
    BY <2>6 DEF Service!Next, Served
<1>3. CASE ~HandlerDerefs(t) /\ \A c \in Conns : ~HandlerTake(t, c)
  <2>1. HandlerStart(t) => Goal
    BY DEF HandlerStart
  <2>2. HandlerClose(t) => Goal
    BY DEF HandlerClose
  <2>3. HandlerRead(t) \/ HandlerReadFails(t) => Goal
    BY DEF HandlerRead, HandlerReadFails
  <2>4. HandlerRelease(t) => Goal
    BY DEF HandlerRelease
  <2>5. HandlerReturn(t) \/ HandlerReturned(t) => Goal
    BY DEF HandlerReturn, HandlerReturned
  <2>6. HandlerShutdown(t) => Goal
    BY DEF HandlerShutdown
  <2>7. ASSUME NEW flag \in BOOLEAN
        PROVE  HandlerRdlock(t, flag) => Goal
    BY DEF HandlerRdlock
  <2>8. ASSUME NEW i \in Ids
        PROVE  HandlerLookup(t, i) => Goal
    BY DEF HandlerLookup
  <2>9. Goal
    BY <1>3, <2>1, <2>2, <2>3, <2>4, <2>5, <2>6, <2>7, <2>8 DEF Handler
  <2>10. Alike
    BY <1>a, <2>9, UsersStay DEF Alike, SameRest, Waited
  <2> QED
    BY <2>10, Unserved
<1> QED
  BY <1>1, <1>2, <1>3

(* A connection's destructor waits until no request of it is left.          *)
LEMMA DestructorServed ==
  ASSUME Inv, NEW c \in Conns, Destructor(c)
  PROVE  Served
<1> USE DEF Inv, TypeOK
<1>a. SameRest
  BY DestructorKeeps, UsersStay DEF SameRest, Waited, tcp, owning
<1>b. conn \in [Conns -> Connection]
  OBVIOUS
<1>1. CASE SockMark(c) \/ SockCloseFd(c)
  <2>1. Life(c) = "open" /\ Life(c)' = "open" /\ \A d \in Conns : d # c => Life(d)' = Life(d)
    BY <1>1, <1>b DEF SockMark, SockCloseFd, InStage, Connection, Life
  <2>2. Alike
    BY <1>a, <2>1 DEF Alike
  <2> QED
    BY <2>2, Unserved
<1>2. CASE ConnMark(c)
  <2>1. Life(c) = "open" /\ Life(c)' = "dying" /\ \A d \in Conns : d # c => Life(d)' = Life(d)
    BY <1>2, <1>b DEF ConnMark, InStage, Connection, Life
  <2>2. Service!Becomes(c, "open", "dying")
    BY <1>a, <2>1, BecomesIs
  <2> QED
    BY <2>2 DEF Service!Disconnect, Service!Next, Served
<1>3. CASE ConnUnmap(c)
  <2>1. Life(c) = "dying" /\ Life(c)' = "dying" /\ \A d \in Conns : d # c => Life(d)' = Life(d)
    BY <1>3, <1>b DEF ConnUnmap, InStage, Connection, Life
  <2>2. Alike
    BY <1>a, <2>1 DEF Alike
  <2> QED
    BY <2>2, Unserved
<1>4. CASE ConnWait(c)
  <2>1. Life(c) = "dying" /\ Life(c)' = "attrs" /\ \A d \in Conns : d # c => Life(d)' = Life(d)
    BY <1>4, <1>b DEF ConnWait, InStage, Connection, Life
  <2>2. Service!Becomes(c, "dying", "attrs")
    BY <1>a, <2>1, BecomesIs
  <2>3. Users(c) = 0 /\ waiting[c] \in Nat
    BY <1>4 DEF ConnWait, Uses, ConnRefs
  <2>4. waiting[c] = 0 /\ Cardinality(Running(c)) = 0
    BY <2>3, Counting DEF Users
  <2> QED
    BY <2>2, <2>4 DEF Service!Unused, Service!NoRequest, Service!Next, Served
<1>5. CASE ConnSrvDeref(c)
  <2>1. Life(c) = "attrs" /\ Life(c)' = "none" /\ \A d \in Conns : d # c => Life(d)' = Life(d)
    BY <1>5, <1>b DEF ConnSrvDeref, InStage, Connection, Life
  <2>2. Service!Becomes(c, "attrs", "none")
    BY <1>a, <2>1, BecomesIs
  <2> QED
    BY <2>2 DEF Service!Free, Service!Next, Served
<1>6. CASE ConnFree(c)
  <2>1. conn[c].stage = "free" /\ conn'[c].stage = "none" /\ \A d \in Conns : d # c => conn'[d] = conn[d]
    <3>1. NoConn.stage = "none"
      BY FreshConn, TcpAssumption
    <3> QED
      BY <1>6, <1>b, <3>1 DEF ConnFree
  <2>2. Alike
    BY <1>a, <2>1 DEF Alike, Life
  <2> QED
    BY <2>2, Unserved
<1> QED
  BY <1>1, <1>2, <1>3, <1>4, <1>5, <1>6 DEF Destructor

(* The destroy of the server ends after everything else.                    *)
LEMMA OwnerServed ==
  ASSUME Valid, Inv, ~met, Owner
  PROVE  Served
<1>a. conn' = conn /\ \A c \in Conns : Life(c)' = Life(c) /\ Running(c)' = Running(c)
  BY OwnerKeeps, UsersStay DEF Life
<1>b. /\ [c \in Conns |-> Life(c)'] = [c \in Conns |-> Life(c)]
      /\ [c \in Conns |-> Cardinality(Running(c)')] = [c \in Conns |-> Cardinality(Running(c))]
  BY <1>a
<1>c. fl_destroyed <=> opc # "using"
  BY DEF Inv, Control, Destroyed
<1>1. CASE OwnerDestroy
  <2>1. opc = "using" /\ opc' = "close" /\ fl_destroyed' /\ waiting' = waiting
    BY <1>1 DEF OwnerDestroy, OwnerGoto
  <2>2. Service!Destroy
    BY <1>b, <1>c, <2>1 DEF Service!Destroy, Service!Serve
  <2> QED
    BY <2>2 DEF Service!Next, Served
<1>2. CASE OwnerWait
  <2>1. opc = "wait" /\ opc' = "free" /\ srefs = 0 /\ waiting' = waiting /\ fl_destroyed' = fl_destroyed
    BY <1>2 DEF OwnerWait, OwnerGoto, srv
  <2>2. /\ \A t \in Handlers : hpc[t] = "idle"
        /\ \A c \in Conns : conn[c].stage \in {"none", "free"} /\ waiting[c] = 0
    BY <2>1, NobodyLeft
  <2>3. \A c \in Conns : Running(c) = {}
    BY <2>2, TcpAssumption DEF Running, Inv, Uses, Handling
  <2>4. \A c \in Conns : Life(c) = "none" /\ waiting[c] = 0 /\ Cardinality(Running(c)) = 0
    BY <2>2, <2>3, FS_EmptySet DEF Life
  <2>5. Service!Gone
    BY <1>b, <1>c, <2>1, <2>4 DEF Service!Gone, Service!Serve, Service!NoRequest
  <2> QED
    BY <2>5 DEF Service!Next, Served
<1>3. CASE OwnerWorkers
  <2>1. opc = "workers" /\ opc' = "freed" /\ waiting' = [c \in Conns |-> 0] /\ fl_destroyed' = fl_destroyed
    BY <1>3 DEF OwnerWorkers, OwnerGoto, srv
  <2>2. waiting \in [Conns -> Nat] /\ \A c \in Conns : waiting[c] = 0
    BY <2>1 DEF Inv, TypeOK, Serving, ServerOutlives
  <2>3. waiting' = waiting
    BY <2>1, <2>2
  <2>4. Alike
    BY <1>a, <2>1, <2>3 DEF Alike, SameRest, Waited
  <2> QED
    BY <2>4, Unserved
<1>4. CASE OwnerCloseListener \/ OwnerInterrupt \/ OwnerPoll \/ OwnerFree
  <2>1. waiting' = waiting /\ fl_destroyed' = fl_destroyed
    BY <1>4 DEF OwnerCloseListener, OwnerInterrupt, OwnerPoll, OwnerFree, OwnerGoto, srv, tcp
  <2>2. Waited' <=> Waited
    BY <1>4 DEF OwnerCloseListener, OwnerInterrupt, OwnerPoll, OwnerFree, OwnerGoto, Waited
  <2>3. Alike
    BY <1>a, <2>1, <2>2 DEF Alike, SameRest
  <2> QED
    BY <2>3, Unserved
<1> QED
  BY <1>1, <1>2, <1>3, <1>4 DEF Owner, Destroying

(* Every step of a server whose destroy met no accept is one of the         *)
(* service, or none.                                                        *)
LEMMA NextServed ==
  ASSUME Valid, Inv, ~met, [Next]_vars
  PROVE  Served
<1>1. ASSUME NEW c \in Conns, GcDeref(c)
      PROVE  Served
  <2>1. SameRest
    BY <1>1, UsersStay DEF GcDeref, SameRest, Waited, tcp, owning, srv
  <2>2. \A d \in Conns : conn'[d].stage = conn[d].stage \/ (conn[d].stage = "live" /\ conn'[d].stage = "sock")
    BY <1>1, GcReleased
  <2> QED
    BY <2>1, <2>2, LifeStays, Unserved DEF Alike
<1>2. CASE UNCHANGED vars \/ Stopped \/ \E c \in Conns : PeerSend(c) \/ PeerClose(c)
  <2>1. UNCHANGED <<hconn, waiting, fl_destroyed, opc, conn>>
    BY <1>2 DEF PeerSend, PeerClose, Stopped, vars, srv, tcp, owning
  <2> QED
    BY <2>1, UsersStay, Unserved DEF Alike, SameRest, Waited, Life
<1> QED
  BY <1>1, <1>2, PollerServed, HandlerServed, DestructorServed, OwnerServed DEF Next

(* The server is the service that WstkHttpd is modelled on, as long as no   *)
(* destroy comes between poll_handler's look at fl_destroyed and its        *)
(* srv_refs (wstk-tcp-srv.c:337, 420): one request of a connection at a     *)
(* time (436), the last one handled before the attributes are freed (114,   *)
(* 127), and everything gone before the destroy ends (170).                 *)
THEOREM TcpIsService ==
  /\ Spec /\ []~met => ServiceSpec
  /\ Contract # "ready" => (Spec => ServiceSpec)
<1>1. Init => Service!Init
  <2> SUFFICES ASSUME Init
               PROVE  Service!Init
    OBVIOUS
  <2>1. \A c \in Conns : Life(c) = "none"
    BY FreshConn, TcpAssumption DEF Init, Life
  <2>2. \A c \in Conns : Cardinality(Running(c)) = 0
    BY TcpAssumption, FS_EmptySet DEF Init, Running
  <2> QED
    BY <2>1, <2>2 DEF Init, Service!Init
<1>2. IInv /\ ~met /\ [Next]_vars => Served
  BY NextServed DEF IInv, Valid
<1>3. Spec /\ []~met => ServiceSpec
  BY <1>1, <1>2, TcpInvariant, PTL DEF Spec, Served, ServiceSpec, Service!Spec
<1>4. ASSUME Contract # "ready"
      PROVE  Spec => ServiceSpec
  BY <1>3, <1>4, NeverMet, PTL
<1> QED
  BY <1>3, <1>4
=============================================================================
