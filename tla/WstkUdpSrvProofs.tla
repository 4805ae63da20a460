---------------------------- MODULE WstkUdpSrvProofs ----------------------------
(***************************************************************************)
(* Theorems about WstkUdpSrv for any connections, handlers and bounds: the *)
(* counters of the server are exact, and the destructor frees it when      *)
(* nobody is left.                                                         *)
(***************************************************************************)
EXTENDS WstkUdpSrv, FiniteSetTheorems, TLAPS

(* A connection is in one hand: the polling thread's, the queue's, or that  *)
(* of one handler.                                                          *)
OneHand ==
  /\ cur # NULL <=> ppc \in {"count", "perform"}
  /\ cur \notin queue
  /\ \A t \in Handlers :
       /\ hconn[t] # NULL <=> hpc[t] # "idle"
       /\ hconn[t] # NULL => hconn[t] \notin queue \cup {cur}
  /\ \A t, u \in Handlers : hconn[t] # NULL /\ hconn[t] = hconn[u] => t = u

(* srv->refs and srv->connections are taken for a connection by the polling *)
(* thread and given back by its destructor, whoever runs it.                *)
AllCounted == \A c \in Conns : c \in enqueued <=> c \in queue \cup Held /\ ~(ppc = "count" /\ cur = c)

Counts ==
  /\ connections = Cardinality(enqueued)
  /\ refs = connections + (IF PollerCounted THEN 1 ELSE 0)

(* The polling thread is started once, with the socket, and who destroys    *)
(* has seen it run, if it was ever started.                                 *)
NoLateStart ==
  /\ ppc = "none" <=> fd = "none"
  /\ opc # "using" => ppc # "start"

IInv == TypeOK /\ OneHand /\ AllCounted /\ Counts /\ NoLateStart /\ UdpOutlives

-----------------------------------------------------------------------------
(* Every field stays within its type.                                       *)
LEMMA NextTypeOK ==
  ASSUME IInv, [Next]_vars
  PROVE  TypeOK'
<1> USE UdpAssumption DEF counters, flags, worker, IInv, TypeOK, OneHand, Datagrams, Dec
<1>1. CASE Poller
  <2>1. CASE PollerRefs
    BY <2>1 DEF PollerRefs, Goto
  <2>2. CASE PollerWorker
    BY <2>2 DEF PollerWorker, Goto, Test
  <2>3. CASE PollerMbuf
    BY <2>3 DEF PollerMbuf, Goto, Test
  <2>4. CASE PollerReady
    BY <2>4 DEF PollerReady, Goto
  <2>5. CASE PollerLoop
    BY <2>5 DEF PollerLoop, Goto, Test
  <2>6. CASE PollerSelect
    BY <2>6 DEF PollerSelect, Goto, Test
  <2>7. CASE PollerSelected
    BY <2>7 DEF PollerSelected, Goto, Test
  <2>8. CASE PollerRecvNothing
    BY <2>8 DEF PollerRecvNothing, Goto, Test
  <2>9. CASE PollerRecvDrops
    BY <2>9 DEF PollerRecvDrops, Goto, Receivable, Readable
  <2>10. CASE PollerCount
    BY <2>10 DEF PollerCount, Goto
  <2>11. CASE PollerPerform
    BY <2>11 DEF PollerPerform, Goto
  <2>12. CASE PollerPerformRefused
    BY <2>12 DEF PollerPerformRefused, Goto, ConnDeref
  <2>13. CASE PollerOut
    BY <2>13 DEF PollerOut, Goto
  <2>14. ASSUME NEW c \in Conns, PollerRecv(c)
        PROVE  TypeOK'
    BY <2>14 DEF PollerRecv, Goto, Freed, Receivable, Readable
  <2> QED
    BY <1>1, <2>1, <2>2, <2>3, <2>4, <2>5, <2>6, <2>7, <2>8, <2>9, <2>10, <2>11, <2>12, <2>13,
       <2>14 DEF Poller
<1>2. ASSUME NEW t \in Handlers, Handler(t)
      PROVE  TypeOK'
  <2>1. CASE HandlerStart(t)
    BY <2>1 DEF HandlerStart, Thread
  <2>2. CASE HandlerWrite(t)
    BY <2>2 DEF HandlerWrite, Thread
  <2>3. CASE HandlerSend(t)
    BY <2>3 DEF HandlerSend, Thread
  <2>4. CASE HandlerReturn(t)
    BY <2>4 DEF HandlerReturn, Thread
  <2>5. CASE HandlerDeref(t)
    BY <2>5 DEF HandlerDeref, Thread, ConnDeref
  <2>6. ASSUME NEW c \in Conns, HandlerTake(t, c)
        PROVE  TypeOK'
    BY <2>6 DEF HandlerTake, Thread
  <2> QED
    BY <1>2, <2>1, <2>2, <2>3, <2>4, <2>5, <2>6 DEF Handler
<1>3. CASE Owner
  <2>1. CASE OwnerStart
    BY <2>1 DEF OwnerStart, OwnerGoto
  <2>2. CASE OwnerDestroy
    BY <2>2 DEF OwnerDestroy, OwnerGoto, MayDestroy
  <2>3. CASE OwnerFlag
    BY <2>3 DEF OwnerFlag, OwnerGoto
  <2>4. CASE OwnerClose
    BY <2>4 DEF OwnerClose, OwnerGoto
  <2>5. CASE OwnerWait
    BY <2>5 DEF OwnerWait, OwnerGoto
  <2>6. CASE OwnerWorker
    BY <2>6 DEF OwnerWorker, UdpOutlives
  <2> QED
    BY <1>3, <2>1, <2>2, <2>3, <2>4, <2>5, <2>6 DEF Owner, Destroying
<1>4. ASSUME NEW d \in Datagrams, Peer(d)
      PROVE  TypeOK'
  BY <1>4 DEF Peer
<1>5. CASE UNCHANGED vars
  BY <1>5 DEF vars
<1> QED
  BY <1>1, <1>2, <1>3, <1>4, <1>5 DEF Next, Stopped

LEMMA NextHands ==
  ASSUME IInv, [Next]_vars
  PROVE  OneHand' /\ AllCounted' /\ NoLateStart'
<1> USE UdpAssumption DEF counters, flags, worker, IInv, TypeOK, OneHand, AllCounted, NoLateStart,
   Held
<1>1. CASE Poller
  <2>1. CASE PollerRefs
    BY <2>1 DEF PollerRefs, Goto
  <2>2. CASE PollerWorker
    BY <2>2 DEF PollerWorker, Goto, Test
  <2>3. CASE PollerMbuf
    BY <2>3 DEF PollerMbuf, Goto, Test
  <2>4. CASE PollerReady
    BY <2>4 DEF PollerReady, Goto
  <2>5. CASE PollerLoop
    BY <2>5 DEF PollerLoop, Goto, Test
  <2>6. CASE PollerSelect
    BY <2>6 DEF PollerSelect, Goto, Test
  <2>7. CASE PollerSelected
    BY <2>7 DEF PollerSelected, Goto, Test
  <2>8. CASE PollerRecvNothing
    BY <2>8 DEF PollerRecvNothing, Goto, Test
  <2>9. CASE PollerRecvDrops
    BY <2>9 DEF PollerRecvDrops, Goto, Receivable, Readable
  <2>10. CASE PollerCount
    BY <2>10 DEF PollerCount, Goto
  <2>11. CASE PollerPerform
    BY <2>11 DEF PollerPerform, Goto
  <2>12. CASE PollerPerformRefused
    BY <2>12 DEF PollerPerformRefused, Goto, ConnDeref
  <2>13. CASE PollerOut
    BY <2>13 DEF PollerOut, Goto
  <2>14. ASSUME NEW c \in Conns, PollerRecv(c)
        PROVE  OneHand' /\ AllCounted' /\ NoLateStart'
    BY <2>14 DEF PollerRecv, Goto, Freed, Receivable, Readable
  <2> QED
    BY <1>1, <2>1, <2>2, <2>3, <2>4, <2>5, <2>6, <2>7, <2>8, <2>9, <2>10, <2>11, <2>12, <2>13,
       <2>14 DEF Poller
<1>2. ASSUME NEW t \in Handlers, Handler(t)
      PROVE  OneHand' /\ AllCounted' /\ NoLateStart'
  <2>1. CASE HandlerStart(t)
    BY <2>1 DEF HandlerStart, Thread
  <2>2. CASE HandlerWrite(t)
    BY <2>2 DEF HandlerWrite, Thread
  <2>3. CASE HandlerSend(t)
    BY <2>3 DEF HandlerSend, Thread
  <2>4. CASE HandlerReturn(t)
    BY <2>4 DEF HandlerReturn, Thread
  <2>5. CASE HandlerDeref(t)
    BY <2>5 DEF HandlerDeref, Thread, ConnDeref
  <2>6. ASSUME NEW c \in Conns, HandlerTake(t, c)
        PROVE  OneHand' /\ AllCounted' /\ NoLateStart'
    BY <2>6 DEF HandlerTake, Thread
  <2> QED
    BY <1>2, <2>1, <2>2, <2>3, <2>4, <2>5, <2>6 DEF Handler
<1>3. CASE Owner
  <2>1. CASE OwnerStart
    BY <2>1 DEF OwnerStart, OwnerGoto
  <2>2. CASE OwnerDestroy
    BY <2>2 DEF OwnerDestroy, OwnerGoto, MayDestroy
  <2>3. CASE OwnerFlag
    BY <2>3 DEF OwnerFlag, OwnerGoto
  <2>4. CASE OwnerClose
    BY <2>4 DEF OwnerClose, OwnerGoto
  <2>5. CASE OwnerWait
    BY <2>5 DEF OwnerWait, OwnerGoto
  <2>6. CASE OwnerWorker
    BY <2>6 DEF OwnerWorker, UdpOutlives
  <2> QED
    BY <1>3, <2>1, <2>2, <2>3, <2>4, <2>5, <2>6 DEF Owner, Destroying
<1>4. ASSUME NEW d \in Datagrams, Peer(d)
      PROVE  OneHand' /\ AllCounted' /\ NoLateStart'
  BY <1>4 DEF Peer
<1>5. CASE UNCHANGED vars
  BY <1>5 DEF vars
<1> QED
  BY <1>1, <1>2, <1>3, <1>4, <1>5 DEF Next, Stopped

-----------------------------------------------------------------------------
LEMMA Counting == IInv => IsFiniteSet(enqueued) /\ Cardinality(enqueued) \in Nat
BY UdpAssumption, FS_Subset, FS_CardinalityType DEF IInv, TypeOK

LEMMA NextCounts ==
  ASSUME IInv, [Next]_vars
  PROVE  Counts'
<1> USE UdpAssumption DEF counters, flags, worker, IInv, TypeOK, OneHand, AllCounted, NoLateStart,
   Counts, PollerCounted, Held, Dec
<1>1. CASE Poller
  <2>1. CASE PollerRefs
    BY <2>1 DEF PollerRefs, Goto
  <2>2. CASE PollerWorker
    BY <2>2 DEF PollerWorker, Goto, Test
  <2>3. CASE PollerMbuf
    BY <2>3 DEF PollerMbuf, Goto, Test
  <2>4. CASE PollerReady
    BY <2>4 DEF PollerReady, Goto
  <2>5. CASE PollerLoop
    BY <2>5 DEF PollerLoop, Goto, Test
  <2>6. CASE PollerSelect
    BY <2>6 DEF PollerSelect, Goto, Test
  <2>7. CASE PollerSelected
    BY <2>7 DEF PollerSelected, Goto, Test
  <2>8. CASE PollerRecvNothing
    BY <2>8 DEF PollerRecvNothing, Goto, Test
  <2>9. CASE PollerRecvDrops
    BY <2>9 DEF PollerRecvDrops, Goto, Receivable, Readable
  <2>10. CASE PollerCount
    <3>1. cur \in Conns /\ cur \notin enqueued /\ enqueued' = enqueued \cup {cur}
      BY <2>10 DEF PollerCount, Goto
    <3>2. Cardinality(enqueued') = Cardinality(enqueued) + 1
      BY <3>1, Counting, FS_AddElement
    <3> QED
      BY <2>10, <3>1, <3>2 DEF PollerCount, Goto
  <2>11. CASE PollerPerform
    BY <2>11 DEF PollerPerform, Goto
  <2>12. CASE PollerPerformRefused
    <3>1. cur \in enqueued /\ enqueued' = enqueued \ {cur}
      BY <2>12 DEF PollerPerformRefused, Goto, ConnDeref
    <3>2. Cardinality(enqueued') = Cardinality(enqueued) - 1
      BY <3>1, Counting, FS_RemoveElement
    <3>3. connections > 0
      BY <3>1, Counting, FS_EmptySet
    <3> QED
      BY <2>12, <3>1, <3>2, <3>3 DEF PollerPerformRefused, Goto, ConnDeref
  <2>13. CASE PollerOut
    BY <2>13 DEF PollerOut, Goto
  <2>14. ASSUME NEW c \in Conns, PollerRecv(c)
        PROVE  Counts'
    BY <2>14 DEF PollerRecv, Goto, Freed, Receivable, Readable
  <2> QED
    BY <1>1, <2>1, <2>2, <2>3, <2>4, <2>5, <2>6, <2>7, <2>8, <2>9, <2>10, <2>11, <2>12, <2>13,
       <2>14 DEF Poller
<1>2. ASSUME NEW t \in Handlers, Handler(t)
      PROVE  Counts'
  <2>1. CASE HandlerStart(t)
    BY <2>1 DEF HandlerStart, Thread
  <2>2. CASE HandlerWrite(t)
    BY <2>2 DEF HandlerWrite, Thread
  <2>3. CASE HandlerSend(t)
    BY <2>3 DEF HandlerSend, Thread
  <2>4. CASE HandlerReturn(t)
    BY <2>4 DEF HandlerReturn, Thread
  <2>5. CASE HandlerDeref(t)
    <3>1. hconn[t] \in enqueued /\ enqueued' = enqueued \ {hconn[t]}
      BY <2>5 DEF HandlerDeref, Thread, ConnDeref
    <3>2. Cardinality(enqueued') = Cardinality(enqueued) - 1
      BY <3>1, Counting, FS_RemoveElement
    <3>3. connections > 0
      BY <3>1, Counting, FS_EmptySet
    <3> QED
      BY <2>5, <3>1, <3>2, <3>3 DEF HandlerDeref, Thread, ConnDeref
  <2>6. ASSUME NEW c \in Conns, HandlerTake(t, c)
        PROVE  Counts'
    BY <2>6 DEF HandlerTake, Thread
  <2> QED
    BY <1>2, <2>1, <2>2, <2>3, <2>4, <2>5, <2>6 DEF Handler
<1>3. CASE Owner
  <2>1. CASE OwnerStart
    BY <2>1 DEF OwnerStart, OwnerGoto
  <2>2. CASE OwnerDestroy
    BY <2>2 DEF OwnerDestroy, OwnerGoto, MayDestroy
  <2>3. CASE OwnerFlag
    BY <2>3 DEF OwnerFlag, OwnerGoto
  <2>4. CASE OwnerClose
    BY <2>4 DEF OwnerClose, OwnerGoto
  <2>5. CASE OwnerWait
    BY <2>5 DEF OwnerWait, OwnerGoto
  <2>6. CASE OwnerWorker
    BY <2>6 DEF OwnerWorker, UdpOutlives
  <2> QED
    BY <1>3, <2>1, <2>2, <2>3, <2>4, <2>5, <2>6 DEF Owner, Destroying
<1>4. ASSUME NEW d \in Datagrams, Peer(d)
      PROVE  Counts'
  BY <1>4 DEF Peer
<1>5. CASE UNCHANGED vars
  BY <1>5 DEF vars
<1> QED
  BY <1>1, <1>2, <1>3, <1>4, <1>5 DEF Next, Stopped

LEMMA NextOutlives ==
  ASSUME IInv, [Next]_vars
  PROVE  UdpOutlives'
<1> USE UdpAssumption DEF counters, flags, worker, IInv, TypeOK, UdpOutlives, NoLateStart
<1>1. CASE Poller
  <2>1. CASE PollerRefs
    BY <2>1 DEF PollerRefs, Goto
  <2>2. CASE PollerWorker
    BY <2>2 DEF PollerWorker, Goto, Test
  <2>3. CASE PollerMbuf
    BY <2>3 DEF PollerMbuf, Goto, Test
  <2>4. CASE PollerReady
    BY <2>4 DEF PollerReady, Goto
  <2>5. CASE PollerLoop
    BY <2>5 DEF PollerLoop, Goto, Test
  <2>6. CASE PollerSelect
    BY <2>6 DEF PollerSelect, Goto, Test
  <2>7. CASE PollerSelected
    BY <2>7 DEF PollerSelected, Goto, Test
  <2>8. CASE PollerRecvNothing
    BY <2>8 DEF PollerRecvNothing, Goto, Test
  <2>9. CASE PollerRecvDrops
    BY <2>9 DEF PollerRecvDrops, Goto, Receivable, Readable
  <2>10. CASE PollerCount
    BY <2>10 DEF PollerCount, Goto
  <2>11. CASE PollerPerform
    BY <2>11 DEF PollerPerform, Goto
  <2>12. CASE PollerPerformRefused
    BY <2>12 DEF PollerPerformRefused, Goto, ConnDeref
  <2>13. CASE PollerOut
    BY <2>13 DEF PollerOut, Goto
  <2>14. ASSUME NEW c \in Conns, PollerRecv(c)
        PROVE  UdpOutlives'
    BY <2>14 DEF PollerRecv, Goto, Freed, Receivable, Readable
  <2> QED
    BY <1>1, <2>1, <2>2, <2>3, <2>4, <2>5, <2>6, <2>7, <2>8, <2>9, <2>10, <2>11, <2>12, <2>13,
       <2>14 DEF Poller
<1>2. ASSUME NEW t \in Handlers, Handler(t)
      PROVE  UdpOutlives'
  <2>1. CASE HandlerStart(t)
    BY <2>1 DEF HandlerStart, Thread
  <2>2. CASE HandlerWrite(t)
    BY <2>2 DEF HandlerWrite, Thread
  <2>3. CASE HandlerSend(t)
    BY <2>3 DEF HandlerSend, Thread
  <2>4. CASE HandlerReturn(t)
    BY <2>4 DEF HandlerReturn, Thread
  <2>5. CASE HandlerDeref(t)
    BY <2>5 DEF HandlerDeref, Thread, ConnDeref
  <2>6. ASSUME NEW c \in Conns, HandlerTake(t, c)
        PROVE  UdpOutlives'
    BY <2>6 DEF HandlerTake, Thread
  <2> QED
    BY <1>2, <2>1, <2>2, <2>3, <2>4, <2>5, <2>6 DEF Handler
<1>3. CASE Owner
  <2>1. CASE OwnerStart
    BY <2>1 DEF OwnerStart, OwnerGoto
  <2>2. CASE OwnerDestroy
    BY <2>2 DEF OwnerDestroy, OwnerGoto, MayDestroy
  <2>3. CASE OwnerFlag
    BY <2>3 DEF OwnerFlag, OwnerGoto
  <2>4. CASE OwnerClose
    BY <2>4 DEF OwnerClose, OwnerGoto
  <2>5. CASE OwnerWait
    <3>1. refs = 0 /\ opc = "wait" /\ UNCHANGED <<ppc, queue, hpc>>
      BY <2>5 DEF OwnerWait, OwnerGoto
    <3>2. ~PollerCounted /\ connections = 0
      BY <3>1 DEF Counts
    <3>3. enqueued = {}
      BY <3>2, Counting, FS_EmptySet DEF Counts
    <3>4. ppc \in {"none", "end"}
      BY <3>1, <3>2 DEF PollerCounted, NoLateStart
    <3> QED
      BY <3>1, <3>3, <3>4 DEF OneHand, AllCounted, Held
  <2>6. CASE OwnerWorker
    BY <2>6 DEF OwnerWorker, UdpOutlives
  <2> QED
    BY <1>3, <2>1, <2>2, <2>3, <2>4, <2>5, <2>6 DEF Owner, Destroying
<1>4. ASSUME NEW d \in Datagrams, Peer(d)
      PROVE  UdpOutlives'
  BY <1>4 DEF Peer
<1>5. CASE UNCHANGED vars
  BY <1>5 DEF vars
<1> QED
  BY <1>1, <1>2, <1>3, <1>4, <1>5 DEF Next, Stopped

-----------------------------------------------------------------------------
LEMMA InitIInv == Init => IInv
<1> SUFFICES ASSUME Init PROVE IInv
  OBVIOUS
<1>1. enqueued = {} /\ Cardinality(enqueued) = 0
  BY FS_EmptySet DEF Init
<1>2. TypeOK
  <2>1. inbox \in Seq(Datagrams)
    BY DEF Init
  <2>2. hpc \in [Handlers -> {"idle", "start", "run", "send", "deref"}] /\ hconn \in [Handlers -> Conns \cup {NULL}]
    BY DEF Init
  <2> QED
    BY <1>1, <2>1, <2>2 DEF Init, TypeOK
<1>3. OneHand /\ AllCounted
  BY <1>1, UdpAssumption DEF Init, OneHand, AllCounted, Held
<1>4. Counts /\ NoLateStart /\ UdpOutlives
  BY <1>1 DEF Init, Counts, PollerCounted, NoLateStart, UdpOutlives
<1> QED
  BY <1>2, <1>3, <1>4 DEF IInv

LEMMA AlwaysIInv == Spec => []IInv
<1>1. IInv /\ [Next]_vars => IInv'
  BY NextTypeOK, NextHands, NextCounts, NextOutlives DEF IInv
<1> QED
  BY InitIInv, <1>1, PTL DEF Spec

(* srv->refs is the polling thread and the counted connections, and         *)
(* srv->connections these connections, for any number of connections and    *)
(* sub-threads and any limit (wstk-udp-srv.c:136, :90).                     *)
THEOREM UdpCounts == Spec => []UdpCountsExact
<1>1. IInv => UdpCountsExact
  <2> SUFFICES ASSUME IInv PROVE UdpCountsExact
    OBVIOUS
  <2>1. \A t \in Handlers : hconn[t] \in Conns \cup {NULL}
    BY DEF IInv, TypeOK
  <2>2. enqueued = (queue \cup Held) \ ({NULL} \cup (IF ppc = "count" THEN {cur} ELSE {}))
    BY <2>1, UdpAssumption DEF IInv, TypeOK, AllCounted, Held
  <2> QED
    BY <2>2 DEF IInv, Counts, UdpCountsExact
<1> QED
  BY <1>1, AlwaysIInv, PTL

(* When the destructor has waited for srv->refs to be 0, no thread is left  *)
(* that has the server, and its worker holds no connection                  *)
(* (wstk-udp-srv.c:141).                                                    *)
THEOREM UdpNobodyLeft == Spec => []UdpOutlives
<1>1. IInv => UdpOutlives
  BY DEF IInv
<1> QED
  BY <1>1, AlwaysIInv, PTL
=============================================================================
