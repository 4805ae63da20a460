---------------------------- MODULE WstkHttpdProofs ----------------------------
(***************************************************************************)
(* Theorems about WstkHttpd for any connections: no handler is in a        *)
(* servlet or a service that was freed, a request is answered once, and    *)
(* the registry of the websocket servlet holds what it should as long as   *)
(* no connection ends while its websocket is accepted.                     *)
(***************************************************************************)
EXTENDS WstkHttpd, FiniteSetTheorems, TLAPS

(* Where a handler can be: in a servlet, which it entered for a request or  *)
(* for a frame, or outside.                                                 *)
Outside == {"idle", "queued", "return", "refs", "conn", "ws", "lookup", "out"}
Kinds == {"request", "frame", "twice", "silent"}

TypeOK ==
  /\ refs \in Nat /\ fl_destroyed \in BOOLEAN
  /\ opc \in {"using", "flag", "tcp", "wait", "servlets", "freed"}
  /\ stage \in [Servlets -> {"none", "live", "dying"}] /\ srefs \in [Servlets -> Nat]
  /\ unreg \in Servlets \cup {NULL}
  /\ svc \in {"none", "live", "dying"} /\ svcrefs \in Nat
  /\ life \in [Conns -> {"none", "open", "dying", "attrs"}]
  /\ http_conn \in [Conns -> BOOLEAN] /\ websock \in [Conns -> BOOLEAN]
  /\ wscontainer \in [Conns -> Servlets \cup {NULL}]
  /\ wsattr \in [Conns -> {"none", "added", "registered"}]
  /\ pc \in [Conns -> Outside \cup InContent \cup InWebsock \cup {"leave"}]
  /\ cont \in [Conns -> Servlets \cup {NULL}]
  /\ kind \in [Conns -> Kinds \cup {NULL}]
  /\ replies \in [Conns -> Nat] /\ closes \in [Conns -> Nat]
  /\ sockets \subseteq Conns
  /\ smutex \in Conns \cup {NULL} /\ cmutex \in [Conns -> Conns \cup {NULL}]

(* A connection's memory is given back when its handler has returned, and   *)
(* all connections are when the owner waits for the handlers.               *)
Lives ==
  /\ \A c \in Conns : life[c] \in {"none", "attrs"} => pc[c] = "idle"
  /\ \A c \in Conns : life[c] = "none" => ~websock[c] /\ wscontainer[c] = NULL /\ wsattr[c] = "none"
  /\ opc \in {"wait", "servlets", "freed"} => \A c \in Conns : life[c] = "none"

(* httpd->mutex is held as long as a container is dying, and who destroys   *)
(* has returned from unregistering.                                         *)
Tables ==
  /\ \A s \in Servlets : stage[s] = "dying" <=> unreg = s
  /\ fl_destroyed <=> opc # "using"
  /\ opc # "using" => unreg = NULL /\ svc # "dying"
  /\ svc # "none" => "content" \in Servlets /\ stage["content"] # "none"
  /\ svc = "dying" => \A c \in Conns : pc[c] # "found"

(* A handler has the container of the servlet it is in.  An open websocket  *)
(* never comes to another servlet; what it remembers is the websocket       *)
(* servlet, which is there as long as one remembers it.                     *)
Remembers(c) ==
  /\ pc[c] \in Outside => cont[c] = NULL
  /\ pc[c] \in InContent => cont[c] = "content"
  /\ pc[c] \in InWebsock => cont[c] = "websock"
  /\ pc[c] = "leave" => cont[c] # NULL
  /\ cont[c] = "content" \/ pc[c] \in {"lookup", "websock"} => life[c] # "open" \/ ~websock[c]
  /\ wscontainer[c] \in {NULL, "websock"}

Containers ==
  /\ \A c \in Conns : Remembers(c)
  /\ "websock" \in Servlets /\ stage["websock"] # "live" =>
       \A c \in Conns : cont[c] # "websock" /\ wscontainer[c] = NULL

(* What a handler has met and how often it has replied, by where it is.     *)
Answered(c) ==
  /\ kind[c] = "request" => replies[c] = 1 \/ (life[c] # "open" /\ replies[c] = 0)
  /\ kind[c] = "twice" => replies[c] = 2 \/ (life[c] # "open" /\ replies[c] < 2)
  /\ kind[c] = "frame" => replies[c] <= 1
  /\ kind[c] = "silent" => replies[c] = 0

Answering(c) ==
  /\ pc[c] \in {"idle", "queued", "return"} => replies[c] = 0
  /\ pc[c] \in {"refs", "conn", "ws", "lookup", "websock"} \cup InContent => kind[c] = "request" /\ replies[c] = 0
  /\ pc[c] \in {"accepted", "insert"} => kind[c] = "request" /\ (fl_destroyed \/ replies[c] = 1)
  /\ pc[c] \in InFrame => kind[c] = "frame" /\ replies[c] = 0
  /\ pc[c] \in {"unreg", "leave", "out"} => kind[c] \in Kinds /\ (fl_destroyed \/ Answered(c))

Answers == \A c \in Conns : Answering(c)

(* The attribute of a websocket, by where its handler is.                   *)
Registering(c) ==
  /\ pc[c] \notin {"idle", "queued", "return", "refs", "conn", "out"} /\ life[c] = "open" => http_conn[c]
  /\ pc[c] = "accepted" => life[c] = "open" /\ websock[c] /\ wsattr[c] = "none"
  /\ pc[c] = "insert" => wsattr[c] = "added" /\ http_conn[c]
  /\ pc[c] = "unreg" => ~websock[c]
  /\ life[c] = "open" /\ wsattr[c] # "none" => websock[c] \/ pc[c] = "unreg"
  /\ life[c] = "open" /\ websock[c] /\ pc[c] \notin {"accepted", "insert"} => c \in sockets
  /\ c \in sockets => wsattr[c] = "registered" /\ http_conn[c]
  /\ closes[c] + (IF wsattr[c] = "none" THEN 0 ELSE 1) <= 1

Registered == \A c \in Conns : Registering(c)

Inv == TypeOK /\ Lives /\ Tables /\ Containers /\ Answers /\ ServletOutlives

IInv == Inv /\ (LateClose \/ Registered)

-----------------------------------------------------------------------------
(* What the steps of the TCP server's service are here.                     *)
Life(c, from, to) ==
  /\ life[c] = from
  /\ life' = [life EXCEPT ![c] = to]
  /\ UNCHANGED <<refs, owner, table, services, pc, local, smutex>>

LEMMA ConnectIs ==
  ASSUME NEW c \in Conns, Connect(c)
  PROVE  /\ opc \in {"using", "flag"} /\ Life(c, "none", "open")
         /\ closes' = [closes EXCEPT ![c] = 0]
         /\ UNCHANGED <<http_conn, websock, wscontainer, wsattr, sockets, cmutex>>
BY DEF Connect, ConnStep, Service!Connect, Service!Becomes, Life

LEMMA ArriveIs ==
  ASSUME NEW c \in Conns, Arrive(c)
  PROVE  /\ life[c] = "open" /\ Goto(c, "idle", "queued")
         /\ UNCHANGED <<refs, table, services, conns, local, registry>>
BY DEF Arrive, Service!Request

LEMMA DisconnectIs ==
  ASSUME NEW c \in Conns, Disconnect(c)
  PROVE  /\ LateClose \/ pc[c] # "accepted"
         /\ Life(c, "open", "dying")
         /\ UNCHANGED <<http_conn, websock, wscontainer, wsattr, sockets, cmutex, closes>>
BY DEF Disconnect, MayEnd, ConnStep, Service!Disconnect, Service!Becomes, Life

LEMMA ConnAttrsIs ==
  ASSUME NEW c \in Conns, ConnAttrs(c)
  PROVE  /\ pc[c] = "idle" /\ cmutex[c] = NULL /\ Life(c, "dying", "attrs")
         /\ cmutex' = [cmutex EXCEPT ![c] = c]
         /\ UNCHANGED <<http_conn, websock, wscontainer, wsattr, sockets, closes>>
BY DEF ConnAttrs, ConnStep, Service!Unused, Service!NoRequest, Service!Becomes, Life

LEMMA ConnFreeIs ==
  ASSUME NEW c \in Conns, ConnFree(c)
  PROVE  /\ AttrFree(c) /\ Life(c, "attrs", "none")
         /\ http_conn' = [http_conn EXCEPT ![c] = FALSE]
         /\ websock' = [websock EXCEPT ![c] = FALSE]
         /\ wscontainer' = [wscontainer EXCEPT ![c] = NULL]
         /\ cmutex' = [cmutex EXCEPT ![c] = NULL]
BY DEF ConnFree, ConnStep, Service!Free, Service!Becomes, Life

(* What a websocket's frame goes through before it is answered or handed    *)
(* over changes only where its handler is.                                  *)
Frames(c) ==
  \E from \in {"frame", "message"}, to \in {"message", "null", "leave"} : WebsockLocal(c, from, to)

LEMMA FramesAre ==
  ASSUME NEW c \in Conns, FrameIgnored(c) \/ FrameWhole(c) \/ Message(c)
  PROVE  Frames(c)
BY DEF Frames, FrameIgnored, FrameWhole, Message

LEMMA GoneIs == OwnerTcpGone => \A c \in Conns : life[c] = "none"
BY DEF OwnerTcpGone, Service!Gone

(* Every field stays within its type.                                       *)
LEMMA NextTypeOK ==
  ASSUME IInv, Next
  PROVE  TypeOK'
<1> USE HttpdAssumption DEF owner, table, services, conns, local, registry, TypeOK, Outside,
   InContent, InWebsock, InAccept, InFrame, Kinds
<1>a. TypeOK
  BY DEF IInv, Inv
<1>1. ASSUME NEW c \in Conns, Handler(c)
      PROVE  TypeOK'
  <2>0. CASE Return(c)
    BY <2>0, <1>a DEF Return, Goto
  <2>1. CASE Begin(c) \/ Refs(c) \/ FrameArrived(c)
    BY <2>1, <1>a DEF Begin, Refs, FrameArrived, Goto, Met, HttpConn, IsFrame
  <2>2. CASE LookupSlashes(c) \/ Static(c) \/ StaticFails(c)
    BY <2>2, <1>a DEF LookupSlashes, Static, StaticFails, Goto, Met, Reply
  <2>3. CASE HttpConnFails(c)
    <3>1. http_conn[c] \in BOOLEAN /\ (http_conn[c] \/ life[c] = "open") \in BOOLEAN
      BY <1>a, Zenon
    <3>2. http_conn' \in [Conns -> BOOLEAN]
      <4>1. PICK stored \in {http_conn[c], http_conn[c] \/ life[c] = "open"} : http_conn' = [http_conn EXCEPT ![c] = stored]
        BY <2>3, Zenon DEF HttpConnFails
      <4>2. stored \in BOOLEAN
        BY <3>1, <4>1
      <4> QED
        BY <4>1, <4>2, <1>a
    <3> QED
      BY <2>3, <3>2, <1>a DEF HttpConnFails, Goto, Met
  <2>4. CASE DecodeFails(c)
    BY <2>4, <1>a DEF DecodeFails, Goto, HttpConn, IsFrame, Reply
  <2>5. CASE Decode(c)
    BY <2>5, <1>a DEF Decode, Goto, HttpConn, IsFrame
  <2>6. CASE Leave(c)
    <3>1. wscontainer' \in [Conns -> Servlets \cup {NULL}]
      BY <2>6, <1>a DEF Leave
    <3>2. srefs' \in [Servlets -> Nat]
      <4>1. srefs' = [srefs EXCEPT ![cont[c]] = IF srefs[cont[c]] > 0 THEN srefs[cont[c]] - 1 ELSE 0]
        BY <2>6 DEF Leave
      <4>2. CASE cont[c] \in Servlets
        <5>1. srefs \in [Servlets -> Nat] /\ srefs[cont[c]] \in Nat
          BY <4>2, <1>a
        <5>2. (IF srefs[cont[c]] > 0 THEN srefs[cont[c]] - 1 ELSE 0) \in Nat
          BY <5>1
        <5> QED
          BY <4>1, <5>1, <5>2, Zenon
      <4>3. CASE cont[c] \notin Servlets
        BY <4>1, <4>3, <1>a
      <4> QED
        BY <4>2, <4>3
    <3>3. cont' \in [Conns -> Servlets \cup {NULL}] /\ pc' \in [Conns -> Outside \cup InContent \cup InWebsock \cup {"leave"}]
      BY <2>6, <1>a DEF Leave, Goto
    <3> QED
      BY <2>6, <3>1, <3>2, <3>3, <1>a DEF Leave, Goto
  <2>7. CASE Out(c)
    BY <2>7, <1>a DEF Out, Goto, Met
  <2>8. ASSUME NEW s \in Servlets, LookupTakes(c, s)
        PROVE  TypeOK'
    BY <2>8, <1>a DEF LookupTakes, Goto
  <2> QED
    BY <1>1, <2>0, <2>1, <2>2, <2>3, <2>4, <2>5, <2>6, <2>7, <2>8 DEF Handler
<1>2. ASSUME NEW c \in Conns, Content(c)
      PROVE  TypeOK'
  <2>1. CASE ServletRefuses(c) \/ ServletReads(c) \/ ReadSpins(c) \/ ReadFails(c)
    BY <2>1, <1>a DEF ServletRefuses, ServletReads, ReadSpins, ReadFails, Goto, Reply, ServletLocal,
       vars
  <2>2. CASE Upload(c) \/ MalformedRequest(c) \/ FindService(c) \/ FindNoService(c)
    BY <2>2, <1>a DEF Upload, MalformedRequest, FindService, FindNoService, Goto, Reply, Parsed
  <2>3. CASE ServiceRefs(c)
    BY <2>3, <1>a DEF ServiceRefs, Goto
  <2>4. CASE ServiceDerefs(c)
    BY <2>4, <1>a DEF ServiceDerefs, Goto, Reply
  <2> QED
    BY <1>2, <2>1, <2>2, <2>3, <2>4 DEF Content
<1>3. ASSUME NEW c \in Conns, Websock(c)
      PROVE  TypeOK'
  <2>1. CASE Frames(c) \/ Unregister2(c) \/ Send2(c) \/ Send2Take(c)
    BY <2>1, <1>a DEF Frames, WebsockLocal, Unregister2, Send2, Send2Take, Goto, AttrFree
  <2>2. CASE Accept(c)
    BY <2>2, <1>a DEF Accept, Goto, Reply, MayTalk
  <2>3. CASE AcceptFails(c)
    BY <2>3, <1>a DEF AcceptFails, Goto, Reply
  <2>4. CASE AcceptRefused(c)
    BY <2>4, <1>a DEF AcceptRefused, Goto, Met, Reply
  <2>5. CASE Register(c)
    BY <2>5, <1>a DEF Register, Goto
  <2>6. CASE RegisterFails(c)
    BY <2>6, <1>a DEF RegisterFails, Goto, Met, Reply
  <2>7. CASE Insert(c)
    BY <2>7, <1>a DEF Insert, Goto
  <2>8. CASE InsertFails(c)
    BY <2>8, <1>a DEF InsertFails, Goto, Met, Reply
  <2>9. CASE Frame(c)
    <3>1. PICK k \in Servlets \cup {NULL} :
            /\ cont' = [cont EXCEPT ![c] = k]
            /\ srefs' = IF k # NULL /\ stage[k] = "live" THEN [srefs EXCEPT ![k] = srefs[k] + 1] ELSE srefs
      BY <2>9, <1>a DEF Frame
    <3>2. cont' \in [Conns -> Servlets \cup {NULL}] /\ srefs' \in [Servlets -> Nat]
      BY <3>1, <1>a
    <3>3. replies' \in [Conns -> Nat]
      BY <2>9, <1>a DEF Frame, Reply
    <3>4. pc' \in [Conns -> Outside \cup InContent \cup InWebsock \cup {"leave"}]
      BY <2>9, <1>a DEF Frame, Goto
    <3>5. kind' \in [Conns -> Kinds \cup {NULL}]
      BY <2>9, <1>a DEF Frame, Met
    <3> QED
      BY <2>9, <3>2, <3>3, <3>4, <3>5, <1>a DEF Frame, Goto
  <2>10. CASE Unregister1(c)
    BY <2>10, <1>a DEF Unregister1, Goto, Reply
  <2> QED
    BY <1>3, <2>1, <2>2, <2>3, <2>4, <2>5, <2>6, <2>7, <2>8, <2>9, <2>10, FramesAre DEF Websock
<1>4. ASSUME NEW c \in Conns, Connect(c) \/ Arrive(c) \/ Disconnect(c) \/ ConnAttrs(c) \/ ConnFree(c)
      PROVE  TypeOK'
  <2>1. CASE Connect(c)
    BY <2>1, <1>a, ConnectIs DEF Life
  <2>2. CASE Disconnect(c)
    BY <2>2, <1>a, DisconnectIs DEF Life
  <2>3. CASE ConnAttrs(c)
    BY <2>3, <1>a, ConnAttrsIs DEF Life
  <2>4. CASE ConnFree(c)
    <3>1. /\ AttrFree(c) /\ Life(c, "attrs", "none")
          /\ http_conn' = [http_conn EXCEPT ![c] = FALSE]
          /\ websock' = [websock EXCEPT ![c] = FALSE]
          /\ wscontainer' = [wscontainer EXCEPT ![c] = NULL]
          /\ cmutex' = [cmutex EXCEPT ![c] = NULL]
      BY <2>4, ConnFreeIs
    <3> QED
      BY <3>1, <1>a DEF AttrFree, Life
  <2>5. CASE Arrive(c)
    BY <2>5, <1>a, ArriveIs DEF Goto
  <2> QED
    BY <1>4, <2>1, <2>2, <2>3, <2>4, <2>5
<1>5. CASE Admin
  <2>1. CASE RegisterService
    BY <2>1, <1>a DEF RegisterService
  <2>2. CASE UnregisterService
    BY <2>2, <1>a DEF UnregisterService, MayUnregisterService
  <2>3. ASSUME NEW s \in Servlets, RegisterServlet(s)
        PROVE  TypeOK'
    BY <2>3, <1>a DEF RegisterServlet
  <2>4. ASSUME NEW s \in Servlets, UnregisterServlet(s)
        PROVE  TypeOK'
    BY <2>4, <1>a DEF UnregisterServlet, MayUnregister
  <2> QED
    BY <1>5, <2>1, <2>2, <2>3, <2>4 DEF Admin
<1>6. CASE ServletFree
  BY <1>6, <1>a DEF ServletFree
<1>7. CASE ServiceFree
  BY <1>7, <1>a DEF ServiceFree
<1>8. CASE OwnerDestroy \/ Destroying
  <2>1. CASE OwnerDestroy
    BY <2>1, <1>a DEF OwnerDestroy, OwnerGoto
  <2>2. CASE OwnerTcp
    BY <2>2, <1>a DEF OwnerTcp, OwnerGoto
  <2>3. CASE OwnerTcpGone
    BY <2>3, <1>a DEF OwnerTcpGone, OwnerGoto
  <2>4. CASE OwnerServlets
    BY <2>4, <1>a DEF OwnerServlets, OwnerGoto
  <2>5. CASE OwnerFree
    BY <2>5, <1>a DEF OwnerFree, OwnerGoto
  <2> QED
    BY <1>8, <2>1, <2>2, <2>3, <2>4, <2>5 DEF Destroying
<1>9. CASE Stopped
  BY <1>9, <1>a DEF Stopped, vars
<1> QED
  BY <1>1, <1>2, <1>3, <1>4, <1>5, <1>6, <1>7, <1>8, <1>9 DEF Next

(* A connection goes away only when its handler has returned.              *)
LEMMA NextLives ==
  ASSUME IInv, Next
  PROVE  Lives'
<1> USE DEF owner, table, services, conns, local, registry, Lives
<1>a. TypeOK /\ Lives
  BY DEF IInv, Inv
<1> USE DEF TypeOK, Outside, InContent, InWebsock, InAccept, InFrame, Kinds
<1>1. ASSUME NEW c \in Conns, Handler(c)
      PROVE  Lives'
  <2>1. CASE Begin(c)
    BY <2>1, <1>a DEF Begin, Goto, Met
  <2>0. CASE Return(c)
    BY <2>0, <1>a DEF Return, Goto
  <2>2. CASE Refs(c)
    BY <2>2, <1>a DEF Refs, Goto
  <2>3. CASE HttpConnFails(c)
    BY <2>3, <1>a DEF HttpConnFails, Goto, Met, IsFrame
  <2>4. CASE FrameArrived(c)
    BY <2>4, <1>a DEF FrameArrived, Goto, HttpConn, IsFrame
  <2>5. CASE DecodeFails(c)
    BY <2>5, <1>a DEF DecodeFails, Goto, HttpConn, IsFrame, Reply
  <2>6. CASE Decode(c)
    BY <2>6, <1>a DEF Decode, Goto, HttpConn, IsFrame
  <2>7. CASE LookupSlashes(c)
    BY <2>7, <1>a DEF LookupSlashes, Goto, Reply
  <2>8. CASE Static(c)
    BY <2>8, <1>a DEF Static, Goto, Reply
  <2>9. CASE StaticFails(c)
    BY <2>9, <1>a DEF StaticFails, Goto, Met, Reply
  <2>10. CASE Leave(c)
    BY <2>10, <1>a DEF Leave, Goto
  <2>11. CASE Out(c)
    BY <2>11, <1>a DEF Out, Goto, Met
  <2>12. ASSUME NEW s \in Servlets, LookupTakes(c, s)
        PROVE  Lives'
    BY <2>12, <1>a DEF LookupTakes, Goto
  <2> QED
    BY <1>1, <2>0, <2>1, <2>2, <2>3, <2>4, <2>5, <2>6, <2>7, <2>8, <2>9, <2>10, <2>11, <2>12 DEF Handler
<1>2. ASSUME NEW c \in Conns, Content(c)
      PROVE  Lives'
  <2>1. CASE ServletRefuses(c)
    BY <2>1, <1>a DEF ServletRefuses, Goto, Reply, ServletLocal
  <2>2. CASE ServletReads(c)
    BY <2>2, <1>a DEF ServletReads, Goto, ServletLocal
  <2>3. CASE ReadSpins(c)
    BY <2>3, <1>a DEF ReadSpins, Goto, vars
  <2>4. CASE ReadFails(c)
    BY <2>4, <1>a DEF ReadFails, Goto, Reply, ServletLocal
  <2>5. CASE Upload(c)
    BY <2>5, <1>a DEF Upload, Goto, Reply, Parsed
  <2>6. CASE MalformedRequest(c)
    BY <2>6, <1>a DEF MalformedRequest, Goto, Reply, Parsed
  <2>7. CASE FindService(c)
    BY <2>7, <1>a DEF FindService, Goto, Parsed
  <2>8. CASE FindNoService(c)
    BY <2>8, <1>a DEF FindNoService, Goto, Reply, Parsed
  <2>9. CASE ServiceRefs(c)
    BY <2>9, <1>a DEF ServiceRefs, Goto
  <2>10. CASE ServiceDerefs(c)
    BY <2>10, <1>a DEF ServiceDerefs, Goto, Reply
  <2> QED
    BY <1>2, <2>1, <2>2, <2>3, <2>4, <2>5, <2>6, <2>7, <2>8, <2>9, <2>10 DEF Content
<1>3. ASSUME NEW c \in Conns, Websock(c)
      PROVE  Lives'
  <2>1. CASE Accept(c)
    BY <2>1, <1>a DEF Accept, Goto, Reply, MayTalk
  <2>2. CASE AcceptFails(c)
    BY <2>2, <1>a DEF AcceptFails, Goto, Reply
  <2>3. CASE AcceptRefused(c)
    BY <2>3, <1>a DEF AcceptRefused, Goto, Met, Reply
  <2>4. CASE Register(c)
    BY <2>4, <1>a DEF Register, Goto
  <2>5. CASE RegisterFails(c)
    BY <2>5, <1>a DEF RegisterFails, Goto, Met, Reply
  <2>6. CASE Insert(c)
    BY <2>6, <1>a DEF Insert, Goto
  <2>7. CASE InsertFails(c)
    BY <2>7, <1>a DEF InsertFails, Goto, Met, Reply
  <2>8. CASE Frame(c)
    BY <2>8, <1>a DEF Frame, Goto, Met, Reply
  <2>9. CASE Frames(c)
    BY <2>9, <1>a DEF Frames, WebsockLocal, Goto
  <2>10. CASE Unregister1(c)
    BY <2>10, <1>a DEF Unregister1, Goto, Reply
  <2>11. CASE Unregister2(c)
    BY <2>11, <1>a DEF Unregister2, Goto, AttrFree
  <2>12. CASE Send2(c)
    BY <2>12, <1>a DEF Send2, Goto
  <2>13. CASE Send2Take(c)
    BY <2>13, <1>a DEF Send2Take, Goto
  <2> QED
    BY <1>3, <2>1, <2>2, <2>3, <2>4, <2>5, <2>6, <2>7, <2>8, <2>9, <2>10, <2>11, <2>12, <2>13, FramesAre DEF
       Websock
<1>4. ASSUME NEW c \in Conns, Connect(c) \/ Arrive(c) \/ Disconnect(c) \/ ConnAttrs(c) \/ ConnFree(c)
      PROVE  Lives'
  <2>1. CASE Connect(c)
    BY <2>1, <1>a, ConnectIs DEF Life
  <2>2. CASE Disconnect(c)
    BY <2>2, <1>a, DisconnectIs DEF Life
  <2>3. CASE ConnAttrs(c)
    BY <2>3, <1>a, ConnAttrsIs DEF Life
  <2>4. CASE ConnFree(c)
    BY <2>4, <1>a, ConnFreeIs DEF AttrFree, Life
  <2>5. CASE Arrive(c)
    BY <2>5, <1>a, ArriveIs DEF Goto
  <2> QED
    BY <1>4, <2>1, <2>2, <2>3, <2>4, <2>5
<1>5. CASE Admin
  <2>1. CASE RegisterService
    BY <2>1, <1>a DEF RegisterService
  <2>2. CASE UnregisterService
    BY <2>2, <1>a DEF UnregisterService, MayUnregisterService
  <2>3. ASSUME NEW s \in Servlets, RegisterServlet(s)
        PROVE  Lives'
    BY <2>3, <1>a DEF RegisterServlet
  <2>4. ASSUME NEW s \in Servlets, UnregisterServlet(s)
        PROVE  Lives'
    BY <2>4, <1>a DEF UnregisterServlet, MayUnregister
  <2> QED
    BY <1>5, <2>1, <2>2, <2>3, <2>4 DEF Admin
<1>6. CASE ServletFree
  BY <1>6, <1>a DEF ServletFree
<1>7. CASE ServiceFree
  BY <1>7, <1>a DEF ServiceFree
<1>8. CASE OwnerDestroy \/ Destroying
  <2>1. CASE OwnerDestroy
    BY <2>1, <1>a DEF OwnerDestroy, OwnerGoto
  <2>2. CASE OwnerTcp
    BY <2>2, <1>a DEF OwnerTcp, OwnerGoto
  <2>3. CASE OwnerTcpGone
    BY <2>3, <1>a, GoneIs DEF OwnerTcpGone, OwnerGoto
  <2>4. CASE OwnerServlets
    BY <2>4, <1>a DEF OwnerServlets, OwnerGoto
  <2>5. CASE OwnerFree
    BY <2>5, <1>a DEF OwnerFree, OwnerGoto
  <2> QED
    BY <1>8, <2>1, <2>2, <2>3, <2>4, <2>5 DEF Destroying
<1>9. CASE Stopped
  BY <1>9, <1>a DEF Stopped, vars
<1> QED
  BY <1>1, <1>2, <1>3, <1>4, <1>5, <1>6, <1>7, <1>8, <1>9 DEF Next

(* The admin frees a container or a service before it begins another.      *)
LEMMA NextTables ==
  ASSUME IInv, Next
  PROVE  Tables'
<1> USE HttpdAssumption DEF owner, table, services, conns, local, registry, Tables
<1>a. TypeOK /\ Tables
  BY DEF IInv, Inv
<1> USE DEF TypeOK, Outside, InContent, InWebsock, InAccept, InFrame, Kinds
<1>1. ASSUME NEW c \in Conns, Handler(c)
      PROVE  Tables'
  <2>1. CASE Begin(c)
    BY <2>1, <1>a DEF Begin, Goto, Met
  <2>0. CASE Return(c)
    BY <2>0, <1>a DEF Return, Goto
  <2>2. CASE Refs(c)
    BY <2>2, <1>a DEF Refs, Goto
  <2>3. CASE HttpConnFails(c)
    BY <2>3, <1>a DEF HttpConnFails, Goto, Met, IsFrame
  <2>4. CASE FrameArrived(c)
    BY <2>4, <1>a DEF FrameArrived, Goto, HttpConn, IsFrame
  <2>5. CASE DecodeFails(c)
    BY <2>5, <1>a DEF DecodeFails, Goto, HttpConn, IsFrame, Reply
  <2>6. CASE Decode(c)
    BY <2>6, <1>a DEF Decode, Goto, HttpConn, IsFrame
  <2>7. CASE LookupSlashes(c)
    BY <2>7, <1>a DEF LookupSlashes, Goto, Reply
  <2>8. CASE Static(c)
    BY <2>8, <1>a DEF Static, Goto, Reply
  <2>9. CASE StaticFails(c)
    BY <2>9, <1>a DEF StaticFails, Goto, Met, Reply
  <2>10. CASE Leave(c)
    BY <2>10, <1>a DEF Leave, Goto
  <2>11. CASE Out(c)
    BY <2>11, <1>a DEF Out, Goto, Met
  <2>12. ASSUME NEW s \in Servlets, LookupTakes(c, s)
        PROVE  Tables'
    BY <2>12, <1>a DEF LookupTakes, Goto
  <2> QED
    BY <1>1, <2>0, <2>1, <2>2, <2>3, <2>4, <2>5, <2>6, <2>7, <2>8, <2>9, <2>10, <2>11, <2>12 DEF Handler
<1>2. ASSUME NEW c \in Conns, Content(c)
      PROVE  Tables'
  <2>1. CASE ServletRefuses(c)
    BY <2>1, <1>a DEF ServletRefuses, Goto, Reply, ServletLocal
  <2>2. CASE ServletReads(c)
    BY <2>2, <1>a DEF ServletReads, Goto, ServletLocal
  <2>3. CASE ReadSpins(c)
    BY <2>3, <1>a DEF ReadSpins, Goto, vars
  <2>4. CASE ReadFails(c)
    BY <2>4, <1>a DEF ReadFails, Goto, Reply, ServletLocal
  <2>5. CASE Upload(c)
    BY <2>5, <1>a DEF Upload, Goto, Reply, Parsed
  <2>6. CASE MalformedRequest(c)
    BY <2>6, <1>a DEF MalformedRequest, Goto, Reply, Parsed
  <2>7. CASE FindService(c)
    BY <2>7, <1>a DEF FindService, Goto, Parsed
  <2>8. CASE FindNoService(c)
    BY <2>8, <1>a DEF FindNoService, Goto, Reply, Parsed
  <2>9. CASE ServiceRefs(c)
    BY <2>9, <1>a DEF ServiceRefs, Goto
  <2>10. CASE ServiceDerefs(c)
    BY <2>10, <1>a DEF ServiceDerefs, Goto, Reply
  <2> QED
    BY <1>2, <2>1, <2>2, <2>3, <2>4, <2>5, <2>6, <2>7, <2>8, <2>9, <2>10 DEF Content
<1>3. ASSUME NEW c \in Conns, Websock(c)
      PROVE  Tables'
  <2>1. CASE Accept(c)
    BY <2>1, <1>a DEF Accept, Goto, Reply, MayTalk
  <2>2. CASE AcceptFails(c)
    BY <2>2, <1>a DEF AcceptFails, Goto, Reply
  <2>3. CASE AcceptRefused(c)
    BY <2>3, <1>a DEF AcceptRefused, Goto, Met, Reply
  <2>4. CASE Register(c)
    BY <2>4, <1>a DEF Register, Goto
  <2>5. CASE RegisterFails(c)
    BY <2>5, <1>a DEF RegisterFails, Goto, Met, Reply
  <2>6. CASE Insert(c)
    BY <2>6, <1>a DEF Insert, Goto
  <2>7. CASE InsertFails(c)
    BY <2>7, <1>a DEF InsertFails, Goto, Met, Reply
  <2>8. CASE Frame(c)
    BY <2>8, <1>a DEF Frame, Goto, Met, Reply
  <2>9. CASE Frames(c)
    BY <2>9, <1>a DEF Frames, WebsockLocal, Goto
  <2>10. CASE Unregister1(c)
    BY <2>10, <1>a DEF Unregister1, Goto, Reply
  <2>11. CASE Unregister2(c)
    BY <2>11, <1>a DEF Unregister2, Goto, AttrFree
  <2>12. CASE Send2(c)
    BY <2>12, <1>a DEF Send2, Goto
  <2>13. CASE Send2Take(c)
    BY <2>13, <1>a DEF Send2Take, Goto
  <2> QED
    BY <1>3, <2>1, <2>2, <2>3, <2>4, <2>5, <2>6, <2>7, <2>8, <2>9, <2>10, <2>11, <2>12, <2>13, FramesAre DEF
       Websock
<1>4. ASSUME NEW c \in Conns, Connect(c) \/ Arrive(c) \/ Disconnect(c) \/ ConnAttrs(c) \/ ConnFree(c)
      PROVE  Tables'
  <2>1. CASE Connect(c)
    BY <2>1, <1>a, ConnectIs DEF Life
  <2>2. CASE Disconnect(c)
    BY <2>2, <1>a, DisconnectIs DEF Life
  <2>3. CASE ConnAttrs(c)
    BY <2>3, <1>a, ConnAttrsIs DEF Life
  <2>4. CASE ConnFree(c)
    BY <2>4, <1>a, ConnFreeIs DEF AttrFree, Life
  <2>5. CASE Arrive(c)
    BY <2>5, <1>a, ArriveIs DEF Goto
  <2> QED
    BY <1>4, <2>1, <2>2, <2>3, <2>4, <2>5
<1>5. CASE Admin
  <2>1. CASE RegisterService
    BY <2>1, <1>a DEF RegisterService
  <2>2. CASE UnregisterService
    BY <2>2, <1>a DEF UnregisterService, MayUnregisterService
  <2>3. ASSUME NEW s \in Servlets, RegisterServlet(s)
        PROVE  Tables'
    BY <2>3, <1>a DEF RegisterServlet
  <2>4. ASSUME NEW s \in Servlets, UnregisterServlet(s)
        PROVE  Tables'
    BY <2>4, <1>a DEF UnregisterServlet, MayUnregister
  <2> QED
    BY <1>5, <2>1, <2>2, <2>3, <2>4 DEF Admin
<1>6. CASE ServletFree
  BY <1>6, <1>a DEF ServletFree
<1>7. CASE ServiceFree
  BY <1>7, <1>a DEF ServiceFree
<1>8. CASE OwnerDestroy \/ Destroying
  <2>1. CASE OwnerDestroy
    BY <2>1, <1>a DEF OwnerDestroy, OwnerGoto
  <2>2. CASE OwnerTcp
    BY <2>2, <1>a DEF OwnerTcp, OwnerGoto
  <2>3. CASE OwnerTcpGone
    BY <2>3, <1>a DEF OwnerTcpGone, OwnerGoto
  <2>4. CASE OwnerServlets
    BY <2>4, <1>a DEF OwnerServlets, OwnerGoto
  <2>5. CASE OwnerFree
    BY <2>5, <1>a DEF OwnerFree, OwnerGoto
  <2> QED
    BY <1>8, <2>1, <2>2, <2>3, <2>4, <2>5 DEF Destroying
<1>9. CASE Stopped
  BY <1>9, <1>a DEF Stopped, vars
<1> QED
  BY <1>1, <1>2, <1>3, <1>4, <1>5, <1>6, <1>7, <1>8, <1>9 DEF Next

(* What a handler or a connection remembers fits where the handler is.      *)
LEMMA NextRemembers ==
  ASSUME IInv, Next, NEW d \in Conns
  PROVE  Remembers(d)'
<1> USE HttpdAssumption DEF owner, table, services, conns, local, registry, Outside, InContent,
   InWebsock, InAccept, InFrame, Kinds
<1>a. /\ pc \in [Conns -> Outside \cup InContent \cup InWebsock \cup {"leave"}]
      /\ cont \in [Conns -> Servlets \cup {NULL}]
      /\ life \in [Conns -> {"none", "open", "dying", "attrs"}]
      /\ websock \in [Conns -> BOOLEAN] /\ wscontainer \in [Conns -> Servlets \cup {NULL}]
      /\ \A k \in Conns : Remembers(k) /\ (life[k] = "none" => ~websock[k])
  BY DEF IInv, Inv, Containers, TypeOK, Lives
<1> USE DEF Remembers
<1>1. ASSUME NEW c \in Conns, Handler(c)
      PROVE  Remembers(d)'
  <2>1. CASE Begin(c)
    BY <2>1, <1>a DEF Begin, Goto
  <2>0. CASE Return(c)
    BY <2>0, <1>a DEF Return, Goto
  <2>2. CASE Refs(c)
    BY <2>2, <1>a DEF Refs, Goto
  <2>3. CASE HttpConnFails(c)
    BY <2>3, <1>a DEF HttpConnFails, Goto, IsFrame
  <2>4. CASE FrameArrived(c)
    BY <2>4, <1>a DEF FrameArrived, Goto, HttpConn, IsFrame
  <2>5. CASE DecodeFails(c)
    BY <2>5, <1>a DEF DecodeFails, Goto, HttpConn, IsFrame
  <2>6. CASE Decode(c)
    BY <2>6, <1>a DEF Decode, Goto, HttpConn, IsFrame
  <2>7. CASE LookupSlashes(c)
    BY <2>7, <1>a DEF LookupSlashes, Goto
  <2>8. CASE Static(c)
    BY <2>8, <1>a DEF Static, Goto
  <2>9. CASE StaticFails(c)
    BY <2>9, <1>a DEF StaticFails, Goto
  <2>10. CASE Leave(c)
    BY <2>10, <1>a DEF Leave, Goto
  <2>11. CASE Out(c)
    BY <2>11, <1>a DEF Out, Goto
  <2>12. ASSUME NEW s \in Servlets, LookupTakes(c, s)
        PROVE  Remembers(d)'
    BY <2>12, <1>a DEF LookupTakes, Goto
  <2> QED
    BY <1>1, <2>0, <2>1, <2>2, <2>3, <2>4, <2>5, <2>6, <2>7, <2>8, <2>9, <2>10, <2>11, <2>12 DEF Handler
<1>2. ASSUME NEW c \in Conns, Content(c)
      PROVE  Remembers(d)'
  <2>1. CASE ServletRefuses(c)
    BY <2>1, <1>a DEF ServletRefuses, Goto, ServletLocal
  <2>2. CASE ServletReads(c)
    BY <2>2, <1>a DEF ServletReads, Goto, ServletLocal
  <2>3. CASE ReadSpins(c)
    BY <2>3, <1>a DEF ReadSpins, Goto, vars
  <2>4. CASE ReadFails(c)
    BY <2>4, <1>a DEF ReadFails, Goto, ServletLocal
  <2>5. CASE Upload(c)
    BY <2>5, <1>a DEF Upload, Goto, Parsed
  <2>6. CASE MalformedRequest(c)
    BY <2>6, <1>a DEF MalformedRequest, Goto, Parsed
  <2>7. CASE FindService(c)
    BY <2>7, <1>a DEF FindService, Goto, Parsed
  <2>8. CASE FindNoService(c)
    BY <2>8, <1>a DEF FindNoService, Goto, Parsed
  <2>9. CASE ServiceRefs(c)
    BY <2>9, <1>a DEF ServiceRefs, Goto
  <2>10. CASE ServiceDerefs(c)
    BY <2>10, <1>a DEF ServiceDerefs, Goto
  <2> QED
    BY <1>2, <2>1, <2>2, <2>3, <2>4, <2>5, <2>6, <2>7, <2>8, <2>9, <2>10 DEF Content
<1>3. ASSUME NEW c \in Conns, Websock(c)
      PROVE  Remembers(d)'
  <2>1. CASE Accept(c)
    BY <2>1, <1>a DEF Accept, Goto, MayTalk
  <2>2. CASE AcceptFails(c)
    BY <2>2, <1>a DEF AcceptFails, Goto
  <2>3. CASE AcceptRefused(c)
    BY <2>3, <1>a DEF AcceptRefused, Goto
  <2>4. CASE Register(c)
    BY <2>4, <1>a DEF Register, Goto
  <2>5. CASE RegisterFails(c)
    BY <2>5, <1>a DEF RegisterFails, Goto
  <2>6. CASE Insert(c)
    BY <2>6, <1>a DEF Insert, Goto
  <2>7. CASE InsertFails(c)
    BY <2>7, <1>a DEF InsertFails, Goto
  <2>8. CASE Frame(c)
    BY <2>8, <1>a DEF Frame, Goto
  <2>9. CASE Frames(c)
    BY <2>9, <1>a DEF Frames, WebsockLocal, Goto
  <2>10. CASE Unregister1(c)
    BY <2>10, <1>a DEF Unregister1, Goto
  <2>11. CASE Unregister2(c)
    BY <2>11, <1>a DEF Unregister2, Goto, AttrFree
  <2>12. CASE Send2(c)
    BY <2>12, <1>a DEF Send2, Goto
  <2>13. CASE Send2Take(c)
    BY <2>13, <1>a DEF Send2Take, Goto
  <2> QED
    BY <1>3, <2>1, <2>2, <2>3, <2>4, <2>5, <2>6, <2>7, <2>8, <2>9, <2>10, <2>11, <2>12, <2>13, FramesAre DEF
       Websock
<1>4. ASSUME NEW c \in Conns, Connect(c) \/ Arrive(c) \/ Disconnect(c) \/ ConnAttrs(c) \/ ConnFree(c)
      PROVE  Remembers(d)'
  <2>1. CASE Connect(c)
    BY <2>1, <1>a, ConnectIs DEF Life
  <2>2. CASE Disconnect(c)
    BY <2>2, <1>a, DisconnectIs DEF Life
  <2>3. CASE ConnAttrs(c)
    BY <2>3, <1>a, ConnAttrsIs DEF Life
  <2>4. CASE ConnFree(c)
    BY <2>4, <1>a, ConnFreeIs DEF AttrFree, Life
  <2>5. CASE Arrive(c)
    BY <2>5, <1>a, ArriveIs DEF Goto
  <2> QED
    BY <1>4, <2>1, <2>2, <2>3, <2>4, <2>5
<1>5. CASE Admin
  <2>1. CASE RegisterService
    BY <2>1, <1>a DEF RegisterService
  <2>2. CASE UnregisterService
    BY <2>2, <1>a DEF UnregisterService, MayUnregisterService
  <2>3. ASSUME NEW s \in Servlets, RegisterServlet(s)
        PROVE  Remembers(d)'
    BY <2>3, <1>a DEF RegisterServlet
  <2>4. ASSUME NEW s \in Servlets, UnregisterServlet(s)
        PROVE  Remembers(d)'
    BY <2>4, <1>a DEF UnregisterServlet, MayUnregister
  <2> QED
    BY <1>5, <2>1, <2>2, <2>3, <2>4 DEF Admin
<1>6. CASE ServletFree
  BY <1>6, <1>a DEF ServletFree
<1>7. CASE ServiceFree
  BY <1>7, <1>a DEF ServiceFree
<1>8. CASE OwnerDestroy \/ Destroying
  <2>1. CASE OwnerDestroy
    BY <2>1, <1>a DEF OwnerDestroy, OwnerGoto
  <2>2. CASE OwnerTcp
    BY <2>2, <1>a DEF OwnerTcp, OwnerGoto
  <2>3. CASE OwnerTcpGone
    BY <2>3, <1>a DEF OwnerTcpGone, OwnerGoto
  <2>4. CASE OwnerServlets
    BY <2>4, <1>a DEF OwnerServlets, OwnerGoto
  <2>5. CASE OwnerFree
    BY <2>5, <1>a DEF OwnerFree, OwnerGoto
  <2> QED
    BY <1>8, <2>1, <2>2, <2>3, <2>4, <2>5 DEF Destroying
<1>9. CASE Stopped
  BY <1>9, <1>a DEF Stopped, vars
<1> QED
  BY <1>1, <1>2, <1>3, <1>4, <1>5, <1>6, <1>7, <1>8, <1>9 DEF Next

(* The websocket servlet stays as long as somebody remembers it.            *)
LEMMA NextWebsockStays ==
  ASSUME IInv, Next, "websock" \in Servlets, NEW d \in Conns
  PROVE  stage'["websock"] # "live" => cont'[d] # "websock" /\ wscontainer'[d] = NULL
<1> USE HttpdAssumption DEF owner, table, services, conns, local, registry, Outside, InContent,
   InWebsock, InAccept, InFrame, Kinds
<1>a. /\ pc \in [Conns -> Outside \cup InContent \cup InWebsock \cup {"leave"}]
      /\ cont \in [Conns -> Servlets \cup {NULL}]
      /\ life \in [Conns -> {"none", "open", "dying", "attrs"}]
      /\ wscontainer \in [Conns -> Servlets \cup {NULL}]
      /\ stage \in [Servlets -> {"none", "live", "dying"}] /\ unreg \in Servlets \cup {NULL}
      /\ \A k \in Conns : Remembers(k)
      /\ stage["websock"] # "live" => \A k \in Conns : cont[k] # "websock" /\ wscontainer[k] = NULL
  BY DEF IInv, Inv, Containers, TypeOK
<1>b. Lives /\ Tables
  BY DEF IInv, Inv
<1> USE DEF Remembers
<1>1. ASSUME NEW c \in Conns, Handler(c)
      PROVE  stage'["websock"] # "live" => cont'[d] # "websock" /\ wscontainer'[d] = NULL
  <2>1. CASE Begin(c)
    BY <2>1, <1>a DEF Begin, Goto
  <2>0. CASE Return(c)
    BY <2>0, <1>a DEF Return, Goto
  <2>2. CASE Refs(c)
    BY <2>2, <1>a DEF Refs, Goto
  <2>3. CASE HttpConnFails(c)
    BY <2>3, <1>a DEF HttpConnFails, Goto, IsFrame
  <2>4. CASE FrameArrived(c)
    BY <2>4, <1>a DEF FrameArrived, Goto, HttpConn, IsFrame
  <2>5. CASE DecodeFails(c)
    BY <2>5, <1>a DEF DecodeFails, Goto, HttpConn, IsFrame
  <2>6. CASE Decode(c)
    BY <2>6, <1>a DEF Decode, Goto, HttpConn, IsFrame
  <2>7. CASE LookupSlashes(c)
    BY <2>7, <1>a DEF LookupSlashes, Goto
  <2>8. CASE Static(c)
    BY <2>8, <1>a DEF Static, Goto
  <2>9. CASE StaticFails(c)
    BY <2>9, <1>a DEF StaticFails, Goto
  <2>10. CASE Leave(c)
    <3> SUFFICES ASSUME stage["websock"] # "live"
                 PROVE  cont'[d] # "websock" /\ wscontainer'[d] = NULL
      BY <2>10 DEF Leave
    <3>1. cont[c] = "content" \/ cont[c] = NULL
      BY <1>a
    <3>2. life[c] = "open" /\ websock[c] => cont[c] = NULL
      BY <3>1, <1>a
    <3>3. wscontainer'[c] = NULL /\ cont'[c] = NULL
      BY <2>10, <3>2, <1>a DEF Leave
    <3>4. d # c => wscontainer'[d] = wscontainer[d] /\ cont'[d] = cont[d]
      BY <2>10, <1>a DEF Leave
    <3> QED
      BY <3>3, <3>4, <1>a
  <2>11. CASE Out(c)
    BY <2>11, <1>a DEF Out, Goto
  <2>12. ASSUME NEW s \in Servlets, LookupTakes(c, s)
        PROVE  stage'["websock"] # "live" => cont'[d] # "websock" /\ wscontainer'[d] = NULL
    BY <2>12, <1>a DEF LookupTakes, Goto
  <2> QED
    BY <1>1, <2>0, <2>1, <2>2, <2>3, <2>4, <2>5, <2>6, <2>7, <2>8, <2>9, <2>10, <2>11, <2>12 DEF Handler
<1>2. ASSUME NEW c \in Conns, Content(c)
      PROVE  stage'["websock"] # "live" => cont'[d] # "websock" /\ wscontainer'[d] = NULL
  <2>1. CASE ServletRefuses(c)
    BY <2>1, <1>a DEF ServletRefuses, Goto, ServletLocal
  <2>2. CASE ServletReads(c)
    BY <2>2, <1>a DEF ServletReads, Goto, ServletLocal
  <2>3. CASE ReadSpins(c)
    BY <2>3, <1>a DEF ReadSpins, Goto, vars
  <2>4. CASE ReadFails(c)
    BY <2>4, <1>a DEF ReadFails, Goto, ServletLocal
  <2>5. CASE Upload(c)
    BY <2>5, <1>a DEF Upload, Goto, Parsed
  <2>6. CASE MalformedRequest(c)
    BY <2>6, <1>a DEF MalformedRequest, Goto, Parsed
  <2>7. CASE FindService(c)
    BY <2>7, <1>a DEF FindService, Goto, Parsed
  <2>8. CASE FindNoService(c)
    BY <2>8, <1>a DEF FindNoService, Goto, Parsed
  <2>9. CASE ServiceRefs(c)
    BY <2>9, <1>a DEF ServiceRefs, Goto
  <2>10. CASE ServiceDerefs(c)
    BY <2>10, <1>a DEF ServiceDerefs, Goto
  <2> QED
    BY <1>2, <2>1, <2>2, <2>3, <2>4, <2>5, <2>6, <2>7, <2>8, <2>9, <2>10 DEF Content
<1>3. ASSUME NEW c \in Conns, Websock(c)
      PROVE  stage'["websock"] # "live" => cont'[d] # "websock" /\ wscontainer'[d] = NULL
  <2>1. CASE Accept(c)
    BY <2>1, <1>a DEF Accept, Goto, MayTalk
  <2>2. CASE AcceptFails(c)
    BY <2>2, <1>a DEF AcceptFails, Goto
  <2>3. CASE AcceptRefused(c)
    BY <2>3, <1>a DEF AcceptRefused, Goto
  <2>4. CASE Register(c)
    BY <2>4, <1>a DEF Register, Goto
  <2>5. CASE RegisterFails(c)
    BY <2>5, <1>a DEF RegisterFails, Goto
  <2>6. CASE Insert(c)
    BY <2>6, <1>a DEF Insert, Goto
  <2>7. CASE InsertFails(c)
    BY <2>7, <1>a DEF InsertFails, Goto
  <2>8. CASE Frame(c)
    BY <2>8, <1>a DEF Frame, Goto
  <2>9. CASE Frames(c)
    BY <2>9, <1>a DEF Frames, WebsockLocal, Goto
  <2>10. CASE Unregister1(c)
    BY <2>10, <1>a DEF Unregister1, Goto
  <2>11. CASE Unregister2(c)
    BY <2>11, <1>a DEF Unregister2, Goto, AttrFree
  <2>12. CASE Send2(c)
    BY <2>12, <1>a DEF Send2, Goto
  <2>13. CASE Send2Take(c)
    BY <2>13, <1>a DEF Send2Take, Goto
  <2> QED
    BY <1>3, <2>1, <2>2, <2>3, <2>4, <2>5, <2>6, <2>7, <2>8, <2>9, <2>10, <2>11, <2>12, <2>13, FramesAre DEF
       Websock
<1>4. ASSUME NEW c \in Conns, Connect(c) \/ Arrive(c) \/ Disconnect(c) \/ ConnAttrs(c) \/ ConnFree(c)
      PROVE  stage'["websock"] # "live" => cont'[d] # "websock" /\ wscontainer'[d] = NULL
  <2>1. CASE Connect(c)
    BY <2>1, <1>a, ConnectIs DEF Life
  <2>2. CASE Disconnect(c)
    BY <2>2, <1>a, DisconnectIs DEF Life
  <2>3. CASE ConnAttrs(c)
    BY <2>3, <1>a, ConnAttrsIs DEF Life
  <2>4. CASE ConnFree(c)
    BY <2>4, <1>a, ConnFreeIs DEF AttrFree, Life
  <2>5. CASE Arrive(c)
    BY <2>5, <1>a, ArriveIs DEF Goto
  <2> QED
    BY <1>4, <2>1, <2>2, <2>3, <2>4, <2>5
<1>5. CASE Admin
  <2>1. CASE RegisterService
    BY <2>1, <1>a DEF RegisterService
  <2>2. CASE UnregisterService
    BY <2>2, <1>a DEF UnregisterService, MayUnregisterService
  <2>3. ASSUME NEW s \in Servlets, RegisterServlet(s)
        PROVE  stage'["websock"] # "live" => cont'[d] # "websock" /\ wscontainer'[d] = NULL
    BY <2>3, <1>a DEF RegisterServlet
  <2>4. ASSUME NEW s \in Servlets, UnregisterServlet(s)
        PROVE  stage'["websock"] # "live" => cont'[d] # "websock" /\ wscontainer'[d] = NULL
    BY <2>4, <1>a DEF UnregisterServlet, MayUnregister
  <2> QED
    BY <1>5, <2>1, <2>2, <2>3, <2>4 DEF Admin
<1>6. CASE ServletFree
  BY <1>6, <1>a, <1>b DEF ServletFree, Tables
<1>7. CASE ServiceFree
  BY <1>7, <1>a DEF ServiceFree
<1>8. CASE OwnerDestroy \/ Destroying
  <2>1. CASE OwnerDestroy
    BY <2>1, <1>a DEF OwnerDestroy, OwnerGoto
  <2>2. CASE OwnerTcp
    BY <2>2, <1>a DEF OwnerTcp, OwnerGoto
  <2>3. CASE OwnerTcpGone
    BY <2>3, <1>a DEF OwnerTcpGone, OwnerGoto
  <2>4. CASE OwnerServlets
    BY <2>4, <1>a DEF OwnerServlets, OwnerGoto
  <2>5. CASE OwnerFree
    BY <2>5, <1>a, <1>b DEF OwnerFree, OwnerGoto, Lives, Tables
  <2> QED
    BY <1>8, <2>1, <2>2, <2>3, <2>4, <2>5 DEF Destroying
<1>9. CASE Stopped
  BY <1>9, <1>a DEF Stopped, vars
<1> QED
  BY <1>1, <1>2, <1>3, <1>4, <1>5, <1>6, <1>7, <1>8, <1>9 DEF Next

LEMMA NextContainers ==
  ASSUME IInv, Next
  PROVE  Containers'
<1>1. \A d \in Conns : Remembers(d)'
  BY NextRemembers
<1>2. "websock" \in Servlets /\ (stage["websock"] # "live")' => \A d \in Conns : (cont[d] # "websock" /\ wscontainer[d] = NULL)'
  BY NextWebsockStays
<1> QED
  BY <1>1, <1>2 DEF Containers

(* Every path to the end of the handler has replied as it should.           *)
LEMMA NextAnswers ==
  ASSUME IInv, Next, NEW d \in Conns
  PROVE  Answering(d)'
<1> USE HttpdAssumption DEF owner, table, services, conns, local, registry, Outside, InContent,
   InWebsock, InAccept, InFrame, Kinds
<1>a. /\ pc \in [Conns -> Outside \cup InContent \cup InWebsock \cup {"leave"}]
      /\ life \in [Conns -> {"none", "open", "dying", "attrs"}]
      /\ kind \in [Conns -> Kinds \cup {NULL}] /\ replies \in [Conns -> Nat]
      /\ fl_destroyed \in BOOLEAN
      /\ \A k \in Conns : Answering(k) /\ (life[k] \in {"none", "attrs"} => pc[k] = "idle")
  BY DEF IInv, Inv, Answers, TypeOK, Lives
<1> USE DEF Answering, Answered
<1>1. ASSUME NEW c \in Conns, Handler(c)
      PROVE  Answering(d)'
  <2>1. CASE Begin(c)
    BY <2>1, <1>a DEF Begin, Goto, Met, MayTalk
  <2>0. CASE Return(c)
    BY <2>0, <1>a DEF Return, Goto
  <2>2. CASE Refs(c)
    BY <2>2, <1>a DEF Refs, Goto
  <2>3. CASE HttpConnFails(c)
    BY <2>3, <1>a DEF HttpConnFails, Goto, Met, IsFrame
  <2>4. CASE FrameArrived(c)
    BY <2>4, <1>a DEF FrameArrived, Goto, HttpConn, IsFrame
  <2>5. CASE DecodeFails(c)
    BY <2>5, <1>a DEF DecodeFails, Goto, HttpConn, IsFrame, Reply, MayTalk
  <2>6. CASE Decode(c)
    BY <2>6, <1>a DEF Decode, Goto, HttpConn, IsFrame
  <2>7. CASE LookupSlashes(c)
    BY <2>7, <1>a DEF LookupSlashes, Goto, Reply, MayTalk
  <2>8. CASE Static(c)
    BY <2>8, <1>a DEF Static, Goto, Reply, MayTalk
  <2>9. CASE StaticFails(c)
    BY <2>9, <1>a DEF StaticFails, Goto, Met, Reply, MayTalk
  <2>10. CASE Leave(c)
    BY <2>10, <1>a DEF Leave, Goto
  <2>11. CASE Out(c)
    BY <2>11, <1>a DEF Out, Goto, Met
  <2>12. ASSUME NEW s \in Servlets, LookupTakes(c, s)
        PROVE  Answering(d)'
    BY <2>12, <1>a DEF LookupTakes, Goto
  <2> QED
    BY <1>1, <2>0, <2>1, <2>2, <2>3, <2>4, <2>5, <2>6, <2>7, <2>8, <2>9, <2>10, <2>11, <2>12 DEF Handler
<1>2. ASSUME NEW c \in Conns, Content(c)
      PROVE  Answering(d)'
  <2>1. CASE ServletRefuses(c)
    BY <2>1, <1>a DEF ServletRefuses, Goto, Reply, MayTalk, ServletLocal
  <2>2. CASE ServletReads(c)
    BY <2>2, <1>a DEF ServletReads, Goto, ServletLocal
  <2>3. CASE ReadSpins(c)
    BY <2>3, <1>a DEF ReadSpins, Goto, vars
  <2>4. CASE ReadFails(c)
    BY <2>4, <1>a DEF ReadFails, Goto, Reply, MayTalk, ServletLocal
  <2>5. CASE Upload(c)
    BY <2>5, <1>a DEF Upload, Goto, Reply, MayTalk, Parsed
  <2>6. CASE MalformedRequest(c)
    BY <2>6, <1>a DEF MalformedRequest, Goto, Reply, MayTalk, Parsed
  <2>7. CASE FindService(c)
    BY <2>7, <1>a DEF FindService, Goto, Parsed
  <2>8. CASE FindNoService(c)
    BY <2>8, <1>a DEF FindNoService, Goto, Reply, MayTalk, Parsed
  <2>9. CASE ServiceRefs(c)
    BY <2>9, <1>a DEF ServiceRefs, Goto
  <2>10. CASE ServiceDerefs(c)
    BY <2>10, <1>a DEF ServiceDerefs, Goto, Reply, MayTalk
  <2> QED
    BY <1>2, <2>1, <2>2, <2>3, <2>4, <2>5, <2>6, <2>7, <2>8, <2>9, <2>10 DEF Content
<1>3. ASSUME NEW c \in Conns, Websock(c)
      PROVE  Answering(d)'
  <2>1. CASE Accept(c)
    BY <2>1, <1>a DEF Accept, Goto, Reply, MayTalk
  <2>2. CASE AcceptFails(c)
    BY <2>2, <1>a DEF AcceptFails, Goto, Reply, MayTalk
  <2>3. CASE AcceptRefused(c)
    BY <2>3, <1>a DEF AcceptRefused, Goto, Met, Reply, MayTalk
  <2>4. CASE Register(c)
    BY <2>4, <1>a DEF Register, Goto
  <2>5. CASE RegisterFails(c)
    BY <2>5, <1>a DEF RegisterFails, Goto, Met, Reply, MayTalk
  <2>6. CASE Insert(c)
    BY <2>6, <1>a DEF Insert, Goto
  <2>7. CASE InsertFails(c)
    BY <2>7, <1>a DEF InsertFails, Goto, Met, Reply, MayTalk
  <2>8. CASE Frame(c)
    BY <2>8, <1>a DEF Frame, Goto, Met, Reply, MayTalk
  <2>9. CASE Frames(c)
    BY <2>9, <1>a DEF Frames, WebsockLocal, Goto
  <2>10. CASE Unregister1(c)
    BY <2>10, <1>a DEF Unregister1, Goto, Reply, MayTalk
  <2>11. CASE Unregister2(c)
    BY <2>11, <1>a DEF Unregister2, Goto, AttrFree
  <2>12. CASE Send2(c)
    BY <2>12, <1>a DEF Send2, Goto
  <2>13. CASE Send2Take(c)
    BY <2>13, <1>a DEF Send2Take, Goto
  <2> QED
    BY <1>3, <2>1, <2>2, <2>3, <2>4, <2>5, <2>6, <2>7, <2>8, <2>9, <2>10, <2>11, <2>12, <2>13, FramesAre DEF
       Websock
<1>4. ASSUME NEW c \in Conns, Connect(c) \/ Arrive(c) \/ Disconnect(c) \/ ConnAttrs(c) \/ ConnFree(c)
      PROVE  Answering(d)'
  <2>1. CASE Connect(c)
    BY <2>1, <1>a, ConnectIs DEF Life
  <2>2. CASE Disconnect(c)
    BY <2>2, <1>a, DisconnectIs DEF Life
  <2>3. CASE ConnAttrs(c)
    BY <2>3, <1>a, ConnAttrsIs DEF Life
  <2>4. CASE ConnFree(c)
    BY <2>4, <1>a, ConnFreeIs DEF AttrFree, Life
  <2>5. CASE Arrive(c)
    BY <2>5, <1>a, ArriveIs DEF Goto
  <2> QED
    BY <1>4, <2>1, <2>2, <2>3, <2>4, <2>5
<1>5. CASE Admin
  <2>1. CASE RegisterService
    BY <2>1, <1>a DEF RegisterService
  <2>2. CASE UnregisterService
    BY <2>2, <1>a DEF UnregisterService, MayUnregisterService
  <2>3. ASSUME NEW s \in Servlets, RegisterServlet(s)
        PROVE  Answering(d)'
    BY <2>3, <1>a DEF RegisterServlet
  <2>4. ASSUME NEW s \in Servlets, UnregisterServlet(s)
        PROVE  Answering(d)'
    BY <2>4, <1>a DEF UnregisterServlet, MayUnregister
  <2> QED
    BY <1>5, <2>1, <2>2, <2>3, <2>4 DEF Admin
<1>6. CASE ServletFree
  BY <1>6, <1>a DEF ServletFree
<1>7. CASE ServiceFree
  BY <1>7, <1>a DEF ServiceFree
<1>8. CASE OwnerDestroy \/ Destroying
  <2>1. CASE OwnerDestroy
    BY <2>1, <1>a DEF OwnerDestroy, OwnerGoto
  <2>2. CASE OwnerTcp
    BY <2>2, <1>a DEF OwnerTcp, OwnerGoto
  <2>3. CASE OwnerTcpGone
    BY <2>3, <1>a DEF OwnerTcpGone, OwnerGoto
  <2>4. CASE OwnerServlets
    BY <2>4, <1>a DEF OwnerServlets, OwnerGoto
  <2>5. CASE OwnerFree
    BY <2>5, <1>a DEF OwnerFree, OwnerGoto
  <2> QED
    BY <1>8, <2>1, <2>2, <2>3, <2>4, <2>5 DEF Destroying
<1>9. CASE Stopped
  BY <1>9, <1>a DEF Stopped, vars
<1> QED
  BY <1>1, <1>2, <1>3, <1>4, <1>5, <1>6, <1>7, <1>8, <1>9 DEF Next

(* The handlers that have a container, and those that are in a service.     *)
Holders(s) == {c \in Conns : cont[c] = s}
Callers == {c \in Conns : pc[c] = "call"}

(* Whoever takes a container, and whoever leaves one, changes the number of *)
(* its holders by one.                                                      *)
LEMMA Counting ==
  ASSUME NEW S \in SUBSET Conns, NEW c \in Conns
  PROVE  /\ Cardinality(S) \in Nat
         /\ c \notin S => Cardinality(S \cup {c}) = Cardinality(S) + 1
         /\ c \in S => Cardinality(S \ {c}) = Cardinality(S) - 1 /\ Cardinality(S) > 0
<1>1. IsFiniteSet(S)
  BY HttpdAssumption, FS_Subset
<1>2. Cardinality(S) \in Nat
  BY <1>1, FS_CardinalityType
<1>3. c \notin S => Cardinality(S \cup {c}) = Cardinality(S) + 1
  BY <1>1, FS_AddElement
<1>4. c \in S => Cardinality(S \ {c}) = Cardinality(S) - 1
  BY <1>1, FS_RemoveElement
<1>5. c \in S => Cardinality(S) # 0
  BY <1>1, FS_EmptySet
<1> QED
  BY <1>2, <1>3, <1>4, <1>5

(* Handlers take and leave containers in three steps.                       *)
LEMMA OnlyTakers ==
  ASSUME Next
  PROVE  \/ cont' = cont /\ srefs' = srefs
         \/ \E d \in Conns : Leave(d) \/ Frame(d) \/ \E t \in Servlets : LookupTakes(d, t)
<1> USE DEF owner, table, services, conns, local, registry
<1>1. ASSUME NEW c \in Conns, Handler(c)
      PROVE  \/ cont' = cont /\ srefs' = srefs
         \/ \E d \in Conns : Leave(d) \/ Frame(d) \/ \E t \in Servlets : LookupTakes(d, t)
  <2>1. CASE Begin(c)
    BY <2>1 DEF Begin, Goto
  <2>0. CASE Return(c)
    BY <2>0 DEF Return, Goto
  <2>2. CASE Refs(c)
    BY <2>2 DEF Refs, Goto
  <2>3. CASE HttpConnFails(c)
    BY <2>3 DEF HttpConnFails, Goto, IsFrame
  <2>4. CASE FrameArrived(c)
    BY <2>4 DEF FrameArrived, Goto, HttpConn, IsFrame
  <2>5. CASE DecodeFails(c)
    BY <2>5 DEF DecodeFails, Goto, HttpConn, IsFrame
  <2>6. CASE Decode(c)
    BY <2>6 DEF Decode, Goto, HttpConn, IsFrame
  <2>7. CASE LookupSlashes(c)
    BY <2>7 DEF LookupSlashes, Goto
  <2>8. CASE Static(c)
    BY <2>8 DEF Static, Goto
  <2>9. CASE StaticFails(c)
    BY <2>9 DEF StaticFails, Goto
  <2>10. CASE Leave(c)
    BY <2>10
  <2>11. CASE Out(c)
    BY <2>11 DEF Out, Goto
  <2>12. ASSUME NEW s \in Servlets, LookupTakes(c, s)
        PROVE  \/ cont' = cont /\ srefs' = srefs
         \/ \E d \in Conns : Leave(d) \/ Frame(d) \/ \E t \in Servlets : LookupTakes(d, t)
    BY <2>12
  <2> QED
    BY <1>1, <2>0, <2>1, <2>2, <2>3, <2>4, <2>5, <2>6, <2>7, <2>8, <2>9, <2>10, <2>11, <2>12 DEF Handler
<1>2. ASSUME NEW c \in Conns, Content(c)
      PROVE  \/ cont' = cont /\ srefs' = srefs
         \/ \E d \in Conns : Leave(d) \/ Frame(d) \/ \E t \in Servlets : LookupTakes(d, t)
  <2>1. CASE ServletRefuses(c)
    BY <2>1 DEF ServletRefuses, Goto, ServletLocal
  <2>2. CASE ServletReads(c)
    BY <2>2 DEF ServletReads, Goto, ServletLocal
  <2>3. CASE ReadSpins(c)
    BY <2>3 DEF ReadSpins, Goto, vars
  <2>4. CASE ReadFails(c)
    BY <2>4 DEF ReadFails, Goto, ServletLocal
  <2>5. CASE Upload(c)
    BY <2>5 DEF Upload, Goto, Parsed
  <2>6. CASE MalformedRequest(c)
    BY <2>6 DEF MalformedRequest, Goto, Parsed
  <2>7. CASE FindService(c)
    BY <2>7 DEF FindService, Goto, Parsed
  <2>8. CASE FindNoService(c)
    BY <2>8 DEF FindNoService, Goto, Parsed
  <2>9. CASE ServiceRefs(c)
    BY <2>9 DEF ServiceRefs, Goto
  <2>10. CASE ServiceDerefs(c)
    BY <2>10 DEF ServiceDerefs, Goto
  <2> QED
    BY <1>2, <2>1, <2>2, <2>3, <2>4, <2>5, <2>6, <2>7, <2>8, <2>9, <2>10 DEF Content
<1>3. ASSUME NEW c \in Conns, Websock(c)
      PROVE  \/ cont' = cont /\ srefs' = srefs
         \/ \E d \in Conns : Leave(d) \/ Frame(d) \/ \E t \in Servlets : LookupTakes(d, t)
  <2>1. CASE Accept(c)
    BY <2>1 DEF Accept, Goto, MayTalk
  <2>2. CASE AcceptFails(c)
    BY <2>2 DEF AcceptFails, Goto
  <2>3. CASE AcceptRefused(c)
    BY <2>3 DEF AcceptRefused, Goto
  <2>4. CASE Register(c)
    BY <2>4 DEF Register, Goto
  <2>5. CASE RegisterFails(c)
    BY <2>5 DEF RegisterFails, Goto
  <2>6. CASE Insert(c)
    BY <2>6 DEF Insert, Goto
  <2>7. CASE InsertFails(c)
    BY <2>7 DEF InsertFails, Goto
  <2>8. CASE Frame(c)
    BY <2>8
  <2>9. CASE Frames(c)
    BY <2>9 DEF Frames, WebsockLocal, Goto
  <2>10. CASE Unregister1(c)
    BY <2>10 DEF Unregister1, Goto
  <2>11. CASE Unregister2(c)
    BY <2>11 DEF Unregister2, Goto, AttrFree
  <2>12. CASE Send2(c)
    BY <2>12 DEF Send2, Goto
  <2>13. CASE Send2Take(c)
    BY <2>13 DEF Send2Take, Goto
  <2> QED
    BY <1>3, <2>1, <2>2, <2>3, <2>4, <2>5, <2>6, <2>7, <2>8, <2>9, <2>10, <2>11, <2>12, <2>13, FramesAre DEF
       Websock
<1>4. ASSUME NEW c \in Conns, Connect(c) \/ Arrive(c) \/ Disconnect(c) \/ ConnAttrs(c) \/ ConnFree(c)
      PROVE  \/ cont' = cont /\ srefs' = srefs
         \/ \E d \in Conns : Leave(d) \/ Frame(d) \/ \E t \in Servlets : LookupTakes(d, t)
  <2>1. CASE Connect(c)
    BY <2>1, ConnectIs DEF Life
  <2>2. CASE Disconnect(c)
    BY <2>2, DisconnectIs DEF Life
  <2>3. CASE ConnAttrs(c)
    BY <2>3, ConnAttrsIs DEF Life
  <2>4. CASE ConnFree(c)
    BY <2>4, ConnFreeIs DEF AttrFree, Life
  <2>5. CASE Arrive(c)
    BY <2>5, ArriveIs DEF Goto
  <2> QED
    BY <1>4, <2>1, <2>2, <2>3, <2>4, <2>5
<1>5. CASE Admin
  <2>1. CASE RegisterService
    BY <2>1 DEF RegisterService
  <2>2. CASE UnregisterService
    BY <2>2 DEF UnregisterService, MayUnregisterService
  <2>3. ASSUME NEW s \in Servlets, RegisterServlet(s)
        PROVE  \/ cont' = cont /\ srefs' = srefs
         \/ \E d \in Conns : Leave(d) \/ Frame(d) \/ \E t \in Servlets : LookupTakes(d, t)
    BY <2>3 DEF RegisterServlet
  <2>4. ASSUME NEW s \in Servlets, UnregisterServlet(s)
        PROVE  \/ cont' = cont /\ srefs' = srefs
         \/ \E d \in Conns : Leave(d) \/ Frame(d) \/ \E t \in Servlets : LookupTakes(d, t)
    BY <2>4 DEF UnregisterServlet, MayUnregister
  <2> QED
    BY <1>5, <2>1, <2>2, <2>3, <2>4 DEF Admin
<1>6. CASE ServletFree
  BY <1>6 DEF ServletFree
<1>7. CASE ServiceFree
  BY <1>7 DEF ServiceFree
<1>8. CASE OwnerDestroy \/ Destroying
  <2>1. CASE OwnerDestroy
    BY <2>1 DEF OwnerDestroy, OwnerGoto
  <2>2. CASE OwnerTcp
    BY <2>2 DEF OwnerTcp, OwnerGoto
  <2>3. CASE OwnerTcpGone
    BY <2>3 DEF OwnerTcpGone, OwnerGoto
  <2>4. CASE OwnerServlets
    BY <2>4 DEF OwnerServlets, OwnerGoto
  <2>5. CASE OwnerFree
    BY <2>5 DEF OwnerFree, OwnerGoto
  <2> QED
    BY <1>8, <2>1, <2>2, <2>3, <2>4, <2>5 DEF Destroying
<1>9. CASE Stopped
  BY <1>9 DEF Stopped, vars
<1> QED
  BY <1>1, <1>2, <1>3, <1>4, <1>5, <1>6, <1>7, <1>8, <1>9 DEF Next

(* Handlers take and leave the service in two steps.                        *)
LEMMA OnlyCallers ==
  ASSUME IInv, Next
  PROVE  \/ Callers' = Callers /\ svcrefs' = svcrefs
         \/ \E d \in Conns : ServiceRefs(d) \/ ServiceDerefs(d)
<1> USE DEF owner, table, services, conns, local, registry
<1>a. pc \in [Conns -> Outside \cup InContent \cup InWebsock \cup {"leave"}]
  BY DEF IInv, Inv, TypeOK
<1> USE DEF Callers
<1>1. ASSUME NEW c \in Conns, Handler(c)
      PROVE  \/ Callers' = Callers /\ svcrefs' = svcrefs
         \/ \E d \in Conns : ServiceRefs(d) \/ ServiceDerefs(d)
  <2>1. CASE Begin(c)
    BY <2>1, <1>a DEF Begin, Goto
  <2>0. CASE Return(c)
    BY <2>0, <1>a DEF Return, Goto
  <2>2. CASE Refs(c)
    BY <2>2, <1>a DEF Refs, Goto
  <2>3. CASE HttpConnFails(c)
    BY <2>3, <1>a DEF HttpConnFails, Goto, IsFrame
  <2>4. CASE FrameArrived(c)
    BY <2>4, <1>a DEF FrameArrived, Goto, HttpConn, IsFrame
  <2>5. CASE DecodeFails(c)
    BY <2>5, <1>a DEF DecodeFails, Goto, HttpConn, IsFrame
  <2>6. CASE Decode(c)
    BY <2>6, <1>a DEF Decode, Goto, HttpConn, IsFrame
  <2>7. CASE LookupSlashes(c)
    BY <2>7, <1>a DEF LookupSlashes, Goto
  <2>8. CASE Static(c)
    BY <2>8, <1>a DEF Static, Goto
  <2>9. CASE StaticFails(c)
    BY <2>9, <1>a DEF StaticFails, Goto
  <2>10. CASE Leave(c)
    BY <2>10, <1>a DEF Leave, Goto
  <2>11. CASE Out(c)
    BY <2>11, <1>a DEF Out, Goto
  <2>12. ASSUME NEW s \in Servlets, LookupTakes(c, s)
        PROVE  \/ Callers' = Callers /\ svcrefs' = svcrefs
         \/ \E d \in Conns : ServiceRefs(d) \/ ServiceDerefs(d)
    BY <2>12, <1>a, HttpdAssumption DEF LookupTakes, Goto
  <2> QED
    BY <1>1, <2>0, <2>1, <2>2, <2>3, <2>4, <2>5, <2>6, <2>7, <2>8, <2>9, <2>10, <2>11, <2>12 DEF Handler
<1>2. ASSUME NEW c \in Conns, Content(c)
      PROVE  \/ Callers' = Callers /\ svcrefs' = svcrefs
         \/ \E d \in Conns : ServiceRefs(d) \/ ServiceDerefs(d)
  <2>1. CASE ServletRefuses(c)
    BY <2>1, <1>a DEF ServletRefuses, Goto, ServletLocal
  <2>2. CASE ServletReads(c)
    BY <2>2, <1>a DEF ServletReads, Goto, ServletLocal
  <2>3. CASE ReadSpins(c)
    BY <2>3, <1>a DEF ReadSpins, Goto, vars
  <2>4. CASE ReadFails(c)
    BY <2>4, <1>a DEF ReadFails, Goto, ServletLocal
  <2>5. CASE Upload(c)
    BY <2>5, <1>a DEF Upload, Goto, Parsed
  <2>6. CASE MalformedRequest(c)
    BY <2>6, <1>a DEF MalformedRequest, Goto, Parsed
  <2>7. CASE FindService(c)
    BY <2>7, <1>a DEF FindService, Goto, Parsed
  <2>8. CASE FindNoService(c)
    BY <2>8, <1>a DEF FindNoService, Goto, Parsed
  <2>9. CASE ServiceRefs(c)
    BY <2>9
  <2>10. CASE ServiceDerefs(c)
    BY <2>10
  <2> QED
    BY <1>2, <2>1, <2>2, <2>3, <2>4, <2>5, <2>6, <2>7, <2>8, <2>9, <2>10 DEF Content
<1>3. ASSUME NEW c \in Conns, Websock(c)
      PROVE  \/ Callers' = Callers /\ svcrefs' = svcrefs
         \/ \E d \in Conns : ServiceRefs(d) \/ ServiceDerefs(d)
  <2>1. CASE Accept(c)
    BY <2>1, <1>a DEF Accept, Goto, MayTalk
  <2>2. CASE AcceptFails(c)
    BY <2>2, <1>a DEF AcceptFails, Goto
  <2>3. CASE AcceptRefused(c)
    BY <2>3, <1>a DEF AcceptRefused, Goto
  <2>4. CASE Register(c)
    BY <2>4, <1>a DEF Register, Goto
  <2>5. CASE RegisterFails(c)
    BY <2>5, <1>a DEF RegisterFails, Goto
  <2>6. CASE Insert(c)
    BY <2>6, <1>a DEF Insert, Goto
  <2>7. CASE InsertFails(c)
    BY <2>7, <1>a DEF InsertFails, Goto
  <2>8. CASE Frame(c)
    BY <2>8, <1>a DEF Frame, Goto
  <2>9. CASE Frames(c)
    BY <2>9, <1>a DEF Frames, WebsockLocal, Goto
  <2>10. CASE Unregister1(c)
    BY <2>10, <1>a DEF Unregister1, Goto
  <2>11. CASE Unregister2(c)
    BY <2>11, <1>a DEF Unregister2, Goto, AttrFree
  <2>12. CASE Send2(c)
    BY <2>12, <1>a DEF Send2, Goto
  <2>13. CASE Send2Take(c)
    BY <2>13, <1>a DEF Send2Take, Goto
  <2> QED
    BY <1>3, <2>1, <2>2, <2>3, <2>4, <2>5, <2>6, <2>7, <2>8, <2>9, <2>10, <2>11, <2>12, <2>13, FramesAre DEF
       Websock
<1>4. ASSUME NEW c \in Conns, Connect(c) \/ Arrive(c) \/ Disconnect(c) \/ ConnAttrs(c) \/ ConnFree(c)
      PROVE  \/ Callers' = Callers /\ svcrefs' = svcrefs
         \/ \E d \in Conns : ServiceRefs(d) \/ ServiceDerefs(d)
  <2>1. CASE Connect(c)
    BY <2>1, <1>a, ConnectIs DEF Life
  <2>2. CASE Disconnect(c)
    BY <2>2, <1>a, DisconnectIs DEF Life
  <2>3. CASE ConnAttrs(c)
    BY <2>3, <1>a, ConnAttrsIs DEF Life
  <2>4. CASE ConnFree(c)
    BY <2>4, <1>a, ConnFreeIs DEF AttrFree, Life
  <2>5. CASE Arrive(c)
    BY <2>5, <1>a, ArriveIs DEF Goto
  <2> QED
    BY <1>4, <2>1, <2>2, <2>3, <2>4, <2>5
<1>5. CASE Admin
  <2>1. CASE RegisterService
    BY <2>1, <1>a DEF RegisterService
  <2>2. CASE UnregisterService
    BY <2>2, <1>a DEF UnregisterService, MayUnregisterService
  <2>3. ASSUME NEW s \in Servlets, RegisterServlet(s)
        PROVE  \/ Callers' = Callers /\ svcrefs' = svcrefs
         \/ \E d \in Conns : ServiceRefs(d) \/ ServiceDerefs(d)
    BY <2>3, <1>a DEF RegisterServlet
  <2>4. ASSUME NEW s \in Servlets, UnregisterServlet(s)
        PROVE  \/ Callers' = Callers /\ svcrefs' = svcrefs
         \/ \E d \in Conns : ServiceRefs(d) \/ ServiceDerefs(d)
    BY <2>4, <1>a DEF UnregisterServlet, MayUnregister
  <2> QED
    BY <1>5, <2>1, <2>2, <2>3, <2>4 DEF Admin
<1>6. CASE ServletFree
  BY <1>6, <1>a DEF ServletFree
<1>7. CASE ServiceFree
  BY <1>7, <1>a DEF ServiceFree
<1>8. CASE OwnerDestroy \/ Destroying
  <2>1. CASE OwnerDestroy
    BY <2>1, <1>a DEF OwnerDestroy, OwnerGoto
  <2>2. CASE OwnerTcp
    BY <2>2, <1>a DEF OwnerTcp, OwnerGoto
  <2>3. CASE OwnerTcpGone
    BY <2>3, <1>a DEF OwnerTcpGone, OwnerGoto
  <2>4. CASE OwnerServlets
    BY <2>4, <1>a DEF OwnerServlets, OwnerGoto
  <2>5. CASE OwnerFree
    BY <2>5, <1>a DEF OwnerFree, OwnerGoto
  <2> QED
    BY <1>8, <2>1, <2>2, <2>3, <2>4, <2>5 DEF Destroying
<1>9. CASE Stopped
  BY <1>9, <1>a DEF Stopped, vars
<1> QED
  BY <1>1, <1>2, <1>3, <1>4, <1>5, <1>6, <1>7, <1>8, <1>9 DEF Next

(* container->refs counts the handlers that have the container.             *)
LEMMA NextHolders ==
  ASSUME IInv, Next, NEW s \in Servlets
  PROVE  srefs'[s] = Cardinality(Holders(s)')
<1> DEFINE n == Cardinality(Holders(s))
<1>1. srefs[s] = n
  BY DEF IInv, Inv, ServletOutlives, Holders
<1>2. /\ cont \in [Conns -> Servlets \cup {NULL}] /\ srefs \in [Servlets -> Nat]
      /\ stage \in [Servlets -> {"none", "live", "dying"}]
      /\ wscontainer \in [Conns -> Servlets \cup {NULL}]
      /\ pc \in [Conns -> Outside \cup InContent \cup InWebsock \cup {"leave"}]
  BY DEF IInv, Inv, TypeOK
<1>3. Holders(s) \in SUBSET Conns
  BY DEF Holders
<1>4. \A c \in Conns : Remembers(c)
  BY DEF IInv, Inv, Containers
<1>5. CASE cont' = cont /\ srefs' = srefs
  BY <1>1, <1>5 DEF Holders
<1>6. ASSUME NEW c \in Conns, NEW k \in Servlets, cont[c] = NULL,
             cont' = [cont EXCEPT ![c] = k], srefs' = [srefs EXCEPT ![k] = srefs[k] + 1]
      PROVE  srefs'[s] = Cardinality(Holders(s)')
  <2>1. CASE k = s
    <3>1. Holders(s)' = Holders(s) \cup {c} /\ c \notin Holders(s)
      BY <1>2, <1>6, <2>1, HttpdAssumption DEF Holders
    <3>2. srefs'[s] = srefs[s] + 1
      BY <1>2, <1>6, <2>1
    <3> QED
      BY <1>1, <1>3, <3>1, <3>2, Counting
  <2>2. CASE k # s
    <3>1. Holders(s)' = Holders(s)
      BY <1>2, <1>6, <2>2, HttpdAssumption DEF Holders
    <3>2. srefs'[s] = srefs[s]
      BY <1>2, <1>6, <2>2
    <3> QED
      BY <1>1, <3>1, <3>2
  <2> QED
    BY <2>1, <2>2
<1>7. ASSUME NEW c \in Conns, NEW k \in Servlets, LookupTakes(c, k)
      PROVE  srefs'[s] = Cardinality(Holders(s)')
  <2>1. cont[c] = NULL
    BY <1>4, <1>7 DEF Remembers, LookupTakes, Goto, Outside
  <2>2. cont' = [cont EXCEPT ![c] = k] /\ srefs' = [srefs EXCEPT ![k] = srefs[k] + 1]
    BY <1>7 DEF LookupTakes
  <2> QED
    BY <1>6, <2>1, <2>2
<1>8. ASSUME NEW c \in Conns, Frame(c)
      PROVE  srefs'[s] = Cardinality(Holders(s)')
  <2> DEFINE k == IF life[c] = "open" THEN wscontainer[c] ELSE NULL
  <2>1. cont[c] = NULL
    BY <1>4, <1>8 DEF Remembers, Frame, Goto, Outside
  <2>2. /\ cont' = [cont EXCEPT ![c] = k]
        /\ srefs' = IF k # NULL /\ stage[k] = "live" THEN [srefs EXCEPT ![k] = srefs[k] + 1] ELSE srefs
    BY <1>8 DEF Frame
  <2>3. k \in Servlets \cup {NULL}
    BY <1>2
  <2>4. k # NULL => k \in Servlets /\ stage[k] = "live"
    <3>1. k # NULL => k = "websock" /\ wscontainer[c] # NULL
      BY <1>4 DEF Remembers
    <3> QED
      BY <2>3, <3>1 DEF IInv, Inv, Containers
  <2>5. CASE k = NULL
    <3>1. cont' = cont /\ srefs' = srefs
      BY <1>2, <2>1, <2>2, <2>5
    <3> QED
      BY <1>5, <3>1
  <2>6. CASE k # NULL
    <3> HIDE DEF k
    <3> QED
      BY <1>6, <2>1, <2>2, <2>4, <2>6
  <2> QED
    BY <2>5, <2>6
<1>9. ASSUME NEW c \in Conns, Leave(c)
      PROVE  srefs'[s] = Cardinality(Holders(s)')
  <2>1. cont[c] \in Servlets
    BY <1>2, <1>4, <1>9 DEF Remembers, Leave, Goto
  <2>2. /\ cont' = [cont EXCEPT ![c] = NULL]
        /\ srefs' = [srefs EXCEPT ![cont[c]] = IF srefs[cont[c]] > 0 THEN srefs[cont[c]] - 1 ELSE 0]
    BY <1>9 DEF Leave
  <2>3. CASE cont[c] = s
    <3>1. Holders(s)' = Holders(s) \ {c} /\ c \in Holders(s)
      BY <1>2, <2>2, <2>3, HttpdAssumption DEF Holders
    <3>2. Cardinality(Holders(s)) > 0 /\ Cardinality(Holders(s)') = Cardinality(Holders(s)) - 1
      BY <1>3, <3>1, Counting
    <3>3. srefs'[s] = IF srefs[s] > 0 THEN srefs[s] - 1 ELSE 0
      BY <1>2, <2>2, <2>3
    <3> QED
      BY <1>1, <3>2, <3>3
  <2>4. CASE cont[c] # s
    <3>1. Holders(s)' = Holders(s)
      BY <1>2, <2>2, <2>4, HttpdAssumption DEF Holders
    <3>2. srefs'[s] = srefs[s]
      BY <1>2, <2>1, <2>2, <2>4
    <3> QED
      BY <1>1, <3>1, <3>2
  <2> QED
    BY <2>3, <2>4
<1> QED
  BY <1>5, <1>7, <1>8, <1>9, OnlyTakers

(* The references of the service count the handlers that are in it.         *)
LEMMA NextCallers ==
  ASSUME IInv, Next
  PROVE  svcrefs' = Cardinality(Callers')
<1>1. svcrefs = Cardinality(Callers) /\ Callers \in SUBSET Conns
  BY DEF IInv, Inv, ServletOutlives, Callers
<1>2. pc \in [Conns -> Outside \cup InContent \cup InWebsock \cup {"leave"}]
  BY DEF IInv, Inv, TypeOK
<1>3. CASE Callers' = Callers /\ svcrefs' = svcrefs
  BY <1>1, <1>3
<1>4. ASSUME NEW c \in Conns, ServiceRefs(c)
      PROVE  svcrefs' = Cardinality(Callers')
  <2>1. Callers' = Callers \cup {c} /\ c \notin Callers
    BY <1>2, <1>4 DEF ServiceRefs, Goto, Callers
  <2>2. svcrefs' = svcrefs + 1
    BY <1>4 DEF ServiceRefs
  <2> QED
    BY <1>1, <2>1, <2>2, Counting
<1>5. ASSUME NEW c \in Conns, ServiceDerefs(c)
      PROVE  svcrefs' = Cardinality(Callers')
  <2>1. Callers' = Callers \ {c} /\ c \in Callers
    BY <1>2, <1>5 DEF ServiceDerefs, Goto, Callers
  <2>2. svcrefs' = IF svcrefs > 0 THEN svcrefs - 1 ELSE 0
    BY <1>5 DEF ServiceDerefs
  <2>3. Cardinality(Callers') = Cardinality(Callers) - 1 /\ Cardinality(Callers) > 0
    BY <1>1, <2>1, Counting
  <2> QED
    BY <1>1, <2>2, <2>3
<1> QED
  BY <1>3, <1>4, <1>5, OnlyCallers

(* A container without a reference has no handler, and then nobody is in a  *)
(* service of its servlet.                                                  *)
LEMMA Unheld ==
  ASSUME IInv, NEW s \in Servlets, srefs[s] = 0, NEW c \in Conns
  PROVE  cont[c] # s
<1>1. Holders(s) \in SUBSET Conns /\ Cardinality(Holders(s)) = 0
  BY DEF IInv, Inv, ServletOutlives, Holders
<1>2. c \in Holders(s) => Cardinality(Holders(s)) > 0
  BY <1>1, Counting, Zenon
<1>3. c \notin Holders(s)
  BY <1>1, <1>2
<1> QED
  BY <1>3 DEF Holders

(* A container is there as long as a handler has it.                        *)
LEMMA NextHeldStays ==
  ASSUME IInv, Next, NEW d \in Conns
  PROVE  cont'[d] # NULL => stage'[cont'[d]] # "none"
<1> USE HttpdAssumption DEF owner, table, services, conns, local, registry
<1>a. /\ pc \in [Conns -> Outside \cup InContent \cup InWebsock \cup {"leave"}]
      /\ cont \in [Conns -> Servlets \cup {NULL}]
      /\ stage \in [Servlets -> {"none", "live", "dying"}] /\ unreg \in Servlets \cup {NULL}
      /\ \A k \in Conns : cont[k] # NULL => stage[cont[k]] # "none"
  <2>1. \A k \in Conns : cont[k] # NULL => cont[k] \in Servlets /\ srefs[cont[k]] # 0
    BY Unheld DEF IInv, Inv, TypeOK
  <2>2. \A k \in Conns : cont[k] # NULL => srefs[cont[k]] \in Nat
    BY <2>1 DEF IInv, Inv, TypeOK
  <2>3. \A k \in Conns : cont[k] # NULL => stage[cont[k]] # "none"
    <3>1. \A s \in Servlets : srefs[s] > 0 => stage[s] # "none"
      BY DEF IInv, Inv, ServletOutlives
    <3>2. \A n \in Nat : n # 0 => n > 0
      OBVIOUS
    <3> QED
      BY <2>1, <2>2, <3>1, <3>2, Zenon
  <2> QED
    BY <2>3 DEF IInv, Inv, TypeOK
<1>b. \A k \in Conns : Remembers(k)
  BY DEF IInv, Inv, Containers
<1>1. ASSUME NEW c \in Conns, Handler(c)
      PROVE  cont'[d] # NULL => stage'[cont'[d]] # "none"
  <2>1. CASE Begin(c)
    BY <2>1, <1>a DEF Begin, Goto
  <2>0. CASE Return(c)
    BY <2>0, <1>a DEF Return, Goto
  <2>2. CASE Refs(c)
    BY <2>2, <1>a DEF Refs, Goto
  <2>3. CASE HttpConnFails(c)
    BY <2>3, <1>a DEF HttpConnFails, Goto, IsFrame
  <2>4. CASE FrameArrived(c)
    BY <2>4, <1>a DEF FrameArrived, Goto, HttpConn, IsFrame
  <2>5. CASE DecodeFails(c)
    BY <2>5, <1>a DEF DecodeFails, Goto, HttpConn, IsFrame
  <2>6. CASE Decode(c)
    BY <2>6, <1>a DEF Decode, Goto, HttpConn, IsFrame
  <2>7. CASE LookupSlashes(c)
    BY <2>7, <1>a DEF LookupSlashes, Goto
  <2>8. CASE Static(c)
    BY <2>8, <1>a DEF Static, Goto
  <2>9. CASE StaticFails(c)
    BY <2>9, <1>a DEF StaticFails, Goto
  <2>10. CASE Leave(c)
    BY <2>10, <1>a DEF Leave, Goto
  <2>11. CASE Out(c)
    BY <2>11, <1>a DEF Out, Goto
  <2>12. ASSUME NEW s \in Servlets, LookupTakes(c, s)
        PROVE  cont'[d] # NULL => stage'[cont'[d]] # "none"
    BY <2>12, <1>a DEF LookupTakes, Goto
  <2> QED
    BY <1>1, <2>0, <2>1, <2>2, <2>3, <2>4, <2>5, <2>6, <2>7, <2>8, <2>9, <2>10, <2>11, <2>12 DEF Handler
<1>2. ASSUME NEW c \in Conns, Content(c)
      PROVE  cont'[d] # NULL => stage'[cont'[d]] # "none"
  <2>1. CASE ServletRefuses(c)
    BY <2>1, <1>a DEF ServletRefuses, Goto, ServletLocal
  <2>2. CASE ServletReads(c)
    BY <2>2, <1>a DEF ServletReads, Goto, ServletLocal
  <2>3. CASE ReadSpins(c)
    BY <2>3, <1>a DEF ReadSpins, Goto, vars
  <2>4. CASE ReadFails(c)
    BY <2>4, <1>a DEF ReadFails, Goto, ServletLocal
  <2>5. CASE Upload(c)
    BY <2>5, <1>a DEF Upload, Goto, Parsed
  <2>6. CASE MalformedRequest(c)
    BY <2>6, <1>a DEF MalformedRequest, Goto, Parsed
  <2>7. CASE FindService(c)
    BY <2>7, <1>a DEF FindService, Goto, Parsed
  <2>8. CASE FindNoService(c)
    BY <2>8, <1>a DEF FindNoService, Goto, Parsed
  <2>9. CASE ServiceRefs(c)
    BY <2>9, <1>a DEF ServiceRefs, Goto
  <2>10. CASE ServiceDerefs(c)
    BY <2>10, <1>a DEF ServiceDerefs, Goto
  <2> QED
    BY <1>2, <2>1, <2>2, <2>3, <2>4, <2>5, <2>6, <2>7, <2>8, <2>9, <2>10 DEF Content
<1>3. ASSUME NEW c \in Conns, Websock(c)
      PROVE  cont'[d] # NULL => stage'[cont'[d]] # "none"
  <2>1. CASE Accept(c)
    BY <2>1, <1>a DEF Accept, Goto, MayTalk
  <2>2. CASE AcceptFails(c)
    BY <2>2, <1>a DEF AcceptFails, Goto
  <2>3. CASE AcceptRefused(c)
    BY <2>3, <1>a DEF AcceptRefused, Goto
  <2>4. CASE Register(c)
    BY <2>4, <1>a DEF Register, Goto
  <2>5. CASE RegisterFails(c)
    BY <2>5, <1>a DEF RegisterFails, Goto
  <2>6. CASE Insert(c)
    BY <2>6, <1>a DEF Insert, Goto
  <2>7. CASE InsertFails(c)
    BY <2>7, <1>a DEF InsertFails, Goto
  <2>8. CASE Frame(c)
    <3> DEFINE k == IF life[c] = "open" THEN wscontainer[c] ELSE NULL
    <3>1. cont' = [cont EXCEPT ![c] = k] /\ stage' = stage
      BY <2>8 DEF Frame
    <3>2. k # NULL => k = "websock" /\ wscontainer[c] # NULL
      BY <1>b DEF Remembers
    <3>3. k # NULL => stage[k] # "none"
      <4>1. k \in Servlets \cup {NULL}
        BY DEF IInv, Inv, TypeOK
      <4> QED
        BY <3>2, <4>1 DEF IInv, Inv, Containers
    <3>4. c = d => cont'[d] = k
      BY <3>1, <1>a
    <3>5. c # d => cont'[d] = cont[d]
      BY <3>1, <1>a
    <3> HIDE DEF k
    <3> QED
      BY <3>1, <3>3, <3>4, <3>5, <1>a
  <2>9. CASE Frames(c)
    BY <2>9, <1>a DEF Frames, WebsockLocal, Goto
  <2>10. CASE Unregister1(c)
    BY <2>10, <1>a DEF Unregister1, Goto
  <2>11. CASE Unregister2(c)
    BY <2>11, <1>a DEF Unregister2, Goto, AttrFree
  <2>12. CASE Send2(c)
    BY <2>12, <1>a DEF Send2, Goto
  <2>13. CASE Send2Take(c)
    BY <2>13, <1>a DEF Send2Take, Goto
  <2> QED
    BY <1>3, <2>1, <2>2, <2>3, <2>4, <2>5, <2>6, <2>7, <2>8, <2>9, <2>10, <2>11, <2>12, <2>13, FramesAre DEF
       Websock
<1>4. ASSUME NEW c \in Conns, Connect(c) \/ Arrive(c) \/ Disconnect(c) \/ ConnAttrs(c) \/ ConnFree(c)
      PROVE  cont'[d] # NULL => stage'[cont'[d]] # "none"
  <2>1. CASE Connect(c)
    BY <2>1, <1>a, ConnectIs DEF Life
  <2>2. CASE Disconnect(c)
    BY <2>2, <1>a, DisconnectIs DEF Life
  <2>3. CASE ConnAttrs(c)
    BY <2>3, <1>a, ConnAttrsIs DEF Life
  <2>4. CASE ConnFree(c)
    BY <2>4, <1>a, ConnFreeIs DEF AttrFree, Life
  <2>5. CASE Arrive(c)
    BY <2>5, <1>a, ArriveIs DEF Goto
  <2> QED
    BY <1>4, <2>1, <2>2, <2>3, <2>4, <2>5
<1>5. CASE Admin
  <2>1. CASE RegisterService
    BY <2>1, <1>a DEF RegisterService
  <2>2. CASE UnregisterService
    BY <2>2, <1>a DEF UnregisterService, MayUnregisterService
  <2>3. ASSUME NEW s \in Servlets, RegisterServlet(s)
        PROVE  cont'[d] # NULL => stage'[cont'[d]] # "none"
    BY <2>3, <1>a DEF RegisterServlet
  <2>4. ASSUME NEW s \in Servlets, UnregisterServlet(s)
        PROVE  cont'[d] # NULL => stage'[cont'[d]] # "none"
    BY <2>4, <1>a DEF UnregisterServlet, MayUnregister
  <2> QED
    BY <1>5, <2>1, <2>2, <2>3, <2>4 DEF Admin
<1>6. CASE ServletFree
  <2>1. cont[d] # unreg
    BY <1>6, <1>a, Unheld DEF ServletFree
  <2> QED
    BY <1>6, <2>1, <1>a DEF ServletFree
<1>7. CASE ServiceFree
  BY <1>7, <1>a DEF ServiceFree
<1>8. CASE OwnerDestroy \/ Destroying
  <2>1. CASE OwnerDestroy
    BY <2>1, <1>a DEF OwnerDestroy, OwnerGoto
  <2>2. CASE OwnerTcp
    BY <2>2, <1>a DEF OwnerTcp, OwnerGoto
  <2>3. CASE OwnerTcpGone
    BY <2>3, <1>a DEF OwnerTcpGone, OwnerGoto
  <2>4. CASE OwnerServlets
    BY <2>4, <1>a DEF OwnerServlets, OwnerGoto
  <2>5. CASE OwnerFree
    <3>1. cont[d] = NULL
      BY <2>5, <1>a, Unheld DEF OwnerFree
    <3> QED
      BY <2>5, <3>1, <1>a DEF OwnerFree, OwnerGoto
  <2> QED
    BY <1>8, <2>1, <2>2, <2>3, <2>4, <2>5 DEF Destroying
<1>9. CASE Stopped
  BY <1>9, <1>a DEF Stopped, vars
<1> QED
  BY <1>1, <1>2, <1>3, <1>4, <1>5, <1>6, <1>7, <1>8, <1>9 DEF Next

(* A service is there as long as a handler has found it or is in it.        *)
LEMMA NextServiceStays ==
  ASSUME IInv, Next, NEW d \in Conns
  PROVE  pc'[d] \in {"found", "call"} => svc' # "none"
<1> USE HttpdAssumption DEF owner, table, services, conns, local, registry
<1>a. /\ pc \in [Conns -> Outside \cup InContent \cup InWebsock \cup {"leave"}]
      /\ svc \in {"none", "live", "dying"} /\ svcrefs \in Nat
      /\ (pc[d] \in {"found", "call"} => svc # "none")
      /\ (pc[d] = "found" => svc = "live")
      /\ (pc[d] = "call" => svcrefs # 0)
  <2>1. /\ pc \in [Conns -> Outside \cup InContent \cup InWebsock \cup {"leave"}]
        /\ svc \in {"none", "live", "dying"} /\ svcrefs \in Nat
    BY DEF IInv, Inv, TypeOK
  <2>2. svcrefs = Cardinality(Callers) /\ Callers \in SUBSET Conns
    BY DEF IInv, Inv, ServletOutlives, Callers
  <2>3. pc[d] = "call" => svcrefs # 0
    <3>1. pc[d] = "call" => d \in Callers
      BY DEF Callers
    <3>2. d \in Callers => Cardinality(Callers) > 0
      BY <2>2, Counting, Zenon
    <3> QED
      BY <2>2, <3>1, <3>2
  <2>4. pc[d] = "found" => svc = "live"
    BY <2>1 DEF IInv, Inv, Tables, ServletOutlives
  <2> QED
    BY <2>1, <2>3, <2>4 DEF IInv, Inv, ServletOutlives
<1>b. Remembers(d) /\ (life[d] = "none" => pc[d] = "idle")
  BY DEF IInv, Inv, Containers, Lives
<1>1. ASSUME NEW c \in Conns, Handler(c)
      PROVE  pc'[d] \in {"found", "call"} => svc' # "none"
  <2>1. CASE Begin(c)
    BY <2>1, <1>a DEF Begin, Goto
  <2>0. CASE Return(c)
    BY <2>0, <1>a DEF Return, Goto
  <2>2. CASE Refs(c)
    BY <2>2, <1>a DEF Refs, Goto
  <2>3. CASE HttpConnFails(c)
    BY <2>3, <1>a DEF HttpConnFails, Goto, IsFrame
  <2>4. CASE FrameArrived(c)
    BY <2>4, <1>a DEF FrameArrived, Goto, HttpConn, IsFrame
  <2>5. CASE DecodeFails(c)
    BY <2>5, <1>a DEF DecodeFails, Goto, HttpConn, IsFrame
  <2>6. CASE Decode(c)
    BY <2>6, <1>a DEF Decode, Goto, HttpConn, IsFrame
  <2>7. CASE LookupSlashes(c)
    BY <2>7, <1>a DEF LookupSlashes, Goto
  <2>8. CASE Static(c)
    BY <2>8, <1>a DEF Static, Goto
  <2>9. CASE StaticFails(c)
    BY <2>9, <1>a DEF StaticFails, Goto
  <2>10. CASE Leave(c)
    BY <2>10, <1>a DEF Leave, Goto
  <2>11. CASE Out(c)
    BY <2>11, <1>a DEF Out, Goto
  <2>12. ASSUME NEW s \in Servlets, LookupTakes(c, s)
        PROVE  pc'[d] \in {"found", "call"} => svc' # "none"
    BY <2>12, <1>a DEF LookupTakes, Goto
  <2> QED
    BY <1>1, <2>0, <2>1, <2>2, <2>3, <2>4, <2>5, <2>6, <2>7, <2>8, <2>9, <2>10, <2>11, <2>12 DEF Handler
<1>2. ASSUME NEW c \in Conns, Content(c)
      PROVE  pc'[d] \in {"found", "call"} => svc' # "none"
  <2>1. CASE ServletRefuses(c)
    BY <2>1, <1>a DEF ServletRefuses, Goto, ServletLocal
  <2>2. CASE ServletReads(c)
    BY <2>2, <1>a DEF ServletReads, Goto, ServletLocal
  <2>3. CASE ReadSpins(c)
    BY <2>3, <1>a DEF ReadSpins, Goto, vars
  <2>4. CASE ReadFails(c)
    BY <2>4, <1>a DEF ReadFails, Goto, ServletLocal
  <2>5. CASE Upload(c)
    BY <2>5, <1>a DEF Upload, Goto, Parsed
  <2>6. CASE MalformedRequest(c)
    BY <2>6, <1>a DEF MalformedRequest, Goto, Parsed
  <2>7. CASE FindService(c)
    BY <2>7, <1>a DEF FindService, Goto, Parsed
  <2>8. CASE FindNoService(c)
    BY <2>8, <1>a DEF FindNoService, Goto, Parsed
  <2>9. CASE ServiceRefs(c)
    BY <2>9, <1>a DEF ServiceRefs, Goto
  <2>10. CASE ServiceDerefs(c)
    BY <2>10, <1>a DEF ServiceDerefs, Goto
  <2> QED
    BY <1>2, <2>1, <2>2, <2>3, <2>4, <2>5, <2>6, <2>7, <2>8, <2>9, <2>10 DEF Content
<1>3. ASSUME NEW c \in Conns, Websock(c)
      PROVE  pc'[d] \in {"found", "call"} => svc' # "none"
  <2>1. CASE Accept(c)
    BY <2>1, <1>a DEF Accept, Goto, MayTalk
  <2>2. CASE AcceptFails(c)
    BY <2>2, <1>a DEF AcceptFails, Goto
  <2>3. CASE AcceptRefused(c)
    BY <2>3, <1>a DEF AcceptRefused, Goto
  <2>4. CASE Register(c)
    BY <2>4, <1>a DEF Register, Goto
  <2>5. CASE RegisterFails(c)
    BY <2>5, <1>a DEF RegisterFails, Goto
  <2>6. CASE Insert(c)
    BY <2>6, <1>a DEF Insert, Goto
  <2>7. CASE InsertFails(c)
    BY <2>7, <1>a DEF InsertFails, Goto
  <2>8. CASE Frame(c)
    BY <2>8, <1>a DEF Frame, Goto
  <2>9. CASE Frames(c)
    BY <2>9, <1>a DEF Frames, WebsockLocal, Goto
  <2>10. CASE Unregister1(c)
    BY <2>10, <1>a DEF Unregister1, Goto
  <2>11. CASE Unregister2(c)
    BY <2>11, <1>a DEF Unregister2, Goto, AttrFree
  <2>12. CASE Send2(c)
    BY <2>12, <1>a DEF Send2, Goto
  <2>13. CASE Send2Take(c)
    BY <2>13, <1>a DEF Send2Take, Goto
  <2> QED
    BY <1>3, <2>1, <2>2, <2>3, <2>4, <2>5, <2>6, <2>7, <2>8, <2>9, <2>10, <2>11, <2>12, <2>13, FramesAre DEF
       Websock
<1>4. ASSUME NEW c \in Conns, Connect(c) \/ Arrive(c) \/ Disconnect(c) \/ ConnAttrs(c) \/ ConnFree(c)
      PROVE  pc'[d] \in {"found", "call"} => svc' # "none"
  <2>1. CASE Connect(c)
    BY <2>1, <1>a, ConnectIs DEF Life
  <2>2. CASE Disconnect(c)
    BY <2>2, <1>a, DisconnectIs DEF Life
  <2>3. CASE ConnAttrs(c)
    BY <2>3, <1>a, ConnAttrsIs DEF Life
  <2>4. CASE ConnFree(c)
    BY <2>4, <1>a, ConnFreeIs DEF AttrFree, Life
  <2>5. CASE Arrive(c)
    BY <2>5, <1>a, ArriveIs DEF Goto
  <2> QED
    BY <1>4, <2>1, <2>2, <2>3, <2>4, <2>5
<1>5. CASE Admin
  <2>1. CASE RegisterService
    BY <2>1, <1>a DEF RegisterService
  <2>2. CASE UnregisterService
    BY <2>2, <1>a DEF UnregisterService, MayUnregisterService
  <2>3. ASSUME NEW s \in Servlets, RegisterServlet(s)
        PROVE  pc'[d] \in {"found", "call"} => svc' # "none"
    BY <2>3, <1>a DEF RegisterServlet
  <2>4. ASSUME NEW s \in Servlets, UnregisterServlet(s)
        PROVE  pc'[d] \in {"found", "call"} => svc' # "none"
    BY <2>4, <1>a DEF UnregisterServlet, MayUnregister
  <2> QED
    BY <1>5, <2>1, <2>2, <2>3, <2>4 DEF Admin
<1>6. CASE ServletFree
  <2>1. CASE unreg = "content"
    <3>1. cont[d] # "content"
      BY <1>6, <2>1, Unheld DEF ServletFree, IInv, Inv, TypeOK
    <3>2. pc[d] \notin {"found", "call"}
      BY <3>1, <1>b DEF Remembers, InContent
    <3> QED
      BY <1>6, <3>2 DEF ServletFree
  <2>2. CASE unreg # "content"
    BY <1>6, <2>2, <1>a DEF ServletFree
  <2> QED
    BY <2>1, <2>2
<1>7. CASE ServiceFree
  BY <1>7, <1>a DEF ServiceFree
<1>8. CASE OwnerDestroy \/ Destroying
  <2>1. CASE OwnerDestroy
    BY <2>1, <1>a DEF OwnerDestroy, OwnerGoto
  <2>2. CASE OwnerTcp
    BY <2>2, <1>a DEF OwnerTcp, OwnerGoto
  <2>3. CASE OwnerTcpGone
    BY <2>3, <1>a DEF OwnerTcpGone, OwnerGoto
  <2>4. CASE OwnerServlets
    BY <2>4, <1>a DEF OwnerServlets, OwnerGoto
  <2>5. CASE OwnerFree
    <3>1. life[d] = "none"
      BY <2>5 DEF OwnerFree, OwnerGoto, IInv, Inv, Lives
    <3> QED
      BY <2>5, <3>1, <1>b DEF OwnerFree, OwnerGoto
  <2> QED
    BY <1>8, <2>1, <2>2, <2>3, <2>4, <2>5 DEF Destroying
<1>9. CASE Stopped
  BY <1>9, <1>a DEF Stopped, vars
<1> QED
  BY <1>1, <1>2, <1>3, <1>4, <1>5, <1>6, <1>7, <1>8, <1>9 DEF Next

LEMMA NextServletOutlives ==
  ASSUME IInv, Next
  PROVE  ServletOutlives'
<1>1. ASSUME NEW s \in Servlets
      PROVE  srefs'[s] = Cardinality(Holders(s)') /\ (srefs'[s] > 0 => stage'[s] # "none")
  <2>1. srefs'[s] = Cardinality(Holders(s)')
    BY NextHolders
  <2>2. ASSUME srefs'[s] > 0
        PROVE  stage'[s] # "none"
    <3>1. Holders(s)' # {}
      BY <2>1, <2>2, FS_EmptySet
    <3>2. PICK c \in Conns : cont'[c] = s
      BY <3>1 DEF Holders
    <3> QED
      BY <3>2, NextHeldStays, HttpdAssumption
  <2> QED
    BY <2>1, <2>2
<1>2. svcrefs' = Cardinality(Callers')
  BY NextCallers
<1>3. svcrefs' > 0 \/ (\E c \in Conns : pc'[c] = "found") => svc' # "none"
  <2>1. CASE svcrefs' > 0
    <3>1. Callers' # {}
      BY <1>2, <2>1, FS_EmptySet
    <3>2. PICK c \in Conns : pc'[c] = "call"
      BY <3>1 DEF Callers
    <3> QED
      BY <3>2, NextServiceStays
  <2> QED
    BY <2>1, NextServiceStays
<1> QED
  BY <1>1, <1>2, <1>3 DEF ServletOutlives, Holders, Callers

(* The attribute, the registry and the calls of on_close, if no connection  *)
(* ends while its websocket is accepted.                                    *)
LEMMA NextRegistered ==
  ASSUME ~LateClose, IInv, Next, NEW d \in Conns
  PROVE  Registering(d)'
<1> USE HttpdAssumption DEF owner, table, services, conns, local, registry, Outside, InContent,
   InWebsock, InAccept, InFrame, Kinds
<1>a. /\ pc \in [Conns -> Outside \cup InContent \cup InWebsock \cup {"leave"}]
      /\ life \in [Conns -> {"none", "open", "dying", "attrs"}]
      /\ http_conn \in [Conns -> BOOLEAN] /\ websock \in [Conns -> BOOLEAN]
      /\ wsattr \in [Conns -> {"none", "added", "registered"}]
      /\ closes \in [Conns -> Nat] /\ sockets \subseteq Conns /\ fl_destroyed \in BOOLEAN
      /\ \A k \in Conns : Registering(k) /\ Remembers(k)
      /\ \A k \in Conns : life[k] \in {"none", "attrs"} => pc[k] = "idle"
      /\ \A k \in Conns : life[k] = "none" => ~websock[k] /\ wsattr[k] = "none"
  BY DEF IInv, Inv, Containers, TypeOK, Lives, Registered
<1> USE DEF Registering
<1>1. ASSUME NEW c \in Conns, Handler(c)
      PROVE  Registering(d)'
  <2>1. CASE Begin(c)
    BY <2>1, <1>a DEF Begin, Goto
  <2>0. CASE Return(c)
    BY <2>0, <1>a DEF Return, Goto
  <2>2. CASE Refs(c)
    BY <2>2, <1>a DEF Refs, Goto
  <2>3. CASE HttpConnFails(c)
    BY <2>3, <1>a DEF HttpConnFails, Goto, IsFrame
  <2>4. CASE FrameArrived(c)
    BY <2>4, <1>a DEF FrameArrived, Goto, HttpConn, IsFrame
  <2>5. CASE DecodeFails(c)
    BY <2>5, <1>a DEF DecodeFails, Goto, HttpConn, IsFrame
  <2>6. CASE Decode(c)
    <3>1. /\ http_conn' = [http_conn EXCEPT ![c] = http_conn[c] \/ life[c] = "open"]
          /\ UNCHANGED <<life, websock, wsattr, sockets, closes>>
      BY <2>6 DEF Decode, HttpConn
    <3>2. http_conn'[d] = (http_conn[d] \/ (c = d /\ life[c] = "open"))
      BY <3>1, <1>a
    <3>3. pc[c] = "conn" /\ pc' = [pc EXCEPT ![c] = "lookup"]
      BY <2>6 DEF Decode, HttpConn, Goto
    <3> QED
      BY <3>1, <3>2, <3>3, <1>a
  <2>7. CASE LookupSlashes(c)
    BY <2>7, <1>a DEF LookupSlashes, Goto
  <2>8. CASE Static(c)
    BY <2>8, <1>a DEF Static, Goto
  <2>9. CASE StaticFails(c)
    BY <2>9, <1>a DEF StaticFails, Goto
  <2>10. CASE Leave(c)
    BY <2>10, <1>a DEF Leave, Goto
  <2>11. CASE Out(c)
    BY <2>11, <1>a DEF Out, Goto
  <2>12. ASSUME NEW s \in Servlets, LookupTakes(c, s)
        PROVE  Registering(d)'
    BY <2>12, <1>a DEF LookupTakes, Goto
  <2> QED
    BY <1>1, <2>0, <2>1, <2>2, <2>3, <2>4, <2>5, <2>6, <2>7, <2>8, <2>9, <2>10, <2>11, <2>12 DEF Handler
<1>2. ASSUME NEW c \in Conns, Content(c)
      PROVE  Registering(d)'
  <2>1. CASE ServletRefuses(c)
    BY <2>1, <1>a DEF ServletRefuses, Goto, ServletLocal
  <2>2. CASE ServletReads(c)
    BY <2>2, <1>a DEF ServletReads, Goto, ServletLocal
  <2>3. CASE ReadSpins(c)
    BY <2>3, <1>a DEF ReadSpins, Goto, vars
  <2>4. CASE ReadFails(c)
    BY <2>4, <1>a DEF ReadFails, Goto, ServletLocal
  <2>5. CASE Upload(c)
    BY <2>5, <1>a DEF Upload, Goto, Parsed
  <2>6. CASE MalformedRequest(c)
    BY <2>6, <1>a DEF MalformedRequest, Goto, Parsed
  <2>7. CASE FindService(c)
    BY <2>7, <1>a DEF FindService, Goto, Parsed
  <2>8. CASE FindNoService(c)
    BY <2>8, <1>a DEF FindNoService, Goto, Parsed
  <2>9. CASE ServiceRefs(c)
    BY <2>9, <1>a DEF ServiceRefs, Goto
  <2>10. CASE ServiceDerefs(c)
    BY <2>10, <1>a DEF ServiceDerefs, Goto
  <2> QED
    BY <1>2, <2>1, <2>2, <2>3, <2>4, <2>5, <2>6, <2>7, <2>8, <2>9, <2>10 DEF Content
<1>3. ASSUME NEW c \in Conns, Websock(c)
      PROVE  Registering(d)'
  <2>1. CASE Accept(c)
    <3>1. life[c] = "open" /\ pc[c] = "websock"
      BY <2>1 DEF Accept, MayTalk, Goto
    <3>2. wsattr[c] = "none"
      BY <3>1, <1>a DEF Remembers
    <3> QED
      BY <2>1, <3>1, <3>2, <1>a DEF Accept, Goto
  <2>2. CASE AcceptFails(c)
    BY <2>2, <1>a DEF AcceptFails, Goto
  <2>3. CASE AcceptRefused(c)
    BY <2>3, <1>a DEF AcceptRefused, Goto
  <2>4. CASE Register(c)
    BY <2>4, <1>a DEF Register, Goto
  <2>5. CASE RegisterFails(c)
    BY <2>5, <1>a DEF RegisterFails, Goto
  <2>6. CASE Insert(c)
    BY <2>6, <1>a DEF Insert, Goto
  <2>7. CASE InsertFails(c)
    BY <2>7, <1>a DEF InsertFails, Goto
  <2>8. CASE Frame(c)
    BY <2>8, <1>a DEF Frame, Goto
  <2>9. CASE Frames(c)
    BY <2>9, <1>a DEF Frames, WebsockLocal, Goto
  <2>10. CASE Unregister1(c)
    BY <2>10, <1>a DEF Unregister1, Goto
  <2>11. CASE Unregister2(c)
    BY <2>11, <1>a DEF Unregister2, Goto, AttrFree
  <2>12. CASE Send2(c)
    BY <2>12, <1>a DEF Send2, Goto
  <2>13. CASE Send2Take(c)
    BY <2>13, <1>a DEF Send2Take, Goto
  <2> QED
    BY <1>3, <2>1, <2>2, <2>3, <2>4, <2>5, <2>6, <2>7, <2>8, <2>9, <2>10, <2>11, <2>12, <2>13, FramesAre DEF
       Websock
<1>4. ASSUME NEW c \in Conns, Connect(c) \/ Arrive(c) \/ Disconnect(c) \/ ConnAttrs(c) \/ ConnFree(c)
      PROVE  Registering(d)'
  <2>1. CASE Connect(c)
    BY <2>1, <1>a, ConnectIs DEF Life
  <2>2. CASE Disconnect(c)
    BY <2>2, <1>a, DisconnectIs DEF Life
  <2>3. CASE ConnAttrs(c)
    BY <2>3, <1>a, ConnAttrsIs DEF Life
  <2>4. CASE ConnFree(c)
    BY <2>4, <1>a, ConnFreeIs DEF AttrFree, Life
  <2>5. CASE Arrive(c)
    BY <2>5, <1>a, ArriveIs DEF Goto
  <2> QED
    BY <1>4, <2>1, <2>2, <2>3, <2>4, <2>5
<1>5. CASE Admin
  <2>1. CASE RegisterService
    BY <2>1, <1>a DEF RegisterService
  <2>2. CASE UnregisterService
    BY <2>2, <1>a DEF UnregisterService, MayUnregisterService
  <2>3. ASSUME NEW s \in Servlets, RegisterServlet(s)
        PROVE  Registering(d)'
    BY <2>3, <1>a DEF RegisterServlet
  <2>4. ASSUME NEW s \in Servlets, UnregisterServlet(s)
        PROVE  Registering(d)'
    BY <2>4, <1>a DEF UnregisterServlet, MayUnregister
  <2> QED
    BY <1>5, <2>1, <2>2, <2>3, <2>4 DEF Admin
<1>6. CASE ServletFree
  BY <1>6, <1>a DEF ServletFree
<1>7. CASE ServiceFree
  BY <1>7, <1>a DEF ServiceFree
<1>8. CASE OwnerDestroy \/ Destroying
  <2>1. CASE OwnerDestroy
    BY <2>1, <1>a DEF OwnerDestroy, OwnerGoto
  <2>2. CASE OwnerTcp
    BY <2>2, <1>a DEF OwnerTcp, OwnerGoto
  <2>3. CASE OwnerTcpGone
    BY <2>3, <1>a DEF OwnerTcpGone, OwnerGoto
  <2>4. CASE OwnerServlets
    BY <2>4, <1>a DEF OwnerServlets, OwnerGoto
  <2>5. CASE OwnerFree
    BY <2>5, <1>a DEF OwnerFree, OwnerGoto
  <2> QED
    BY <1>8, <2>1, <2>2, <2>3, <2>4, <2>5 DEF Destroying
<1>9. CASE Stopped
  BY <1>9, <1>a DEF Stopped, vars
<1> QED
  BY <1>1, <1>2, <1>3, <1>4, <1>5, <1>6, <1>7, <1>8, <1>9 DEF Next

LEMMA InitIInv == Init => IInv
<1> SUFFICES ASSUME Init
             PROVE  IInv
  OBVIOUS
<1> USE HttpdAssumption DEF Init
<1>1. TypeOK
  BY DEF TypeOK, Outside, InContent, InWebsock, InAccept, InFrame, Kinds
<1>2. Lives /\ Tables
  BY DEF Lives, Tables
<1>3. Containers
  BY DEF Containers, Remembers, Outside, InContent, InWebsock, InAccept, InFrame
<1>4. Answers
  BY DEF Answers, Answering, InContent, InFrame
<1>5. ServletOutlives
  <2>1. \A s \in Servlets : {c \in Conns : cont[c] = s} = {}
    OBVIOUS
  <2>2. {c \in Conns : pc[c] = "call"} = {}
    OBVIOUS
  <2>3. ~ \E c \in Conns : pc[c] = "found"
    OBVIOUS
  <2>4. Cardinality({}) = 0
    BY FS_EmptySet
  <2>5. \A s \in Servlets : srefs[s] = 0
    OBVIOUS
  <2>6. svcrefs = 0
    OBVIOUS
  <2> QED
    BY <2>1, <2>2, <2>3, <2>4, <2>5, <2>6 DEF ServletOutlives
<1>6. Registered
  BY DEF Registered, Registering
<1> QED
  BY <1>1, <1>2, <1>3, <1>4, <1>5, <1>6 DEF IInv, Inv

LEMMA NextIInv == IInv /\ [Next]_vars => IInv'
<1> SUFFICES ASSUME IInv, [Next]_vars
             PROVE  IInv'
  OBVIOUS
<1>1. CASE Next
  <2>1. Inv'
    <3>1. Answers'
      BY <1>1, NextAnswers DEF Answers
    <3> QED
      BY <1>1, <3>1, NextTypeOK, NextLives, NextTables, NextContainers, NextServletOutlives DEF Inv
  <2>2. LateClose \/ Registered'
    BY <1>1, NextRegistered DEF Registered
  <2> QED
    BY <2>1, <2>2 DEF IInv
<1>2. CASE UNCHANGED vars
  <2> USE <1>2 DEF vars, owner, table, services, conns, local, registry
  <2>1. TypeOK' /\ Lives' /\ Tables'
    BY DEF IInv, Inv, TypeOK, Lives, Tables
  <2>2. Containers' /\ Answers' /\ ServletOutlives'
    BY DEF IInv, Inv, Containers, Remembers, Answers, Answering, Answered, ServletOutlives
  <2>3. LateClose \/ Registered'
    BY DEF IInv, Registered, Registering
  <2> QED
    BY <2>1, <2>2, <2>3 DEF IInv, Inv
<1> QED
  BY <1>1, <1>2

-----------------------------------------------------------------------------
(* The inductive invariant of the handler (wstk-httpd.c:192), the servlets  *)
(* (wstk-servlet-jsonrpc.c, -upload.c, -websock.c), the admin and the owner *)
(* holds in every reachable state.                                          *)
THEOREM HttpdInvariant == Spec => []IInv
<1>1. Init => IInv
  BY InitIInv
<1>2. IInv /\ [Next]_vars => IInv'
  BY NextIInv
<1> QED
  BY <1>1, <1>2, PTL DEF Spec

(* Whatever the number of connections: container->refs counts the handlers  *)
(* that have the container, and neither a container nor the entry of a      *)
(* service is freed under a handler, however registering, unregistering,    *)
(* closing and destroying interleave where MayUnregister and                *)
(* MayUnregisterService let the application unregister.                     *)
THEOREM HttpdServletOutlives == Spec => []ServletOutlives
<1>1. IInv => ServletOutlives
  BY DEF IInv, Inv
<1> QED
  BY <1>1, HttpdInvariant, PTL

(* A handler that leaves while the httpd lives has replied once: twice only *)
(* where an error follows what was sent, not at all only on a connection    *)
(* that ends or that is closed for want of memory (tcp_handler and the      *)
(* servlets' servlet_perform_handler).                                      *)
THEOREM HttpdOneReply == Spec => []OneReply
<1>1. IInv => OneReply
  <2> SUFFICES ASSUME IInv, NEW c \in Conns, pc[c] = "out", ~fl_destroyed
               PROVE  CASE kind[c] = "request" -> replies[c] = 1 \/ (life[c] # "open" /\ replies[c] = 0)
                        [] kind[c] = "twice" -> replies[c] = 2 \/ (life[c] # "open" /\ replies[c] < 2)
                        [] kind[c] = "frame" -> replies[c] <= 1
                        [] kind[c] = "silent" -> replies[c] = 0
    BY DEF OneReply
  <2>1. kind[c] \in Kinds /\ Answered(c)
    BY DEF IInv, Inv, Answers, Answering
  <2> QED
    BY <2>1 DEF Kinds, Answered
<1> QED
  BY <1>1, HttpdInvariant, PTL

(* As long as no connection ends while its websocket is accepted, the       *)
(* registry of the websocket servlet (wstk-servlet-websock.c) holds only    *)
(* connections that live and have the attribute whose destructor takes them *)
(* out, every open websocket is in it, and on_close is called once.         *)
THEOREM HttpdRegistrySound == ~LateClose => (Spec => []RegistrySound)
<1>1. IInv /\ ~LateClose => RegistrySound
  <2> SUFFICES ASSUME IInv, ~LateClose, NEW c \in Conns
               PROVE  /\ c \in sockets => life[c] # "none" /\ wsattr[c] = "registered" /\ http_conn[c]
                      /\ closes[c] <= 1
                      /\ websock[c] /\ pc[c] = "idle" /\ life[c] = "open" => c \in sockets /\ closes[c] = 0
    BY DEF RegistrySound
  <2>1. Registering(c)
    BY DEF IInv, Registered
  <2>2. closes[c] \in Nat /\ (life[c] = "none" => wsattr[c] = "none")
    BY DEF IInv, Inv, TypeOK, Lives
  <2>3. closes[c] <= 1 /\ (wsattr[c] # "none" => closes[c] = 0)
    BY <2>1, <2>2 DEF Registering
  <2> QED
    BY <2>1, <2>2, <2>3 DEF Registering
<1>2. ASSUME ~LateClose
      PROVE  Spec => []RegistrySound
  <2>1. IInv => RegistrySound
    BY <1>1, <1>2
  <2> QED
    BY <2>1, HttpdInvariant, PTL
<1> QED
  BY <1>2

-----------------------------------------------------------------------------
(* The httpd as an application of the TCP server.                           *)
Served == [Service!Next]_(Service!vars)

(* where connections, requests and the server are, seen from the service *)
Alike ==
  /\ life' = life
  /\ \A c \in Conns : (pc'[c] = "queued" <=> pc[c] = "queued") /\ (pc'[c] = "idle" <=> pc[c] = "idle")
  /\ (opc' \in {"using", "flag"} <=> opc \in {"using", "flag"}) /\ (opc' = "tcp" <=> opc = "tcp")

LEMMA Unserved ==
  ASSUME Alike
  PROVE  Served
<1>1. life' = life
  BY DEF Alike
<1>2. [c \in Conns |-> IF pc'[c] = "queued" THEN 1 ELSE 0] = [c \in Conns |-> IF pc[c] = "queued" THEN 1 ELSE 0]
  BY DEF Alike
<1>3. [c \in Conns |-> IF pc'[c] \in {"idle", "queued"} THEN 0 ELSE 1]
        = [c \in Conns |-> IF pc[c] \in {"idle", "queued"} THEN 0 ELSE 1]
  BY DEF Alike
<1>4. (CASE opc' \in {"using", "flag"} -> "up" [] opc' = "tcp" -> "closing" [] OTHER -> "gone")
        = (CASE opc \in {"using", "flag"} -> "up" [] opc = "tcp" -> "closing" [] OTHER -> "gone")
  BY DEF Alike
<1> QED
  BY <1>1, <1>2, <1>3, <1>4 DEF Served, Service!vars

(* Requests come and go, connections begin and end, and the TCP server is   *)
(* destroyed, as the service says.                                          *)
LEMMA NextServed ==
  ASSUME TypeOK, Next
  PROVE  Served
<1> USE DEF owner, table, services, conns, local, registry
<1>a. pc \in [Conns -> Outside \cup InContent \cup InWebsock \cup {"leave"}]
  BY DEF TypeOK
<1>1. ASSUME NEW c \in Conns, Handler(c)
      PROVE  Served
  <2>1. CASE Begin(c)
    BY <2>1 DEF Begin, Served, Service!Next
  <2>0. CASE Return(c)
    BY <2>0 DEF Return, Served, Service!Next
  <2>2. CASE Refs(c)
    BY <2>2, <1>a, Unserved DEF Alike, Refs, Goto
  <2>3. CASE HttpConnFails(c)
    BY <2>3, <1>a, Unserved DEF Alike, HttpConnFails, Goto, IsFrame
  <2>4. CASE FrameArrived(c)
    BY <2>4, <1>a, Unserved DEF Alike, FrameArrived, Goto, HttpConn, IsFrame
  <2>5. CASE DecodeFails(c)
    BY <2>5, <1>a, Unserved DEF Alike, DecodeFails, Goto, HttpConn, IsFrame
  <2>6. CASE Decode(c)
    BY <2>6, <1>a, Unserved DEF Alike, Decode, Goto, HttpConn, IsFrame
  <2>7. CASE LookupSlashes(c)
    BY <2>7, <1>a, Unserved DEF Alike, LookupSlashes, Goto
  <2>8. CASE Static(c)
    BY <2>8, <1>a, Unserved DEF Alike, Static, Goto
  <2>9. CASE StaticFails(c)
    BY <2>9, <1>a, Unserved DEF Alike, StaticFails, Goto
  <2>10. CASE Leave(c)
    BY <2>10, <1>a, Unserved DEF Alike, Leave, Goto
  <2>11. CASE Out(c)
    BY <2>11 DEF Out, Served, Service!Next
  <2>12. ASSUME NEW s \in Servlets, LookupTakes(c, s)
        PROVE  Served
    <3>1. s \notin {"idle", "queued"}
      BY HttpdAssumption
    <3> QED
      BY <2>12, <3>1, <1>a, Unserved DEF Alike, LookupTakes, Goto
  <2> QED
    BY <1>1, <2>0, <2>1, <2>2, <2>3, <2>4, <2>5, <2>6, <2>7, <2>8, <2>9, <2>10, <2>11, <2>12 DEF Handler
<1>2. ASSUME NEW c \in Conns, Content(c)
      PROVE  Served
  <2>1. CASE ServletRefuses(c)
    BY <2>1, <1>a, Unserved DEF Alike, ServletRefuses, Goto, ServletLocal
  <2>2. CASE ServletReads(c)
    BY <2>2, <1>a, Unserved DEF Alike, ServletReads, Goto, ServletLocal
  <2>3. CASE ReadSpins(c)
    BY <2>3, <1>a, Unserved DEF Alike, ReadSpins, Goto, vars
  <2>4. CASE ReadFails(c)
    BY <2>4, <1>a, Unserved DEF Alike, ReadFails, Goto, ServletLocal
  <2>5. CASE Upload(c)
    BY <2>5, <1>a, Unserved DEF Alike, Upload, Goto, Parsed
  <2>6. CASE MalformedRequest(c)
    BY <2>6, <1>a, Unserved DEF Alike, MalformedRequest, Goto, Parsed
  <2>7. CASE FindService(c)
    BY <2>7, <1>a, Unserved DEF Alike, FindService, Goto, Parsed
  <2>8. CASE FindNoService(c)
    BY <2>8, <1>a, Unserved DEF Alike, FindNoService, Goto, Parsed
  <2>9. CASE ServiceRefs(c)
    BY <2>9, <1>a, Unserved DEF Alike, ServiceRefs, Goto
  <2>10. CASE ServiceDerefs(c)
    BY <2>10, <1>a, Unserved DEF Alike, ServiceDerefs, Goto
  <2> QED
    BY <1>2, <2>1, <2>2, <2>3, <2>4, <2>5, <2>6, <2>7, <2>8, <2>9, <2>10 DEF Content
<1>3. ASSUME NEW c \in Conns, Websock(c)
      PROVE  Served
  <2>1. CASE Accept(c)
    BY <2>1, <1>a, Unserved DEF Alike, Accept, Goto, MayTalk
  <2>2. CASE AcceptFails(c)
    BY <2>2, <1>a, Unserved DEF Alike, AcceptFails, Goto
  <2>3. CASE AcceptRefused(c)
    BY <2>3, <1>a, Unserved DEF Alike, AcceptRefused, Goto
  <2>4. CASE Register(c)
    BY <2>4, <1>a, Unserved DEF Alike, Register, Goto
  <2>5. CASE RegisterFails(c)
    BY <2>5, <1>a, Unserved DEF Alike, RegisterFails, Goto
  <2>6. CASE Insert(c)
    BY <2>6, <1>a, Unserved DEF Alike, Insert, Goto
  <2>7. CASE InsertFails(c)
    BY <2>7, <1>a, Unserved DEF Alike, InsertFails, Goto
  <2>8. CASE Frame(c)
    BY <2>8, <1>a, Unserved DEF Alike, Frame, Goto
  <2>9. CASE Frames(c)
    BY <2>9, <1>a, Unserved DEF Alike, Frames, WebsockLocal, Goto
  <2>10. CASE Unregister1(c)
    BY <2>10, <1>a, Unserved DEF Alike, Unregister1, Goto
  <2>11. CASE Unregister2(c)
    BY <2>11, <1>a, Unserved DEF Alike, Unregister2, Goto, AttrFree
  <2>12. CASE Send2(c)
    BY <2>12, <1>a, Unserved DEF Alike, Send2, Goto
  <2>13. CASE Send2Take(c)
    BY <2>13, <1>a, Unserved DEF Alike, Send2Take, Goto
  <2> QED
    BY <1>3, <2>1, <2>2, <2>3, <2>4, <2>5, <2>6, <2>7, <2>8, <2>9, <2>10, <2>11, <2>12, <2>13, FramesAre DEF
       Websock
<1>4. ASSUME NEW c \in Conns, Connect(c) \/ Arrive(c) \/ Disconnect(c) \/ ConnAttrs(c) \/ ConnFree(c)
      PROVE  Served
  <2>1. CASE Connect(c)
    BY <2>1 DEF Connect, Served, Service!Next
  <2>2. CASE Disconnect(c)
    BY <2>2 DEF Disconnect, Served, Service!Next
  <2>3. CASE ConnAttrs(c)
    BY <2>3 DEF ConnAttrs, Served, Service!Next
  <2>4. CASE ConnFree(c)
    BY <2>4 DEF ConnFree, Served, Service!Next
  <2>5. CASE Arrive(c)
    BY <2>5 DEF Arrive, Served, Service!Next
  <2> QED
    BY <1>4, <2>1, <2>2, <2>3, <2>4, <2>5
<1>5. CASE Admin
  <2>1. CASE RegisterService
    BY <2>1, <1>a, Unserved DEF Alike, RegisterService
  <2>2. CASE UnregisterService
    BY <2>2, <1>a, Unserved DEF Alike, UnregisterService, MayUnregisterService
  <2>3. ASSUME NEW s \in Servlets, RegisterServlet(s)
        PROVE  Served
    BY <2>3, <1>a, Unserved DEF Alike, RegisterServlet
  <2>4. ASSUME NEW s \in Servlets, UnregisterServlet(s)
        PROVE  Served
    BY <2>4, <1>a, Unserved DEF Alike, UnregisterServlet, MayUnregister
  <2> QED
    BY <1>5, <2>1, <2>2, <2>3, <2>4 DEF Admin
<1>6. CASE ServletFree
  BY <1>6, <1>a, Unserved DEF Alike, ServletFree
<1>7. CASE ServiceFree
  BY <1>7, <1>a, Unserved DEF Alike, ServiceFree
<1>8. CASE OwnerDestroy \/ Destroying
  <2>1. CASE OwnerDestroy
    BY <2>1, <1>a, Unserved DEF Alike, OwnerDestroy, OwnerGoto
  <2>2. CASE OwnerTcp
    BY <2>2 DEF OwnerTcp, Served, Service!Next
  <2>3. CASE OwnerTcpGone
    BY <2>3 DEF OwnerTcpGone, Served, Service!Next
  <2>4. CASE OwnerServlets
    BY <2>4, <1>a, Unserved DEF Alike, OwnerServlets, OwnerGoto
  <2>5. CASE OwnerFree
    BY <2>5, <1>a, Unserved DEF Alike, OwnerFree, OwnerGoto
  <2> QED
    BY <1>8, <2>1, <2>2, <2>3, <2>4, <2>5 DEF Destroying
<1>9. CASE Stopped
  BY <1>9, <1>a, Unserved DEF Alike, Stopped, vars
<1> QED
  BY <1>1, <1>2, <1>3, <1>4, <1>5, <1>6, <1>7, <1>8, <1>9 DEF Next

(* The httpd handles the requests of its connections one at a time and      *)
(* returns from each, it destroys the TCP server once, and it does nothing  *)
(* to a connection that the TCP server does not promise.                    *)
THEOREM HttpdIsServed == Spec => Service!Spec
<1>1. Init => Service!Init
  BY DEF Init, Service!Init
<1>2. IInv /\ [Next]_vars => Served
  <2>1. UNCHANGED vars => Alike
    BY DEF vars, owner, conns, Alike
  <2> QED
    BY <2>1, Unserved, NextServed DEF IInv, Inv
<1> QED
  BY <1>1, <1>2, HttpdInvariant, PTL DEF Spec, Served, Service!Spec
=============================================================================
