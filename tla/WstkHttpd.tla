------------------------------ MODULE WstkHttpd ------------------------------
(***************************************************************************)
(* wstk_httpd_t (wstk-httpd.c) with its JSON-RPC, upload and websocket     *)
(* servlets (wstk-servlet-*.c).  The TCP server calls tcp_handler for what *)
(* a connection received; the handler looks up a servlet container, keeps  *)
(* it by container->refs, and calls it.  An admin registers and            *)
(* unregisters servlets and services, the owner destroys the httpd.        *)
(*                                                                         *)
(* The TCP server is reduced to its promise, TcpService, which WstkTcpSrv  *)
(* implements: the steps of connections and requests are those of the      *)
(* service, and each here says what the application adds to it.            *)
(* Critical sections are single steps, except those that wait inside:      *)
(* httpd->mutex is held by Unregister while it waits for the container     *)
(* (unreg), a JSON-RPC servlet's mutex by UnregisterService (unsvc), the   *)
(* websocket servlet's mutex by send2, conn->mutex by whoever frees        *)
(* attributes.                                                             *)
(***************************************************************************)
EXTENDS Naturals, FiniteSets

CONSTANTS
  Conns,      \* TCP connections; a name is used again after its connection ended
  NULL,
  Servlets,   \* "content": a JSON-RPC or an upload servlet, and "websock"
  LateClose   \* whether a connection may end between the 101 and ws_reg

ASSUME HttpdAssumption ==
  /\ IsFiniteSet(Conns) /\ NULL \notin Conns \cup {"content", "websock"}
  /\ Servlets \subseteq {"content", "websock"}
  /\ LateClose \in BOOLEAN

VARIABLES
  refs, fl_destroyed,
  stage, srefs,      \* per servlet: its container and container->refs
  unreg,             \* the servlet being unregistered, under httpd->mutex
  svc, svcrefs,      \* the service of the JSON-RPC servlet
  life,              \* per connection: "none", "open", "dying", "attrs"
  http_conn,         \* its attribute "http-conn" exists
  websock,           \* http_conn->websock
  wscontainer,       \* its attribute "ws-container"
  wsattr,            \* its attribute "ws-conn-sys": "none", "added", "registered"
  pc, cont,          \* its handler, and the container it has
  kind, replies,     \* what it met so far, and how often it replied
  sockets,           \* servlet->sockets of the websocket servlet
  smutex, cmutex,    \* holders of servlet->mutex and of each conn->mutex
  closes,            \* per connection: calls of on_close since it was accepted
  opc

table == <<stage, srefs, unreg>>
services == <<svc, svcrefs>>
conns == <<life, http_conn, websock, wscontainer, wsattr>>
local == <<cont, kind, replies>>
registry == <<sockets, smutex, cmutex, closes>>
owner == <<fl_destroyed, opc>>
vars == <<refs, owner, table, services, conns, pc, local, registry>>

Service == INSTANCE TcpService WITH
  queued <- [c \in Conns |-> IF pc[c] = "queued" THEN 1 ELSE 0],
  handled <- [c \in Conns |-> IF pc[c] \in {"idle", "queued"} THEN 0 ELSE 1],
  serving <- CASE opc \in {"using", "flag"} -> "up" [] opc = "tcp" -> "closing" [] OTHER -> "gone"

Init ==
  /\ refs = 0 /\ fl_destroyed = FALSE /\ opc = "using"
  /\ stage = [s \in Servlets |-> "none"] /\ srefs = [s \in Servlets |-> 0]
  /\ unreg = NULL
  /\ svc = "none" /\ svcrefs = 0
  /\ life = [c \in Conns |-> "none"]
  /\ http_conn = [c \in Conns |-> FALSE] /\ websock = [c \in Conns |-> FALSE]
  /\ wscontainer = [c \in Conns |-> NULL] /\ wsattr = [c \in Conns |-> "none"]
  /\ pc = [c \in Conns |-> "idle"]
  /\ cont = [c \in Conns |-> NULL]
  /\ kind = [c \in Conns |-> NULL] /\ replies = [c \in Conns |-> 0]
  /\ sockets = {} /\ smutex = NULL /\ cmutex = [c \in Conns |-> NULL]
  /\ closes = [c \in Conns |-> 0]

-----------------------------------------------------------------------------
(***************************************************************************)
(* tcp_handler                                                             *)
(***************************************************************************)
Goto(c, from, to) ==
  /\ pc[c] = from
  /\ pc' = [pc EXCEPT ![c] = to]
  /\ UNCHANGED owner

(* Neither a reply nor a read once the httpd or the connection is being     *)
(* destroyed: wstk_httpd_reply, wstk_httpd_read and their relatives return  *)
(* DESTROYED.                                                               *)
MayTalk(c) == ~fl_destroyed /\ life[c] = "open"

Reply(c, n) == replies' = [replies EXCEPT ![c] = @ + IF MayTalk(c) THEN n ELSE 0]

Met(c, k) == kind' = [kind EXCEPT ![c] = k]

(* tcp_worker_handler calls tcp_handler, though not when the TCP server is  *)
(* being destroyed; it returns at once when the httpd or the connection is. *)
Begin(c) ==
  /\ Goto(c, "queued", IF MayTalk(c) THEN "refs" ELSE "return")
  /\ Met(c, IF MayTalk(c) THEN "request" ELSE NULL)
  /\ UNCHANGED <<refs, table, services, conns, cont, replies, registry>>
  /\ Service!Take(c)

Return(c) ==
  /\ Goto(c, "return", "idle")
  /\ UNCHANGED <<refs, table, services, conns, local, registry>>
  /\ Service!Return(c)

Refs(c) ==
  /\ unreg = NULL
  /\ Goto(c, "refs", "conn")
  /\ refs' = refs + 1
  /\ UNCHANGED <<table, services, conns, local, registry>>

(* A known connection, or a new attribute "http-conn".  On a connection     *)
(* that is being destroyed attr_get finds nothing, and attr_add reports     *)
(* success and keeps nothing.  Then a frame, or a request that can be       *)
(* decoded, or is answered with 400 or 500.                                 *)
HttpConn(c, to) ==
  /\ cmutex[c] = NULL
  /\ Goto(c, "conn", to)
  /\ http_conn' = [http_conn EXCEPT ![c] = @ \/ life[c] = "open"]
  /\ UNCHANGED <<refs, table, services, life, websock, wscontainer, wsattr, cont, kind, registry>>

IsFrame(c) == websock[c] /\ life[c] = "open"

FrameArrived(c) == IsFrame(c) /\ HttpConn(c, "ws") /\ UNCHANGED replies

Decode(c) == ~IsFrame(c) /\ HttpConn(c, "lookup") /\ UNCHANGED replies

DecodeFallsThrough(c) == ~IsFrame(c) /\ HttpConn(c, "lookup") /\ Reply(c, 1)

DecodeFails(c) == ~IsFrame(c) /\ HttpConn(c, "out") /\ Reply(c, 1)

(* no memory for the attribute or for the message: closed without a reply   *)
HttpConnFails(c) ==
  /\ ~IsFrame(c) /\ cmutex[c] = NULL
  /\ Goto(c, "conn", "out")
  /\ Met(c, "silent")
  /\ \E stored \in {http_conn[c], http_conn[c] \/ life[c] = "open"} :
       http_conn' = [http_conn EXCEPT ![c] = stored]
  /\ UNCHANGED <<refs, table, services, life, websock, wscontainer, wsattr, cont, replies, registry>>

LookupTakesNot(c, s) ==
  /\ unreg = NULL
  /\ Goto(c, "lookup", s)
  /\ stage[s] = "live"
  /\ cont' = [cont EXCEPT ![c] = s]
  /\ UNCHANGED <<refs, table, services, conns, kind, replies, registry>>

(* The container of the path or of one of its prefixes, taken under         *)
(* httpd->mutex, so that Unregister has not begun with it.                  *)
LookupTakes(c, s) ==
  /\ unreg = NULL
  /\ Goto(c, "lookup", s)
  /\ stage[s] = "live"
  /\ cont' = [cont EXCEPT ![c] = s]
  /\ srefs' = [srefs EXCEPT ![s] = @ + 1]
  /\ UNCHANGED <<refs, stage, unreg, services, conns, kind, replies, registry>>

(* a path of slashes only: 400, under the mutex *)
LookupSlashes(c) ==
  /\ unreg = NULL /\ \E s \in Servlets : stage[s] = "live"
  /\ Goto(c, "lookup", "out")
  /\ Reply(c, 1)
  /\ UNCHANGED <<refs, table, services, conns, cont, kind, registry>>

(* no servlet: a file, a directory, or an error *)
Static(c) ==
  /\ unreg = NULL
  /\ Goto(c, "lookup", "out")
  /\ Reply(c, 1)
  /\ UNCHANGED <<refs, table, services, conns, cont, kind, registry>>

(* wstk_httpd_breply or _browse_dir fails after its header was sent, and an *)
(* error is sent after it                                                   *)
StaticFails(c) ==
  /\ unreg = NULL
  /\ Goto(c, "lookup", "out")
  /\ Reply(c, 2)
  /\ Met(c, "twice")
  /\ UNCHANGED <<refs, table, services, conns, cont, registry>>

(* After a servlet: an accepted websocket remembers the container, without  *)
(* a reference, a closed one forgets it (attr_add and attr_del do nothing   *)
(* on a connection that is being destroyed); then scontainer_derefs.        *)
Leave(c) ==
  /\ cmutex[c] = NULL
  /\ Goto(c, "leave", "out")
  /\ wscontainer' = [wscontainer EXCEPT ![c] =
       IF life[c] # "open" THEN @ ELSE IF websock[c] THEN cont[c] ELSE NULL]
  /\ srefs' = [srefs EXCEPT ![cont[c]] = IF @ > 0 THEN @ - 1 ELSE 0]
  /\ cont' = [cont EXCEPT ![c] = NULL]
  /\ UNCHANGED <<refs, stage, unreg, services, life, http_conn, websock, wsattr, kind, replies, registry>>

Out(c) ==
  /\ unreg = NULL
  /\ Goto(c, "out", "idle")
  /\ refs' = IF refs > 0 THEN refs - 1 ELSE 0
  /\ Met(c, NULL) /\ replies' = [replies EXCEPT ![c] = 0]
  /\ UNCHANGED <<table, services, conns, cont, registry>>
  /\ Service!Return(c)

InHandler == {"queued", "return", "refs", "conn", "lookup", "leave", "out"}

Handler(c) ==
  /\ pc[c] \in InHandler
  /\ \/ Begin(c) \/ Return(c) \/ Refs(c) \/ HttpConnFails(c) \/ FrameArrived(c)
     \/ DecodeFails(c) \/ Decode(c) \/ LookupSlashes(c)
     \/ Static(c) \/ StaticFails(c) \/ Leave(c) \/ Out(c)
     \/ \E s \in Servlets : LookupTakes(c, s)

-----------------------------------------------------------------------------
(***************************************************************************)
(* The JSON-RPC and the upload servlet: servlet_perform_handler            *)
(***************************************************************************)
ServletLocal(c, from, to) ==
  /\ Goto(c, from, to)
  /\ UNCHANGED <<refs, table, services, conns, cont, kind, registry>>

(* a request that is not acceptable is answered with an error *)
ServletRefuses(c) ==
  ServletLocal(c, "content", "leave") /\ Reply(c, 1)

(* conn_rdlock fails once the httpd or the connection is being destroyed *)
ServletReads(c) ==
  MayTalk(c) /\ ServletLocal(c, "content", "read") /\ UNCHANGED replies

(* The loop around wstk_httpd_read is left when the body is complete or the *)
(* peer is gone or too slow.  Once the httpd or the connection is being     *)
(* destroyed wstk_httpd_read returns at once without either, and the loop   *)
(* spins.                                                                   *)
Spins(c) == pc[c] = "read" /\ ~MayTalk(c)

ReadSpins(c) == Spins(c) /\ UNCHANGED vars

ReadFails(c) ==
  /\ ~Spins(c)
  /\ ServletLocal(c, "read", "leave") /\ Reply(c, 1)

(* the body came with the request, or was read *)
Parsed(c, to) ==
  /\ ~Spins(c)
  /\ \E from \in {"content", "read"} : Goto(c, from, to)
  /\ UNCHANGED <<refs, table, services, conns, cont, kind, registry>>

(* The form is parsed, the file accepted and written, or refused. *)
Upload(c) == Parsed(c, "leave") /\ Reply(c, 1)

MalformedRequest(c) == Parsed(c, "leave") /\ Reply(c, 1)

(* The service is found under servlet->mutex, and referenced after it was   *)
(* unlocked.                                                                *)
FindService(c) ==
  /\ svc = "live"
  /\ Parsed(c, "found") /\ UNCHANGED replies

FindNoService(c) == svc = "none" /\ Parsed(c, "leave") /\ Reply(c, 1)

ServiceRefs(c) ==
  /\ Goto(c, "found", "call")
  /\ svcrefs' = svcrefs + 1
  /\ UNCHANGED <<refs, table, svc, conns, local, registry>>

ServiceDerefs(c) ==
  /\ Goto(c, "call", "leave")
  /\ svcrefs' = IF svcrefs > 0 THEN svcrefs - 1 ELSE 0
  /\ Reply(c, 1)
  /\ UNCHANGED <<refs, table, svc, conns, cont, kind, registry>>

InContent == {"content", "read", "found", "call"}

Content(c) ==
  /\ pc[c] \in InContent
  /\ \/ ServletRefuses(c) \/ ServletReads(c) \/ ReadSpins(c) \/ ReadFails(c)
     \/ Upload(c) \/ MalformedRequest(c) \/ FindService(c) \/ FindNoService(c)
     \/ ServiceRefs(c) \/ ServiceDerefs(c)

-----------------------------------------------------------------------------
(***************************************************************************)
(* The websocket servlet: servlet_perform_handler                          *)
(***************************************************************************)
(* No connection ends between the 101 and ws_reg. *)
MayEnd(c) == LateClose \/ pc[c] # "accepted"

Accept(c) ==
  /\ MayTalk(c)
  /\ Goto(c, "websock", "accepted")
  /\ Reply(c, 1)
  /\ websock' = [websock EXCEPT ![c] = TRUE]
  /\ UNCHANGED <<refs, table, services, life, http_conn, wscontainer, wsattr, cont, kind, registry>>

(* headers are missing, or the 101 was not sent: 400 *)
AcceptFails(c) ==
  /\ Goto(c, "websock", "leave")
  /\ Reply(c, 1)
  /\ UNCHANGED <<refs, table, services, conns, cont, kind, registry>>

(* on_accept refuses: 401 after the 101 *)
AcceptRefused(c) ==
  /\ Goto(c, "accepted", "leave")
  /\ websock' = [websock EXCEPT ![c] = FALSE]
  /\ Reply(c, 1) /\ Met(c, "twice")
  /\ UNCHANGED <<refs, table, services, life, http_conn, wscontainer, wsattr, cont, registry>>

(* ws_reg: the attribute.  attr_add on a connection that is being destroyed *)
(* says success and keeps nothing.                                          *)
Register(c) ==
  /\ cmutex[c] = NULL
  /\ Goto(c, "accepted", "insert")
  /\ closes' = [closes EXCEPT ![c] = 0]
  /\ wsattr' = [wsattr EXCEPT ![c] = IF life[c] = "open" THEN "added" ELSE @]
  /\ UNCHANGED <<refs, table, services, life, http_conn, websock, wscontainer, local, sockets, smutex, cmutex>>

(* no memory for it; its destructor calls on_close if it got that far; 500  *)
(* after the 101                                                            *)
RegisterFails(c) ==
  /\ Goto(c, "accepted", "leave")
  /\ websock' = [websock EXCEPT ![c] = FALSE]
  /\ \E n \in {0, 1} : closes' = [closes EXCEPT ![c] = n]
  /\ Reply(c, 1) /\ Met(c, "twice")
  /\ UNCHANGED <<refs, table, services, life, http_conn, wscontainer, wsattr, cont, sockets, smutex, cmutex>>

Insert(c) ==
  /\ smutex = NULL
  /\ Goto(c, "insert", "leave")
  /\ wsattr' = [wsattr EXCEPT ![c] = IF @ = "added" THEN "registered" ELSE @]
  /\ sockets' = sockets \cup {c}
  /\ UNCHANGED <<refs, table, services, life, http_conn, websock, wscontainer, local, smutex, cmutex, closes>>

(* no memory there: the attribute is deleted again; 500 after the 101 *)
InsertFails(c) ==
  /\ cmutex[c] = NULL
  /\ Goto(c, "insert", IF life[c] = "open" THEN "unreg" ELSE "leave")
  /\ wsattr' = [wsattr EXCEPT ![c] = IF @ = "added" THEN "registered" ELSE @]
  /\ websock' = [websock EXCEPT ![c] = FALSE]
  /\ cmutex' = [cmutex EXCEPT ![c] = IF life[c] = "open" THEN c ELSE NULL]
  /\ Reply(c, 1) /\ Met(c, "twice")
  /\ UNCHANGED <<refs, table, services, life, http_conn, wscontainer, cont, sockets, smutex, closes>>

(* a frame: the container is taken from the attribute and referenced again; *)
(* attr_get leaves NULL when the connection is being destroyed: 500         *)
Frame(c) ==
  LET k == IF life[c] = "open" THEN wscontainer[c] ELSE NULL IN
  /\ cmutex[c] = NULL
  /\ Goto(c, "ws", IF k = NULL THEN "out" ELSE "frame")
  /\ Met(c, "frame")
  /\ cont' = [cont EXCEPT ![c] = k]
  /\ srefs' = IF k # NULL /\ stage[k] = "live" THEN [srefs EXCEPT ![k] = @ + 1] ELSE srefs
  /\ IF k = NULL THEN Reply(c, 1) ELSE UNCHANGED replies
  /\ UNCHANGED <<refs, stage, unreg, services, conns, registry>>

WebsockLocal(c, from, to) ==
  /\ Goto(c, from, to)
  /\ UNCHANGED <<refs, table, services, conns, local, registry>>

(* A ping or a pong, a message without on_message, or a frame that did not  *)
(* arrive at once.  wstk_websock_decode says NODATA until the whole payload *)
(* is there (wstk-websock.c:67, :80; FrameArrives in WstkCodecs), and the   *)
(* handler leaves at line 234.  So ws_hdr.len is never above what is left   *)
(* at line 265: the loop that would read the rest (lines 265 to 305) is     *)
(* never entered and has no steps here.                                     *)
FrameIgnored(c) == WebsockLocal(c, "frame", "leave")

(* For a whole message the attribute of its connection is used.  attr_get   *)
(* says success and leaves NULL when the connection is being destroyed: the *)
(* use of NULL ends the process.                                            *)
FrameWhole(c) == WebsockLocal(c, "frame", IF life[c] = "open" THEN "message" ELSE "null")

(* on_message, which may send to its own connection (Send2) *)
Message(c) == WebsockLocal(c, "message", "leave")

(* a close, or a message that is too long: ws_unreg, and for the latter a   *)
(* reply.  attr_del takes conn->mutex and frees the attribute under it.     *)
Unregister1(c) ==
  LET found == life[c] = "open" /\ wsattr[c] # "none" IN
  /\ cmutex[c] = NULL
  /\ Goto(c, "frame", IF found THEN "unreg" ELSE "leave")
  /\ websock' = [websock EXCEPT ![c] = FALSE]
  /\ cmutex' = [cmutex EXCEPT ![c] = IF found THEN c ELSE @]
  /\ \E n \in {0, 1} : Reply(c, n)
  /\ UNCHANGED <<refs, table, services, life, http_conn, wscontainer, wsattr, cont, kind, sockets, smutex, closes>>

AttrFreeKeeps(c) ==
  /\ wsattr[c] = "registered" => smutex = NULL
  /\ UNCHANGED sockets
  /\ wsattr' = [wsattr EXCEPT ![c] = "none"]
  /\ closes' = [closes EXCEPT ![c] = IF wsattr[c] = "none" THEN @ ELSE @ + 1]

(* the attribute's destructor: out of the registry under servlet->mutex,    *)
(* then on_close                                                            *)
AttrFree(c) ==
  /\ wsattr[c] = "registered" => smutex = NULL
  /\ sockets' = IF wsattr[c] = "registered" THEN sockets \ {c} ELSE sockets
  /\ wsattr' = [wsattr EXCEPT ![c] = "none"]
  /\ closes' = [closes EXCEPT ![c] = IF wsattr[c] = "none" THEN @ ELSE @ + 1]

Unregister2Locked(c) ==
  /\ AttrFree(c)
  /\ Goto(c, "unreg", "leave")
  /\ UNCHANGED <<refs, table, services, life, http_conn, websock, wscontainer, local, smutex, cmutex>>

Unregister2(c) ==
  /\ AttrFree(c)
  /\ Goto(c, "unreg", "leave")
  /\ cmutex' = [cmutex EXCEPT ![c] = NULL]
  /\ UNCHANGED <<refs, table, services, life, http_conn, websock, wscontainer, local, smutex>>

(* wstk_servlet_websock_send2 of on_message to its own connection: the      *)
(* registry is searched under servlet->mutex, which is kept while conn_take *)
(* locks conn->mutex.  An id that is not there would be used all the same.  *)
Send2(c) ==
  /\ smutex = NULL
  /\ Goto(c, "message", IF c \in sockets THEN "take" ELSE "crashed")
  /\ smutex' = IF c \in sockets THEN c ELSE NULL
  /\ UNCHANGED <<refs, table, services, conns, local, sockets, cmutex, closes>>

Send2Take(c) ==
  /\ life[c] = "open" => cmutex[c] = NULL
  /\ Goto(c, "take", "leave")
  /\ smutex' = NULL
  /\ UNCHANGED <<refs, table, services, conns, local, sockets, cmutex, closes>>

InAccept == {"websock", "accepted", "insert"}
InFrame == {"frame", "message", "take", "crashed", "null"}
InWebsock == InAccept \cup InFrame \cup {"unreg"}

Websock(c) ==
  /\ pc[c] \in InWebsock \cup {"ws"}
  /\ \/ Accept(c) \/ AcceptFails(c) \/ AcceptRefused(c) \/ Register(c) \/ RegisterFails(c)
     \/ Insert(c) \/ InsertFails(c) \/ Frame(c) \/ FrameIgnored(c) \/ FrameWhole(c) \/ Message(c)
     \/ Unregister1(c) \/ Unregister2(c) \/ Send2(c) \/ Send2Take(c)

-----------------------------------------------------------------------------
(***************************************************************************)
(* The connections: made by peers while the TCP server lives, and          *)
(* destroyed by it; desctuctor__wstk_tcp_srv_conn_t waits for the handler  *)
(* and for senders, then frees the attributes under conn->mutex in the     *)
(* order of their hashes: ws-conn-sys (23), http-conn (41), ws-container.  *)
(***************************************************************************)
ConnStep == UNCHANGED <<refs, owner, table, services, pc, local, smutex>>

Connect(c) ==
  /\ ConnStep
  /\ Service!Connect(c)
  /\ closes' = [closes EXCEPT ![c] = 0]
  /\ UNCHANGED <<http_conn, websock, wscontainer, wsattr, sockets, cmutex>>

(* polling_read_and_perform *)
Arrive(c) ==
  /\ Goto(c, "idle", "queued")
  /\ UNCHANGED <<refs, table, services, conns, local, registry>>
  /\ Service!Request(c)

Disconnect(c) ==
  /\ MayEnd(c)
  /\ ConnStep
  /\ Service!Disconnect(c)
  /\ UNCHANGED <<http_conn, websock, wscontainer, wsattr, sockets, cmutex, closes>>

ConnAttrs(c) ==
  /\ life[c] = "dying" /\ cmutex[c] = NULL
  /\ ConnStep
  /\ Service!Unused(c)
  /\ cmutex' = [cmutex EXCEPT ![c] = c]
  /\ UNCHANGED <<http_conn, websock, wscontainer, wsattr, sockets, closes>>

ConnFree(c) ==
  /\ life[c] = "attrs" /\ AttrFree(c)
  /\ ConnStep
  /\ Service!Free(c)
  /\ http_conn' = [http_conn EXCEPT ![c] = FALSE]
  /\ websock' = [websock EXCEPT ![c] = FALSE]
  /\ wscontainer' = [wscontainer EXCEPT ![c] = NULL]
  /\ cmutex' = [cmutex EXCEPT ![c] = NULL]

-----------------------------------------------------------------------------
(***************************************************************************)
(* The admin and the owner                                                 *)
(***************************************************************************)
RegisterServlet(s) ==
  /\ ~fl_destroyed /\ opc = "using" /\ unreg = NULL
  /\ stage[s] = "none"
  /\ stage' = [stage EXCEPT ![s] = "live"]
  /\ UNCHANGED <<refs, owner, srefs, unreg, services, conns, pc, local, registry>>

(* The application unregisters the websocket servlet only while no          *)
(* connection is or becomes a websocket: the attributes of those keep       *)
(* pointers to it without a reference.                                      *)
MayUnregister(s) ==
  s = "websock" =>
    \A c \in Conns : cont[c] # s /\ wscontainer[c] = NULL /\ wsattr[c] = "none"

UnregisterServlet(s) ==
  /\ ~fl_destroyed /\ opc = "using" /\ unreg = NULL
  /\ stage[s] = "live" /\ MayUnregister(s)
  /\ stage' = [stage EXCEPT ![s] = "dying"]
  /\ unreg' = s
  /\ UNCHANGED <<refs, owner, srefs, services, conns, pc, local, registry>>

ServletFreeWaitsNot ==
  /\ unreg # NULL /\ (unreg = "content" => svc # "dying")
  /\ stage' = [stage EXCEPT ![unreg] = "none"]
  /\ svc' = IF unreg = "content" THEN "none" ELSE svc
  /\ unreg' = NULL
  /\ UNCHANGED <<refs, owner, srefs, svcrefs, conns, pc, local, registry>>

(* desctuctor__servlet_container_t, with the servlet and its services *)
ServletFree ==
  /\ unreg # NULL /\ srefs[unreg] = 0 /\ (unreg = "content" => svc # "dying")
  /\ stage' = [stage EXCEPT ![unreg] = "none"]
  /\ svc' = IF unreg = "content" THEN "none" ELSE svc
  /\ unreg' = NULL
  /\ UNCHANGED <<refs, owner, srefs, svcrefs, conns, pc, local, registry>>

RegisterService ==
  /\ opc = "using" /\ "content" \in Servlets /\ stage["content"] = "live" /\ svc = "none"
  /\ svc' = "live"
  /\ UNCHANGED <<refs, owner, table, svcrefs, conns, pc, local, registry>>

(* The application unregisters a service only while no request is between   *)
(* the search and the reference.                                            *)
MayUnregisterService == \A c \in Conns : pc[c] # "found"

UnregisterService ==
  /\ opc = "using" /\ svc = "live" /\ stage["content"] = "live" /\ MayUnregisterService
  /\ svc' = "dying"
  /\ UNCHANGED <<refs, owner, table, svcrefs, conns, pc, local, registry>>

ServiceFree ==
  /\ svc = "dying" /\ svcrefs = 0
  /\ svc' = "none"
  /\ UNCHANGED <<refs, owner, table, svcrefs, conns, pc, local, registry>>

(* desctuctor__wstk_httpd_t; the admin has returned before *)
OwnerGoto(from, to) ==
  /\ opc = from
  /\ opc' = to
  /\ UNCHANGED <<refs, srefs, unreg, svcrefs, conns, pc, local, registry>>

OwnerDestroy ==
  /\ unreg = NULL /\ svc # "dying"
  /\ OwnerGoto("using", "flag")
  /\ fl_destroyed' = TRUE
  /\ UNCHANGED <<stage, svc>>

OwnerTcp == OwnerGoto("flag", "tcp") /\ UNCHANGED <<fl_destroyed, stage, svc>> /\ Service!Destroy

OwnerTcpGone ==
  /\ OwnerGoto("tcp", "wait")
  /\ Service!Gone
  /\ UNCHANGED <<fl_destroyed, stage, svc>>

OwnerServlets ==
  /\ refs = 0
  /\ OwnerGoto("wait", "servlets")
  /\ UNCHANGED <<fl_destroyed, stage, svc>>

OwnerFree ==
  /\ \A s \in Servlets : srefs[s] = 0
  /\ OwnerGoto("servlets", "freed")
  /\ stage' = [s \in Servlets |-> "none"]
  /\ svc' = "none"
  /\ UNCHANGED fl_destroyed

Destroying == OwnerTcp \/ OwnerTcpGone \/ OwnerServlets \/ OwnerFree

Admin ==
  \/ RegisterService \/ UnregisterService
  \/ \E s \in Servlets : (RegisterServlet(s) \/ UnregisterServlet(s))

(* The httpd was freed, or the process ended on its way. *)
Stopped == (opc = "freed" \/ \E c \in Conns : pc[c] = "null") /\ UNCHANGED vars

Next ==
  \/ \E c \in Conns :
       \/ Handler(c) \/ Content(c) \/ Websock(c)
       \/ Connect(c) \/ Arrive(c) \/ Disconnect(c) \/ ConnAttrs(c) \/ ConnFree(c)
  \/ Admin \/ ServletFree \/ ServiceFree \/ OwnerDestroy \/ Destroying \/ Stopped

Spec == Init /\ [][Next]_vars

(* Threads are scheduled, handlers of servlets and services return, a       *)
(* destroyed TCP server destroys its connections.  The owner begins to      *)
(* destroy when no servlet is being freed, so these are in one conjunct; of *)
(* the connections it is enough that one or the other goes on.              *)
Fairness ==
  /\ WF_vars(Destroying \/ ServletFree) /\ WF_vars(ServiceFree)
  /\ WF_vars(\E c \in Conns : (opc = "tcp" /\ Disconnect(c)) \/ ConnAttrs(c) \/ ConnFree(c))
  /\ \A c \in Conns : WF_vars(Handler(c) \/ Content(c) \/ Websock(c))

FairSpec == Spec /\ Fairness

-----------------------------------------------------------------------------
InServlet(c) == cont[c] # NULL

(* container->refs counts the handlers that have the container, and a       *)
(* container is there as long as one has: registering, unregistering,       *)
(* closing and destroying never leave a handler in a freed servlet, nor a   *)
(* count that keeps an unregister waiting for ever.  The same for the entry *)
(* of a JSON-RPC service.  In any order that MayUnregister and              *)
(* MayUnregisterService leave: without them a websocket's handler, and a    *)
(* request between the search and the reference, could be too late.         *)
ServletOutlives ==
  /\ \A s \in Servlets :
       /\ srefs[s] = Cardinality({c \in Conns : cont[c] = s})
       /\ srefs[s] > 0 => stage[s] # "none"
  /\ svcrefs = Cardinality({c \in Conns : pc[c] = "call"})
  /\ (svcrefs > 0 \/ \E c \in Conns : pc[c] = "found") => svc # "none"

(* A handler that leaves has answered its request exactly once while the    *)
(* httpd lives, on every path through the servlets; twice only where an     *)
(* error follows what was sent already (a file that breaks off, a websocket *)
(* that is refused), not at all only if the connection is closed for want   *)
(* of memory or is being destroyed; a websocket frame at most once.         *)
OneReply ==
  \A c \in Conns : pc[c] = "out" /\ ~fl_destroyed =>
    CASE kind[c] = "request" -> replies[c] = 1 \/ (life[c] # "open" /\ replies[c] = 0)
      [] kind[c] = "twice" -> replies[c] = 2 \/ (life[c] # "open" /\ replies[c] < 2)
      [] kind[c] = "frame" -> replies[c] <= 1
      [] kind[c] = "silent" -> replies[c] = 0

(* The registry of the websocket servlet holds only connections that live   *)
(* and have the attribute whose destructor takes them out again, and a      *)
(* closing connection calls on_close once.                                  *)
RegistrySound ==
  \A c \in Conns :
    /\ c \in sockets => life[c] # "none" /\ wsattr[c] = "registered" /\ http_conn[c]
    /\ closes[c] <= 1
    /\ websock[c] /\ pc[c] = "idle" /\ life[c] = "open" => c \in sockets /\ closes[c] = 0

(* Destroying the httpd and unregistering a servlet end, wherever the       *)
(* handlers, the connections and the other locks are: but for a handler     *)
(* left spinning in the loop that reads a body, and one that used the       *)
(* attribute that a dying connection did not give it.                       *)
Waiting == unreg # NULL \/ opc \notin {"using", "freed"}

HttpdEnds == Waiting ~> (~Waiting \/ \E c \in Conns : Spins(c) \/ pc[c] = "null")
=============================================================================
