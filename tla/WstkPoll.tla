------------------------------- MODULE WstkPoll -------------------------------
(***************************************************************************)
(* wstk_poll_t (wstk-poll.c) over select (wstk-poll-select.c), the method  *)
(* wstk_poll_auto_conf always ends with, and over epoll                    *)
(* (wstk-poll-epoll.c).  One thread polls; the handler it calls adds and   *)
(* deletes sockets during the round, so these calls are put on two lists   *)
(* and carried out after it: first the deletions (slist2), then the        *)
(* additions (slist1).  With select a round is one walk over the table;    *)
(* with epoll it is a walk over the events, then one over the table for    *)
(* those who expired, and may come to a socket twice.                      *)
(*                                                                         *)
(* The sockets, their descriptors and their memory belong to the           *)
(* application, which is modelled as an application that follows the rules *)
(* of App below.  WstkTcpSrv uses the same poll with the server's handler. *)
(***************************************************************************)
EXTENDS Naturals, FiniteSets

CONSTANTS Sockets,  \* names of socket objects, used again after they were freed
          Fds,      \* descriptors
          Size      \* poll->size

ASSUME PollAssumption == IsFiniteSet(Sockets) /\ Fds # {} /\ Size \in Nat

VARIABLES
  method,          \* poll->method
  sockets,         \* poll->sockets, the pairs of key and socket
  slist1, slist2,  \* deferred additions and deletions
  fl_polling,
  todo,            \* the sockets the walk has not come to
  expiring,        \* epoll: the round is at those who expired
  fd,              \* socket->fd
  mrefs            \* the references to the socket's memory; 0: it is freed

lists == <<slist1, slist2>>
walk == <<fl_polling, todo>>
pass == <<method, expiring>>
poll == <<sockets, lists, walk, pass>>

(* written with = for WstkTcpSrv, which puts values in their place          *)
SamePass == method' = method /\ expiring' = expiring
vars == <<poll, fd, mrefs>>

table == {e[2] : e \in sockets}

Idle == ~fl_polling /\ slist1 = {} /\ slist2 = {}

Init ==
  /\ sockets = {} /\ slist1 = {} /\ slist2 = {}
  /\ method \in {"select", "epoll"}
  /\ fl_polling = FALSE /\ todo = {} /\ expiring = FALSE
  /\ fd = [s \in Sockets |-> CHOOSE f \in Fds : TRUE]
  /\ mrefs = [s \in Sockets |-> 0]

-----------------------------------------------------------------------------
(* poll_socket_add_perform: room, and no entry under the same descriptor    *)
Fits(s) ==
  /\ Cardinality(sockets) < Size
  /\ \A e \in sockets : e[1] # fd[s]

With(s) == sockets \cup {<<fd[s], s>>}

WithoutMisses(s) == sockets

(* poll_socket_del_perform deletes by the descriptor the socket has now     *)
Without(s) == {e \in sockets : e[1] # fd[s]}

(* The table after an addition that does not fit: epoll then deletes the    *)
(* entry that is in the way, another socket's.                              *)
Refused(s) ==
  IF method = "epoll" /\ Cardinality(sockets) < Size THEN Without(s) ELSE sockets

(* wstk_poll_add, where it returns success *)
Add(s) ==
  IF fl_polling
    THEN slist1' = slist1 \cup {s} /\ UNCHANGED <<sockets, slist2, walk>> /\ SamePass
    ELSE Fits(s) /\ sockets' = With(s) /\ UNCHANGED <<lists, walk>> /\ SamePass

(* wstk_poll_del: a deferred deletion holds a reference to the socket       *)
Del(s) ==
  IF fl_polling
    THEN slist2' = slist2 \cup {s} /\ UNCHANGED <<sockets, slist1, walk>> /\ SamePass
    ELSE sockets' = Without(s) /\ UNCHANGED <<lists, walk>> /\ SamePass

DelRefsNone == 0

DelRefs == IF fl_polling THEN 1 ELSE 0

(* wstk_poll_polling: select, or epoll_wait with some events, has returned  *)
Begin ==
  /\ Idle
  /\ sockets # {}
  /\ fl_polling' = TRUE
  /\ method' = method /\ expiring' = FALSE
  /\ todo' \in IF method = "epoll" THEN SUBSET table ELSE {table}
  /\ UNCHANGED <<sockets, lists>>

(* the walk comes to s; what the handler then does are steps of its own     *)
Visit(s) ==
  /\ fl_polling
  /\ s \in todo
  /\ todo' = todo \ {s}
  /\ UNCHANGED <<sockets, lists, fl_polling>> /\ SamePass

(* epoll: who expired *)
Expire ==
  /\ fl_polling /\ method = "epoll" /\ ~expiring
  /\ todo = {}
  /\ method' = method /\ expiring' = TRUE
  /\ todo' = table
  /\ UNCHANGED <<sockets, lists, fl_polling>>

EndWalk ==
  /\ fl_polling /\ (method = "select" \/ expiring)
  /\ todo = {}
  /\ fl_polling' = FALSE
  /\ UNCHANGED <<sockets, lists, todo>> /\ SamePass

(* wstk_list_clear(slist2), one entry: delete, then release the reference   *)
DelPerform(s) ==
  /\ ~fl_polling
  /\ s \in slist2
  /\ slist2' = slist2 \ {s}
  /\ sockets' = Without(s)
  /\ UNCHANGED <<slist1, walk>> /\ SamePass

AddPerformFirst(s) ==
  /\ ~fl_polling
  /\ s \in slist1
  /\ slist1' = slist1 \ {s}
  /\ sockets' = IF Fits(s) THEN With(s) ELSE Refused(s)
  /\ UNCHANGED <<slist2, walk>> /\ SamePass

(* wstk_list_clear(slist1), one entry; a socket that does not fit is        *)
(* dereferenced by the poll                                                 *)
AddPerform(s) ==
  /\ ~fl_polling
  /\ slist2 = {}
  /\ s \in slist1
  /\ slist1' = slist1 \ {s}
  /\ sockets' = IF Fits(s) THEN With(s) ELSE Refused(s)
  /\ UNCHANGED <<slist2, walk>> /\ SamePass

-----------------------------------------------------------------------------
(***************************************************************************)
(* The application, as the TCP server is with select: it counts what it    *)
(* adds, and deletes a socket before it gives it up, once and never in the *)
(* round that added it.  (With epoll the server's handler would not keep   *)
(* to this: a socket that closes and expires is deleted and given up       *)
(* twice.)  Outside of a round the lists are empty: they are cleared       *)
(* before wstk_poll_polling returns.                                       *)
(***************************************************************************)
Calling == fl_polling \/ Idle

Watched == (table \ slist2) \cup slist1

Deref(s) == mrefs' = [mrefs EXCEPT ![s] = @ - 1]

Open(s) ==
  /\ Calling
  /\ mrefs[s] = 0
  /\ mrefs' = [mrefs EXCEPT ![s] = 1]
  /\ \E f \in Fds :
       /\ \A t \in Sockets : mrefs[t] = 0 \/ fd[t] # f
       /\ fd' = [fd EXCEPT ![s] = f]
  /\ UNCHANGED poll

AppAdd(s) ==
  /\ Calling
  /\ mrefs[s] > 0
  /\ s \notin table \cup slist1
  /\ Cardinality(Watched) < Size
  /\ Add(s)
  /\ UNCHANGED <<fd, mrefs>>

(* delete a socket and give it up: wstk_poll_del, wstk_mem_deref            *)
AppDel(s) ==
  /\ Calling
  /\ s \in table \ slist2
  /\ Del(s)
  /\ mrefs' = [mrefs EXCEPT ![s] = @ + DelRefs - 1]
  /\ UNCHANGED fd

Round ==
  \/ (Begin \/ Expire \/ EndWalk \/ \E s \in Sockets : Visit(s)) /\ UNCHANGED <<fd, mrefs>>
  \/ \E s \in Sockets : DelPerform(s) /\ Deref(s) /\ UNCHANGED fd
  \/ \E s \in Sockets :
       /\ AddPerform(s)
       /\ IF Fits(s) THEN UNCHANGED mrefs ELSE Deref(s)
       /\ UNCHANGED fd

App == \E s \in Sockets : Open(s) \/ AppAdd(s) \/ AppDel(s)

Next == Round \/ App

Spec == Init /\ [][Next]_vars

-----------------------------------------------------------------------------
TypeOK ==
  /\ sockets \subseteq Fds \X Sockets /\ slist1 \subseteq Sockets /\ slist2 \subseteq Sockets
  /\ method \in {"select", "epoll"} /\ fl_polling \in BOOLEAN /\ expiring \in BOOLEAN
  /\ todo \subseteq table
  /\ fd \in [Sockets -> Fds]
  /\ mrefs \in [Sockets -> 0..2]

(* The poll never reaches for the memory of a socket that is gone: those in *)
(* the table, which the next select walks, and those on the lists, which    *)
(* the end of the round dereferences, are allocated, although the           *)
(* application gave the deleted ones up in its handler.                     *)
TableAlive == \A s \in table \cup slist1 \cup slist2 : mrefs[s] > 0

(* wstk_poll_add has told the application that the socket is watched before *)
(* the addition is carried out: it is never refused then, neither for room  *)
(* (a round may free a place and fill it) nor for a descriptor that a       *)
(* deleted socket still occupies in the table.                              *)
DeferredAddFits ==
  ~fl_polling /\ slist2 = {} => \A s \in slist1 : Fits(s)

(* What the application asked for is what it gets: walking the table and    *)
(* carrying out the lists change the set of watched sockets at no time.     *)
RoundKeepsWatched == [][Round => Watched' = Watched]_vars
=============================================================================
