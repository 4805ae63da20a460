# Verification of wstk_c

wstk_c (`src/libwstk`) is a C library of building blocks for network services: reference-counted memory,
threads, a job queue, a pool of worker threads, polling over select / epoll / kqueue, a TCP and a UDP server, and on top of
the TCP server an HTTP server with servlets (JSON-RPC, upload, websocket), and the containers, codecs, text functions and the
JSON library these stand on.  This directory holds TLA+ models of its concurrent core and of its sequential parts, the TLC
runs that check them on small instances, and TLAPS proofs of the properties that matter most.

Conventions: a definition bears the name of the C function or field it stands for where TLA+ allows it; the actions of a
thread are numbered by its program counter (`mpc`, `spc`, `cpc`, `opc`), one value per point where another thread can see
or change what it does next.  `PROJECT.json` maps every definition to its source lines.

## Inventory

| component | source | state | operations | made correct by |
|---|---|---|---|---|
| job queue | `wstk-queue.c` | array of size+1 pointers, `in`, `out`, mutex | create, push, pop, len, is_empty, is_full, destructor | first-in first-out; every pointer leaves once or is released once; room comes back |
| worker pool | `wstk-worker.c` | queue, `refs`, `sub_threads`, `idle_threads`, `fl_ready`, `fl_destroyed` | create, perform, is_ready, destructor; main thread and sub-threads | counters exact; memory outlives its threads; each accepted job handled once; destroy ends |
| memory | `wstk-mem.c` | reference count and destructor of a block | zalloc, ref, deref | destructor runs once, when the last reference goes |
| threads, mutexes | `wstk-thread-*.c`, `wstk-mutex-*.c` | thread object (two owners: creator and thread), mutex | create, id, flags, join, cancel | the object outlives both owners |
| polling | `wstk-poll*.c` | table of sockets, deferred additions and deletions (`slist1`, `slist2`), `fl_polling`, expiry | add, del, polling, interrupt, destructor | each socket reported once per round; deferred operations applied in order; no use of a deleted socket |
| TCP server | `wstk-tcp-srv.c` | server `refs`, `connections`, map id -> connection; per connection `refs`, `fl_destroyed`, buffer, attributes | start, polling thread, two workers (requests, garbage), lookup, write, destructor | a connection's memory outlives its handlers; one handler per connection and buffer; counters return to 0 |
| UDP server | `wstk-udp-srv.c` | as above without connections in the poll | start, polling thread, worker, destructor | same, for datagram tasks |
| list, hash table | `wstk-list.c`, `wstk-hashtable.c` | doubly linked list; buckets of chained entries | add, del, find, iterate; insert, find, remove, expand | sequence / map semantics; iteration sees every entry |
| buffer | `wstk-mbuf.c` | `pos`, `end`, `size`, storage | read, write, resize, shift, printf | `pos <= end <= size`, nothing outside the storage |
| HTTP server, servlets | `wstk-httpd.c`, `wstk-http-msg.c`, `wstk-servlet-*.c`, `wstk-websock.c` | domain -> servlets, request and connection attributes, registry of websocket connections | register, dispatch, perform; websocket send, broadcast, close | a servlet outlives its requests; a websocket message never goes to a closed connection |
| HTTP head, websocket frames, multipart, addresses, login | `wstk-http-msg.c`, `wstk-websock.c`, `multipartparser.c`, `wstk-net-util.c`, `wstk-net-sa.c`, `wstk-httpd.c` | an automaton each, or none | decode, encode | what was written is read, wherever the network cuts it |
| text, numbers, base64, escapes, URIs, digests | `wstk-str.c`, `wstk-fmt.c`, `wstk-pl.c`, `wstk-regex.c`, `wstk-base64.c`, `wstk-escape.c`, `wstk-uri.c`, `wstk-md5.c`, `wstk-sha1.c` | none | convert and convert back | nothing is lost, buffers suffice |
| JSON | `cJSON.c`, `cJSON_Utils.c` | trees, their lists of children | parse, print, minify, edit, sort, pointers, patches | trees read back; patches lead from one tree to the other |
| sockets, system wrappers, XML | see `PROJECT.json` | none | system calls | not modelled |

How they interact.  A server's polling thread calls `wstk_poll_polling`, whose handler accepts connections, reads into the
connection's buffer, and hands the connection to a worker by `wstk_worker_perform`; a sub-thread of the worker runs the
server's handler.  Closed and expired sockets are dereferenced in the polling thread, or, while a handler still uses the
connection, by a second worker.  All objects are destroyed by the last `wstk_mem_deref`, whose destructor sets
`fl_destroyed`, waits until the object's own `refs` is 0, and frees.  `fl_destroyed` is read outside of the mutexes almost
everywhere: the hard behaviours are the interleavings of these reads with a destroy, counters that must be exact for a wait to
end, and values (queue lengths, `refs`, sockets collected for polling) that are used after they were read.

The hazards are listed with their lines in `PROJECT.json`.

## Plan

1. `WstkQueue` implementing `BoundedFifo`, with proofs.  *Done.*
2. `WstkWorker` (composes `WstkQueue`) implementing `WorkerPool`, with proofs.  *Done.*
3. `WstkPoll`: the poll over select and epoll with its deferred additions and deletions, with proofs.  *Done.*
4. `WstkTcpSrv` (composes `WstkPoll`): connections, their references, the polling thread, the two workers reduced to what
   `WorkerPool` promises, the owner, the peers.  with proofs.  *Done, except attributes, write and a repeated start.*
5. `WstkUdpSrv`, `WstkHttpd` with its servlets, with proofs.  *Done.*
6. `WstkList`, `WstkHashtable`, `WstkMbuf`, the codecs, text, addresses and JSON, composed in `WstkLibrary`.  *Done; the
   queue and the containers with proofs, the rest model-checked.*
7. `TcpService`: what the TCP server promises and the HTTP server builds on, proved of both.  *Done.*

Not taken up: that the server's calls of the poll keep the rules `App` of `WstkPoll`.  `PollSound` says of the server's own poll
what these rules are for.

## Modules

### BoundedFifo and WstkQueue

`BoundedFifo` says what callers of a queue see: a sequence of items, insertion (which may be refused), removal, a removal
that finds nothing, and destruction, which releases each item as often as it is still held.
`WstkQueue` is the code: `data`, `in`, `out`; `wstk_queue_push`, `wstk_queue_pop`, `wstk_queue_create` and `destructor` are
single steps because each runs under `queue->mutex`.  Items are opaque; `ret` records what the last call returned.  A pop
does not lower `in`; both indices go back to 0 together (`Rewind`) when the last place or an empty slot was popped, so the
pop of a drained queue succeeds once with NULL.  `Pending` (slots `out..in-1`) is the refinement mapping to `BoundedFifo`.

### WorkerPool and WstkWorker

`WorkerPool` is the promise of a worker: accepted jobs are waiting, taken, then handled; only a closing pool drops a taken
job or releases a waiting one.  `WstkWorker` is the code.  Its threads are `main` (`worker_main_thead`), the sub-threads
`Subs`, the `Callers` of `wstk_worker_perform` (application threads, or the handlers of sub-threads) and the owner running the
destructor.  The steps are the sections under `worker->mutex` or the queue's mutex, and the reads of `fl_destroyed`,
`fl_ready`, `sub_threads` and the queue length between them.  The queue is `Q == INSTANCE WstkQueue` on the worker's own
`data`, `in`, `out`.  Time is reduced to "an expiry that was set may be over".  `wstk_thread_create` fails when every name in
`Subs` is taken, which also happens while a finished thread has left `sub_threads` but not yet returned its reference.

`accepted`, `handled` and `released` record what became of each job; no action's guard reads them, except
that a job is accepted once.

`Contract` says when the owner may destroy.  The library lets the owner see only `wstk_worker_is_ready` and the end of its
own calls ("ready").  Under that contract the code is not safe: see `worker_late_start` below.  The other runs that destroy, and the proofs, assume
"quiet": at the moment the owner sets `fl_destroyed` no thread of the worker is between the decision to launch it and its
`worker_refs`.  Owners that destroy a worker some time after its last launch meet it, as the servers and the example do
(250 ms pass between two looks at the queue); nothing in the code enforces it.

### WstkPoll

The poll over select and over epoll (`method`).  By auto-configuration only select is ever in use: `wstk_poll_auto_conf` tests its
argument instead of its choice (`wstk-poll.c:314`), so "auto" ends with select; epoll is for those who name it.  A round over select is one walk of the table; over epoll it is a
walk of the events and then one for those who expired (`expiring`), so a socket may be reported twice.  `sockets` is the table (key and socket), `slist1` and `slist2` the deferred additions and
deletions, `todo` what the walk of a round still has to visit.  The key of an entry is the descriptor the socket had when
it was added; a deletion goes by the descriptor it has now.  The lists are sets: the code adds at the head and never
the same socket twice, and the model allows every order.  In `WstkPoll` the sockets belong to an application that keeps the
rules the TCP server keeps (`App`); in `WstkTcpSrv` they are the server's.

### WstkTcpSrv

| model | code |
|---|---|
| `ppc`, `cur`, `ready` | the polling thread: `polling_thread`, `wstk_poll_select_polling`, `poll_handler`; the socket being handled; what select reported |
| `P == INSTANCE WstkPoll` | `srv->poll` on the server's sockets; `poll` is the pointer `srv->poll` itself |
| `conn[c]`, `mrefs[c]`, `fd[c]` | connection and its socket; `stage` is how far their destructors are, whichever thread runs them |
| `waiting`, `hpc`, `hconn`, `hother` | `worker_tcp`: queued connections, its sub-threads, what each handles and has looked up |
| `gcq`, `gcd` | `worker_gc`: queued sockets, and those whose destructor runs in one of its threads |
| `opc` | the owner in the server's destructor |
| `owner`, `net` | the kernel: whose a descriptor is (the lowest free one is given out), unread bytes and end of stream |

A refused `wstk_worker_perform` is possible at any time (`PollerGcRefused`, `PollerPerformRefused`), as the queue does refuse
with free places.  Expiry is "may have passed" (`Expires`).  A handler looks connections up, reads under the read lock,
asks for a close (`Acts`) or just returns; a handler releases what it looked up.  References of memory blocks are
taken and given back atomically here.  Allocation failures, attributes, getters and write are left out.

`Contract` says when the owner destroys: "ready", after `wstk_tcp_srv_is_ready`; "quiet", if moreover `poll_handler` is not between
its look at `fl_destroyed` and `srv_refs` of an accepted connection.  The library gives the owner no means to tell the two apart, and
under "ready" the connection may be marked as counted without being counted.  `SrvRefsExact` says that this is all that is lost: `met`
remembers whether the destroy met an accept, and the count is short by that one connection or exact.  One is enough for the owner
to free the server while a connection or the polling thread is left (`ServerOutlives` holds otherwise); what happens after such a
free is not modelled.

### TcpService

What an application of the TCP server sees: per connection how far its life is, and how many requests are queued and in the
handler.  A connection has one request at a time; none is queued once its destructor has set `fl_destroyed`, but
the last one is still handled, so a handler may meet a dying connection; its attributes are freed when no request is left; no
connection comes once the server is being destroyed, and the destroy ends when all are gone.  `WstkTcpSrv` implements
it (`ServiceSpec`), `Life` being the refinement mapping of the stages of the two destructors.

### WstkUdpSrv

The UDP server: the polling thread (`ppc`) copies each datagram of `inbox` into a connection of its own, counts it in `refs` and
`connections`, and queues it to the worker, whose sub-threads (`hpc`) run the handler and dereference it; the owner creates,
starts and destroys (`opc`).  `MayDestroy`: the owner of a started server waits until the polling thread runs, because this
takes its reference only then; the owner that does not frees the server under it.  Left out: attributes, getters, `udata`,
a second start before the server is ready.

### WstkHttpd

The life of a request in `wstk-httpd.c` and in the three servlets, per connection a program counter `pc`: look up the container,
count it, call it, reply, release.  The TCP server is
reduced to its promise: `Connect`, `Arrive`, `Begin`, `Return`, `Disconnect`, `ConnAttrs`, `ConnFree` and the steps of the owner
are those of `TcpService` together with what they do to the attributes and the handler.  Sections
under a mutex that wait inside are held over several steps (`unreg`, `smutex`, `cmutex`); these are where a deadlock could be.
`MayTalk` is what every reply, read and lock of the connection tests first: neither the httpd nor the connection is being destroyed.
Content servlets read a body in a loop that only the peer's end or the expiry leaves besides its completion (pc "read"); once
`MayTalk` is over it is a busy wait, for ever (`Spins`).  The websocket servlet has the same loop for the rest of a frame
(`wstk-servlet-websock.c:276`), but never gets there: `wstk_websock_decode` says NODATA until the whole payload is there
(`wstk-websock.c:67`, `:80`; `CodecsInvert` checks it of every beginning of a frame), the handler leaves at line 234, and the
condition of line 265 is never true.  A message on a dying connection uses an attribute it did not get (pc "null",
`wstk-servlet-websock.c:310`), which ends the process.  Three rules are
asked of the application, because the code breaks without them: `MayUnregister` (the websocket servlet is unregistered only when
no connection is or becomes a websocket: its attributes hold plain pointers), `MayUnregisterService` (a service is not
unregistered between the search for it and the reference, `wstk-servlet-jsonrpc.c:322`), and `MayEnd` (the connection does
not end between the 101 and `ws_reg`; lifted by `LateClose` in the run `http_registry`).

### The library: WstkLibrary

Sequential parts, each in behaviours of its own: `part` names the part a behaviour exercises.  Containers take their
operations in any order; functions are given an `input` that grows by one character at a time (`WstkInput`), so that every
text up to the bound is tried.

| module | code | models |
|---|---|---|
| `WstkList` | `wstk-list.c` | the links, who owns the data, failing allocation; against a sequence.  The last item is not deleted at position 0 (`MayDel`): the code follows its successor, NULL |
| `WstkHashtable` | `wstk-hashtable.c` | chains, both ways to grow, failing allocation, values the table destroys, iteration while other entries are deleted; against a map |
| `WstkMbuf` | `wstk-mbuf.c` | the block, `pos`, `end`, `size`; a failed resize sets `size` nevertheless, after which the caller gives up.  `MayResize`: not below `end` |
| `WstkHttpMsg`, `WstkRegex` | `wstk-http-msg.c`, `wstk-regex.c` | the expressions of the request line; the automaton of the header fields, against a definition by lines |
| `WstkCodecs` | `wstk-websock.c`, `wstk-base64.c`, `wstk-escape.c`, `wstk-uri.c` | frames, with lengths scaled down; base64; escapes to the base 3; URIs over the regular expressions |
| `WstkChunks` | `multipartparser.c`, `wstk-servlet-upload.c`, `wstk-md5.c`, `wstk-sha1.c` | the multipart automaton and what the upload servlet makes of it; blocks of a digest, 4 octets for 64 |
| `WstkText` | `wstk-str.c`, `wstk-fmt.c`, `wstk-pl.c` | separating, searching, quoting, hexadecimal; formatted output, numbers in words of 5 bits for 32 |
| `WstkPeer` | `wstk-net-util.c`, `wstk-net-sa.c`, `wstk-fmt.c`, `wstk-httpd.c` | IPv4 and IPv6 addresses, ports, logins and tokens |
| `WstkJson` | `cJSON.c` | reader, writer with its buffer, minify, escapes, the linked list of children |
| `WstkJsonPatch` | `cJSON_Utils.c` | comparison, sorting, pointers, patches and merge patches, made and applied |

## Runs

| run | shows |
|---|---|
| `worker_quiet` | `CountersExact`: `refs`, `sub_threads` and `idle_threads` count the threads they are meant to count; `NoUseAfterFree`; `PoolSpec`: the worker implements `WorkerPool`; `LossBounded`: a destroy loses at most one accepted job per sub-thread.  An outside caller and handlers that queue further jobs, two sub-threads, `min` 1, `max` 2, three jobs (one more than may be lost), a queue of two |
| `worker_live` | `JobServed`: every accepted job is handled although the handler of `s1` may never return and, with `min` 0, all other threads may leave; `DestroyEnds`: the destructor returns once the handlers do |
| `poll` | `TableAlive`, `DeferredAddFits`, `RoundKeepsWatched`, over select and over epoll.  Four sockets, four descriptors, a table of three: one round can delete from a full table and refill it, also under the deleted one's descriptor |
| `tcp_run` | `ConnRefsExact`, `BufferHasOneUser`, `ConnectionsExact`, `PollSound`, with two connections, which have the same id, two handlers that look connections up, and no destroy |
| `tcp_destroy` | contract "ready": `SrvRefsExact`, `ServerOutlives`, `ConnOutlivesUsers`; two connections of which the server allows one at a time, so that one is accepted while the other is still being freed |
| `tcp_live` | `DestroyEnds`, `ClosedFreed`, `RequestRead`, with expiry, and handlers that close and read on; `ServiceSpec`: the server implements `TcpService` |
| `udp` | `UdpCountsExact`, `UdpOutlives`, `UdpDestroyEnds`, `UdpReceived`.  Two connections, two handlers, two datagrams (also empty ones), signals, `max_conns` 2 |
| `http` | `ServletOutlives`, `OneReply`, `RegistrySound`, and `HttpdEnds` (a destroy and an unregister end, unless a handler spins in the loop that reads a body or used the missing attribute).  Two connections, a content servlet with one service, the websocket servlet |
| `library` | `FifoSpec` (the queue implements `BoundedFifo`) and `SpaceComesBack` (a full queue accepts again, if somebody keeps popping); `ListIsSequence`, `TableIsMap`, `BufferHoldsBytes`; `HeadIsRead`, `CodecsInvert`, `ChunksAgree`, `TextSurvives`, `PeersAreKnown`, `JsonReadsBack`, `PatchesApply` |
| `worker_late_start` | contract "ready": a sub-thread launched before and started after the destroy returns a reference it never took, and the worker is freed under its main thread |
| `tcp_false_close` | bytes taken by a handler between select and FIONREAD make a live peer look gone |
| `http_registry` | a connection that ends after the 101 and before `ws_reg` stays in the servlet's registry after it was freed |

Bounds of the worker runs.  Two sub-threads let one leave, idle or start while the other is anywhere; a third adds only symmetric
interleavings of the same counters (the proofs cover any number).  Two or three jobs fill and rewind the queue.  `HerrMax` (10 in
the code) is 1: it only decides when a loop of failed launches is left.  Jobs are only compared, so the invariant runs permute them
(`JobSymmetry` in `MCWstkWorker`).  Every job is accepted at most once.

Bounds of the server runs.  The names of two connections are used again once freed, so any number of connections come and go, at
most two at a time: one in any stage of its destructor while the other is accepted, read, or handled.  Three
descriptors are one for each socket.  Connections and handlers are interchangeable in the invariant runs (`Symmetry` in
`MCWstkTcpSrv`).  The liveness run has one connection and two handlers, so that a refinement that queued or handled a request twice would show.  The UDP run allows as many datagrams as connections, so that
the limit, the drop and the refusal all occur.  Two connections in the HTTP run let one be in any step of a request or a
websocket while the other is; a name is used again, and an admin registers and unregisters again and again.

Bounds of the library run.  A queue of four places and three items; four nodes of a list, one datum the list owns; a hash
table of lengths 2, 3 and 5 with three keys that share a chain in some lengths and not in others, so that both ways of growing
move entries and leave some; a buffer of four bytes that starts with one.  Texts are as long as it takes to meet every pair of
states of the automata: 6 characters of a head behind which more lines follow, 5 of a multipart body before and behind which a head,
a boundary or the beginning of one stand, frames of up to 6 octets around the scaled limits 1 and 3, 9 octets of a digest for two blocks
and padding, 5 pieces of JSON text, 5 operations on a list of children, pairs of trees with up to three members and every
name that needs an escape or differs in case or in the order with and without case, all IPv6 addresses of words 0, 1 and 65535.
`PeersAreKnown`, `JsonReadsBack` and `PatchesApply` speak of what each step has read (`input'`), so they are action properties.

Fairness (`FairSpec`): each thread keeps taking steps, as the scheduler grants; handlers return (outside `Stuck` in the
worker; in the server even one that could go on reading returns in the end, which is the strong fairness of `HandlerReturn`); callers
finish a call they began; an owner that began to destroy goes on.  Nobody has to call, connect, send or destroy, and no expiry has to come.
In the HTTP run a destroyed TCP server ends its connections, one after the other, which `tcp_live` shows.  In the library run only the consumer of the queue is fair.

## Where the code and its comments part

Three disagreements have runs (`findings` in `PROJECT.json`).  These were met while modelling and have none:

- `tcp_worker_handler` checks that connection and socket are not destroyed and then shuts the descriptor down (`wstk-tcp-srv.c:459`);
  in between `worker_gc` can close it and the polling thread accept a new connection under the same number, which is shut down.
  The model has these steps (`HandlerShutdown`).
- `wstk_poll_create` creates the select poll with the `size` it was given (`wstk-poll.c:70`), not with the `aconf.size` that
  `wstk_poll_auto_conf` has limited to `wstk_poll_select_max_size()` (line 322).  Sizes above that are not modelled.
- `wstk_queue_len` (`wstk-queue.c:223`) returns the write index, which a pop does not lower: not the "current queue length"
  (line 207) once something was popped; `wstk_queue_is_full` (line 133) holds, and pushes are refused, with free places.
  The model has both operators as they are, and the worker's main thread works with them (`JobServed`).
- A sub-thread that sees `fl_destroyed` after it popped a job drops it (`wstk-worker.c:255`): neither handled nor released.
  `LossBounded` says how many.
- A locked connection is given to `worker_gc` ("using gc for the locked connections", `wstk-tcp-srv.c:352`), but the
  deferred deletion holds a reference too: when `worker_gc` is faster, the end of the round runs the destructor and the polling
  thread waits for the handler.  `ClosedFreed` and `DestroyEnds` hold nevertheless.
- The id of a connection is address + port + family of its peer (`wstk-net-sa.c:531`), so two peers can have the same: the
  newer hides the older from `wstk_tcp_srv_lookup_conn`, and the destructor of the older removes the newer from the map.  The sum
  of an IPv6 address may also be 0, which no lookup accepts.
- The server's destructor reads `srv->poll` and calls `wstk_poll_interrupt` (`wstk-tcp-srv.c:163`) while the polling thread may
  have freed the poll and not yet cleared the pointer (line 315).
- A datagram of length zero is never received (`wstk-net-udp.c:231`), nor are those behind it: `UdpReceived` leaves it out.
- The loop around `wstk_httpd_read` spins once the httpd or the connection is being destroyed (`wstk-servlet-jsonrpc.c:240`, and
  in the upload servlet): the destroy, which waits for the handler, then hangs.  `HttpdEnds` leaves such a handler out (`Spins`).
- A websocket frame that does not arrive at once is dropped, and what follows it is taken for a frame of its own: decoding says NODATA
  (`wstk-servlet-websock.c:234`), so the loop for the rest of it (lines 265 to 305) is never entered.
- A whole message on a connection that is being destroyed: `attr_get` says success and leaves NULL, and
  `ws_conn_attr->sec_ctx` is read through it (`wstk-servlet-websock.c:310`).  The handler stops at
  pc "null", and `HttpdEnds` leaves it out as well.
- An error after the header was sent is followed by a second reply (`wstk-httpd.c:435`): `OneReply` counts these apart.
- `wstk_servlet_websock_send2` takes `conn->mutex` under `servlet->mutex`, the destructor of the attribute the other way round
  (`wstk-servlet-websock.c:546`): sending to another connection that closes can wait for ever.  Modelled is sending to the own.
- `xxx_inet_pton6` (`wstk-net-util.c:282`) clears words when two colons stand between eight words; a port is taken modulo 2^16.
- `SHA1_Update` tells a carry of its low word by comparing the 32-bit sum with `len << 3` in a `size_t` (`wstk-sha1.c:191`): one
  update of 2^29 bytes or more counts 2^32 bits too many.  `Counted` has the word scaled down to 64 bits, so that updates of
  8 octets do the same; the digest part of `ChunksAgree` asks for the right count, and for one word too many at most where SHA-1 had such an
  update (`IsLong`).  MD5 compares with a 32-bit value and is right.
- A multipart line end with two hyphens that begins no boundary is dropped from the content (`multipartparser.c:274`).
- `wstk_strnstr` (`wstk-str.c:346`) does not look again at the character of a misfit and misses some occurrences; a backslash as
  the last character takes the separation past the end of the text (lines 115, 155).
- `cJSON_Minify` takes the end of a string that ends in a backslash for an escaped quote (`cJSON.c:2840`).
- `sort_list` leaves the first child's `prev` NULL or at a child that is no longer the last (`cJSON_Utils.c:486`).  Making a
  patch or a merge patch, comparing, and so also testing, sort the objects of the caller in place: an addition to a tree from which a patch was
  made is then dropped or cuts the list (`cJSON.c:1986`), and is undefined where the stale `prev` was deleted.  The model
  keeps that pointer (`tail`), and `PatchesApply` applies each patch both to a copy, which it must turn into the target, and to the very tree it was made
  from, which it must turn into the target where no `prev` was lost (`AllLinked`), and elsewhere into a part of the target at most
  (`PartOf`; any outcome at all where a deleted child is used).
- `decode_pointer_inplace` does not copy plain characters behind an escape (line 361), the index loop tests the first character
  only (line 288), `detach_path` looks a member up without regard to case (line 469), nested merge patches are made without
  regard to case (line 1457), and a merge patch made without regard to case walks by `strcmp` (line 1425) through lists sorted otherwise,
  so that a member of both trees may be added and then removed.  `PatchesApply` names these as its
  exceptions (`Decodable`, `CaseDistinct`, `WalksInOrder`); a merge patch cannot set a null (`HasNull`).
- `print_handler` of a fixed buffer keeps writing the padding of a text that had no room (`wstk-fmt.c:55`): what `wstk_snprintf`
  leaves behind when it says -1 is no prefix of the text then.  `TextSurvives` allows that padding.

## Proofs

`WstkQueueProofs` (any size, any items).  `IInv == TypeOK /\ SlotsInv` (the occupied slots are `out..in-1`) is inductive: `SlotsInv` keeps `out` inside the
array, and the type bounds the slot that changes.  From it follow `QueueTypeOK`, `QueueSlots`, `QueueNullPop` and the
refinement `QueueIsFifo`.  The last one rests on what `Pending` is (`SegmentIsSeq`), on `PushAppends`, `PopRemovesFirst`
and, for the destructor, on a bijection between the pending positions and the slots it releases (`ReleasedIsContent`).

`WstkWorkerProofs` (any number of sub-threads, callers and jobs, any `min <= max`; `Contract # "ready"`).  The inductive
invariant is `Control /\ Counts /\ NoUseAfterFree`.  `Control` says where the threads can be: once `fl_destroyed` is set none is being
started (`NoLateStart`), calls run inside handlers or before the destroy (`CallsCovered`).  `Counts` says that each counter is the
cardinality of a set of threads; each step adds one thread to such a set, takes one away, or leaves it (`Grow`,
`Shrink`).  Without `NoLateStart` it is not inductive, and the run `worker_late_start` shows that the theorems are then false.
Theorems: `WorkerCounters` (`CountersExact`, where `idle_threads` is exact until the destroy, whose threads leave without it),
`WorkerNoUseAfterFree`.

`WstkPollProofs` (any number of sockets, any descriptors, any size of the table).  The properties speak of the table and the
lists; the invariant adds what makes them stable.  `Held`: one reference is held for each socket the poll knows, before a
deletion by the application and after it by the deletion list, so the reference that `DelPerform` gives back is the last one.
`Keys` and `Distinct`: an entry is under the descriptor its socket still has, which no other open socket has; hence the
deletion by descriptor removes the one socket meant (`TableWithout`), and entries are no more than sockets (`EntriesBound`, by an
injection).  `Room`: the sockets asked for fit the table, from which `AddFits` follows once the deletions are done.
Theorems: `PollTypeOK`, `PollTableAlive`, `PollAddFits`, `PollKeepsWatched`.  They hold over select and over epoll, for applications
that keep the rules of `App`; one of these is to delete a socket once, also when epoll reports it twice.

`WstkWorkerProofs` then follows the jobs.  `JInv` adds to the invariant above that no job is in two places: two slots of the
queue never hold the same job (`QueueOK`), a sub-thread has what it popped until it handled or dropped it (`HandsOK`), a call carries
a job that was not accepted yet (`ArgsOK`), and what is queued, in hand, handled or released was accepted (`FatesOK`).
`WorkerIsPool` is the refinement of `WorkerPool` (`PoolSpec`), one lemma for each thing that can happen to a job; all other
steps leave the places of the jobs alone (`OnlyMoves`).  It rests on what the queue's slots are under a push, a pop and
the destructor (`PushStores`, `PopStores`, `FreeReleases`).  `WorkerLossBounded` (`LossBounded`) is a counting argument that is
not visible in the property: a step loses at most one job, and only when a sub-thread that popped sees `fl_destroyed`; that
thread can drop no other, so the jobs lost and the threads that may still drop one (`MayDrop`) are at most `max` together.

`WstkUdpSrvProofs` (any connections, handlers and bounds).  A connection is in one hand, the polling thread's, the queue's or
a handler's (`OneHand`), and is counted as long as it is in one (`AllCounted`); hence `UdpCounts` (`UdpCountsExact`).
`UdpNobodyLeft` (`UdpOutlives`) moreover needs `NoLateStart`: who destroys a started server has seen its polling thread run,
which is what `MayDestroy` asks for.

`WstkTcpSrvProofs` and `WstkTcpSrvCounts` (any connections, descriptors, ids, handlers and limits).  None of the properties is
inductive, and none can be proved without the others: the references of a connection are right only if the socket is
destroyed once, which needs the poll to know it once, which needs the descriptors to be distinct, which needs the destructor to run once.
The invariant `Inv` is therefore one, in five parts, and each is proved by its own lemmas.
`Control`: what `fl_polling`, the pointer to the poll, its lists and `cur` are at each step of the polling thread.
`Memory`: a descriptor is the number of one open socket; an entry is under its socket's descriptor; the references of a socket's memory
are the deletion list's and one other, that of the poll, of the polling thread about to give it up, or of `worker_gc`'s queue
(`SockRefs`), so the destructor runs once, in one thread (`Destructors`).
`Uses`: `conn->refs` is the number of those who have the connection, the map leads only to connections that are not unmapped yet, and the
buffer is with a handler or with the poll.  `Serving`: the same for `srv->refs`.  `Accepted`: what the poll watches and `connections`.
The owner of contract "ready" may free the server under an accept (run `tcp_destroy`), and the model says nothing of what comes after.
So the invariant is `IInv == Valid => Inv`, where `Valid` ends with such a free, and `TcpInvariant` states it under every
contract.  `TcpSrvRefs` and `TcpServerOutlives` (`SrvRefsExact`, `ServerOutlives`) follow without condition, since they say
themselves what a destroy that met an accept leaves.  `TcpTypeOK`, `TcpConnRefs`, `TcpBuffer`, `TcpConnOutlives` and
`TcpConnections` are stated for the valid states, and for all states under the other contracts, where every state is valid
(`AlwaysValid`).  `TcpPollSound`: the entries of the table are sound in all valid states; that what was accepted fits the
table holds until the destroy, where the accept of a server being destroyed no longer counts.

`WstkHttpdProofs` (any connections, with and without each servlet).  The invariant has what makes `ServletOutlives` inductive: a connection
whose memory is given back has no handler (`Lives`); `httpd->mutex` is held while a container is dying, and nobody stands between the search
for a service and its reference while one is dying (`Tables`, where `MayUnregisterService` is needed); a handler has
the container of the servlet it is in, and the container that an open websocket remembers without a reference is the
websocket servlet, which stays as long as one remembers it (`Containers`, where `MayUnregister` is needed).
`Answers` follows the replies of a handler from step to step, for `HttpdOneReply`.  `Registered` holds only without `LateClose`:
the attribute, the flag `websock` and the entry in the registry at each step of an accept and of a closing, and a closing calls
`on_close` only as long as there is an attribute.  `HttpdRegistrySound` (`RegistrySound`) therefore assumes `~LateClose`, and the run
`http_registry` shows that it is false otherwise; the other theorems hold either way.

`TcpIsService` (in `WstkTcpSrvCounts`) is the refinement of `TcpService` by the server.  A step is one of four kinds: it moves a connection
from one stage of its life to the next, moves a request from the polling thread to the queue, to a handler and out of it, moves
the destroy, or leaves all that alone (`LifeStays`).  The guards of `TcpService` are what needs the invariant: a request
arrives at a connection that is open and has none, because the polling thread found `conn->refs` 0 and `refs` is exact
(`Uses`); attributes are freed when no request is left, for the same reason; and no connection is left when the server goes
(`ServerOutlives`).  `HttpdIsServed` says that what `WstkHttpd` takes the TCP server for is a behaviour of the same `TcpService`,
so the HTTP model adds nothing to the promise.

`WstkContainerProofs` treats the list, the hash table and the buffer.  `ListSpec`, `HashSpec` and `MbufSpec` are the parts of the
library's behaviours that concern one of them.  What a walk along `next` or of the table's chains yields is defined by a recursive function; as
the induction theorems cannot be used, statements about all of its positions are proved by taking the least position at
which they fail (`LeastMember`, `NumbersUpTo`), and that the function exists, by taking the bounds up to which it does (`BuiltUp`).

List (any data, any blocks).  The invariant `ListInv` says that there is a sequence of the allocated blocks, without repetition,
along which `next` and `prev` lead to the neighbours (`Chain`).  Each way to add is `Linked`, each way to delete `Unlinked`: the
two lemmas on these do the work once for head, tail and inside.  Theorem: `ListHoldsSequence` (`ListIsSequence`).

Hash table (any keys, values, hash, list of lengths).  `TableIsMap` is an action property and needs an invariant, `HashInv`: each entry is in the
chain of its bucket and no key twice in one (`Placed`); the count is that of the entries, and a value destroyed is in none
of them (`Store`); while an iteration goes on, what it gave is not ahead of it and what it owes is ahead or given (`Going`).
Growing moves entries between chains and reverses some of them, by way of the joined chains
(`AllEntries`, `Chosen`); it is enough that the set of entries stays (`Held`).  The iteration is where order matters: deleting another
entry keeps the order of those left (`GoingRemoved`).  Theorem: `TableHoldsMap` (`TableIsMap`).

Buffer (any bytes and sizes).  The invariant `MbufInv` is the bounds of the property together with types and, while no
reallocation has failed, `bsize = Len(memory)`: a failed one leaves `size` ahead of the block (`wstk_mbuf_resize`), which is
harmless only because the buffer is given up.  `MovedIs`, `PutIs` and `PartIs` say byte by byte what reallocation, copy and window
are; the text after each operation is compared with the text before by its elements (`WriteText`, `ShiftText`,
`ResizeText`, `CpyText`).  Theorem: `MbufHoldsBytes` (`BufferHoldsBytes`).

The proofs assume what the modules state of their constants, and every run evaluates it: `QueueAssumption` and `WorkerAssumption`
(positive sizes, finite sets of threads, `min <= max`), which `wstk_queue_create` and `wstk_worker_create` enforce;
`PollAssumption`, `TcpAssumption`, `UdpAssumption`, `HttpdAssumption`, which say that connections and threads are
finitely many, that limits are positive, that descriptors are positive numbers, and that `NULL` and `LISTENER` are nothing else;
`MbufAssumption`, that the default size is positive and `Unset` is no byte; `ListAssumption` and `HashAssumption`, that blocks and keys
are finitely many, that `Nil`, `NoVal` and "MEM_FAIL" are nothing else, that what is owned is data, that hashes are numbers and
that there is a length of the table, and all are positive.
The rules a model asks of the application (`Contract`, `App`, `MayDestroy`, `MayUnregister`, `MayUnregisterService`, `LateClose`)
are hypotheses of the theorems in the same measure as of the runs, with one exception: under contract "ready" `TcpConnOutlives` speaks of the valid
states, the run `tcp_destroy` of all.

Only model-checked: the library but for its queue and containers (`HeadIsRead`, `CodecsInvert`, `ChunksAgree`, `TextSurvives`,
`PeersAreKnown`, `JsonReadsBack`, `PatchesApply`), whose automata and trees are RECURSIVE operators and folds over the whole input, where
one would need induction over data with an operator for the hypothesis; and all liveness (`SpaceComesBack`, `JobServed`, `DestroyEnds`, `ClosedFreed`, `RequestRead`, `UdpDestroyEnds`,
`UdpReceived`, `HttpdEnds`), which is out of its reach, too.

## Not modelled

- Failing allocations during the creation of a server, worker or queue (nothing is published then); `wstk_queue_destroy` racing other
  calls of the queue (its owner, the worker, excludes it, see `NoUseAfterFree`).
- Reference counts as machine words: `wstk_mem_ref` and `wstk_mem_deref` are not atomic, the models take them as if they were.
- The poll over kqueue, the destructors of the polls but for select's, and the table's memory under the iterator of
  these destructors (`wstk-poll-select.c:57` deletes the entry it stands on).
- Attributes and write of TCP connections, a second start, an owner that destroys from within a handler.
- Times: an expiry "may be over", a wait may end at any moment.
- Sockets, name resolution, system wrappers, threads and mutexes as objects: system calls without a protocol of their own.
- Code pages, byte order, CRC-32, the rounds of the digests, identifiers and random numbers: arithmetic without a case to
  distinguish.  Fractions and exponents in JSON numbers.  `ezxml`, which the library ships and does not call.
- Content types, cookies, the text of replies, reading of files.
