------------------------------ MODULE WstkWorker ------------------------------
(***************************************************************************)
(* wstk_worker_t (wstk-worker.c): a job queue, a main thread that keeps    *)
(* between min_threads and max_threads sub-threads running, and the owner  *)
(* who destroys the whole.  What keeps the memory alive is worker->refs;   *)
(* the destructor sets fl_destroyed and waits for refs to reach 0.         *)
(*                                                                         *)
(* Threads: main, the owner, the sub-threads Subs (one name per thread the *)
(* system can run at a time; a name is used again after its thread ended)  *)
(* and the Callers of wstk_worker_perform: threads of the application, or  *)
(* sub-threads whose handler queues another job.                           *)
(*                                                                         *)
(* A section under worker->mutex or under the queue's mutex is one step,   *)
(* and so is every read of a shared field outside of them.  Two such reads *)
(* in a row are one step where the second cannot tell another thread's     *)
(* step in between from the first (said at the action).                    *)
(***************************************************************************)
EXTENDS Naturals, FiniteSets

CONSTANTS
  Jobs,      \* what is queued; each job is accepted at most once
  NULL,      \* the null pointer
  QSize,     \* the size of jobsq
  Subs,      \* names of the sub-threads
  Callers,   \* who calls wstk_worker_perform: members of Subs, or others
  Min, Max,  \* worker->min_threads, worker->max_threads
  HerrMax,   \* failed launches after which the main thread pauses: 10
  Stuck,     \* sub-threads whose handler may never return
  Contract   \* when the owner destroys: see MayDestroy

ASSUME WorkerAssumption ==
  /\ QSize \in Nat \ {0}
  /\ NULL \notin Jobs
  /\ IsFiniteSet(Subs) /\ IsFiniteSet(Callers)
  /\ Min \in Nat /\ Max \in Nat \ {0} /\ Min <= Max
  /\ HerrMax \in Nat
  /\ Stuck \subseteq Subs
  /\ Contract \in {"never", "ready", "quiet"}

VARIABLES
  refs, sub_threads, idle_threads, fl_destroyed, fl_ready,  \* wstk_worker_t
  data, in, out,                       \* worker->jobsq
  mpc, helper, qlen, herr,             \* the main thread; helper: WTF_USE_IDLE
  spc, uidle, expiry, pop, fl_idle,    \* the sub-threads
  cpc, arg,                            \* calls of wstk_worker_perform
  opc,                                 \* the owner
  accepted, handled, released          \* what became of the jobs

counters == <<refs, sub_threads, idle_threads>>
flags == <<fl_destroyed, fl_ready>>
queue == <<data, in, out>>
main == <<mpc, helper, qlen, herr>>
subs == <<spc, uidle, expiry, pop, fl_idle>>
calls == <<cpc, arg>>
fates == <<accepted, handled, released>>
vars == <<counters, flags, queue, main, subs, calls, opc, fates>>

Q == INSTANCE WstkQueue
       WITH Items <- Jobs, Size <- QSize, fl_destroyed <- opc = "freed", ret <- NULL

(* if(n > 0) n--;  what subth_dec, idleth_dec and worker_derefs do *)
Dec(n) == IF n > 0 THEN n - 1 ELSE 0

(* wstk_worker_create: everything zeroed, the main thread created *)
Init ==
  /\ refs = 0 /\ sub_threads = 0 /\ idle_threads = 0
  /\ fl_destroyed = FALSE /\ fl_ready = FALSE
  /\ data = Q!Zeroed /\ in = 0 /\ out = 0
  /\ mpc = "refs" /\ helper = FALSE /\ qlen = 0 /\ herr = 0
  /\ spc = [s \in Subs |-> "none"]
  /\ uidle = [s \in Subs |-> FALSE]
  /\ expiry = [s \in Subs |-> FALSE]
  /\ pop = [s \in Subs |-> NULL]
  /\ fl_idle = [s \in Subs |-> FALSE]
  /\ cpc = [c \in Callers |-> "out"]
  /\ arg = [c \in Callers |-> NULL]
  /\ opc = "using"
  /\ accepted = {} /\ handled = {} /\ released = {}

-----------------------------------------------------------------------------
(***************************************************************************)
(* The main thread, worker_main_thead.                                     *)
(***************************************************************************)
MainGoto(from, to) ==
  /\ mpc = from
  /\ mpc' = to
  /\ UNCHANGED <<subs, calls, opc, fates, queue>>

MainTest(from, to) == MainGoto(from, to) /\ UNCHANGED <<counters, flags, helper, qlen, herr>>

(* worker_refs reads fl_destroyed before it locks; its result is ignored *)
MainRefs == MainTest("refs", IF fl_destroyed THEN "ready" ELSE "refs_inc")

MainRefsInc ==
  /\ MainGoto("refs_inc", "ready")
  /\ refs' = refs + 1
  /\ UNCHANGED <<sub_threads, idle_threads, flags, helper, qlen, herr>>

MainReady ==
  /\ MainGoto("ready", "loop")
  /\ fl_ready' = TRUE
  /\ UNCHANGED <<counters, fl_destroyed, helper, qlen, herr>>

MainLoop == MainTest("loop", IF fl_destroyed THEN "drain" ELSE "min")

(* Lines 169 and 170 read sub_threads twice; only this thread raises it,    *)
(* so once below Min it is still below.                                     *)
MainMin == MainTest("min", IF sub_threads < Min THEN "min_launch" ELSE "qlen")

MainMinMore == MainTest("min_more", IF sub_threads < Min THEN "min_launch" ELSE "loop")

(* The reads of fl_destroyed at 171 and in subth_inc, in one: the second    *)
(* decides, and if only the second sees the flag the next round sees it too *)
MainMinLaunch ==
  /\ MainGoto("min_launch", IF fl_destroyed THEN "loop" ELSE "sub_inc")
  /\ helper' = FALSE
  /\ UNCHANGED <<counters, flags, qlen, herr>>

MainQlen ==
  /\ MainGoto("qlen", IF Q!wstk_queue_len = 0 THEN "loop" ELSE "idle_read")
  /\ qlen' = Q!wstk_queue_len
  /\ UNCHANGED <<counters, flags, helper, herr>>

MainIdleRead == MainTest("idle_read", IF idle_threads = 0 THEN "extra" ELSE "loop")

(* The test of sub_threads at 194, which the one at 191 anticipates *)
MainExtra ==
  MainTest("extra", IF sub_threads >= Max \/ qlen = 0 THEN "loop" ELSE "extra_launch")

(* fl_destroyed at 193 and in subth_inc, in one: either way the loop ends *)
MainExtraLaunch ==
  /\ MainGoto("extra_launch", IF fl_destroyed THEN "loop" ELSE "sub_inc")
  /\ helper' = TRUE
  /\ UNCHANGED <<counters, flags, qlen, herr>>

MainSubInc ==
  /\ MainGoto("sub_inc", "sub_create")
  /\ sub_threads' = sub_threads + 1
  /\ UNCHANGED <<refs, idle_threads, flags, helper, qlen, herr>>

(* wstk_thread_create succeeds: the thread s runs from here on *)
MainSubCreate(s) ==
  /\ mpc = "sub_create"
  /\ spc[s] = "none"
  /\ spc' = [spc EXCEPT ![s] = "refs"]
  /\ uidle' = [uidle EXCEPT ![s] = helper]
  /\ expiry' = [expiry EXCEPT ![s] = FALSE]
  /\ qlen' = IF helper THEN Dec(qlen) ELSE qlen
  /\ mpc' = IF helper THEN "extra" ELSE "min_more"
  /\ UNCHANGED <<counters, flags, queue, helper, herr, pop, fl_idle, calls, opc, fates>>

(* Mutated form: a failed launch stays counted. *)
MainSubFailCounted ==
  (\A s \in Subs : spc[s] # "none") /\ MainTest("sub_create", "loop")

(* wstk_thread_create fails, for want of a thread: subth_dec undoes *)
MainSubFail ==
  /\ herr' = IF helper \/ herr > HerrMax THEN herr ELSE herr + 1
  /\ MainGoto("sub_create", IF helper \/ herr' > HerrMax THEN "loop" ELSE "min_more")
  /\ \A s \in Subs : spc[s] # "none"
  /\ sub_threads' = Dec(sub_threads)
  /\ UNCHANGED <<refs, idle_threads, flags, helper, qlen>>

MainDrain == sub_threads = 0 /\ MainTest("drain", "deref")

MainDeref ==
  /\ MainGoto("deref", "done")
  /\ refs' = Dec(refs)
  /\ UNCHANGED <<sub_threads, idle_threads, flags, helper, qlen, herr>>

Main ==
  \/ MainRefs \/ MainRefsInc \/ MainReady \/ MainLoop
  \/ MainMin \/ MainMinMore \/ MainMinLaunch
  \/ MainQlen \/ MainIdleRead \/ MainExtra \/ MainExtraLaunch
  \/ MainSubInc \/ (\E s \in Subs : MainSubCreate(s)) \/ MainSubFail
  \/ MainDrain \/ MainDeref

-----------------------------------------------------------------------------
(***************************************************************************)
(* A sub-thread, worker_sub_thread.                                        *)
(***************************************************************************)
SubGoto(s, from, to) ==
  /\ spc[s] = from
  /\ spc' = [spc EXCEPT ![s] = to]
  /\ UNCHANGED <<main, calls, opc>>

SubTest(s, from, to) ==
  SubGoto(s, from, to) /\ UNCHANGED <<counters, flags, queue, uidle, expiry, pop, fl_idle, fates>>

SubRefs(s) == SubTest(s, "refs", IF fl_destroyed THEN "loop" ELSE "refs_inc")

SubRefsInc(s) ==
  /\ SubGoto(s, "refs_inc", "loop")
  /\ refs' = refs + 1
  /\ UNCHANGED <<sub_threads, idle_threads, flags, queue, uidle, expiry, pop, fl_idle, fates>>

SubLoop(s) == SubTest(s, "loop", IF fl_destroyed THEN "exit_idle" ELSE "ready")

SubReady(s) == SubTest(s, "ready", IF fl_ready THEN "pop" ELSE "idle")

SubPop(s) ==
  /\ \/ /\ SubGoto(s, "pop", "popped")
        /\ Q!PopSlot
        /\ pop' = [pop EXCEPT ![s] = data[out]]
     \/ /\ SubGoto(s, "pop", "drained")
        /\ in = 0
        /\ UNCHANGED <<queue, pop>>
  /\ UNCHANGED <<counters, flags, uidle, expiry, fl_idle, fates>>

(* Mutated form: the loop goes on popping although the flag is set. *)
SubPoppedGoOn(s) ==
  /\ SubGoto(s, "popped", IF ~fl_destroyed /\ pop[s] # NULL THEN "take" ELSE "pop")
  /\ pop' = [pop EXCEPT ![s] = IF fl_destroyed THEN NULL ELSE @]
  /\ UNCHANGED <<counters, flags, queue, uidle, expiry, fl_idle, fates>>

(* What was popped is forgotten when the worker is being destroyed (255) *)
SubPopped(s) ==
  /\ SubGoto(s, "popped", CASE fl_destroyed -> "exit_idle"
                            [] ~fl_destroyed /\ pop[s] # NULL -> "take"
                            [] OTHER -> "pop")
  /\ pop' = [pop EXCEPT ![s] = IF fl_destroyed THEN NULL ELSE @]
  /\ UNCHANGED <<counters, flags, queue, uidle, expiry, fl_idle, fates>>

SubTake(s) ==
  /\ SubGoto(s, "take", "handle")
  /\ idle_threads' = IF fl_idle[s] THEN Dec(idle_threads) ELSE idle_threads
  /\ fl_idle' = [fl_idle EXCEPT ![s] = FALSE]
  /\ UNCHANGED <<refs, sub_threads, flags, queue, uidle, expiry, pop, fates>>

(* The handler returns; the calls it makes meanwhile are CallBegin(s)... *)
SubHandle(s) ==
  /\ SubGoto(s, "handle", "pop")
  /\ s \in Callers => cpc[s] = "out"
  /\ handled' = handled \cup {pop[s]}
  /\ pop' = [pop EXCEPT ![s] = NULL]
  /\ expiry' = [expiry EXCEPT ![s] = FALSE]
  /\ UNCHANGED <<counters, flags, queue, uidle, fl_idle, accepted, released>>

(* fl_destroyed at 265, then the clock: an expiry that is set may be over *)
SubDrained(s) ==
  /\ \/ /\ fl_destroyed \/ expiry[s]
        /\ SubGoto(s, "drained", "exit_idle")
        /\ UNCHANGED expiry
     \/ /\ ~fl_destroyed
        /\ SubGoto(s, "drained", "idle")
        /\ expiry' = [expiry EXCEPT ![s] = @ \/ uidle[s]]
  /\ UNCHANGED <<counters, flags, queue, uidle, pop, fl_idle, fates>>

(* fl_idle is set first, then idleth_inc reads fl_destroyed *)
SubIdle(s) ==
  /\ SubGoto(s, "idle", IF fl_idle[s] \/ fl_destroyed THEN "loop" ELSE "idle_inc")
  /\ fl_idle' = [fl_idle EXCEPT ![s] = TRUE]
  /\ UNCHANGED <<counters, flags, queue, uidle, expiry, pop, fates>>

SubIdleInc(s) ==
  /\ SubGoto(s, "idle_inc", "loop")
  /\ idle_threads' = idle_threads + 1
  /\ UNCHANGED <<refs, sub_threads, flags, queue, uidle, expiry, pop, fl_idle, fates>>

SubExitIdle(s) ==
  /\ SubGoto(s, "exit_idle", "exit_sub")
  /\ idle_threads' = IF fl_idle[s] THEN Dec(idle_threads) ELSE idle_threads
  /\ fl_idle' = [fl_idle EXCEPT ![s] = FALSE]
  /\ UNCHANGED <<refs, sub_threads, flags, queue, uidle, expiry, pop, fates>>

SubExitSub(s) ==
  /\ SubGoto(s, "exit_sub", "exit_ref")
  /\ sub_threads' = Dec(sub_threads)
  /\ UNCHANGED <<refs, idle_threads, flags, queue, uidle, expiry, pop, fl_idle, fates>>

SubExitRef(s) ==
  /\ SubGoto(s, "exit_ref", "none")
  /\ refs' = Dec(refs)
  /\ UNCHANGED <<sub_threads, idle_threads, flags, queue, uidle, expiry, pop, fl_idle, fates>>

Sub(s) ==
  \/ SubRefs(s) \/ SubRefsInc(s) \/ SubLoop(s) \/ SubReady(s)
  \/ SubPop(s) \/ SubPopped(s) \/ SubTake(s) \/ SubHandle(s)
  \/ SubDrained(s) \/ SubIdle(s) \/ SubIdleInc(s)
  \/ SubExitIdle(s) \/ SubExitSub(s) \/ SubExitRef(s)

-----------------------------------------------------------------------------
(***************************************************************************)
(* wstk_worker_perform(worker, j), called by c.                            *)
(***************************************************************************)
CallGoto(c, from, to) ==
  /\ cpc[c] = from
  /\ cpc' = [cpc EXCEPT ![c] = to]
  /\ UNCHANGED <<sub_threads, idle_threads, flags, main, subs, opc, handled, released>>

(* A handler calls while it runs, whatever the owner does; the application  *)
(* does not hand its pointer to new callers once it has begun to destroy.   *)
CallBegin(c, j) ==
  /\ CallGoto(c, "out", "ready")
  /\ c \in Subs => spc[c] = "handle"
  /\ c \notin Subs => opc = "using"
  /\ j \notin accepted
  /\ \A d \in Callers : arg[d] # j
  /\ arg' = [arg EXCEPT ![c] = j]
  /\ UNCHANGED <<refs, queue, accepted>>

CallRefused(c, from) ==
  /\ CallGoto(c, from, "out")
  /\ arg' = [arg EXCEPT ![c] = NULL]
  /\ UNCHANGED <<refs, queue, accepted>>

CallReady(c) ==
  \/ /\ fl_ready
     /\ CallGoto(c, "ready", "destroyed")
     /\ UNCHANGED <<refs, arg, queue, accepted>>
  \/ /\ ~fl_ready
     /\ CallRefused(c, "ready")

(* fl_destroyed at 380 and in worker_refs, in one: either way it is refused *)
CallDestroyed(c) ==
  \/ /\ ~fl_destroyed
     /\ CallGoto(c, "destroyed", "refs_inc")
     /\ UNCHANGED <<refs, arg, queue, accepted>>
  \/ /\ fl_destroyed
     /\ CallRefused(c, "destroyed")

CallRefsInc(c) ==
  /\ CallGoto(c, "refs_inc", "push")
  /\ refs' = refs + 1
  /\ UNCHANGED <<arg, queue, accepted>>

(* Mutated form: returns at once when the queue is full, reference kept. *)
CallPushLeak(c) ==
  \/ /\ CallGoto(c, "push", "deref")
     /\ Q!PushSlot(arg[c])
     /\ accepted' = accepted \cup {arg[c]}
     /\ UNCHANGED <<refs, arg>>
  \/ /\ Q!wstk_queue_is_full
     /\ CallRefused(c, "push")

CallPush(c) ==
  /\ CallGoto(c, "push", "deref")
  /\ \/ /\ Q!PushSlot(arg[c])
        /\ accepted' = accepted \cup {arg[c]}
     \/ /\ Q!wstk_queue_is_full
        /\ UNCHANGED <<queue, accepted>>
  /\ UNCHANGED <<refs, arg>>

CallDeref(c) ==
  /\ CallGoto(c, "deref", "out")
  /\ refs' = Dec(refs)
  /\ arg' = [arg EXCEPT ![c] = NULL]
  /\ UNCHANGED <<queue, accepted>>

Call(c) ==
  \/ CallReady(c) \/ CallDestroyed(c) \/ CallRefsInc(c) \/ CallPush(c) \/ CallDeref(c)

-----------------------------------------------------------------------------
(***************************************************************************)
(* The owner: wstk_mem_deref(worker), that is destructor__wstk_worker_t.   *)
(* When it may come: "never"; "ready", when the worker is ready and no     *)
(* call of the application is running, which is all a caller can test;     *)
(* "quiet", if moreover no thread of the worker is just being started.     *)
(***************************************************************************)
Starting ==
  \/ mpc \in {"refs", "refs_inc", "sub_inc", "sub_create"}
  \/ \E s \in Subs : spc[s] \in {"refs", "refs_inc"}

Handling(s, j) == spc[s] = "handle" /\ pop[s] = j

MayDestroy ==
  /\ Contract # "never"
  /\ fl_ready
  /\ \A c \in Callers \ Subs : cpc[c] = "out"
  /\ Contract = "quiet" => ~Starting

OwnerGoto(from, to) ==
  /\ opc = from
  /\ opc' = to
  /\ UNCHANGED <<counters, main, subs, calls, accepted, handled>>

OwnerSetDestroyed ==
  /\ OwnerGoto("using", "ready")
  /\ MayDestroy
  /\ fl_destroyed' = TRUE
  /\ UNCHANGED <<fl_ready, queue, released>>

OwnerClearReady ==
  /\ OwnerGoto("ready", "wait")
  /\ fl_ready' = FALSE
  /\ UNCHANGED <<fl_destroyed, queue, released>>

(* Mutated form: waits for all references but one. *)
OwnerWaitOne ==
  /\ OwnerGoto("wait", "free")
  /\ refs <= 1
  /\ UNCHANGED <<flags, queue, released>>

OwnerWait ==
  /\ OwnerGoto("wait", "free")
  /\ refs = 0
  /\ UNCHANGED <<flags, queue, released>>

(* The queue's destructor releases the jobs left in it; then the memory of  *)
(* the worker and of its mutex is gone.                                     *)
OwnerFree ==
  /\ OwnerGoto("free", "freed")
  /\ released' = released \cup {j \in Jobs : Q!Released[j] > 0}
  /\ data' = Q!Zeroed /\ in' = 0 /\ out' = 0
  /\ UNCHANGED flags

Owner == OwnerSetDestroyed \/ OwnerClearReady \/ OwnerWait \/ OwnerFree

(* Nothing is left that touches the worker. *)
Nobody ==
  /\ mpc = "done"
  /\ \A s \in Subs : spc[s] = "none"
  /\ \A c \in Callers : cpc[c] = "out"

Stopped == opc = "freed" /\ Nobody /\ UNCHANGED vars

Next ==
  \/ Main
  \/ \E s \in Subs : Sub(s)
  \/ \E c \in Callers : Call(c) \/ \E j \in Jobs : CallBegin(c, j)
  \/ Owner
  \/ Stopped

Spec == Init /\ [][Next]_vars

(* Every thread keeps running, except that the handlers of Stuck may never  *)
(* return; nobody has to call, and the owner need not destroy, but once it  *)
(* has begun it goes on.                                                    *)
Fairness ==
  /\ WF_vars(Main)
  /\ \A s \in Subs : WF_vars(Sub(s) /\ ~(s \in Stuck /\ spc[s] = "handle"))
  /\ \A c \in Callers : WF_vars(Call(c))
  /\ WF_vars(opc # "using" /\ Owner)

FairSpec == Spec /\ Fairness

-----------------------------------------------------------------------------
(* Who holds a reference: it has run worker_refs and not yet worker_derefs. *)
MainHolds == mpc \notin {"refs", "refs_inc", "done"}
SubHolders == {s \in Subs : spc[s] \notin {"none", "refs", "refs_inc"}}
CallHolders == {c \in Callers : cpc[c] \in {"push", "deref"}}

(* Launched and not yet on its way out; waiting for work. *)
Launched == {s \in Subs : spc[s] \notin {"none", "exit_ref"}}
Idle == {s \in Subs : fl_idle[s] /\ spc[s] # "idle_inc"}

(* the threads that are inside the worker *)
RefsCountHolders ==
  refs = (IF MainHolds THEN 1 ELSE 0) + Cardinality(SubHolders) + Cardinality(CallHolders)

(* The threads launched and not yet on their way out, plus the one about to *)
(* be created, failed launches included; max_threads is kept although it is *)
(* read without the mutex (194).                                            *)
SubThreadsExact ==
  /\ sub_threads = Cardinality(Launched) + (IF mpc = "sub_create" THEN 1 ELSE 0)
  /\ sub_threads <= Max

(* The threads waiting for work. *)
IdleThreadsExact == ~fl_destroyed => idle_threads = Cardinality(Idle)

(* The three counters are exact, whatever threads and callers start, fail   *)
(* to start, find work, time out and leave, and in whatever order they take *)
(* and return their references.  The destructor's wait for refs to become 0 *)
(* (wstk-worker.c:130) is a wait for all of them; with sub_threads too      *)
(* large no thread is launched any more (191, 194), with idle_threads too   *)
(* large none helps although jobs wait (187), and a main thread that waits  *)
(* for sub_threads to become 0 waits for ever (218).                        *)
CountersExact == RefsCountHolders /\ SubThreadsExact /\ IdleThreadsExact

(* When the destructor frees the queue and the mutex (141), no thread can   *)
(* touch them any more.                                                     *)
NoUseAfterFree == opc \in {"free", "freed"} => Nobody

InHand == {pop[s] : s \in Subs} \ {NULL}
Queued == {Q!Pending[i] : i \in DOMAIN Q!Pending}

Pool == INSTANCE WorkerPool
          WITH waiting <- Queued, taken <- InHand, closing <- fl_destroyed, gone <- opc = "freed"

(* The worker is a pool of threads: no two threads pop the same job, none   *)
(* is handled twice, none is released by the queue's destructor after a     *)
(* thread popped it, and none is forgotten unless the worker is being       *)
(* destroyed.                                                               *)
PoolSpec == Pool!Spec

Lost == accepted \ (Queued \cup InHand \cup handled \cup released)

(* A destroyed worker loses at most one accepted job per sub-thread: each   *)
(* may pop one job before it sees fl_destroyed (255), and no more.          *)
LossBounded == (Lost # {} => fl_destroyed) /\ Cardinality(Lost) <= Max

(* Every accepted job is handled unless the worker is destroyed first, even *)
(* though the queue length the main thread reads is stale and too large,    *)
(* helpers leave when their time is over, and the handlers of Stuck, fewer  *)
(* than max_threads, never return.                                          *)
JobServed ==
  \A j \in Jobs : j \in accepted ~>
    (j \in handled \/ fl_destroyed \/ \E s \in Stuck : Handling(s, j))

(* The destructor returns once the handlers do: no thread waits for a count *)
(* that nobody will bring to 0 (wstk-worker.c:130, 218).                    *)
DestroyEnds == fl_destroyed ~> (opc = "freed" \/ \E s \in Stuck : spc[s] = "handle")
=============================================================================
