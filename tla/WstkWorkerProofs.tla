---------------------------- MODULE WstkWorkerProofs ----------------------------
(***************************************************************************)
(* Theorems about WstkWorker for any number of threads, jobs and callers:  *)
(* when no thread of the worker is just being started at the moment the    *)
(* owner destroys it (Contract # "ready"), worker->refs counts exactly the *)
(* threads inside, none of them is left when the memory is freed, the      *)
(* worker implements WorkerPool, and it loses at most one job per thread.  *)
(***************************************************************************)
EXTENDS WstkWorker, FiniteSetTheorems, TLAPS

MainPcs == {"refs", "refs_inc", "ready", "loop", "min", "min_more", "min_launch", "qlen",
            "idle_read", "extra", "extra_launch", "sub_inc", "sub_create", "drain",
            "deref", "done"}
SubPcs == {"none", "refs", "refs_inc", "loop", "ready", "pop", "popped", "take", "handle",
           "drained", "idle", "idle_inc", "exit_idle", "exit_sub", "exit_ref"}
CallPcs == {"out", "ready", "destroyed", "refs_inc", "push", "deref"}
OwnerPcs == {"using", "ready", "wait", "free", "freed"}

ControlOK ==
  /\ mpc \in MainPcs
  /\ spc \in [Subs -> SubPcs]
  /\ cpc \in [Callers -> CallPcs]
  /\ opc \in OwnerPcs

(* fl_destroyed is set by the owner's first step and never cleared. *)
DestroyedByOwner == fl_destroyed <=> opc # "using"

(* Once it is set, no thread is between its start and its worker_refs, and  *)
(* none is launched: who is alive holds a reference.                        *)
NoLateStart == fl_destroyed => ~Starting

(* A call is inside a handler, or the application's, who has not destroyed. *)
CallsCovered ==
  \A c \in Callers : cpc[c] # "out" =>
    IF c \in Subs THEN spc[c] = "handle" ELSE opc = "using"

(* The main thread leaves its loop only when the worker is being destroyed. *)
MainLeaving == mpc \in {"drain", "deref", "done"} => fl_destroyed

Control ==
  ControlOK /\ DestroyedByOwner /\ NoLateStart /\ CallsCovered /\ MainLeaving

-----------------------------------------------------------------------------
LEMMA InitControl == Init => Control
BY DEF Init, Control, ControlOK, MainPcs, SubPcs, CallPcs, OwnerPcs, DestroyedByOwner,
       NoLateStart, CallsCovered, MainLeaving

LEMMA NextControl ==
  ASSUME Contract # "ready", Control, [Next]_vars
  PROVE  Control'
<1> USE DEF Control, ControlOK, MainPcs, SubPcs, CallPcs, OwnerPcs, DestroyedByOwner,
            NoLateStart, CallsCovered, MainLeaving, Starting,
            counters, flags, main, subs, calls
<1>1. CASE Main
  <2>1. CASE MainRefs
    BY <2>1 DEF MainRefs, MainTest, MainGoto
  <2>2. CASE MainRefsInc
    BY <2>2 DEF MainRefsInc, MainTest, MainGoto
  <2>3. CASE MainReady
    BY <2>3 DEF MainReady, MainTest, MainGoto
  <2>4. CASE MainLoop
    BY <2>4 DEF MainLoop, MainTest, MainGoto
  <2>5. CASE MainMin
    BY <2>5 DEF MainMin, MainTest, MainGoto
  <2>6. CASE MainMinMore
    BY <2>6 DEF MainMinMore, MainTest, MainGoto
  <2>7. CASE MainMinLaunch
    BY <2>7 DEF MainMinLaunch, MainTest, MainGoto
  <2>8. CASE MainQlen
    BY <2>8 DEF MainQlen, MainTest, MainGoto
  <2>9. CASE MainIdleRead
    BY <2>9 DEF MainIdleRead, MainTest, MainGoto
  <2>10. CASE MainExtra
    BY <2>10 DEF MainExtra, MainTest, MainGoto
  <2>11. CASE MainExtraLaunch
    BY <2>11 DEF MainExtraLaunch, MainTest, MainGoto
  <2>12. CASE MainSubInc
    BY <2>12 DEF MainSubInc, MainTest, MainGoto
  <2>13. CASE MainSubFail
    BY <2>13 DEF MainSubFail, MainTest, MainGoto
  <2>14. CASE MainDrain
    BY <2>14 DEF MainDrain, MainTest, MainGoto
  <2>15. CASE MainDeref
    BY <2>15 DEF MainDeref, MainTest, MainGoto
  <2>16. ASSUME NEW s \in Subs, MainSubCreate(s)
        PROVE  Control'
    BY <2>16 DEF MainSubCreate
  <2> QED
    BY <1>1, <2>1, <2>2, <2>3, <2>4, <2>5, <2>6, <2>7, <2>8, <2>9, <2>10, <2>11, <2>12, <2>13, <2>14, <2>15, <2>16 DEF Main
<1>2. ASSUME NEW s \in Subs, Sub(s)
      PROVE  Control'
  <2>1. CASE SubRefs(s)
    BY <2>1 DEF SubRefs, SubTest, SubGoto
  <2>2. CASE SubRefsInc(s)
    BY <2>2 DEF SubRefsInc, SubTest, SubGoto
  <2>3. CASE SubLoop(s)
    BY <2>3 DEF SubLoop, SubTest, SubGoto
  <2>4. CASE SubReady(s)
    BY <2>4 DEF SubReady, SubTest, SubGoto
  <2>5. CASE SubPop(s)
    BY <2>5 DEF SubPop, SubTest, SubGoto
  <2>6. CASE SubPopped(s)
    BY <2>6 DEF SubPopped, SubTest, SubGoto
  <2>7. CASE SubTake(s)
    BY <2>7 DEF SubTake, SubTest, SubGoto
  <2>8. CASE SubHandle(s)
    BY <2>8 DEF SubHandle, SubTest, SubGoto
  <2>9. CASE SubDrained(s)
    BY <2>9 DEF SubDrained, SubTest, SubGoto
  <2>10. CASE SubIdle(s)
    BY <2>10 DEF SubIdle, SubTest, SubGoto
  <2>11. CASE SubIdleInc(s)
    BY <2>11 DEF SubIdleInc, SubTest, SubGoto
  <2>12. CASE SubExitIdle(s)
    BY <2>12 DEF SubExitIdle, SubTest, SubGoto
  <2>13. CASE SubExitSub(s)
    BY <2>13 DEF SubExitSub, SubTest, SubGoto
  <2>14. CASE SubExitRef(s)
    BY <2>14 DEF SubExitRef, SubTest, SubGoto
  <2> QED
    BY <1>2, <2>1, <2>2, <2>3, <2>4, <2>5, <2>6, <2>7, <2>8, <2>9, <2>10, <2>11, <2>12, <2>13, <2>14 DEF Sub
<1>3. ASSUME NEW c \in Callers, Call(c)
      PROVE  Control'
  <2>1. CASE CallReady(c)
    BY <2>1 DEF CallReady, CallGoto, CallRefused
  <2>2. CASE CallDestroyed(c)
    BY <2>2 DEF CallDestroyed, CallGoto, CallRefused
  <2>3. CASE CallRefsInc(c)
    BY <2>3 DEF CallRefsInc, CallGoto, CallRefused
  <2>4. CASE CallPush(c)
    BY <2>4 DEF CallPush, CallGoto, CallRefused
  <2>5. CASE CallDeref(c)
    BY <2>5 DEF CallDeref, CallGoto, CallRefused
  <2> QED
    BY <1>3, <2>1, <2>2, <2>3, <2>4, <2>5 DEF Call
<1>4. ASSUME NEW c \in Callers, NEW j \in Jobs, CallBegin(c, j)
      PROVE  Control'
  BY <1>4 DEF CallBegin, CallGoto
<1>5. CASE Owner
  <2>1. CASE OwnerSetDestroyed
    BY <2>1, WorkerAssumption DEF OwnerSetDestroyed, OwnerGoto, MayDestroy
  <2>2. CASE OwnerClearReady
    BY <2>2 DEF OwnerClearReady, OwnerGoto
  <2>3. CASE OwnerWait
    BY <2>3 DEF OwnerWait, OwnerGoto
  <2>4. CASE OwnerFree
    BY <2>4 DEF OwnerFree, OwnerGoto
  <2> QED
    BY <1>5, <2>1, <2>2, <2>3, <2>4 DEF Owner
<1>6. CASE UNCHANGED vars
  BY <1>6 DEF vars
<1> QED
  BY <1>1, <1>2, <1>3, <1>4, <1>5, <1>6 DEF Next, Stopped

-----------------------------------------------------------------------------
(***************************************************************************)
(* The counters.  Each is the cardinality of a set of threads, and a step  *)
(* adds one thread to such a set, takes one away, or leaves it.            *)
(***************************************************************************)
LEMMA Grow ==
  ASSUME NEW S, IsFiniteSet(S), NEW x, x \notin S
  PROVE  Cardinality(S \cup {x}) = Cardinality(S) + 1
BY FS_AddElement

LEMMA Shrink ==
  ASSUME NEW S, IsFiniteSet(S), NEW x \in S
  PROVE  Cardinality(S \ {x}) = Cardinality(S) - 1 /\ Cardinality(S) > 0
<1>1. Cardinality(S) \in Nat /\ Cardinality(S \ {x}) \in Nat
  BY FS_CardinalityType, FS_RemoveElement
<1> QED
  BY <1>1, FS_RemoveElement

LEMMA Finite ==
  /\ IsFiniteSet(SubHolders) /\ Cardinality(SubHolders) \in Nat
  /\ IsFiniteSet(CallHolders) /\ Cardinality(CallHolders) \in Nat
  /\ IsFiniteSet(Launched) /\ Cardinality(Launched) \in Nat
  /\ IsFiniteSet(Idle) /\ Cardinality(Idle) \in Nat
BY WorkerAssumption, FS_Subset, FS_CardinalityType DEF SubHolders, CallHolders, Launched, Idle

(* Whoever is about to launch has seen room for one more, and only the main *)
(* thread launches.                                                         *)
RoomToLaunch == mpc \in {"min_launch", "extra_launch", "sub_inc"} => sub_threads < Max

Counts ==
  /\ fl_idle \in [Subs -> BOOLEAN]
  /\ \A s \in Subs : spc[s] = "idle_inc" => fl_idle[s]
  /\ RefsCountHolders
  /\ SubThreadsExact
  /\ IdleThreadsExact
  /\ RoomToLaunch

LEMMA InitCounts == Init => Counts
<1> SUFFICES ASSUME Init PROVE Counts
  OBVIOUS
<1>1. SubHolders = {} /\ CallHolders = {} /\ Launched = {} /\ Idle = {}
  BY DEF Init, SubHolders, CallHolders, Launched, Idle
<1> QED
  BY <1>1, FS_EmptySet, WorkerAssumption
     DEF Init, Counts, RefsCountHolders, SubThreadsExact, IdleThreadsExact, RoomToLaunch, MainHolds

LEMMA NextCounts ==
  ASSUME Contract # "ready", Control, Counts, [Next]_vars
  PROVE  Counts'
<1> USE DEF Counts, RefsCountHolders, SubThreadsExact, IdleThreadsExact, RoomToLaunch,
            MainHolds, Dec, counters, flags, main, subs, calls
<1>0. /\ ControlOK /\ NoLateStart /\ CallsCovered
      /\ Max \in Nat /\ Min \in Nat /\ Min <= Max
  BY WorkerAssumption DEF Control
<1> USE DEF ControlOK, MainPcs, SubPcs, CallPcs, OwnerPcs, NoLateStart, Starting
<1>1. CASE Main
  <2>1. CASE MainRefs
    <3>1. /\ SubHolders' = SubHolders /\ CallHolders' = CallHolders
          /\ Launched' = Launched /\ Idle' = Idle
      BY <1>0, <2>1 DEF SubHolders, CallHolders, Launched, Idle, MainRefs, MainTest, MainGoto
    <3> QED
      BY <1>0, <2>1, <3>1, Finite DEF MainRefs, MainTest, MainGoto
  <2>2. CASE MainRefsInc
    <3>1. /\ SubHolders' = SubHolders /\ CallHolders' = CallHolders
          /\ Launched' = Launched /\ Idle' = Idle
      BY <1>0, <2>2 DEF SubHolders, CallHolders, Launched, Idle, MainRefsInc, MainTest, MainGoto
    <3> QED
      BY <1>0, <2>2, <3>1, Finite DEF MainRefsInc, MainTest, MainGoto
  <2>3. CASE MainReady
    <3>1. /\ SubHolders' = SubHolders /\ CallHolders' = CallHolders
          /\ Launched' = Launched /\ Idle' = Idle
      BY <1>0, <2>3 DEF SubHolders, CallHolders, Launched, Idle, MainReady, MainTest, MainGoto
    <3> QED
      BY <1>0, <2>3, <3>1, Finite DEF MainReady, MainTest, MainGoto
  <2>4. CASE MainLoop
    <3>1. /\ SubHolders' = SubHolders /\ CallHolders' = CallHolders
          /\ Launched' = Launched /\ Idle' = Idle
      BY <1>0, <2>4 DEF SubHolders, CallHolders, Launched, Idle, MainLoop, MainTest, MainGoto
    <3> QED
      BY <1>0, <2>4, <3>1, Finite DEF MainLoop, MainTest, MainGoto
  <2>5. CASE MainMin
    <3>1. /\ SubHolders' = SubHolders /\ CallHolders' = CallHolders
          /\ Launched' = Launched /\ Idle' = Idle
      BY <1>0, <2>5 DEF SubHolders, CallHolders, Launched, Idle, MainMin, MainTest, MainGoto
    <3> QED
      BY <1>0, <2>5, <3>1, Finite DEF MainMin, MainTest, MainGoto
  <2>6. CASE MainMinMore
    <3>1. /\ SubHolders' = SubHolders /\ CallHolders' = CallHolders
          /\ Launched' = Launched /\ Idle' = Idle
      BY <1>0, <2>6 DEF SubHolders, CallHolders, Launched, Idle, MainMinMore, MainTest, MainGoto
    <3> QED
      BY <1>0, <2>6, <3>1, Finite DEF MainMinMore, MainTest, MainGoto
  <2>7. CASE MainMinLaunch
    <3>1. /\ SubHolders' = SubHolders /\ CallHolders' = CallHolders
          /\ Launched' = Launched /\ Idle' = Idle
      BY <1>0, <2>7 DEF SubHolders, CallHolders, Launched, Idle, MainMinLaunch, MainTest, MainGoto
    <3> QED
      BY <1>0, <2>7, <3>1, Finite DEF MainMinLaunch, MainTest, MainGoto
  <2>8. CASE MainQlen
    <3>1. /\ SubHolders' = SubHolders /\ CallHolders' = CallHolders
          /\ Launched' = Launched /\ Idle' = Idle
      BY <1>0, <2>8 DEF SubHolders, CallHolders, Launched, Idle, MainQlen, MainTest, MainGoto
    <3> QED
      BY <1>0, <2>8, <3>1, Finite DEF MainQlen, MainTest, MainGoto
  <2>9. CASE MainIdleRead
    <3>1. /\ SubHolders' = SubHolders /\ CallHolders' = CallHolders
          /\ Launched' = Launched /\ Idle' = Idle
      BY <1>0, <2>9 DEF SubHolders, CallHolders, Launched, Idle, MainIdleRead, MainTest, MainGoto
    <3> QED
      BY <1>0, <2>9, <3>1, Finite DEF MainIdleRead, MainTest, MainGoto
  <2>10. CASE MainExtra
    <3>1. /\ SubHolders' = SubHolders /\ CallHolders' = CallHolders
          /\ Launched' = Launched /\ Idle' = Idle
      BY <1>0, <2>10 DEF SubHolders, CallHolders, Launched, Idle, MainExtra, MainTest, MainGoto
    <3> QED
      BY <1>0, <2>10, <3>1, Finite DEF MainExtra, MainTest, MainGoto
  <2>11. CASE MainExtraLaunch
    <3>1. /\ SubHolders' = SubHolders /\ CallHolders' = CallHolders
          /\ Launched' = Launched /\ Idle' = Idle
      BY <1>0, <2>11 DEF SubHolders, CallHolders, Launched, Idle, MainExtraLaunch, MainTest, MainGoto
    <3> QED
      BY <1>0, <2>11, <3>1, Finite DEF MainExtraLaunch, MainTest, MainGoto
  <2>12. CASE MainSubInc
    <3>1. /\ SubHolders' = SubHolders /\ CallHolders' = CallHolders
          /\ Launched' = Launched /\ Idle' = Idle
      BY <1>0, <2>12 DEF SubHolders, CallHolders, Launched, Idle, MainSubInc, MainTest, MainGoto
    <3> QED
      BY <1>0, <2>12, <3>1, Finite DEF MainSubInc, MainTest, MainGoto
  <2>13. CASE MainSubFail
    <3>1. /\ SubHolders' = SubHolders /\ CallHolders' = CallHolders
          /\ Launched' = Launched /\ Idle' = Idle
      BY <1>0, <2>13 DEF SubHolders, CallHolders, Launched, Idle, MainSubFail, MainTest, MainGoto
    <3> QED
      BY <1>0, <2>13, <3>1, Finite DEF MainSubFail, MainTest, MainGoto
  <2>14. CASE MainDrain
    <3>1. /\ SubHolders' = SubHolders /\ CallHolders' = CallHolders
          /\ Launched' = Launched /\ Idle' = Idle
      BY <1>0, <2>14 DEF SubHolders, CallHolders, Launched, Idle, MainDrain, MainTest, MainGoto
    <3> QED
      BY <1>0, <2>14, <3>1, Finite DEF MainDrain, MainTest, MainGoto
  <2>15. CASE MainDeref
    <3>1. /\ SubHolders' = SubHolders /\ CallHolders' = CallHolders
          /\ Launched' = Launched /\ Idle' = Idle
      BY <1>0, <2>15 DEF SubHolders, CallHolders, Launched, Idle, MainDeref, MainTest, MainGoto
    <3> QED
      BY <1>0, <2>15, <3>1, Finite DEF MainDeref, MainTest, MainGoto
  <2>16. ASSUME NEW s \in Subs, MainSubCreate(s)
        PROVE  Counts'
    <3>1. /\ SubHolders' = SubHolders /\ CallHolders' = CallHolders
          /\ Launched' = Launched \cup {s} /\ Idle' = Idle /\ s \notin Launched
      BY <1>0, <2>16 DEF SubHolders, CallHolders, Launched, Idle, MainSubCreate
    <3>2. Cardinality(Launched') = Cardinality(Launched) + 1
      BY <3>1, Finite, Grow
    <3> QED
      BY <1>0, <2>16, <3>1, <3>2, Finite DEF MainSubCreate
  <2> QED
    BY <1>1, <2>1, <2>2, <2>3, <2>4, <2>5, <2>6, <2>7, <2>8, <2>9, <2>10, <2>11, <2>12, <2>13, <2>14, <2>15, <2>16 DEF Main
<1>2. ASSUME NEW s \in Subs, Sub(s)
      PROVE  Counts'
  <2>1. CASE SubRefs(s)
    <3>1. /\ SubHolders' = SubHolders /\ CallHolders' = CallHolders
          /\ Launched' = Launched /\ Idle' = Idle
      BY <1>0, <2>1 DEF SubHolders, CallHolders, Launched, Idle, SubRefs, SubTest, SubGoto
    <3> QED
      BY <1>0, <2>1, <3>1, Finite DEF SubRefs, SubTest, SubGoto
  <2>2. CASE SubRefsInc(s)
    <3>1. /\ SubHolders' = SubHolders \cup {s} /\ CallHolders' = CallHolders
          /\ Launched' = Launched /\ Idle' = Idle /\ s \notin SubHolders
      BY <1>0, <2>2 DEF SubHolders, CallHolders, Launched, Idle, SubRefsInc, SubTest, SubGoto
    <3>2. Cardinality(SubHolders') = Cardinality(SubHolders) + 1
      BY <3>1, Finite, Grow
    <3> QED
      BY <1>0, <2>2, <3>1, <3>2, Finite DEF SubRefsInc, SubTest, SubGoto
  <2>3. CASE SubLoop(s)
    <3>1. /\ SubHolders' = SubHolders /\ CallHolders' = CallHolders
          /\ Launched' = Launched /\ Idle' = Idle
      BY <1>0, <2>3 DEF SubHolders, CallHolders, Launched, Idle, SubLoop, SubTest, SubGoto
    <3> QED
      BY <1>0, <2>3, <3>1, Finite DEF SubLoop, SubTest, SubGoto
  <2>4. CASE SubReady(s)
    <3>1. /\ SubHolders' = SubHolders /\ CallHolders' = CallHolders
          /\ Launched' = Launched /\ Idle' = Idle
      BY <1>0, <2>4 DEF SubHolders, CallHolders, Launched, Idle, SubReady, SubTest, SubGoto
    <3> QED
      BY <1>0, <2>4, <3>1, Finite DEF SubReady, SubTest, SubGoto
  <2>5. CASE SubPop(s)
    <3>1. /\ SubHolders' = SubHolders /\ CallHolders' = CallHolders
          /\ Launched' = Launched /\ Idle' = Idle
      BY <1>0, <2>5 DEF SubHolders, CallHolders, Launched, Idle, SubPop, SubTest, SubGoto
    <3> QED
      BY <1>0, <2>5, <3>1, Finite DEF SubPop, SubTest, SubGoto
  <2>6. CASE SubPopped(s)
    <3>1. /\ SubHolders' = SubHolders /\ CallHolders' = CallHolders
          /\ Launched' = Launched /\ Idle' = Idle
      BY <1>0, <2>6 DEF SubHolders, CallHolders, Launched, Idle, SubPopped, SubTest, SubGoto
    <3> QED
      BY <1>0, <2>6, <3>1, Finite DEF SubPopped, SubTest, SubGoto
  <2>7. CASE SubTake(s)
    <3>1. /\ SubHolders' = SubHolders /\ CallHolders' = CallHolders
          /\ Launched' = Launched /\ Idle' = Idle \ {s}
          /\ s \in Idle <=> fl_idle[s]
      BY <1>0, <2>7 DEF SubHolders, CallHolders, Launched, Idle, SubTake, SubTest, SubGoto
    <3>2. CASE fl_idle[s]
      <4>1. Cardinality(Idle') = Cardinality(Idle) - 1 /\ Cardinality(Idle) > 0
        BY <3>1, <3>2, Finite, Shrink
      <4> QED
        BY <1>0, <2>7, <3>1, <3>2, <4>1, Finite DEF SubTake, SubTest, SubGoto
    <3>3. CASE ~fl_idle[s]
      <4>1. Idle' = Idle
        BY <3>1, <3>3
      <4> QED
        BY <1>0, <2>7, <3>1, <3>3, <4>1, Finite DEF SubTake, SubTest, SubGoto
    <3> QED
      BY <3>2, <3>3
  <2>8. CASE SubHandle(s)
    <3>1. /\ SubHolders' = SubHolders /\ CallHolders' = CallHolders
          /\ Launched' = Launched /\ Idle' = Idle
      BY <1>0, <2>8 DEF SubHolders, CallHolders, Launched, Idle, SubHandle, SubTest, SubGoto
    <3> QED
      BY <1>0, <2>8, <3>1, Finite DEF SubHandle, SubTest, SubGoto
  <2>9. CASE SubDrained(s)
    <3>1. /\ SubHolders' = SubHolders /\ CallHolders' = CallHolders
          /\ Launched' = Launched /\ Idle' = Idle
      BY <1>0, <2>9 DEF SubHolders, CallHolders, Launched, Idle, SubDrained, SubTest, SubGoto
    <3> QED
      BY <1>0, <2>9, <3>1, Finite DEF SubDrained, SubTest, SubGoto
  <2>10. CASE SubIdle(s)
    <3>1. /\ SubHolders' = SubHolders /\ CallHolders' = CallHolders
          /\ Launched' = Launched /\ (~fl_destroyed => Idle' = Idle)
      BY <1>0, <2>10 DEF SubHolders, CallHolders, Launched, Idle, SubIdle, SubTest, SubGoto
    <3> QED
      BY <1>0, <2>10, <3>1, Finite DEF SubIdle, SubTest, SubGoto
  <2>11. CASE SubIdleInc(s)
    <3>1. /\ SubHolders' = SubHolders /\ CallHolders' = CallHolders
          /\ Launched' = Launched /\ Idle' = Idle \cup {s} /\ s \notin Idle
      BY <1>0, <2>11 DEF SubHolders, CallHolders, Launched, Idle, SubIdleInc, SubTest, SubGoto
    <3>2. Cardinality(Idle') = Cardinality(Idle) + 1
      BY <3>1, Finite, Grow
    <3> QED
      BY <1>0, <2>11, <3>1, <3>2, Finite DEF SubIdleInc, SubTest, SubGoto
  <2>12. CASE SubExitIdle(s)
    <3>1. /\ SubHolders' = SubHolders /\ CallHolders' = CallHolders
          /\ Launched' = Launched /\ Idle' = Idle \ {s}
          /\ s \in Idle <=> fl_idle[s]
      BY <1>0, <2>12 DEF SubHolders, CallHolders, Launched, Idle, SubExitIdle, SubTest, SubGoto
    <3>2. CASE fl_idle[s]
      <4>1. Cardinality(Idle') = Cardinality(Idle) - 1 /\ Cardinality(Idle) > 0
        BY <3>1, <3>2, Finite, Shrink
      <4> QED
        BY <1>0, <2>12, <3>1, <3>2, <4>1, Finite DEF SubExitIdle, SubTest, SubGoto
    <3>3. CASE ~fl_idle[s]
      <4>1. Idle' = Idle
        BY <3>1, <3>3
      <4> QED
        BY <1>0, <2>12, <3>1, <3>3, <4>1, Finite DEF SubExitIdle, SubTest, SubGoto
    <3> QED
      BY <3>2, <3>3
  <2>13. CASE SubExitSub(s)
    <3>1. /\ SubHolders' = SubHolders /\ CallHolders' = CallHolders
          /\ Launched' = Launched \ {s} /\ Idle' = Idle /\ s \in Launched
      BY <1>0, <2>13 DEF SubHolders, CallHolders, Launched, Idle, SubExitSub, SubTest, SubGoto
    <3>2. Cardinality(Launched') = Cardinality(Launched) - 1 /\ Cardinality(Launched) > 0
      BY <3>1, Finite, Shrink
    <3> QED
      BY <1>0, <2>13, <3>1, <3>2, Finite DEF SubExitSub, SubTest, SubGoto
  <2>14. CASE SubExitRef(s)
    <3>1. /\ SubHolders' = SubHolders \ {s} /\ CallHolders' = CallHolders
          /\ Launched' = Launched /\ Idle' = Idle /\ s \in SubHolders
      BY <1>0, <2>14 DEF SubHolders, CallHolders, Launched, Idle, SubExitRef, SubTest, SubGoto
    <3>2. Cardinality(SubHolders') = Cardinality(SubHolders) - 1 /\ Cardinality(SubHolders) > 0
      BY <3>1, Finite, Shrink
    <3> QED
      BY <1>0, <2>14, <3>1, <3>2, Finite DEF SubExitRef, SubTest, SubGoto
  <2> QED
    BY <1>2, <2>1, <2>2, <2>3, <2>4, <2>5, <2>6, <2>7, <2>8, <2>9, <2>10, <2>11, <2>12, <2>13, <2>14 DEF Sub
<1>3. ASSUME NEW c \in Callers, Call(c)
      PROVE  Counts'
  <2>1. CASE CallReady(c)
    <3>1. /\ SubHolders' = SubHolders /\ CallHolders' = CallHolders
          /\ Launched' = Launched /\ Idle' = Idle
      BY <1>0, <2>1 DEF SubHolders, CallHolders, Launched, Idle, CallReady, CallGoto, CallRefused
    <3> QED
      BY <1>0, <2>1, <3>1, Finite DEF CallReady, CallGoto, CallRefused
  <2>2. CASE CallDestroyed(c)
    <3>1. /\ SubHolders' = SubHolders /\ CallHolders' = CallHolders
          /\ Launched' = Launched /\ Idle' = Idle
      BY <1>0, <2>2 DEF SubHolders, CallHolders, Launched, Idle, CallDestroyed, CallGoto, CallRefused
    <3> QED
      BY <1>0, <2>2, <3>1, Finite DEF CallDestroyed, CallGoto, CallRefused
  <2>3. CASE CallRefsInc(c)
    <3>1. /\ SubHolders' = SubHolders /\ CallHolders' = CallHolders \cup {c}
          /\ Launched' = Launched /\ Idle' = Idle
          /\ c \notin CallHolders
      BY <1>0, <2>3 DEF SubHolders, CallHolders, Launched, Idle, CallRefsInc, CallGoto
    <3>2. Cardinality(CallHolders') = Cardinality(CallHolders) + 1
      BY <3>1, Finite, Grow
    <3> QED
      BY <1>0, <2>3, <3>1, <3>2, Finite DEF CallRefsInc, CallGoto
  <2>4. CASE CallPush(c)
    <3>1. /\ SubHolders' = SubHolders /\ CallHolders' = CallHolders
          /\ Launched' = Launched /\ Idle' = Idle
      BY <1>0, <2>4 DEF SubHolders, CallHolders, Launched, Idle, CallPush, CallGoto, CallRefused
    <3> QED
      BY <1>0, <2>4, <3>1, Finite DEF CallPush, CallGoto, CallRefused
  <2>5. CASE CallDeref(c)
    <3>1. /\ SubHolders' = SubHolders /\ CallHolders' = CallHolders \ {c}
          /\ Launched' = Launched /\ Idle' = Idle
          /\ c \in CallHolders
      BY <1>0, <2>5 DEF SubHolders, CallHolders, Launched, Idle, CallDeref, CallGoto
    <3>2. Cardinality(CallHolders') = Cardinality(CallHolders) - 1 /\ Cardinality(CallHolders) > 0
      BY <3>1, Finite, Shrink
    <3> QED
      BY <1>0, <2>5, <3>1, <3>2, Finite DEF CallDeref, CallGoto
  <2> QED
    BY <1>3, <2>1, <2>2, <2>3, <2>4, <2>5 DEF Call
<1>4. ASSUME NEW c \in Callers, NEW j \in Jobs, CallBegin(c, j)
      PROVE  Counts'
  <2>1. /\ SubHolders' = SubHolders /\ CallHolders' = CallHolders
        /\ Launched' = Launched /\ Idle' = Idle
    BY <1>0, <1>4 DEF SubHolders, CallHolders, Launched, Idle, CallBegin, CallGoto
  <2> QED
    BY <1>0, <1>4, <2>1, Finite DEF CallBegin, CallGoto
<1>5. CASE Owner
  <2>1. /\ SubHolders' = SubHolders /\ CallHolders' = CallHolders
        /\ Launched' = Launched /\ Idle' = Idle
    BY <1>5 DEF SubHolders, CallHolders, Launched, Idle, Owner, OwnerSetDestroyed, OwnerClearReady, OwnerWait, OwnerFree, OwnerGoto
  <2> QED
    BY <1>0, <1>5, <2>1, Finite
       DEF Owner, OwnerSetDestroyed, OwnerClearReady, OwnerWait, OwnerFree, OwnerGoto
<1>6. CASE UNCHANGED vars
  <2>1. /\ SubHolders' = SubHolders /\ CallHolders' = CallHolders
        /\ Launched' = Launched /\ Idle' = Idle
    BY <1>6 DEF SubHolders, CallHolders, Launched, Idle, vars
  <2> QED
    BY <1>0, <1>6, <2>1, Finite DEF vars
<1> QED
  BY <1>1, <1>2, <1>3, <1>4, <1>5, <1>6 DEF Next, Stopped

-----------------------------------------------------------------------------
(* With no reference left and the owner waiting, nobody is inside: threads  *)
(* that hold none have not been started, by NoLateStart, or have ended.     *)
LEMMA NoRefsNobody ==
  ASSUME Control, Counts, refs = 0, fl_destroyed, opc # "using"
  PROVE  Nobody
<1>1. ~MainHolds /\ SubHolders = {} /\ CallHolders = {}
  <2>1. ~MainHolds /\ Cardinality(SubHolders) = 0 /\ Cardinality(CallHolders) = 0
    BY Finite DEF Counts, RefsCountHolders
  <2> QED
    BY <2>1, Finite, FS_EmptySet
<1>2. mpc = "done"
  BY <1>1 DEF MainHolds, Control, NoLateStart, Starting
<1>3. \A s \in Subs : spc[s] = "none"
  BY <1>1 DEF SubHolders, Control, NoLateStart, Starting
<1>4. \A c \in Callers : cpc[c] = "out"
  BY <1>3 DEF Control, CallsCovered
<1> QED
  BY <1>2, <1>3, <1>4 DEF Nobody

LEMMA NextNoUse ==
  ASSUME Control, Counts, NoUseAfterFree, [Next]_vars
  PROVE  NoUseAfterFree'
<1> SUFFICES ASSUME opc' \in {"free", "freed"}
             PROVE  Nobody'
  BY DEF NoUseAfterFree
<1>1. CASE opc \in {"free", "freed"}
  <2>1. Nobody
    BY <1>1 DEF NoUseAfterFree
  <2>2. ~Main
    BY <2>1 DEF Nobody, Main, MainTest, MainGoto, MainRefs, MainRefsInc, MainReady, MainLoop, MainMin, MainMinMore,
                MainMinLaunch, MainQlen, MainIdleRead, MainExtra, MainExtraLaunch, MainSubInc,
                MainSubCreate, MainSubFail, MainDrain, MainDeref
  <2>3. ASSUME NEW s \in Subs PROVE ~Sub(s)
    BY <2>1 DEF Nobody, Sub, SubTest, SubGoto, SubRefs, SubRefsInc, SubLoop, SubReady, SubPop, SubPopped,
                SubTake, SubHandle, SubDrained, SubIdle, SubIdleInc, SubExitIdle, SubExitSub,
                SubExitRef
  <2>4. ASSUME NEW c \in Callers PROVE ~Call(c) /\ \A j \in Jobs : ~CallBegin(c, j)
    BY <1>1, <2>1 DEF Nobody, Call, CallGoto, CallReady, CallDestroyed, CallRefsInc, CallPush,
                CallDeref, CallRefused, CallBegin
  <2>5. CASE Owner
    BY <2>1, <2>5 DEF Nobody, Owner, OwnerSetDestroyed, OwnerClearReady, OwnerWait, OwnerFree,
                OwnerGoto, main, subs, calls
  <2>6. CASE UNCHANGED vars
    BY <2>1, <2>6 DEF Nobody, vars, main, subs, calls
  <2> QED
    BY <2>2, <2>3, <2>4, <2>5, <2>6 DEF Next, Stopped
<1>2. CASE opc \notin {"free", "freed"}
  <2>1. OwnerWait
    BY <1>2 DEF Next, Stopped, vars, Owner, OwnerSetDestroyed, OwnerClearReady, OwnerFree,
                OwnerGoto, Main, MainTest, MainGoto, MainRefs, MainRefsInc, MainReady, MainLoop, MainMin,
                MainMinMore, MainMinLaunch, MainQlen, MainIdleRead, MainExtra, MainExtraLaunch,
                MainSubInc, MainSubCreate, MainSubFail, MainDrain, MainDeref,
                Sub, SubTest, SubGoto, SubRefs, SubRefsInc, SubLoop, SubReady, SubPop, SubPopped,
                SubTake, SubHandle, SubDrained, SubIdle, SubIdleInc, SubExitIdle, SubExitSub,
                SubExitRef, Call, CallGoto, CallReady, CallDestroyed, CallRefsInc, CallPush,
                CallDeref, CallRefused, CallBegin
  <2>2. refs = 0 /\ opc = "wait" /\ UNCHANGED <<mpc, spc, cpc>>
    BY <2>1 DEF OwnerWait, OwnerGoto, main, subs, calls
  <2>3. fl_destroyed
    BY <2>2 DEF Control, DestroyedByOwner
  <2>4. Nobody
    BY <2>2, <2>3, NoRefsNobody
  <2> QED
    BY <2>2, <2>4 DEF Nobody
<1> QED
  BY <1>1, <1>2

-----------------------------------------------------------------------------
IInv == Control /\ Counts /\ NoUseAfterFree

LEMMA AlwaysIInv == ASSUME Contract # "ready" PROVE Spec => []IInv
<1>1. Init => IInv
  BY InitControl, InitCounts DEF IInv, NoUseAfterFree, Init
<1>2. IInv /\ [Next]_vars => IInv'
  BY NextControl, NextCounts, NextNoUse DEF IInv
<1> QED
  BY <1>1, <1>2, PTL DEF Spec

(* worker->refs is the number of threads inside the worker; sub_threads is  *)
(* exact and never above max_threads, and idle_threads is exact until the   *)
(* worker is being destroyed.                                               *)
THEOREM WorkerCounters == ASSUME Contract # "ready" PROVE Spec => []CountersExact
<1>1. IInv => CountersExact
  BY DEF IInv, Counts, CountersExact
<1> QED
  BY <1>1, AlwaysIInv, PTL

(* The destructor frees the worker when no thread is left that touches it.  *)
THEOREM WorkerNoUseAfterFree == ASSUME Contract # "ready" PROVE Spec => []NoUseAfterFree
BY AlwaysIInv, PTL DEF IInv

-----------------------------------------------------------------------------
(***************************************************************************)
(* The jobs.  The queue's occupied slots hold different jobs, a sub-thread *)
(* has what it popped until it handled or dropped it, and a call carries a *)
(* job that was not accepted yet.                                          *)
(***************************************************************************)
QueueOK ==
  /\ Q!StoreTypeOK /\ Q!SlotsInv
  /\ \A i, k \in 0..QSize : data[i] # NULL /\ data[i] = data[k] => i = k

HandsOK ==
  /\ pop \in [Subs -> Jobs \cup {NULL}]
  /\ \A s \in Subs : /\ pop[s] # NULL => spc[s] \in {"popped", "take", "handle"}
                     /\ spc[s] \in {"take", "handle"} => pop[s] # NULL
  /\ \A s, t \in Subs : pop[s] # NULL /\ pop[s] = pop[t] => s = t

ArgsOK ==
  /\ arg \in [Callers -> Jobs \cup {NULL}]
  /\ \A c \in Callers : cpc[c] \in {"ready", "destroyed", "refs_inc", "push"} =>
       arg[c] \in Jobs /\ arg[c] \notin accepted
  /\ \A c, d \in Callers : arg[c] # NULL /\ arg[c] = arg[d] => c = d

FatesOK ==
  /\ accepted \subseteq Jobs
  /\ Queued \cup InHand \cup handled \cup released \subseteq accepted /\ Queued \cap InHand = {}

JobsOK == QueueOK /\ HandsOK /\ ArgsOK /\ FatesOK

(* Once the worker is being destroyed, each job lost so far was dropped by  *)
(* a sub-thread that is on its way out and drops no other.                  *)
MayDrop == {s \in Subs : spc[s] \notin {"none", "exit_idle", "exit_sub", "exit_ref"}}

LossOK ==
  /\ IsFiniteSet(Lost)
  /\ ~fl_destroyed => Lost = {}
  /\ fl_destroyed => Cardinality(Lost) + Cardinality(MayDrop) <= Max

(* What is queued is what the slots hold.                                   *)
Stored == {j \in Jobs : \E i \in 0..QSize : data[i] = j}

LEMMA QueuedIsStored == QueueOK => Queued = Stored
<1> SUFFICES ASSUME QueueOK
             PROVE  Queued = Stored
  OBVIOUS
<1>1. /\ data \in [0..QSize -> Jobs \cup {NULL}] /\ in \in 0..QSize /\ out \in 0..QSize
      /\ out <= in /\ \A i \in 0..QSize : data[i] # NULL <=> out <= i /\ i < in
  BY DEF QueueOK, Q!StoreTypeOK, Q!SlotsInv, Q!Slots
<1>2. QSize \in Nat /\ NULL \notin Jobs
  BY WorkerAssumption
<1>3. Q!Pending = [i \in 1..(in - out) |-> data[out + i - 1]]
  BY <1>1, <1>2 DEF Q!Pending
<1>4. Queued = {data[out + i - 1] : i \in 1..(in - out)}
  BY <1>3 DEF Queued
<1>5. ASSUME NEW i \in 1..(in - out)
      PROVE  out + i - 1 \in 0..QSize /\ data[out + i - 1] \in Jobs
  <2>1. out + i - 1 \in 0..QSize /\ out <= out + i - 1 /\ out + i - 1 < in
    BY <1>1, <1>2
  <2> QED
    BY <1>1, <2>1
<1>6. ASSUME NEW i \in 0..QSize, data[i] \in Jobs
      PROVE  \E k \in 1..(in - out) : data[i] = data[out + k - 1]
  <2>1. out <= i /\ i < in
    BY <1>1, <1>2, <1>6
  <2>2. i + 1 - out \in 1..(in - out) /\ out + (i + 1 - out) - 1 = i
    BY <1>1, <1>2, <2>1
  <2> QED
    BY <2>2
<1> QED
  BY <1>4, <1>5, <1>6 DEF Stored

LEMMA QueuedIsStoredNext == QueueOK' => Queued' = Stored'
<1>1. (QueueOK => Queued = Stored)'
  BY QueuedIsStored, PTL
<1> QED
  BY <1>1

(* An accepted job is stored behind the others.                             *)
LEMMA PushStores ==
  ASSUME QueueOK, NEW j \in Jobs, j \notin Queued, Q!PushSlot(j)
  PROVE  QueueOK' /\ Queued' = Queued \cup {j}
<1>1. /\ data \in [0..QSize -> Jobs \cup {NULL}] /\ in \in 0..QSize /\ out \in 0..QSize
      /\ out <= in /\ out < QSize /\ \A i \in 0..QSize : data[i] # NULL <=> out <= i /\ i < in
      /\ \A i, k \in 0..QSize : data[i] # NULL /\ data[i] = data[k] => i = k
  BY DEF QueueOK, Q!StoreTypeOK, Q!SlotsInv, Q!Slots
<1>2. QSize \in Nat /\ NULL \notin Jobs
  BY WorkerAssumption
<1>3. /\ in < QSize /\ in' = in + 1 /\ out' = out
      /\ data' = [data EXCEPT ![in] = j]
  BY DEF Q!PushSlot, Q!Write
<1>4. \A i \in 0..QSize : data[i] # j
  BY QueuedIsStored DEF Stored
<1>5. data[in] = NULL
  BY <1>1, <1>2
<1>6. \A i \in 0..QSize : data'[i] = IF i = in THEN j ELSE data[i]
  BY <1>1, <1>3
<1>7. data' \in [0..QSize -> Jobs \cup {NULL}] /\ in' \in 0..QSize /\ out' \in 0..QSize
  BY <1>1, <1>2, <1>3
<1>8. \A i \in 0..QSize : data'[i] # NULL <=> out' <= i /\ i < in'
  BY <1>1, <1>2, <1>3, <1>6
<1>9. \A i, k \in 0..QSize : data'[i] # NULL /\ data'[i] = data'[k] => i = k
  BY <1>1, <1>4, <1>6
<1>10. QueueOK'
  <2>1. out' <= in' /\ out' < QSize
    BY <1>1, <1>2, <1>3
  <2> QED
    BY <1>7, <1>8, <1>9, <2>1 DEF QueueOK, Q!StoreTypeOK, Q!SlotsInv, Q!Slots
<1>11. Stored' = Stored \cup {j}
  BY <1>1, <1>2, <1>5, <1>6 DEF Stored
<1> QED
  BY <1>10, <1>11, QueuedIsStored, QueuedIsStoredNext

(* The first job is taken out, or there is none.                            *)
LEMMA PopStores ==
  ASSUME QueueOK, Q!PopSlot
  PROVE  /\ QueueOK' /\ data[out] \in Jobs \cup {NULL}
         /\ data[out] = NULL => Queued' = Queued
         /\ data[out] # NULL => data[out] \in Queued /\ Queued' = Queued \ {data[out]}
<1>1. /\ data \in [0..QSize -> Jobs \cup {NULL}] /\ in \in 0..QSize /\ out \in 0..QSize
      /\ out <= in /\ out < QSize /\ \A i \in 0..QSize : data[i] # NULL <=> out <= i /\ i < in
      /\ \A i, k \in 0..QSize : data[i] # NULL /\ data[i] = data[k] => i = k
  BY DEF QueueOK, Q!StoreTypeOK, Q!SlotsInv, Q!Slots
<1>2. QSize \in Nat /\ NULL \notin Jobs
  BY WorkerAssumption
<1>3. /\ data' = [data EXCEPT ![out] = NULL]
      /\ IF out + 1 > in \/ out + 1 >= QSize THEN in' = 0 /\ out' = 0 ELSE in' = in /\ out' = out + 1
  BY DEF Q!PopSlot, Q!Clear, Q!Rewind, Q!Advance
<1>4. \A i \in 0..QSize : data'[i] = IF i = out THEN NULL ELSE data[i]
  BY <1>1, <1>3
<1>5. data' \in [0..QSize -> Jobs \cup {NULL}] /\ in' \in 0..QSize /\ out' \in 0..QSize
  BY <1>1, <1>2, <1>3
<1>6. \A i \in 0..QSize : data'[i] # NULL <=> out' <= i /\ i < in'
  BY <1>1, <1>2, <1>3, <1>4
<1>7. \A i, k \in 0..QSize : data'[i] # NULL /\ data'[i] = data'[k] => i = k
  BY <1>1, <1>4
<1>8. QueueOK'
  <2>1. out' <= in' /\ out' < QSize
    BY <1>1, <1>2, <1>3
  <2> QED
    BY <1>5, <1>6, <1>7, <2>1 DEF QueueOK, Q!StoreTypeOK, Q!SlotsInv, Q!Slots
<1>9. data[out] = NULL => Stored' = Stored
  BY <1>1, <1>2, <1>4 DEF Stored
<1>10. data[out] # NULL => data[out] \in Stored /\ Stored' = Stored \ {data[out]}
  BY <1>1, <1>2, <1>4 DEF Stored
<1> QED
  BY <1>1, <1>8, <1>9, <1>10, QueuedIsStored, QueuedIsStoredNext

(* The destructor releases what is queued, and leaves nothing.              *)
LEMMA FreeReleases ==
  ASSUME QueueOK, data' = Q!Zeroed, in' = 0, out' = 0
  PROVE  /\ QueueOK' /\ Queued' = {}
         /\ {j \in Jobs : Q!Released[j] > 0} = Queued
<1>1. /\ data \in [0..QSize -> Jobs \cup {NULL}] /\ in \in 0..QSize /\ out \in 0..QSize
      /\ out <= in /\ \A i \in 0..QSize : data[i] # NULL <=> out <= i /\ i < in
  BY DEF QueueOK, Q!StoreTypeOK, Q!SlotsInv, Q!Slots
<1>2. QSize \in Nat \ {0} /\ NULL \notin Jobs
  BY WorkerAssumption
<1>3. QueueOK'
  BY <1>2 DEF QueueOK, Q!StoreTypeOK, Q!SlotsInv, Q!Slots, Q!Zeroed
<1>4. Stored' = {}
  BY <1>2 DEF Stored, Q!Zeroed, Q!Slots
<1>5. ASSUME NEW j \in Jobs
      PROVE  Q!Released[j] > 0 <=> j \in Stored
  <2> DEFINE S == {i \in 0..in : data[i] = j}
  <2>1. IsFiniteSet(S) /\ Cardinality(S) \in Nat /\ (Cardinality(S) = 0 <=> S = {})
    <3>1. IsFiniteSet(0..in)
      BY <1>1, <1>2, FS_Interval
    <3>2. IsFiniteSet(S)
      BY <3>1, FS_Subset
    <3> QED
      BY <3>2, FS_CardinalityType, FS_EmptySet
  <2>2. Q!Released[j] = IF in = 0 THEN 0 ELSE Cardinality(S)
    <3>1. \A T : Q!Cardinality(T) = Cardinality(T)
      BY DEF Q!Cardinality, Cardinality
    <3> QED
      BY <3>1 DEF Q!Released
  <2>3. j \in Stored <=> in # 0 /\ S # {}
    BY <1>1, <1>2 DEF Stored
  <2> QED
    BY <2>1, <2>2, <2>3
<1> QED
  BY <1>3, <1>4, <1>5, QueuedIsStored, QueuedIsStoredNext DEF Stored

(* Jobs change hands in these steps; every other leaves them there.         *)
Moves ==
  \/ \E c \in Callers : CallPush(c) /\ Q!PushSlot(arg[c])
  \/ \E s \in Subs : (SubPop(s) /\ Q!PopSlot) \/ SubPopped(s) \/ SubHandle(s)
  \/ OwnerSetDestroyed \/ OwnerFree

Rest ==
  /\ UNCHANGED <<queue, pop, accepted, handled, released, fl_destroyed>>
  /\ opc' = "freed" <=> opc = "freed"

LEMMA OnlyMoves ==
  ASSUME [Next]_vars
  PROVE  Moves \/ Rest
<1> USE DEF counters, flags, queue, main, subs, calls, fates, Moves, Rest
<1>1. CASE Main
  BY <1>1 DEF Main, MainTest, MainGoto, MainSubCreate, MainRefs, MainRefsInc, MainReady, MainLoop,
     MainMin, MainMinMore, MainMinLaunch, MainQlen, MainIdleRead, MainExtra, MainExtraLaunch,
     MainSubInc, MainSubFail, MainDrain, MainDeref
<1>2. ASSUME NEW x \in Subs, Sub(x)
      PROVE  Moves \/ Rest
  <2>1. CASE SubRefs(x)
    BY <2>1 DEF SubRefs, SubTest, SubGoto
  <2>2. CASE SubRefsInc(x)
    BY <2>2 DEF SubRefsInc, SubTest, SubGoto
  <2>3. CASE SubLoop(x)
    BY <2>3 DEF SubLoop, SubTest, SubGoto
  <2>4. CASE SubReady(x)
    BY <2>4 DEF SubReady, SubTest, SubGoto
  <2>5. CASE SubPop(x)
    BY <2>5 DEF SubPop, SubTest, SubGoto
  <2>6. CASE SubPopped(x)
    BY <2>6 DEF SubPopped, SubTest, SubGoto
  <2>7. CASE SubTake(x)
    BY <2>7 DEF SubTake, SubTest, SubGoto
  <2>8. CASE SubHandle(x)
    BY <2>8 DEF SubHandle, SubTest, SubGoto
  <2>9. CASE SubDrained(x)
    BY <2>9 DEF SubDrained, SubTest, SubGoto
  <2>10. CASE SubIdle(x)
    BY <2>10 DEF SubIdle, SubTest, SubGoto
  <2>11. CASE SubIdleInc(x)
    BY <2>11 DEF SubIdleInc, SubTest, SubGoto
  <2>12. CASE SubExitIdle(x)
    BY <2>12 DEF SubExitIdle, SubTest, SubGoto
  <2>13. CASE SubExitSub(x)
    BY <2>13 DEF SubExitSub, SubTest, SubGoto
  <2>14. CASE SubExitRef(x)
    BY <2>14 DEF SubExitRef, SubTest, SubGoto
  <2> QED
    BY <1>2, <2>1, <2>2, <2>3, <2>4, <2>5, <2>6, <2>7, <2>8, <2>9, <2>10, <2>11, <2>12, <2>13,
       <2>14 DEF Sub
<1>3. ASSUME NEW x \in Callers, Call(x)
      PROVE  Moves \/ Rest
  <2>1. CASE CallReady(x)
    BY <2>1 DEF CallReady, CallGoto, CallRefused
  <2>2. CASE CallDestroyed(x)
    BY <2>2 DEF CallDestroyed, CallGoto, CallRefused
  <2>3. CASE CallRefsInc(x)
    BY <2>3 DEF CallRefsInc, CallGoto, CallRefused
  <2>4. CASE CallPush(x)
    BY <2>4 DEF CallPush, CallGoto, CallRefused
  <2>5. CASE CallDeref(x)
    BY <2>5 DEF CallDeref, CallGoto, CallRefused
  <2> QED
    BY <1>3, <2>1, <2>2, <2>3, <2>4, <2>5 DEF Call
<1>4. ASSUME NEW x \in Callers, NEW y \in Jobs, CallBegin(x, y)
      PROVE  Moves \/ Rest
  BY <1>4 DEF CallBegin, CallGoto
<1>5. CASE Owner
  <2>1. CASE OwnerSetDestroyed
    BY <2>1 DEF OwnerSetDestroyed, OwnerGoto
  <2>2. CASE OwnerClearReady
    BY <2>2 DEF OwnerClearReady, OwnerGoto
  <2>3. CASE OwnerWait
    BY <2>3 DEF OwnerWait, OwnerGoto
  <2>4. CASE OwnerFree
    BY <2>4 DEF OwnerFree, OwnerGoto
  <2> QED
    BY <1>5, <2>1, <2>2, <2>3, <2>4 DEF Owner
<1>6. CASE UNCHANGED vars
  BY <1>6 DEF vars
<1> QED
  BY <1>1, <1>2, <1>3, <1>4, <1>5, <1>6 DEF Next, Stopped

(* A sub-thread has a job from the pop to the end of its handler.           *)
LEMMA NextHands ==
  ASSUME JobsOK, Control, [Next]_vars
  PROVE  HandsOK'
<1> USE DEF counters, flags, queue, main, subs, calls, fates, ControlOK, SubPcs
<1>a. HandsOK /\ ControlOK
  BY DEF JobsOK, Control
<1> USE DEF HandsOK
<1>1. CASE Main
  BY <1>1, <1>a DEF Main, MainTest, MainGoto, MainSubCreate, MainRefs, MainRefsInc, MainReady, MainLoop,
     MainMin, MainMinMore, MainMinLaunch, MainQlen, MainIdleRead, MainExtra, MainExtraLaunch,
     MainSubInc, MainSubFail, MainDrain, MainDeref
<1>2. ASSUME NEW x \in Subs, Sub(x)
      PROVE  HandsOK'
  <2>1. CASE SubRefs(x)
    BY <2>1, <1>a DEF SubRefs, SubTest, SubGoto
  <2>2. CASE SubRefsInc(x)
    BY <2>2, <1>a DEF SubRefsInc, SubTest, SubGoto
  <2>3. CASE SubLoop(x)
    BY <2>3, <1>a DEF SubLoop, SubTest, SubGoto
  <2>4. CASE SubReady(x)
    BY <2>4, <1>a DEF SubReady, SubTest, SubGoto
  <2>5. CASE SubPop(x)
    <3>1. CASE Q!PopSlot /\ SubGoto(x, "pop", "popped") /\ pop' = [pop EXCEPT ![x] = data[out]]
      <4>1. /\ data[out] \in Jobs \cup {NULL}
            /\ data[out] # NULL => data[out] \in Queued
        BY <3>1, PopStores DEF JobsOK
      <4>2. data[out] # NULL => data[out] \notin InHand
        BY <4>1 DEF JobsOK, FatesOK
      <4>3. \A t \in Subs : data[out] # NULL => pop[t] # data[out]
        BY <4>2 DEF InHand
      <4>4. PICK j \in Jobs \cup {NULL} : j = data[out]
        BY <4>1
      <4>5. pop' = [pop EXCEPT ![x] = j] /\ \A t \in Subs : j # NULL => pop[t] # j
        BY <3>1, <4>3, <4>4
      <4> QED
        BY <3>1, <4>5, <1>a DEF SubGoto
    <3>2. CASE pop' = pop /\ SubGoto(x, "pop", "drained")
      BY <3>2, <1>a DEF SubGoto
    <3> QED
      BY <2>5, <3>1, <3>2 DEF SubPop
  <2>6. CASE SubPopped(x)
    BY <2>6, <1>a DEF SubPopped, SubTest, SubGoto
  <2>7. CASE SubTake(x)
    BY <2>7, <1>a DEF SubTake, SubTest, SubGoto
  <2>8. CASE SubHandle(x)
    BY <2>8, <1>a DEF SubHandle, SubTest, SubGoto
  <2>9. CASE SubDrained(x)
    BY <2>9, <1>a DEF SubDrained, SubTest, SubGoto
  <2>10. CASE SubIdle(x)
    BY <2>10, <1>a DEF SubIdle, SubTest, SubGoto
  <2>11. CASE SubIdleInc(x)
    BY <2>11, <1>a DEF SubIdleInc, SubTest, SubGoto
  <2>12. CASE SubExitIdle(x)
    BY <2>12, <1>a DEF SubExitIdle, SubTest, SubGoto
  <2>13. CASE SubExitSub(x)
    BY <2>13, <1>a DEF SubExitSub, SubTest, SubGoto
  <2>14. CASE SubExitRef(x)
    BY <2>14, <1>a DEF SubExitRef, SubTest, SubGoto
  <2> QED
    BY <1>2, <2>1, <2>2, <2>3, <2>4, <2>5, <2>6, <2>7, <2>8, <2>9, <2>10, <2>11, <2>12, <2>13,
       <2>14 DEF Sub
<1>3. ASSUME NEW x \in Callers, Call(x)
      PROVE  HandsOK'
  <2>1. CASE CallReady(x)
    BY <2>1, <1>a DEF CallReady, CallGoto, CallRefused
  <2>2. CASE CallDestroyed(x)
    BY <2>2, <1>a DEF CallDestroyed, CallGoto, CallRefused
  <2>3. CASE CallRefsInc(x)
    BY <2>3, <1>a DEF CallRefsInc, CallGoto, CallRefused
  <2>4. CASE CallPush(x)
    BY <2>4, <1>a DEF CallPush, CallGoto, CallRefused
  <2>5. CASE CallDeref(x)
    BY <2>5, <1>a DEF CallDeref, CallGoto, CallRefused
  <2> QED
    BY <1>3, <2>1, <2>2, <2>3, <2>4, <2>5 DEF Call
<1>4. ASSUME NEW x \in Callers, NEW y \in Jobs, CallBegin(x, y)
      PROVE  HandsOK'
  BY <1>4, <1>a DEF CallBegin, CallGoto
<1>5. CASE Owner
  <2>1. CASE OwnerSetDestroyed
    BY <2>1, <1>a DEF OwnerSetDestroyed, OwnerGoto
  <2>2. CASE OwnerClearReady
    BY <2>2, <1>a DEF OwnerClearReady, OwnerGoto
  <2>3. CASE OwnerWait
    BY <2>3, <1>a DEF OwnerWait, OwnerGoto
  <2>4. CASE OwnerFree
    BY <2>4, <1>a DEF OwnerFree, OwnerGoto
  <2> QED
    BY <1>5, <2>1, <2>2, <2>3, <2>4 DEF Owner
<1>6. CASE UNCHANGED vars
  BY <1>6, <1>a DEF vars
<1> QED
  BY <1>1, <1>2, <1>3, <1>4, <1>5, <1>6 DEF Next, Stopped
(* A call carries a job that was not accepted before.                       *)
LEMMA NextArgs ==
  ASSUME JobsOK, Control, [Next]_vars
  PROVE  ArgsOK'
<1> USE DEF counters, flags, queue, main, subs, calls, fates, ControlOK, CallPcs
<1>a. ArgsOK /\ ControlOK /\ NULL \notin Jobs
  BY WorkerAssumption DEF JobsOK, Control
<1> USE DEF ArgsOK
<1>1. CASE Main
  BY <1>1, <1>a DEF Main, MainTest, MainGoto, MainSubCreate, MainRefs, MainRefsInc, MainReady, MainLoop,
     MainMin, MainMinMore, MainMinLaunch, MainQlen, MainIdleRead, MainExtra, MainExtraLaunch,
     MainSubInc, MainSubFail, MainDrain, MainDeref
<1>2. ASSUME NEW x \in Subs, Sub(x)
      PROVE  ArgsOK'
  <2>1. CASE SubRefs(x)
    BY <2>1, <1>a DEF SubRefs, SubTest, SubGoto
  <2>2. CASE SubRefsInc(x)
    BY <2>2, <1>a DEF SubRefsInc, SubTest, SubGoto
  <2>3. CASE SubLoop(x)
    BY <2>3, <1>a DEF SubLoop, SubTest, SubGoto
  <2>4. CASE SubReady(x)
    BY <2>4, <1>a DEF SubReady, SubTest, SubGoto
  <2>5. CASE SubPop(x)
    BY <2>5, <1>a DEF SubPop, SubTest, SubGoto
  <2>6. CASE SubPopped(x)
    BY <2>6, <1>a DEF SubPopped, SubTest, SubGoto
  <2>7. CASE SubTake(x)
    BY <2>7, <1>a DEF SubTake, SubTest, SubGoto
  <2>8. CASE SubHandle(x)
    BY <2>8, <1>a DEF SubHandle, SubTest, SubGoto
  <2>9. CASE SubDrained(x)
    BY <2>9, <1>a DEF SubDrained, SubTest, SubGoto
  <2>10. CASE SubIdle(x)
    BY <2>10, <1>a DEF SubIdle, SubTest, SubGoto
  <2>11. CASE SubIdleInc(x)
    BY <2>11, <1>a DEF SubIdleInc, SubTest, SubGoto
  <2>12. CASE SubExitIdle(x)
    BY <2>12, <1>a DEF SubExitIdle, SubTest, SubGoto
  <2>13. CASE SubExitSub(x)
    BY <2>13, <1>a DEF SubExitSub, SubTest, SubGoto
  <2>14. CASE SubExitRef(x)
    BY <2>14, <1>a DEF SubExitRef, SubTest, SubGoto
  <2> QED
    BY <1>2, <2>1, <2>2, <2>3, <2>4, <2>5, <2>6, <2>7, <2>8, <2>9, <2>10, <2>11, <2>12, <2>13,
       <2>14 DEF Sub
<1>3. ASSUME NEW x \in Callers, Call(x)
      PROVE  ArgsOK'
  <2>1. CASE CallReady(x)
    BY <2>1, <1>a DEF CallReady, CallGoto, CallRefused
  <2>2. CASE CallDestroyed(x)
    BY <2>2, <1>a DEF CallDestroyed, CallGoto, CallRefused
  <2>3. CASE CallRefsInc(x)
    BY <2>3, <1>a DEF CallRefsInc, CallGoto, CallRefused
  <2>4. CASE CallPush(x)
    BY <2>4, <1>a DEF CallPush, CallGoto, CallRefused
  <2>5. CASE CallDeref(x)
    BY <2>5, <1>a DEF CallDeref, CallGoto, CallRefused
  <2> QED
    BY <1>3, <2>1, <2>2, <2>3, <2>4, <2>5 DEF Call
<1>4. ASSUME NEW x \in Callers, NEW y \in Jobs, CallBegin(x, y)
      PROVE  ArgsOK'
  BY <1>4, <1>a DEF CallBegin, CallGoto
<1>5. CASE Owner
  <2>1. CASE OwnerSetDestroyed
    BY <2>1, <1>a DEF OwnerSetDestroyed, OwnerGoto
  <2>2. CASE OwnerClearReady
    BY <2>2, <1>a DEF OwnerClearReady, OwnerGoto
  <2>3. CASE OwnerWait
    BY <2>3, <1>a DEF OwnerWait, OwnerGoto
  <2>4. CASE OwnerFree
    BY <2>4, <1>a DEF OwnerFree, OwnerGoto
  <2> QED
    BY <1>5, <2>1, <2>2, <2>3, <2>4 DEF Owner
<1>6. CASE UNCHANGED vars
  BY <1>6, <1>a DEF vars
<1> QED
  BY <1>1, <1>2, <1>3, <1>4, <1>5, <1>6 DEF Next, Stopped

(* What the steps that move a job do to the jobs queued, those in hand and  *)
(* those lost.                                                              *)
LEMMA PushMoves ==
  ASSUME JobsOK, Control, NEW c \in Callers, CallPush(c), Q!PushSlot(arg[c])
  PROVE  /\ arg[c] \in Jobs /\ arg[c] \notin accepted
         /\ QueueOK' /\ Queued' = Queued \cup {arg[c]} /\ InHand' = InHand
         /\ accepted' = accepted \cup {arg[c]}
         /\ UNCHANGED <<handled, released, fl_destroyed, opc>>
<1>1. arg[c] \in Jobs /\ arg[c] \notin accepted
  BY DEF JobsOK, ArgsOK, CallPush, CallGoto
<1>2. accepted' = accepted \cup {arg[c]}
  <2>1. in < QSize
    BY DEF Q!PushSlot
  <2>2. in \in Nat /\ QSize \in Nat
    BY WorkerAssumption DEF JobsOK, QueueOK, Q!StoreTypeOK
  <2>3. ~ Q!wstk_queue_is_full
    BY <2>1, <2>2 DEF Q!wstk_queue_is_full
  <2> QED
    BY <2>3 DEF CallPush
<1>3. QueueOK' /\ Queued' = Queued \cup {arg[c]}
  <2>1. arg[c] \notin Queued
    BY <1>1 DEF JobsOK, FatesOK
  <2> QED
    BY <1>1, <2>1, PushStores DEF JobsOK
<1>4. InHand' = InHand
  BY DEF InHand, CallPush, CallGoto, subs
<1> QED
  BY <1>1, <1>2, <1>3, <1>4 DEF CallPush, CallGoto, flags

LEMMA PopMoves ==
  ASSUME JobsOK, Control, NEW s \in Subs, SubPop(s), Q!PopSlot
  PROVE  /\ QueueOK' /\ UNCHANGED <<accepted, handled, released, fl_destroyed, opc>>
         /\ \/ Queued' = Queued /\ InHand' = InHand
            \/ \E j \in Queued : Queued' = Queued \ {j} /\ InHand' = InHand \cup {j}
<1>1. /\ QueueOK' /\ data[out] \in Jobs \cup {NULL}
      /\ data[out] = NULL => Queued' = Queued
      /\ data[out] # NULL => data[out] \in Queued /\ Queued' = Queued \ {data[out]}
  BY PopStores DEF JobsOK
<1>2. pop' = [pop EXCEPT ![s] = data[out]] /\ pop[s] = NULL
  <2>1. in # 0
    BY WorkerAssumption DEF Q!PopSlot, JobsOK, QueueOK, Q!StoreTypeOK
  <2>2. spc[s] = "pop"
    BY DEF SubPop, SubGoto
  <2> QED
    BY <2>1, <2>2 DEF SubPop, JobsOK, HandsOK
<1>3. InHand' = IF data[out] = NULL THEN InHand ELSE InHand \cup {data[out]}
  BY <1>2 DEF InHand, JobsOK, HandsOK
<1> QED
  BY <1>1, <1>3 DEF SubPop, SubGoto, fates, flags

LEMMA DropMoves ==
  ASSUME JobsOK, Control, NEW s \in Subs, SubPopped(s)
  PROVE  /\ UNCHANGED <<queue, accepted, handled, released, fl_destroyed, opc>>
         /\ \/ InHand' = InHand
            \/ fl_destroyed /\ \E j \in InHand : InHand' = InHand \ {j}
<1>1. pop' = [pop EXCEPT ![s] = IF fl_destroyed THEN NULL ELSE pop[s]]
  BY DEF SubPopped
<1>2. pop \in [Subs -> Jobs \cup {NULL}] /\ \A t, u \in Subs : pop[t] # NULL /\ pop[t] = pop[u] => t = u
  BY DEF JobsOK, HandsOK
<1>3. ~fl_destroyed => InHand' = InHand
  BY <1>1, <1>2 DEF InHand
<1>4. pop[s] = NULL => InHand' = InHand
  BY <1>1, <1>2 DEF InHand
<1>5. fl_destroyed /\ pop[s] # NULL => pop[s] \in InHand /\ InHand' = InHand \ {pop[s]}
  BY <1>1, <1>2 DEF InHand
<1> QED
  BY <1>3, <1>4, <1>5 DEF SubPopped, SubGoto, fates, flags

LEMMA HandleMoves ==
  ASSUME JobsOK, Control, NEW s \in Subs, SubHandle(s)
  PROVE  /\ UNCHANGED <<queue, accepted, released, fl_destroyed, opc>>
         /\ \E j \in InHand : InHand' = InHand \ {j} /\ handled' = handled \cup {j}
<1>1. pop' = [pop EXCEPT ![s] = NULL] /\ handled' = handled \cup {pop[s]} /\ pop[s] # NULL
  BY DEF SubHandle, SubGoto, JobsOK, HandsOK
<1>2. pop \in [Subs -> Jobs \cup {NULL}] /\ \A t, u \in Subs : pop[t] # NULL /\ pop[t] = pop[u] => t = u
  BY DEF JobsOK, HandsOK
<1>3. pop[s] \in InHand /\ InHand' = InHand \ {pop[s]}
  BY <1>1, <1>2 DEF InHand
<1> QED
  BY <1>1, <1>3 DEF SubHandle, SubGoto, fates, flags

LEMMA FreeMoves ==
  ASSUME JobsOK, NoUseAfterFree, OwnerFree
  PROVE  /\ QueueOK' /\ Queued' = {} /\ InHand = {} /\ InHand' = {}
         /\ released' = released \cup Queued
         /\ UNCHANGED <<accepted, handled, fl_destroyed>>
<1>1. QueueOK' /\ Queued' = {} /\ {j \in Jobs : Q!Released[j] > 0} = Queued
  BY FreeReleases DEF OwnerFree, JobsOK
<1>2. \A s \in Subs : pop[s] = NULL
  BY DEF OwnerFree, OwnerGoto, NoUseAfterFree, Nobody, JobsOK, HandsOK
<1>3. pop' = pop
  BY DEF OwnerFree, OwnerGoto, subs
<1> QED
  BY <1>1, <1>2, <1>3 DEF OwnerFree, OwnerGoto, flags, InHand

LEMMA RestMoves ==
  ASSUME Rest
  PROVE  /\ QueueOK' <=> QueueOK
         /\ Queued' = Queued /\ InHand' = InHand
         /\ UNCHANGED <<accepted, handled, released, fl_destroyed>>
BY DEF Rest, queue, QueueOK, Q!StoreTypeOK, Q!SlotsInv, Queued, Q!Pending, InHand

LEMMA NextJobs ==
  ASSUME JobsOK, Control, NoUseAfterFree, [Next]_vars
  PROVE  JobsOK'
<1>1. HandsOK' /\ ArgsOK'
  BY NextHands, NextArgs
<1>2. QueueOK' /\ FatesOK'
  <2>1. ASSUME NEW c \in Callers, CallPush(c), Q!PushSlot(arg[c])
        PROVE  QueueOK' /\ FatesOK'
    BY <2>1, PushMoves DEF JobsOK, FatesOK
  <2>2. ASSUME NEW s \in Subs, SubPop(s), Q!PopSlot
        PROVE  QueueOK' /\ FatesOK'
    BY <2>2, PopMoves DEF JobsOK, FatesOK
  <2>3. ASSUME NEW s \in Subs, SubPopped(s)
        PROVE  QueueOK' /\ FatesOK'
    <3>1. QueueOK' /\ Queued' = Queued
      BY <2>3, DropMoves DEF JobsOK, queue, QueueOK, Q!StoreTypeOK, Q!SlotsInv, Queued, Q!Pending
    <3> QED
      BY <2>3, <3>1, DropMoves DEF JobsOK, FatesOK
  <2>4. ASSUME NEW s \in Subs, SubHandle(s)
        PROVE  QueueOK' /\ FatesOK'
    <3>1. QueueOK' /\ Queued' = Queued
      BY <2>4, HandleMoves DEF JobsOK, queue, QueueOK, Q!StoreTypeOK, Q!SlotsInv, Queued, Q!Pending
    <3> QED
      BY <2>4, <3>1, HandleMoves DEF JobsOK, FatesOK
  <2>5. CASE OwnerFree
    BY <2>5, FreeMoves DEF JobsOK, FatesOK
  <2>6. CASE OwnerSetDestroyed
    <3>1. QueueOK' /\ Queued' = Queued /\ InHand' = InHand
          /\ UNCHANGED <<accepted, handled, released>>
      BY <2>6 DEF OwnerSetDestroyed, OwnerGoto, subs, JobsOK, queue, QueueOK, Q!StoreTypeOK, Q!SlotsInv,
                  Queued, Q!Pending, InHand
    <3> QED
      BY <3>1 DEF JobsOK, FatesOK
  <2>7. CASE Rest
    BY <2>7, RestMoves DEF JobsOK, FatesOK
  <2> QED
    BY <2>1, <2>2, <2>3, <2>4, <2>5, <2>6, <2>7, OnlyMoves DEF Moves
<1> QED
  BY <1>1, <1>2 DEF JobsOK

LEMMA InitJobs == Init => JobsOK /\ LossOK
<1> SUFFICES ASSUME Init
             PROVE  JobsOK /\ LossOK
  OBVIOUS
<1> USE WorkerAssumption DEF Init
<1>1. QueueOK
  BY DEF QueueOK, Q!StoreTypeOK, Q!SlotsInv, Q!Slots, Q!Zeroed
<1>2. Queued = {} /\ InHand = {}
  <2>1. Stored = {}
    BY DEF Stored, Q!Zeroed, Q!Slots
  <2> QED
    BY <1>1, <2>1, QueuedIsStored DEF InHand
<1>3. HandsOK /\ ArgsOK /\ FatesOK
  BY <1>2 DEF HandsOK, ArgsOK, FatesOK
<1>4. LossOK
  BY FS_EmptySet DEF LossOK, Lost
<1> QED
  BY <1>1, <1>3, <1>4 DEF JobsOK

-----------------------------------------------------------------------------
(* A step loses at most the job that a sub-thread pops after the flag was   *)
(* set.                                                                     *)
LEMMA NextLost ==
  ASSUME JobsOK, Control, NoUseAfterFree, [Next]_vars
  PROVE  \/ Lost' \subseteq Lost
         \/ \E s \in Subs : SubPopped(s) /\ fl_destroyed /\ \E j : Lost' \subseteq Lost \cup {j}
<1>1. ASSUME NEW c \in Callers, CallPush(c), Q!PushSlot(arg[c])
      PROVE  Lost' \subseteq Lost
  BY <1>1, PushMoves DEF Lost
<1>2. ASSUME NEW s \in Subs, SubPop(s), Q!PopSlot
      PROVE  Lost' \subseteq Lost
  BY <1>2, PopMoves DEF Lost
<1>3. ASSUME NEW s \in Subs, SubPopped(s)
      PROVE  \/ Lost' \subseteq Lost
             \/ fl_destroyed /\ \E j : Lost' \subseteq Lost \cup {j}
  <2>1. Queued' = Queued
    BY <1>3, DropMoves DEF queue, Queued, Q!Pending
  <2>2. CASE InHand' = InHand
    BY <1>3, <2>1, <2>2, DropMoves DEF Lost
  <2>3. ASSUME fl_destroyed, NEW j \in InHand, InHand' = InHand \ {j}
        PROVE  Lost' \subseteq Lost \cup {j}
    BY <1>3, <2>1, <2>3, DropMoves DEF Lost
  <2> QED
    BY <1>3, <2>2, <2>3, DropMoves
<1>4. ASSUME NEW s \in Subs, SubHandle(s)
      PROVE  Lost' \subseteq Lost
  <2>1. Queued' = Queued
    BY <1>4, HandleMoves DEF queue, Queued, Q!Pending
  <2> QED
    BY <1>4, <2>1, HandleMoves DEF Lost
<1>5. CASE OwnerFree
  BY <1>5, FreeMoves DEF Lost
<1>6. CASE OwnerSetDestroyed
  BY <1>6 DEF OwnerSetDestroyed, OwnerGoto, subs, queue, Queued, Q!Pending, InHand, Lost
<1>7. CASE Rest
  BY <1>7, RestMoves DEF Lost
<1> QED
  BY <1>1, <1>2, <1>3, <1>4, <1>5, <1>6, <1>7, OnlyMoves DEF Moves

(* Once the flag is set nobody comes in, and who has dropped a job leaves.  *)
LEMMA NextMayDrop ==
  ASSUME Control, fl_destroyed, [Next]_vars
  PROVE  /\ MayDrop' \subseteq MayDrop
         /\ \A s \in Subs : SubPopped(s) => s \in MayDrop /\ MayDrop' \subseteq MayDrop \ {s}
<1> USE DEF counters, flags, queue, main, subs, calls, fates, ControlOK, SubPcs, MayDrop,
            SubPopped, SubGoto
<1>a. ControlOK /\ mpc # "sub_create"
  BY DEF Control, NoLateStart, Starting
<1>1. CASE Main
  BY <1>1, <1>a DEF Main, MainTest, MainGoto, MainSubCreate, MainRefs, MainRefsInc, MainReady, MainLoop,
     MainMin, MainMinMore, MainMinLaunch, MainQlen, MainIdleRead, MainExtra, MainExtraLaunch,
     MainSubInc, MainSubFail, MainDrain, MainDeref
<1>2. ASSUME NEW x \in Subs, Sub(x)
      PROVE  /\ MayDrop' \subseteq MayDrop
         /\ \A s \in Subs : SubPopped(s) => s \in MayDrop /\ MayDrop' \subseteq MayDrop \ {s}
  <2>1. CASE SubRefs(x)
    BY <2>1, <1>a DEF SubRefs, SubTest, SubGoto
  <2>2. CASE SubRefsInc(x)
    BY <2>2, <1>a DEF SubRefsInc, SubTest, SubGoto
  <2>3. CASE SubLoop(x)
    BY <2>3, <1>a DEF SubLoop, SubTest, SubGoto
  <2>4. CASE SubReady(x)
    BY <2>4, <1>a DEF SubReady, SubTest, SubGoto
  <2>5. CASE SubPop(x)
    BY <2>5, <1>a DEF SubPop, SubTest, SubGoto
  <2>6. CASE SubPopped(x)
    BY <2>6, <1>a DEF SubPopped, SubTest, SubGoto
  <2>7. CASE SubTake(x)
    BY <2>7, <1>a DEF SubTake, SubTest, SubGoto
  <2>8. CASE SubHandle(x)
    BY <2>8, <1>a DEF SubHandle, SubTest, SubGoto
  <2>9. CASE SubDrained(x)
    BY <2>9, <1>a DEF SubDrained, SubTest, SubGoto
  <2>10. CASE SubIdle(x)
    BY <2>10, <1>a DEF SubIdle, SubTest, SubGoto
  <2>11. CASE SubIdleInc(x)
    BY <2>11, <1>a DEF SubIdleInc, SubTest, SubGoto
  <2>12. CASE SubExitIdle(x)
    BY <2>12, <1>a DEF SubExitIdle, SubTest, SubGoto
  <2>13. CASE SubExitSub(x)
    BY <2>13, <1>a DEF SubExitSub, SubTest, SubGoto
  <2>14. CASE SubExitRef(x)
    BY <2>14, <1>a DEF SubExitRef, SubTest, SubGoto
  <2> QED
    BY <1>2, <2>1, <2>2, <2>3, <2>4, <2>5, <2>6, <2>7, <2>8, <2>9, <2>10, <2>11, <2>12, <2>13,
       <2>14 DEF Sub
<1>3. ASSUME NEW x \in Callers, Call(x)
      PROVE  /\ MayDrop' \subseteq MayDrop
         /\ \A s \in Subs : SubPopped(s) => s \in MayDrop /\ MayDrop' \subseteq MayDrop \ {s}
  <2>1. CASE CallReady(x)
    BY <2>1, <1>a DEF CallReady, CallGoto, CallRefused
  <2>2. CASE CallDestroyed(x)
    BY <2>2, <1>a DEF CallDestroyed, CallGoto, CallRefused
  <2>3. CASE CallRefsInc(x)
    BY <2>3, <1>a DEF CallRefsInc, CallGoto, CallRefused
  <2>4. CASE CallPush(x)
    BY <2>4, <1>a DEF CallPush, CallGoto, CallRefused
  <2>5. CASE CallDeref(x)
    BY <2>5, <1>a DEF CallDeref, CallGoto, CallRefused
  <2> QED
    BY <1>3, <2>1, <2>2, <2>3, <2>4, <2>5 DEF Call
<1>4. ASSUME NEW x \in Callers, NEW y \in Jobs, CallBegin(x, y)
      PROVE  /\ MayDrop' \subseteq MayDrop
         /\ \A s \in Subs : SubPopped(s) => s \in MayDrop /\ MayDrop' \subseteq MayDrop \ {s}
  BY <1>4, <1>a DEF CallBegin, CallGoto
<1>5. CASE Owner
  <2>1. CASE OwnerSetDestroyed
    BY <2>1, <1>a DEF OwnerSetDestroyed, OwnerGoto
  <2>2. CASE OwnerClearReady
    BY <2>2, <1>a DEF OwnerClearReady, OwnerGoto
  <2>3. CASE OwnerWait
    BY <2>3, <1>a DEF OwnerWait, OwnerGoto
  <2>4. CASE OwnerFree
    BY <2>4, <1>a DEF OwnerFree, OwnerGoto
  <2> QED
    BY <1>5, <2>1, <2>2, <2>3, <2>4 DEF Owner
<1>6. CASE UNCHANGED vars
  BY <1>6, <1>a DEF vars
<1> QED
  BY <1>1, <1>2, <1>3, <1>4, <1>5, <1>6 DEF Next, Stopped

LEMMA MayDropFinite == IsFiniteSet(MayDrop) /\ Cardinality(MayDrop) \in Nat
BY WorkerAssumption, FS_Subset, FS_CardinalityType DEF MayDrop

LEMMA NextLoss ==
  ASSUME Contract # "ready", JobsOK, LossOK, Control, Control', Counts, Counts', NoUseAfterFree, [Next]_vars
  PROVE  LossOK'
<1>1. IsFiniteSet(Lost) /\ Cardinality(Lost) \in Nat
  BY FS_CardinalityType DEF LossOK
<1>2. IsFiniteSet(Lost')
  <2>1. \/ Lost' \subseteq Lost
        \/ \E j : Lost' \subseteq Lost \cup {j}
    BY NextLost
  <2>2. \A j : IsFiniteSet(Lost \cup {j})
    BY <1>1, FS_AddElement
  <2> QED
    BY <1>1, <2>1, <2>2, FS_Subset
<1>3. IsFiniteSet(MayDrop) /\ IsFiniteSet(MayDrop') /\ Cardinality(MayDrop) \in Nat
      /\ Cardinality(MayDrop') \in Nat /\ Cardinality(Lost') \in Nat /\ Max \in Nat
  <2>1. (IsFiniteSet(MayDrop) /\ Cardinality(MayDrop) \in Nat)'
    BY MayDropFinite, PTL
  <2> QED
    BY <1>2, <2>1, MayDropFinite, FS_CardinalityType, WorkerAssumption
<1>4. CASE fl_destroyed
  <2>1. fl_destroyed'
    BY <1>4 DEF Control, DestroyedByOwner, Next, vars, flags, Stopped, Main, MainTest, MainGoto, MainRefs,
       MainRefsInc, MainReady, MainLoop, MainMin, MainMinMore, MainMinLaunch, MainQlen, MainIdleRead, MainExtra,
       MainExtraLaunch, MainSubInc, MainSubCreate, MainSubFail, MainDrain, MainDeref,
       Sub, SubTest, SubGoto, SubRefs, SubRefsInc, SubLoop, SubReady, SubPop, SubPopped,
       SubTake, SubHandle, SubDrained, SubIdle, SubIdleInc, SubExitIdle, SubExitSub,
       SubExitRef, Call, CallGoto, CallReady, CallDestroyed, CallRefsInc, CallPush,
       CallDeref, CallRefused, CallBegin, Owner, OwnerSetDestroyed, OwnerClearReady, OwnerWait, OwnerFree, OwnerGoto
  <2>2. Cardinality(Lost) + Cardinality(MayDrop) <= Max
    BY <1>4 DEF LossOK
  <2>3. MayDrop' \subseteq MayDrop /\ Cardinality(MayDrop') <= Cardinality(MayDrop)
    BY <1>3, <1>4, NextMayDrop, FS_Subset
  <2>4. CASE Lost' \subseteq Lost
    <3>1. Cardinality(Lost') <= Cardinality(Lost)
      BY <1>1, <2>4, FS_Subset
    <3>2. Cardinality(Lost') + Cardinality(MayDrop') <= Max
      BY <1>1, <1>3, <2>2, <2>3, <3>1
    <3> QED
      BY <1>2, <2>1, <3>2 DEF LossOK
  <2>5. ASSUME NEW s \in Subs, SubPopped(s), NEW j, Lost' \subseteq Lost \cup {j}
        PROVE  LossOK'
    <3>1. IsFiniteSet(Lost \cup {j}) /\ Cardinality(Lost \cup {j}) \in Nat /\ Cardinality(Lost \cup {j}) <= Cardinality(Lost) + 1
      <4>1. IsFiniteSet(Lost \cup {j})
            /\ Cardinality(Lost \cup {j}) = IF j \in Lost THEN Cardinality(Lost) ELSE Cardinality(Lost) + 1
        BY <1>1, FS_AddElement
      <4> QED
        BY <1>1, <4>1
    <3>2. Cardinality(Lost') <= Cardinality(Lost \cup {j})
      BY <2>5, <3>1, FS_Subset
    <3>3. s \in MayDrop /\ MayDrop' \subseteq MayDrop \ {s}
      BY <1>4, <2>5, NextMayDrop
    <3>4. Cardinality(MayDrop \ {s}) = Cardinality(MayDrop) - 1 /\ IsFiniteSet(MayDrop \ {s})
      BY <1>3, <3>3, FS_RemoveElement
    <3>5. Cardinality(MayDrop') <= Cardinality(MayDrop) - 1
      BY <3>3, <3>4, FS_Subset
    <3>6. Cardinality(Lost') + Cardinality(MayDrop') <= Max
      BY <1>1, <1>3, <2>2, <3>1, <3>2, <3>5
    <3> QED
      BY <1>2, <2>1, <3>6 DEF LossOK
  <2> QED
    BY <2>4, <2>5, NextLost
<1>5. CASE ~fl_destroyed
  <2>1. Lost' = {}
    BY <1>5, NextLost DEF LossOK
  <2>2. Cardinality(Lost') = 0
    BY <2>1, FS_EmptySet
  <2>3. fl_destroyed' => Cardinality(MayDrop') <= Max
    <3> SUFFICES ASSUME fl_destroyed'
                 PROVE  Cardinality(MayDrop') <= Max
      OBVIOUS
    <3>1. MayDrop' \subseteq Launched'
      BY DEF MayDrop, Launched
    <3>2. (IsFiniteSet(Launched) /\ Cardinality(Launched) \in Nat)'
      BY Finite, PTL
    <3>3. Cardinality(MayDrop') <= Cardinality(Launched')
      BY <3>1, <3>2, FS_Subset
    <3>4. Cardinality(Launched') <= Max
      BY <1>3, <3>2 DEF Counts, SubThreadsExact
    <3> QED
      BY <1>3, <3>2, <3>3, <3>4
  <2> QED
    BY <1>2, <1>3, <2>1, <2>2, <2>3 DEF LossOK
<1> QED
  BY <1>4, <1>5

-----------------------------------------------------------------------------
(***************************************************************************)
(* The steps of the worker are steps of WorkerPool.                        *)
(***************************************************************************)
LEMMA InitPool == Init => Pool!Init
<1> SUFFICES ASSUME Init
             PROVE  Pool!Init
  OBVIOUS
<1>1. Queued = {} /\ InHand = {}
  <2>1. Stored = {}
    BY WorkerAssumption DEF Init, Stored, Q!Zeroed, Q!Slots
  <2> QED
    BY <2>1, InitJobs, QueuedIsStored DEF Init, InHand, JobsOK
<1> QED
  BY <1>1 DEF Init, Pool!Init

LEMMA NextPool ==
  ASSUME JobsOK, Control, NoUseAfterFree, [Next]_vars
  PROVE  [Pool!Next]_(Pool!vars)
<1>1. ASSUME NEW c \in Callers, CallPush(c), Q!PushSlot(arg[c])
      PROVE  Pool!Next
  <2>1. opc # "freed"
    BY <1>1 DEF NoUseAfterFree, Nobody, CallPush, CallGoto
  <2>2. arg[c] \notin Queued \cup InHand \cup handled \cup released
    BY <1>1, PushMoves DEF JobsOK, FatesOK
  <2>3. Pool!Perform(arg[c])
    BY <1>1, <2>1, <2>2, PushMoves DEF Pool!Perform
  <2> QED
    BY <1>1, <2>3, PushMoves DEF Pool!Next
<1>2. ASSUME NEW s \in Subs, SubPop(s), Q!PopSlot
      PROVE  [Pool!Next]_(Pool!vars)
  <2>1. CASE Queued' = Queued /\ InHand' = InHand
    BY <1>2, <2>1, PopMoves DEF Pool!vars
  <2>2. ASSUME NEW j \in Queued, Queued' = Queued \ {j}, InHand' = InHand \cup {j}
        PROVE  Pool!Next
    <3>1. Pool!Take(j) /\ j \in Jobs
      BY <1>2, <2>2, PopMoves DEF Pool!Take, JobsOK, FatesOK
    <3> QED
      BY <3>1 DEF Pool!Next
  <2> QED
    BY <1>2, <2>1, <2>2, PopMoves
<1>3. ASSUME NEW s \in Subs, SubPopped(s)
      PROVE  [Pool!Next]_(Pool!vars)
  <2>1. Queued' = Queued
    BY <1>3, DropMoves DEF queue, Queued, Q!Pending
  <2>2. CASE InHand' = InHand
    BY <1>3, <2>1, <2>2, DropMoves DEF Pool!vars
  <2>3. ASSUME fl_destroyed, NEW j \in InHand, InHand' = InHand \ {j}
        PROVE  Pool!Next
    <3>1. Pool!Drop(j) /\ j \in Jobs
      BY <1>3, <2>1, <2>3, DropMoves DEF Pool!Drop, JobsOK, FatesOK
    <3> QED
      BY <3>1 DEF Pool!Next
  <2> QED
    BY <1>3, <2>2, <2>3, DropMoves
<1>4. ASSUME NEW s \in Subs, SubHandle(s)
      PROVE  Pool!Next
  <2>1. Queued' = Queued
    BY <1>4, HandleMoves DEF queue, Queued, Q!Pending
  <2>2. PICK j \in InHand : InHand' = InHand \ {j} /\ handled' = handled \cup {j}
    BY <1>4, HandleMoves
  <2>3. Pool!Finish(j) /\ j \in Jobs
    BY <1>4, <2>1, <2>2, HandleMoves DEF Pool!Finish, JobsOK, FatesOK
  <2> QED
    BY <2>3 DEF Pool!Next
<1>5. CASE OwnerFree
  <2>1. opc = "free" /\ opc' = "freed" /\ fl_destroyed
    BY <1>5 DEF OwnerFree, OwnerGoto, Control, DestroyedByOwner
  <2>2. Pool!Release
    BY <1>5, <2>1, FreeMoves DEF Pool!Release
  <2> QED
    BY <2>2 DEF Pool!Next
<1>6. CASE OwnerSetDestroyed
  <2>1. Queued' = Queued /\ InHand' = InHand /\ handled' = handled
    BY <1>6 DEF OwnerSetDestroyed, OwnerGoto, subs, queue, Queued, Q!Pending, InHand
  <2>2. opc = "using" /\ opc' = "ready" /\ ~fl_destroyed /\ fl_destroyed' = TRUE /\ released' = released
    BY <1>6 DEF OwnerSetDestroyed, OwnerGoto, Control, DestroyedByOwner
  <2>3. Pool!Close
    BY <2>1, <2>2 DEF Pool!Close
  <2> QED
    BY <2>3 DEF Pool!Next
<1>7. CASE Rest
  BY <1>7, RestMoves DEF Rest, Pool!vars
<1> QED
  BY <1>1, <1>2, <1>3, <1>4, <1>5, <1>6, <1>7, OnlyMoves DEF Moves

-----------------------------------------------------------------------------
JInv == IInv /\ JobsOK /\ LossOK

LEMMA AlwaysJInv == ASSUME Contract # "ready" PROVE Spec => []JInv
<1>1. Init => JInv
  BY InitControl, InitCounts, InitJobs DEF JInv, IInv, NoUseAfterFree, Init
<1>2. JInv /\ [Next]_vars => JInv'
  <2> SUFFICES ASSUME JInv, [Next]_vars
               PROVE  JInv'
    OBVIOUS
  <2>1. IInv'
    BY NextControl, NextCounts, NextNoUse DEF JInv, IInv
  <2>2. JobsOK'
    BY NextJobs DEF JInv, IInv
  <2>3. LossOK'
    BY <2>1, NextLoss DEF JInv, IInv
  <2> QED
    BY <2>1, <2>2, <2>3 DEF JInv
<1> QED
  BY <1>1, <1>2, PTL DEF Spec

(* A destroyed worker loses no more accepted jobs than it may have          *)
(* sub-threads, whatever the length of its queue (wstk-worker.c:255), and a *)
(* worker that is not being destroyed loses none.                           *)
THEOREM WorkerLossBounded == ASSUME Contract # "ready" PROVE Spec => []LossBounded
<1>1. JInv => LossBounded
  <2> SUFFICES ASSUME JInv
               PROVE  LossBounded
    OBVIOUS
  <2>1. Cardinality(Lost) \in Nat /\ Cardinality(MayDrop) \in Nat /\ Max \in Nat
    BY MayDropFinite, FS_CardinalityType, WorkerAssumption DEF JInv, LossOK
  <2>2. CASE fl_destroyed
    BY <2>1, <2>2 DEF JInv, LossOK, LossBounded
  <2>3. CASE ~fl_destroyed
    <3>1. Lost = {} /\ Cardinality({}) = 0
      BY <2>3, FS_EmptySet DEF JInv, LossOK
    <3> QED
      BY <2>1, <3>1 DEF LossBounded
  <2> QED
    BY <2>2, <2>3
<1> QED
  BY <1>1, AlwaysJInv, PTL

(* The worker implements WorkerPool: whatever its threads, its counters and *)
(* its queue do, no job is popped twice, handled twice, or released after   *)
(* it was popped, and none is dropped before the worker is being destroyed. *)
THEOREM WorkerIsPool == ASSUME Contract # "ready" PROVE Spec => PoolSpec
<1>1. Init => Pool!Init
  BY InitPool
<1>2. JInv /\ [Next]_vars => [Pool!Next]_(Pool!vars)
  BY NextPool DEF JInv, IInv
<1> QED
  BY <1>1, <1>2, AlwaysJInv, PTL DEF Spec, PoolSpec, Pool!Spec
=============================================================================
