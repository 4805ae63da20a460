---------------------------- MODULE WstkPollProofs ----------------------------
(***************************************************************************)
(* Theorems about WstkPoll for any sockets, descriptors and size: what the *)
(* application, which keeps the rules of App, may rely on.                 *)
(***************************************************************************)
EXTENDS WstkPoll, FiniteSetTheorems, TLAPS

(* One reference is held for every socket the poll knows: before a deletion *)
(* the application's, after it the deletion list's.                         *)
Held ==
  /\ mrefs \in [Sockets -> 0..1]
  /\ \A s \in table \cup slist1 \cup slist2 : mrefs[s] = 1

(* An entry is found under the descriptor its socket still has ...          *)
Keys == \A e \in sockets : e[1] = fd[e[2]]

(* ... which nobody else has while the socket is open.                      *)
Distinct ==
  \A s, t \in Sockets : mrefs[s] = 1 /\ mrefs[t] = 1 /\ fd[s] = fd[t] => s = t

Lists ==
  /\ slist2 \subseteq table
  /\ slist1 \cap table = {}
  /\ ~fl_polling => todo = {}

Room == Cardinality(Watched) <= Size

IInv == TypeOK /\ Held /\ Keys /\ Distinct /\ Lists /\ Room

-----------------------------------------------------------------------------
(* The table after an addition and after a deletion. *)
LEMMA TableWith ==
  ASSUME NEW s
  PROVE  {e[2] : e \in With(s)} = table \cup {s}
<1>1. <<fd[s], s>>[2] = s
  OBVIOUS
<1>2. {e[2] : e \in With(s)} = {e[2] : e \in sockets} \cup {<<fd[s], s>>[2]}
  BY DEF With
<1> QED
  BY <1>1, <1>2 DEF table

LEMMA TableWithout ==
  ASSUME IInv, NEW s \in table
  PROVE  {e[2] : e \in Without(s)} = table \ {s}
<1>1. \A e \in sockets : e[2] \in table /\ e[2] \in Sockets /\ mrefs[e[2]] = 1 /\ e[1] = fd[e[2]]
  BY DEF IInv, TypeOK, table, Held, Keys
<1>2. s \in Sockets /\ mrefs[s] = 1
  BY DEF IInv, TypeOK, table, Held
<1>3. \A e \in sockets : e[1] # fd[s] <=> e[2] # s
  BY <1>1, <1>2 DEF IInv, Distinct
<1> QED
  BY <1>3 DEF Without, table

LEMMA TableType == IInv => table \subseteq Sockets
BY DEF IInv, TypeOK, table

LEMMA WatchedFinite ==
  ASSUME IInv
  PROVE  /\ IsFiniteSet(Watched) /\ IsFiniteSet(table)
         /\ Cardinality(Watched) \in Nat /\ Cardinality(table) \in Nat
<1>1. Watched \in SUBSET Sockets /\ table \in SUBSET Sockets
  BY TableType DEF Watched, IInv, TypeOK
<1>2. IsFiniteSet(Sockets)
  BY PollAssumption
<1>3. IsFiniteSet(Watched) /\ IsFiniteSet(table)
  BY <1>1, <1>2, FS_Subset
<1> QED
  BY <1>3, FS_CardinalityType

(* The table has no more entries than sockets. *)
LEMMA EntriesBound ==
  ASSUME IInv
  PROVE  Cardinality(sockets) <= Cardinality(table)
<1> DEFINE f == [e \in sockets |-> e[2]]
<1>1. \A e \in sockets : e = <<fd[e[2]], e[2]>>
  BY DEF IInv, TypeOK, Keys
<1>2. f \in [sockets -> table]
  BY DEF table
<1>3. \A d, e \in sockets : f[d] = f[e] => d = e
  BY <1>1
<1>4. f \in Injection(sockets, table)
  BY <1>2, <1>3 DEF Injection, IsInjective
<1>5. IsFiniteSet(table)
  BY WatchedFinite
<1> QED
  BY <1>4, <1>5, FS_Injection

(* A deferred addition fits once the deletions are done. *)
LEMMA AddFits ==
  ASSUME IInv, slist2 = {}, NEW s \in slist1
  PROVE  Fits(s)
<1>1. s \in Watched /\ s \notin table /\ table \subseteq Watched
  BY DEF Watched, IInv, Lists
<1>2. Cardinality(table) < Cardinality(Watched)
  <2>1. table \in SUBSET Watched /\ table # Watched
    BY <1>1
  <2>2. Cardinality(table) <= Cardinality(Watched) /\ Cardinality(table) # Cardinality(Watched)
    BY <2>1, WatchedFinite, FS_Subset
  <2> QED
    BY <2>2, WatchedFinite
<1>3. Cardinality(sockets) <= Cardinality(table)
  BY EntriesBound
<1>4. IsFiniteSet(sockets) /\ Cardinality(sockets) \in Nat
  <2> DEFINE g == [e \in sockets |-> e[2]]
  <2>1. \A e \in sockets : e = <<fd[e[2]], e[2]>>
    BY DEF IInv, TypeOK, Keys
  <2>2. g \in Injection(sockets, table)
    BY <2>1 DEF Injection, IsInjective, table
  <2> QED
    BY <2>2, WatchedFinite, FS_Injection, FS_CardinalityType
<1>5. Cardinality(sockets) < Size
  BY <1>2, <1>3, <1>4, WatchedFinite, PollAssumption DEF IInv, Room
<1>6. \A e \in sockets : e[1] # fd[s]
  <2> SUFFICES ASSUME NEW e \in sockets, e[1] = fd[s] PROVE FALSE
    OBVIOUS
  <2>1. e[2] \in table /\ e[2] \in Sockets /\ e[1] = fd[e[2]] /\ mrefs[e[2]] = 1
    BY DEF IInv, TypeOK, table, Keys, Held
  <2>2. s \in Sockets /\ mrefs[s] = 1
    BY DEF IInv, TypeOK, Held
  <2> QED
    BY <1>1, <2>1, <2>2 DEF IInv, Distinct
<1> QED
  BY <1>5, <1>6 DEF Fits

-----------------------------------------------------------------------------
LEMMA InitIInv == Init => IInv
<1> SUFFICES ASSUME Init PROVE IInv
  OBVIOUS
<1>1. table = {} /\ Watched = {}
  BY DEF Init, table, Watched
<1>2. TypeOK
  <2>1. (CHOOSE f \in Fds : TRUE) \in Fds
    BY PollAssumption
  <2>2. fd \in [Sockets -> Fds]
    BY <2>1 DEF Init
  <2>3. mrefs \in [Sockets -> 0..2]
    BY DEF Init
  <2> QED
    BY <2>2, <2>3 DEF Init, TypeOK
<1>3. Cardinality(Watched) <= Size
  BY <1>1, FS_EmptySet, PollAssumption
<1> QED
  BY <1>1, <1>2, <1>3 DEF Init, IInv, Held, Keys, Distinct, Lists, Room

(* A step that leaves the table and the lists alone, but for the walk. *)
LEMMA WalkStep ==
  ASSUME IInv, UNCHANGED <<method, sockets, lists, fd, mrefs>>,
         todo' \subseteq table, expiring' \in BOOLEAN, fl_polling' \in BOOLEAN, ~fl_polling' => todo' = {}
  PROVE  IInv' /\ Watched' = Watched
<1>1. table' = table /\ Watched' = Watched
  BY DEF table, Watched, lists
<1> QED
  BY <1>1 DEF IInv, TypeOK, Held, Keys, Distinct, Lists, Room, lists

LEMMA OpenStep ==
  ASSUME IInv, NEW s \in Sockets, Open(s)
  PROVE  IInv'
<1>1. PICK f \in Fds :
        /\ \A t \in Sockets : mrefs[t] = 0 \/ fd[t] # f
        /\ fd' = [fd EXCEPT ![s] = f]
  BY DEF Open
<1>2. mrefs[s] = 0 /\ mrefs' = [mrefs EXCEPT ![s] = 1] /\ UNCHANGED poll
  BY DEF Open
<1>3. table' = table /\ Watched' = Watched
  BY <1>2 DEF poll, lists, walk, pass, table, Watched
<1>4. s \notin table \cup slist1 \cup slist2
  BY <1>2 DEF IInv, Held
<1>5. Keys'
  <2> SUFFICES ASSUME NEW e \in sockets PROVE e[1] = fd'[e[2]]
    BY <1>2 DEF Keys, poll
  <2>1. e[2] \in table /\ e[2] # s /\ e[2] \in Sockets /\ e[1] = fd[e[2]]
    BY <1>4 DEF table, IInv, Keys, TypeOK
  <2> QED
    BY <1>1, <2>1 DEF IInv, TypeOK
<1>6. Distinct'
  <2> SUFFICES ASSUME NEW t \in Sockets, NEW u \in Sockets,
                      mrefs'[t] = 1, mrefs'[u] = 1, fd'[t] = fd'[u]
               PROVE  t = u
    BY DEF Distinct
  <2>1. \A v \in Sockets : v # s => fd'[v] = fd[v] /\ mrefs'[v] = mrefs[v]
    BY <1>1, <1>2 DEF IInv, TypeOK
  <2>2. fd'[s] = f
    BY <1>1 DEF IInv, TypeOK
  <2> QED
    BY <1>1, <2>1, <2>2 DEF IInv, Distinct
<1>7. Held' /\ mrefs' \in [Sockets -> 0..2]
  BY <1>2, <1>3, <1>4, TableType DEF IInv, TypeOK, Held, poll, lists, walk, pass
<1>8. TypeOK' /\ Lists' /\ Room'
  BY <1>1, <1>2, <1>3, <1>7 DEF IInv, TypeOK, Lists, Room, poll, lists, walk, pass, SamePass
<1> QED
  BY <1>5, <1>6, <1>7, <1>8 DEF IInv

LEMMA AppAddStep ==
  ASSUME IInv, NEW s \in Sockets, AppAdd(s)
  PROVE  IInv'
<1>1. s \notin table \cup slist1 \cup slist2 /\ mrefs[s] = 1
  BY DEF AppAdd, IInv, Held, Lists
<1>2. Watched' = Watched \cup {s} => Room'
  <2>1. s \notin Watched
    BY <1>1 DEF Watched
  <2>2. Cardinality(Watched \cup {s}) = Cardinality(Watched) + 1
    <3> DEFINE W == Watched
    <3>1. IsFiniteSet(W) /\ s \notin W
      BY <2>1, WatchedFinite
    <3> HIDE DEF W
    <3>2. Cardinality(W \cup {s}) = Cardinality(W) + 1
      BY <3>1, FS_AddElement
    <3> QED
      BY <3>2 DEF W
  <2>3. Cardinality(Watched) < Size /\ Cardinality(Watched) \in Nat /\ Size \in Nat
    BY WatchedFinite, PollAssumption DEF AppAdd
  <2>4. Cardinality(Watched \cup {s}) <= Size
    BY <2>2, <2>3
  <2> QED
    BY <2>4 DEF Room
<1>3. CASE fl_polling
  <2>1. slist1' = slist1 \cup {s} /\ UNCHANGED <<sockets, slist2, method, fl_polling, todo, expiring, fd, mrefs>>
    BY <1>3 DEF AppAdd, Add, walk, pass, SamePass
  <2>2. table' = table /\ Watched' = Watched \cup {s}
    BY <2>1 DEF table, Watched
  <2> QED
    BY <1>1, <1>2, <2>1, <2>2 DEF IInv, TypeOK, Held, Keys, Distinct, Lists
<1>4. CASE ~fl_polling
  <2>1. sockets' = With(s) /\ UNCHANGED <<slist1, slist2, method, fl_polling, todo, expiring, fd, mrefs>>
    BY <1>4 DEF AppAdd, Add, walk, lists, pass, SamePass
  <2>2. table' = table \cup {s}
    BY <2>1, TableWith DEF table
  <2>3. Watched' = Watched \cup {s}
    BY <1>1, <2>1, <2>2 DEF Watched
  <2>4. sockets' \subseteq Fds \X Sockets /\ Keys'
    BY <2>1 DEF With, Keys, IInv, TypeOK
  <2>5. TypeOK'
    BY <2>1, <2>2, <2>4 DEF IInv, TypeOK
  <2>6. Held' /\ Distinct' /\ Lists'
    BY <1>1, <2>1, <2>2 DEF IInv, Held, Distinct, Lists
  <2> QED
    BY <1>2, <2>3, <2>4, <2>5, <2>6 DEF IInv
<1> QED
  BY <1>3, <1>4

LEMMA AppDelStep ==
  ASSUME IInv, NEW s \in Sockets, AppDel(s)
  PROVE  IInv'
<1>1. s \in table /\ s \notin slist1 \cup slist2 /\ mrefs[s] = 1
  BY DEF AppDel, IInv, Held, Lists
<1>2. Watched' \subseteq Watched => Room'
  <2> SUFFICES ASSUME Watched' \subseteq Watched PROVE Room'
    OBVIOUS
  <2>1. IsFiniteSet(Watched') /\ Cardinality(Watched') <= Cardinality(Watched)
    BY WatchedFinite, FS_Subset
  <2> QED
    BY <2>1, WatchedFinite, FS_CardinalityType, PollAssumption DEF IInv, Room
<1>3. CASE fl_polling
  <2>1. /\ slist2' = slist2 \cup {s}
        /\ UNCHANGED <<sockets, slist1, method, fl_polling, todo, expiring, fd>>
    BY <1>3 DEF AppDel, Del, walk, pass, SamePass
  <2>2. mrefs' = mrefs
    BY <1>1, <1>3 DEF AppDel, DelRefs, IInv, TypeOK
  <2>3. table' = table /\ Watched' \subseteq Watched
    BY <2>1 DEF table, Watched
  <2> QED
    BY <1>1, <1>2, <2>1, <2>2, <2>3 DEF IInv, TypeOK, Held, Keys, Distinct, Lists
<1>4. CASE ~fl_polling
  <2>1. sockets' = Without(s) /\ UNCHANGED <<slist1, slist2, method, fl_polling, todo, expiring, fd>>
    BY <1>4 DEF AppDel, Del, walk, lists, pass, SamePass
  <2>2. mrefs' = [mrefs EXCEPT ![s] = 0]
    BY <1>1, <1>4 DEF AppDel, DelRefs, IInv, TypeOK
  <2>3. table' = table \ {s}
    BY <1>1, <2>1, TableWithout DEF table
  <2>4. todo = {}
    BY <1>4 DEF IInv, Lists
  <2>5. slist2 = {}
    BY <1>4 DEF AppDel, Calling, Idle
  <2> QED
    BY <1>1, <1>2, <2>1, <2>2, <2>3, <2>4, <2>5
       DEF IInv, TypeOK, Held, Keys, Distinct, Lists, Without, Watched
<1> QED
  BY <1>3, <1>4

LEMMA DelPerformStep ==
  ASSUME IInv, NEW s \in Sockets, DelPerform(s), Deref(s), UNCHANGED fd
  PROVE  IInv' /\ Watched' = Watched
<1>1. s \in slist2 /\ s \in table /\ s \notin slist1 /\ mrefs[s] = 1 /\ todo = {}
  BY DEF DelPerform, IInv, Held, Lists
<1>2. /\ slist2' = slist2 \ {s} /\ sockets' = Without(s)
      /\ UNCHANGED <<slist1, method, fl_polling, todo, expiring, fd>>
  BY DEF DelPerform, walk, pass, SamePass
<1>3. mrefs' = [mrefs EXCEPT ![s] = 0]
  BY <1>1 DEF Deref, IInv, TypeOK
<1>4. table' = table \ {s}
  BY <1>1, <1>2, TableWithout DEF table
<1>5. Watched' = Watched
  BY <1>1, <1>2, <1>4 DEF Watched
<1>6. TypeOK' /\ Keys'
  BY <1>1, <1>2, <1>3, <1>4 DEF IInv, TypeOK, Keys, Without
<1>7. Held' /\ Distinct' /\ Lists' /\ Room'
  BY <1>1, <1>2, <1>3, <1>4, <1>5 DEF IInv, TypeOK, Held, Distinct, Lists, Room
<1> QED
  BY <1>5, <1>6, <1>7 DEF IInv

LEMMA AddPerformStep ==
  ASSUME IInv, NEW s \in Sockets, AddPerform(s),
         IF Fits(s) THEN UNCHANGED mrefs ELSE Deref(s), UNCHANGED fd
  PROVE  IInv' /\ Watched' = Watched
<1>1. slist2 = {} /\ s \in slist1 /\ s \notin table /\ ~fl_polling
  BY DEF AddPerform, IInv, Lists
<1>2. Fits(s)
  BY <1>1, AddFits
<1>3. /\ slist1' = slist1 \ {s} /\ sockets' = With(s)
      /\ UNCHANGED <<slist2, method, fl_polling, todo, expiring, fd, mrefs>>
  BY <1>2 DEF AddPerform, walk, pass, SamePass
<1>4. table' = table \cup {s}
  BY <1>3, TableWith DEF table
<1>5. Watched' = Watched
  BY <1>1, <1>3, <1>4 DEF Watched
<1>6. sockets' \subseteq Fds \X Sockets /\ Keys'
  BY <1>3 DEF With, Keys, IInv, TypeOK
<1>7. TypeOK'
  BY <1>3, <1>4, <1>6 DEF IInv, TypeOK
<1>8. Held' /\ Distinct' /\ Lists' /\ Room'
  BY <1>1, <1>3, <1>4, <1>5 DEF IInv, Held, Distinct, Lists, Room
<1> QED
  BY <1>5, <1>6, <1>7, <1>8 DEF IInv

LEMMA RoundStep ==
  ASSUME IInv, Round
  PROVE  IInv' /\ Watched' = Watched
<1>1. CASE Begin /\ UNCHANGED <<fd, mrefs>>
  <2>1. todo' \subseteq table /\ expiring' = FALSE /\ fl_polling' = TRUE
    BY <1>1 DEF Begin
  <2> QED
    BY <1>1, <2>1, WalkStep DEF Begin
<1>2. CASE Expire /\ UNCHANGED <<fd, mrefs>>
  <2>1. todo' = table /\ expiring' = TRUE /\ fl_polling' = TRUE
    BY <1>2 DEF Expire
  <2> QED
    BY <1>2, <2>1, WalkStep DEF Expire
<1>3. CASE EndWalk /\ UNCHANGED <<fd, mrefs>>
  <2>1. todo' = {} /\ expiring' \in BOOLEAN /\ fl_polling' = FALSE
    BY <1>3 DEF EndWalk, SamePass, IInv, TypeOK
  <2> QED
    BY <1>3, <2>1, WalkStep DEF EndWalk, SamePass
<1>4. ASSUME NEW s \in Sockets, Visit(s), UNCHANGED <<fd, mrefs>>
      PROVE  IInv' /\ Watched' = Watched
  <2>1. todo' \subseteq table /\ expiring' \in BOOLEAN /\ fl_polling' = TRUE
    BY <1>4 DEF Visit, SamePass, IInv, TypeOK
  <2> QED
    BY <1>4, <2>1, WalkStep DEF Visit, SamePass
<1> QED
  BY <1>1, <1>2, <1>3, <1>4, DelPerformStep, AddPerformStep DEF Round

LEMMA NextIInv == IInv /\ [Next]_vars => IInv'
<1> SUFFICES ASSUME IInv, [Next]_vars PROVE IInv'
  OBVIOUS
<1>1. CASE Round
  BY <1>1, RoundStep
<1>2. CASE App
  BY <1>2, OpenStep, AppAddStep, AppDelStep DEF App
<1>3. CASE UNCHANGED vars
  <2>1. table' = table /\ Watched' = Watched
    BY <1>3 DEF vars, poll, lists, table, Watched
  <2> QED
    BY <1>3, <2>1 DEF vars, poll, lists, walk, pass, IInv, TypeOK, Held, Keys, Distinct, Lists, Room
<1> QED
  BY <1>1, <1>2, <1>3 DEF Next

LEMMA AlwaysIInv == Spec => []IInv
BY InitIInv, NextIInv, PTL DEF Spec

-----------------------------------------------------------------------------
(* The ranges of the poll's fields, for any number of sockets. *)
THEOREM PollTypeOK == Spec => []TypeOK
<1>1. IInv => TypeOK
  BY DEF IInv
<1> QED
  BY <1>1, AlwaysIInv, PTL

(* No freed socket is ever in the table or on a list of the poll (select    *)
(* and the end of the round walk them), although the application gives      *)
(* sockets up in the middle of a round.                                     *)
THEOREM PollTableAlive == Spec => []TableAlive
<1>1. IInv => TableAlive
  BY DEF IInv, Held, TableAlive
<1> QED
  BY <1>1, AlwaysIInv, PTL

(* An addition that wstk_poll_add accepted in a round is never refused at   *)
(* the end of it.                                                           *)
THEOREM PollAddFits == Spec => []DeferredAddFits
<1>1. IInv => DeferredAddFits
  BY AddFits DEF DeferredAddFits
<1> QED
  BY <1>1, AlwaysIInv, PTL

(* A round changes nothing of what the application has asked to watch. *)
THEOREM PollKeepsWatched == Spec => RoundKeepsWatched
<1>1. IInv /\ [Next]_vars => [Round => Watched' = Watched]_vars
  BY RoundStep
<1> QED
  BY <1>1, AlwaysIInv, PTL DEF Spec, RoundKeepsWatched
=============================================================================
