-------------------------- MODULE WstkContainerProofs --------------------------
(***************************************************************************)
(* Theorems about the library's containers: for any data and however much  *)
(* memory there is, a list is a sequence (WstkList); for any keys, values, *)
(* hashes and table lengths, a hash table is a map (WstkHashtable); for any *)
(* bytes and sizes, a buffer holds what is written into it (WstkMbuf).     *)
(* Each specification is the part of WstkLibrary's behaviours that concerns *)
(* one container.                                                          *)
(***************************************************************************)
EXTENDS WstkList, WstkHashtable, WstkMbuf,
        SequenceTheorems, FiniteSetTheorems, WellFoundedInduction, TLAPS

ListSpec == ListInit /\ [][ListNext]_listVars
HashSpec == HashInit /\ [][HashNext]_hashVars
MbufSpec == MbufInit /\ [][MbufNext]_mbufVars

(***************************************************************************)
(* Induction over sets of numbers.                                         *)
(***************************************************************************)
(* A set of numbers that is not empty has a least member.                   *)
LEMMA LeastMember ==
  ASSUME NEW T, T \subseteq Nat, T # {}
  PROVE  \E x \in T : \A y \in T : x <= y
<1>1. PICK x \in T : \A y \in T : ~(<<y, x>> \in OpToRel(<, Nat))
  BY NatLessThanWellFounded, WFMin
<1>2. \A y \in T : ~(y < x)
  BY <1>1 DEF OpToRel
<1> QED
  BY <1>2

LEMMA AllNumbers ==
  ASSUME NEW T, 0 \in T, \A n \in Nat : n \in T => n + 1 \in T
  PROVE  Nat \subseteq T
<1> SUFFICES ASSUME Nat \ T # {}
             PROVE  FALSE
  OBVIOUS
<1>1. PICK x \in Nat \ T : \A y \in Nat \ T : x <= y
  BY LeastMember
<1>2. x # 0 /\ x - 1 \in Nat
  BY <1>1
<1>3. x - 1 \in T
  BY <1>1, <1>2
<1> QED
  BY <1>1, <1>2, <1>3

(* Numbers up to a bound.                                                   *)
LEMMA NumbersUpTo ==
  ASSUME NEW k \in Nat, NEW T, 0 \in T, \A n \in 0..(k - 1) : n \in T => n + 1 \in T
  PROVE  0..k \subseteq T
<1> DEFINE U == {n \in Nat : n <= k => n \in T}
<1>1. 0 \in U
  OBVIOUS
<1>2. ASSUME NEW n \in Nat, n \in U
      PROVE  n + 1 \in U
  <2>1. n + 1 <= k => n \in 0..(k - 1) /\ n \in T
    BY <1>2
  <2> QED
    BY <2>1
<1> HIDE DEF U
<1>3. Nat \subseteq U
  BY <1>1, <1>2, AllNumbers
<1> QED
  BY <1>3 DEF U

-----------------------------------------------------------------------------
(***************************************************************************)
(* The chain.                                                             *)
(***************************************************************************)
Blocks == [data : Data, next : Nodes \cup {Nil}, prev : Nodes \cup {Nil}]

(* The k blocks of the list in their order, each linked to its neighbours;  *)
(* no other block is allocated.                                             *)
Chain(c, k, h, t, it) ==
  /\ k \in Nat /\ it \in [Nodes -> Blocks \cup {Nil}]
  /\ c \in [0..(k - 1) -> Nodes]
  /\ \A i, j \in 0..(k - 1) : c[i] = c[j] => i = j
  /\ \A n \in Nodes : it[n] # Nil <=> \E i \in 0..(k - 1) : c[i] = n
  /\ \A i \in 0..(k - 1) :
       /\ it[c[i]].next = IF i = k - 1 THEN Nil ELSE c[i + 1]
       /\ it[c[i]].prev = IF i = 0 THEN Nil ELSE c[i - 1]
  /\ h = IF k = 0 THEN Nil ELSE c[0]
  /\ t = IF k = 0 THEN Nil ELSE c[k - 1]

(* How far the walk along next has come, from h through the blocks it.      *)
Walk(f, h, it) ==
  f = [i \in Nat |-> IF i = 0 THEN h ELSE IF f[i - 1] = Nil THEN Nil ELSE it[f[i - 1]].next]

(* Along a chain it finds the blocks of the chain, then nothing.          *)
LEMMA WalkIs ==
  ASSUME NEW c, NEW k, NEW h, NEW t, NEW it, Chain(c, k, h, t, it)
  PROVE  /\ \E f : Walk(f, h, it)
         /\ \A f : Walk(f, h, it) => \A i \in 0..(k - 1) : f[i] = c[i]
<1> USE ListAssumption DEF Chain
<1>1. \A i \in 0..(k - 1) : c[i] \in Nodes /\ c[i] # Nil
  OBVIOUS
<1>2. Walk([i \in Nat |-> IF i < k THEN c[i] ELSE Nil], h, it)
  <2> DEFINE g == [i \in Nat |-> IF i < k THEN c[i] ELSE Nil]
  <2>1. ASSUME NEW i \in Nat
        PROVE  g[i] = IF i = 0 THEN h ELSE IF g[i - 1] = Nil THEN Nil ELSE it[g[i - 1]].next
    <3>1. CASE i = 0
      BY <3>1
    <3>2. CASE i # 0 /\ i - 1 < k
      <4>1. i - 1 \in 0..(k - 1) /\ i - 1 \in Nat /\ g[i - 1] = c[i - 1]
        BY <3>2
      <4>2. it[c[i - 1]].next = IF i - 1 = k - 1 THEN Nil ELSE c[i]
        BY <4>1
      <4>3. g[i] = IF i < k THEN c[i] ELSE Nil
        OBVIOUS
      <4> HIDE DEF g
      <4> QED
        BY <3>2, <4>1, <4>2, <4>3, <1>1
    <3>3. CASE i # 0 /\ ~(i - 1 < k)
      <4>1. i - 1 \in Nat /\ ~(i < k)
        BY <3>3
      <4> QED
        BY <3>3, <4>1
    <3> QED
      BY <3>1, <3>2, <3>3
  <2>2. g = [i \in Nat |-> IF i = 0 THEN h ELSE IF g[i - 1] = Nil THEN Nil ELSE it[g[i - 1]].next]
    BY <2>1
  <2> QED
    BY <2>2 DEF Walk
<1>3. ASSUME NEW f, Walk(f, h, it)
      PROVE  \A i \in 0..(k - 1) : f[i] = c[i]
  <2> DEFINE T == {i \in Nat : f[i] = IF i < k THEN c[i] ELSE Nil}
  <2>1. \A i \in Nat : f[i] = IF i = 0 THEN h ELSE IF f[i - 1] = Nil THEN Nil ELSE it[f[i - 1]].next
    BY <1>3 DEF Walk
  <2>2. 0 \in T
    BY <2>1
  <2>3. ASSUME NEW n \in Nat, n \in T
        PROVE  n + 1 \in T
    <3>1. f[n + 1] = IF f[n] = Nil THEN Nil ELSE it[f[n]].next
      <4>1. n + 1 \in Nat /\ n + 1 # 0 /\ (n + 1) - 1 = n
        OBVIOUS
      <4> QED
        BY <2>1, <4>1
    <3>2. f[n] = IF n < k THEN c[n] ELSE Nil
      BY <2>3
    <3>3. CASE n < k
      <4>1. n \in 0..(k - 1) /\ f[n] = c[n]
        BY <3>2, <3>3
      <4>2. f[n + 1] = IF n = k - 1 THEN Nil ELSE c[n + 1]
        BY <3>1, <4>1, <1>1
      <4> QED
        BY <4>2, <3>3
    <3>4. CASE ~(n < k)
      BY <3>1, <3>2, <3>4
    <3> QED
      BY <3>3, <3>4
  <2> HIDE DEF T
  <2>4. Nat \subseteq T
    BY <2>2, <2>3, AllNumbers
  <2> QED
    BY <2>4 DEF T
<1> QED
  BY <1>2, <1>3

(* So do the positions of a list.                                           *)
LEMMA NodeAtIs ==
  \A c : Chain(c, size, head, tail, item) => \A i \in 0..(size - 1) : NodeAt[i] = c[i]
<1> SUFFICES ASSUME NEW c, Chain(c, size, head, tail, item)
             PROVE  \A i \in 0..(size - 1) : NodeAt[i] = c[i]
  OBVIOUS
<1>1. \E f : Walk(f, head, item)
  BY WalkIs
<1>2. Walk(NodeAt, head, item)
  BY <1>1 DEF NodeAt, Walk
<1> QED
  BY <1>2, WalkIs

LEMMA NodeAtIsThen ==
  \A c : Chain(c, size', head', tail', item') => \A i \in 0..(size' - 1) : NodeAt'[i] = c[i]
<1> SUFFICES ASSUME NEW c, Chain(c, size', head', tail', item')
             PROVE  \A i \in 0..(size' - 1) : NodeAt'[i] = c[i]
  OBVIOUS
<1>1. \E f : Walk(f, head', item')
  BY WalkIs
<1>2. Walk(NodeAt', head', item')
  BY <1>1 DEF NodeAt, Walk
<1> QED
  BY <1>2, WalkIs

-----------------------------------------------------------------------------
(***************************************************************************)
(* Adding a block.                                                         *)
(***************************************************************************)
Inserted(c, k, at, n) == [i \in 0..k |-> IF i < at THEN c[i] ELSE IF i = at THEN n ELSE c[i - 1]]

Linked(it, c, k, at, n, d) ==
  [x \in Nodes |->
     IF x = n THEN Block(d, IF at = k THEN Nil ELSE c[at], IF at = 0 THEN Nil ELSE c[at - 1])
     ELSE IF at < k /\ x = c[at] THEN [it[x] EXCEPT !.prev = n]
     ELSE IF at > 0 /\ x = c[at - 1] THEN [it[x] EXCEPT !.next = n]
     ELSE it[x]]

(* A block keeps its form, and what is not linked anew.                     *)
LEMMA Relinked ==
  ASSUME NEW b \in Blocks, NEW m \in Nodes \cup {Nil}
  PROVE  /\ [b EXCEPT !.prev = m] \in Blocks /\ [b EXCEPT !.next = m] \in Blocks
         /\ [b EXCEPT !.prev = m].prev = m /\ [b EXCEPT !.prev = m].next = b.next /\ [b EXCEPT !.prev = m].data = b.data
         /\ [b EXCEPT !.next = m].next = m /\ [b EXCEPT !.next = m].prev = b.prev /\ [b EXCEPT !.next = m].data = b.data
BY DEF Blocks

(* A free block that is linked to its neighbours is one more in the chain. *)
LEMMA InsertedChain ==
  ASSUME NEW c, NEW k, NEW h, NEW t, NEW it, Chain(c, k, h, t, it),
         NEW n \in Nodes, it[n] = Nil, NEW d \in Data, NEW at \in 0..k
  PROVE  Chain(Inserted(c, k, at, n), k + 1, IF at = 0 THEN n ELSE h, IF at = k THEN n ELSE t,
               Linked(it, c, k, at, n, d))
<1> DEFINE c2 == Inserted(c, k, at, n)
           it2 == Linked(it, c, k, at, n, d)
<1> USE ListAssumption
<1>1. /\ k \in Nat /\ c \in [0..(k - 1) -> Nodes] /\ it \in [Nodes -> Blocks \cup {Nil}]
      /\ \A i, j \in 0..(k - 1) : c[i] = c[j] => i = j
      /\ \A x \in Nodes : it[x] # Nil <=> \E i \in 0..(k - 1) : c[i] = x
  BY DEF Chain
<1>2. /\ \A i \in 0..(k - 1) : /\ it[c[i]].next = IF i = k - 1 THEN Nil ELSE c[i + 1]
                               /\ it[c[i]].prev = IF i = 0 THEN Nil ELSE c[i - 1]
      /\ h = IF k = 0 THEN Nil ELSE c[0]
      /\ t = IF k = 0 THEN Nil ELSE c[k - 1]
  BY DEF Chain
<1>3. \A i \in 0..(k - 1) : c[i] \in Nodes /\ c[i] # n /\ it[c[i]] \in Blocks
  BY <1>1
<1>4. /\ \A i \in 0..k : c2[i] = IF i < at THEN c[i] ELSE IF i = at THEN n ELSE c[i - 1]
      /\ c2 \in [0..k -> Nodes]
  <2>1. ASSUME NEW i \in 0..k
        PROVE  (IF i < at THEN c[i] ELSE IF i = at THEN n ELSE c[i - 1]) \in Nodes
    <3>1. i < at => i \in 0..(k - 1)
      BY <1>1
    <3>2. ~(i < at) /\ i # at => i - 1 \in 0..(k - 1)
      BY <1>1
    <3> QED
      BY <1>3, <3>1, <3>2
  <2> QED
    BY <2>1 DEF Inserted
<1>5. /\ it2[n] = Block(d, IF at = k THEN Nil ELSE c[at], IF at = 0 THEN Nil ELSE c[at - 1])
      /\ \A i \in 0..(k - 1) : /\ i = at => it2[c[i]] = [it[c[i]] EXCEPT !.prev = n]
                               /\ i = at - 1 => it2[c[i]] = [it[c[i]] EXCEPT !.next = n]
                               /\ i # at /\ i # at - 1 => it2[c[i]] = it[c[i]]
      /\ \A x \in Nodes : x # n /\ (\A i \in 0..(k - 1) : c[i] # x) => it2[x] = it[x]
  <2>1. it2[n] = Block(d, IF at = k THEN Nil ELSE c[at], IF at = 0 THEN Nil ELSE c[at - 1])
    BY DEF Linked
  <2>2. ASSUME NEW i \in 0..(k - 1)
        PROVE  /\ i = at => it2[c[i]] = [it[c[i]] EXCEPT !.prev = n]
               /\ i = at - 1 => it2[c[i]] = [it[c[i]] EXCEPT !.next = n]
               /\ i # at /\ i # at - 1 => it2[c[i]] = it[c[i]]
    <3>1. c[i] \in Nodes /\ c[i] # n
      BY <1>3
    <3>2. at < k => (c[i] = c[at] <=> i = at)
      BY <1>1
    <3>3. at > 0 => (c[i] = c[at - 1] <=> i = at - 1)
      BY <1>1
    <3>4. it2[c[i]] = IF at < k /\ c[i] = c[at] THEN [it[c[i]] EXCEPT !.prev = n]
                      ELSE IF at > 0 /\ c[i] = c[at - 1] THEN [it[c[i]] EXCEPT !.next = n] ELSE it[c[i]]
      BY <3>1 DEF Linked
    <3>5. (i = at => at < k) /\ (i = at - 1 => at > 0 /\ i # at)
      BY <1>1
    <3>6. i = at => it2[c[i]] = [it[c[i]] EXCEPT !.prev = n]
      BY <3>4, <3>5
    <3>7. i = at - 1 => it2[c[i]] = [it[c[i]] EXCEPT !.next = n]
      BY <3>2, <3>3, <3>4, <3>5
    <3>8. i # at /\ i # at - 1 => it2[c[i]] = it[c[i]]
      BY <3>2, <3>3, <3>4
    <3> QED
      BY <3>6, <3>7, <3>8
  <2>3. ASSUME NEW x \in Nodes, x # n, \A i \in 0..(k - 1) : c[i] # x
        PROVE  it2[x] = it[x]
    <3>1. (at < k => x # c[at]) /\ (at > 0 => x # c[at - 1])
      BY <2>3, <1>1
    <3> QED
      BY <2>3, <3>1 DEF Linked
  <2> QED
    BY <2>1, <2>2, <2>3
<1>6. it2[n] \in Blocks /\ \A i \in 0..(k - 1) : it2[c[i]] \in Blocks
  <2>1. (IF at = k THEN Nil ELSE c[at]) \in Nodes \cup {Nil} /\ (IF at = 0 THEN Nil ELSE c[at - 1]) \in Nodes \cup {Nil}
    BY <1>1, <1>3
  <2>2. it2[n] \in Blocks
    BY <1>5, <2>1 DEF Block, Blocks
  <2>3. ASSUME NEW i \in 0..(k - 1)
        PROVE  it2[c[i]] \in Blocks
    <3>1. [it[c[i]] EXCEPT !.prev = n] \in Blocks /\ [it[c[i]] EXCEPT !.next = n] \in Blocks
      BY <1>3, Relinked
    <3> QED
      BY <3>1, <1>3, <1>5
  <2> QED
    BY <2>2, <2>3
<1> HIDE DEF c2, it2
<1>7. it2 \in [Nodes -> Blocks \cup {Nil}]
  <2>1. \A x \in Nodes : it2[x] \in Blocks \cup {Nil}
    BY <1>1, <1>5, <1>6
  <2>2. it2 = [x \in Nodes |-> it2[x]]
    BY DEF it2, Linked
  <2> QED
    BY <2>1, <2>2
<1>8. \A i, j \in 0..k : c2[i] = c2[j] => i = j
  <2> SUFFICES ASSUME NEW i \in 0..k, NEW j \in 0..k, i < j
               PROVE  c2[i] # c2[j]
    BY <1>1
  <2>1. CASE j < at
    BY <2>1, <1>1, <1>4
  <2>2. CASE j = at
    <3>1. i \in 0..(k - 1) /\ c2[i] = c[i] /\ c2[j] = n
      BY <2>2, <1>1, <1>4
    <3> QED
      BY <3>1, <1>3
  <2>3. CASE j > at
    <3>1. j - 1 \in 0..(k - 1) /\ c2[j] = c[j - 1]
      BY <2>3, <1>1, <1>4
    <3>2. CASE i = at
      BY <3>1, <3>2, <1>3, <1>4
    <3>3. CASE i < at
      <4>1. i \in 0..(k - 1) /\ c2[i] = c[i] /\ i # j - 1
        BY <3>3, <2>3, <1>1, <1>4
      <4> QED
        BY <4>1, <3>1, <1>1
    <3>4. CASE i > at
      <4>1. i - 1 \in 0..(k - 1) /\ c2[i] = c[i - 1] /\ i - 1 # j - 1
        BY <3>4, <1>1, <1>4
      <4> QED
        BY <4>1, <3>1, <1>1
    <3> QED
      BY <3>2, <3>3, <3>4, <1>1
  <2> QED
    BY <2>1, <2>2, <2>3, <1>1
<1>9. \A x \in Nodes : it2[x] # Nil <=> \E i \in 0..k : c2[i] = x
  <2>1. c2[at] = n
    BY <1>4
  <2>2. \A i \in 0..(k - 1) : \E j \in 0..k : c2[j] = c[i]
    <3> SUFFICES ASSUME NEW i \in 0..(k - 1)
                 PROVE  \E j \in 0..k : c2[j] = c[i]
      OBVIOUS
    <3>1. CASE i < at
      BY <3>1, <1>1, <1>4
    <3>2. CASE ~(i < at)
      <4>1. i + 1 \in 0..k /\ c2[i + 1] = c[i]
        BY <3>2, <1>1, <1>4
      <4> QED
        BY <4>1
    <3> QED
      BY <3>1, <3>2
  <2>3. \A j \in 0..k : c2[j] = n \/ \E i \in 0..(k - 1) : c2[j] = c[i]
    <3> SUFFICES ASSUME NEW j \in 0..k, j # at
                 PROVE  \E i \in 0..(k - 1) : c2[j] = c[i]
      BY <2>1
    <3>1. CASE j < at
      <4>1. j \in 0..(k - 1) /\ c2[j] = c[j]
        BY <3>1, <1>1, <1>4
      <4> QED
        BY <4>1
    <3>2. CASE j > at
      <4>1. j - 1 \in 0..(k - 1) /\ c2[j] = c[j - 1]
        BY <3>2, <1>1, <1>4
      <4> QED
        BY <4>1
    <3> QED
      BY <3>1, <3>2, <1>1
  <2>4. Nil \notin Blocks
    BY DEF Blocks
  <2> SUFFICES ASSUME NEW x \in Nodes
               PROVE  it2[x] # Nil <=> \E i \in 0..k : c2[i] = x
    OBVIOUS
  <2>5. CASE x = n
    BY <2>1, <2>4, <2>5, <1>6
  <2>6. CASE x # n /\ \E i \in 0..(k - 1) : c[i] = x
    BY <2>2, <2>4, <2>6, <1>6
  <2>7. CASE x # n /\ \A i \in 0..(k - 1) : c[i] # x
    BY <2>3, <2>7, <1>1, <1>5
  <2> QED
    BY <2>5, <2>6, <2>7
<1>10. \A i \in 0..k : /\ it2[c2[i]].next = IF i = k THEN Nil ELSE c2[i + 1]
                      /\ it2[c2[i]].prev = IF i = 0 THEN Nil ELSE c2[i - 1]
  <2> SUFFICES ASSUME NEW i \in 0..k
               PROVE  /\ it2[c2[i]].next = IF i = k THEN Nil ELSE c2[i + 1]
                      /\ it2[c2[i]].prev = IF i = 0 THEN Nil ELSE c2[i - 1]
    OBVIOUS
  <2>1. CASE i = at
    <3>1. c2[i] = n /\ (at < k => c2[i + 1] = c[at]) /\ (at > 0 => c2[i - 1] = c[at - 1])
      <4>1. at < k => i + 1 \in 0..k /\ ~(i + 1 < at) /\ i + 1 # at /\ (i + 1) - 1 = at
        BY <2>1, <1>1
      <4>2. at > 0 => i - 1 \in 0..k /\ i - 1 < at
        BY <2>1, <1>1
      <4> QED
        BY <2>1, <4>1, <4>2, <1>4
    <3>2. /\ it2[c2[i]].next = IF at = k THEN Nil ELSE c[at]
          /\ it2[c2[i]].prev = IF at = 0 THEN Nil ELSE c[at - 1]
      BY <3>1, <1>5 DEF Block
    <3> QED
      BY <2>1, <3>1, <3>2, <1>1
  <2>2. CASE i < at
    <3>1. i \in 0..(k - 1) /\ c2[i] = c[i] /\ c2[i + 1] = (IF i = at - 1 THEN n ELSE c[i + 1])
      BY <2>2, <1>1, <1>4
    <3>2. i # at /\ it[c[i]] \in Blocks
      BY <2>2, <3>1, <1>3
    <3>3. it2[c[i]].prev = it[c[i]].prev /\ it2[c[i]].next = IF i = at - 1 THEN n ELSE it[c[i]].next
      <4>1. [it[c[i]] EXCEPT !.next = n].next = n /\ [it[c[i]] EXCEPT !.next = n].prev = it[c[i]].prev
        BY <3>2, Relinked
      <4>2. (i = at - 1 => it2[c[i]] = [it[c[i]] EXCEPT !.next = n]) /\ (i # at - 1 => it2[c[i]] = it[c[i]])
        BY <3>1, <3>2, <1>5
      <4> QED
        BY <4>1, <4>2
    <3>4. it2[c[i]].next = c2[i + 1]
      BY <2>2, <3>1, <3>3, <1>1, <1>2
    <3>5. i > 0 => c2[i - 1] = c[i - 1]
      BY <2>2, <1>1, <1>4
    <3> QED
      BY <2>2, <3>1, <3>3, <3>4, <3>5, <1>1, <1>2
  <2>3. CASE i > at
    <3>1. i - 1 \in 0..(k - 1) /\ c2[i] = c[i - 1] /\ c2[i - 1] = (IF i - 1 = at THEN n ELSE c[i - 2])
      BY <2>3, <1>1, <1>4
    <3>2. i - 1 # at - 1 /\ it[c[i - 1]] \in Blocks
      BY <2>3, <3>1, <1>3
    <3>3. /\ it2[c[i - 1]].next = it[c[i - 1]].next
          /\ it2[c[i - 1]].prev = IF i - 1 = at THEN n ELSE it[c[i - 1]].prev
      <4>1. [it[c[i - 1]] EXCEPT !.prev = n].prev = n /\ [it[c[i - 1]] EXCEPT !.prev = n].next = it[c[i - 1]].next
        BY <3>2, Relinked
      <4>2. /\ i - 1 = at => it2[c[i - 1]] = [it[c[i - 1]] EXCEPT !.prev = n]
            /\ i - 1 # at => it2[c[i - 1]] = it[c[i - 1]]
        BY <3>1, <3>2, <1>5
      <4> QED
        BY <4>1, <4>2
    <3>4. it[c[i - 1]].prev = IF i - 1 = 0 THEN Nil ELSE c[i - 2]
      BY <3>1, <1>2
    <3>5. it[c[i - 1]].next = IF i = k THEN Nil ELSE c[i]
      BY <3>1, <1>1, <1>2
    <3>6. i < k => c2[i + 1] = c[i]
      <4>1. i < k => i + 1 \in 0..k /\ ~(i + 1 < at) /\ i + 1 # at /\ (i + 1) - 1 = i
        BY <2>3, <1>1
      <4> QED
        BY <4>1, <1>4
    <3> QED
      BY <2>3, <3>1, <3>3, <3>4, <3>5, <3>6, <1>1
  <2> QED
    BY <2>1, <2>2, <2>3, <1>1
<1>11. (IF at = 0 THEN n ELSE h) = c2[0] /\ (IF at = k THEN n ELSE t) = c2[k]
  BY <1>1, <1>2, <1>4
<1> QED
  <2>1. k + 1 \in Nat /\ (k + 1) - 1 = k /\ k + 1 # 0
    BY <1>1
  <2>2. Chain(c2, k + 1, IF at = 0 THEN n ELSE h, IF at = k THEN n ELSE t, it2)
    BY <2>1, <1>4, <1>7, <1>8, <1>9, <1>10, <1>11 DEF Chain
  <2> QED
    BY <2>2 DEF c2, it2

-----------------------------------------------------------------------------
(***************************************************************************)
(* Deleting a block.                                                       *)
(***************************************************************************)
Dropped(c, k, at) == [i \in 0..(k - 2) |-> IF i < at THEN c[i] ELSE c[i + 1]]

Before(c, at) == IF at = 0 THEN Nil ELSE c[at - 1]
After(c, k, at) == IF at = k - 1 THEN Nil ELSE c[at + 1]

Unlinked(it, c, k, at) ==
  [x \in Nodes |->
     IF x = c[at] THEN Nil
     ELSE IF at < k - 1 /\ x = c[at + 1] THEN [it[x] EXCEPT !.prev = Before(c, at)]
     ELSE IF at > 0 /\ x = c[at - 1] THEN [it[x] EXCEPT !.next = After(c, k, at)]
     ELSE it[x]]

(* A chain without one of its blocks, whose neighbours are linked.        *)
LEMMA RemovedChain ==
  ASSUME NEW c, NEW k, NEW h, NEW t, NEW it, Chain(c, k, h, t, it), NEW at \in 0..(k - 1)
  PROVE  Chain(Dropped(c, k, at), k - 1, IF at = 0 THEN After(c, k, at) ELSE h,
               IF at = k - 1 THEN Before(c, at) ELSE t, Unlinked(it, c, k, at))
<1> DEFINE c2 == Dropped(c, k, at)
           it2 == Unlinked(it, c, k, at)
<1> USE ListAssumption
<1>1. /\ k \in Nat /\ c \in [0..(k - 1) -> Nodes] /\ it \in [Nodes -> Blocks \cup {Nil}]
      /\ \A i, j \in 0..(k - 1) : c[i] = c[j] => i = j
      /\ \A x \in Nodes : it[x] # Nil <=> \E i \in 0..(k - 1) : c[i] = x
      /\ at \in Nat /\ at < k
  BY DEF Chain
<1>2. /\ \A i \in 0..(k - 1) : /\ it[c[i]].next = IF i = k - 1 THEN Nil ELSE c[i + 1]
                               /\ it[c[i]].prev = IF i = 0 THEN Nil ELSE c[i - 1]
      /\ h = IF k = 0 THEN Nil ELSE c[0]
      /\ t = IF k = 0 THEN Nil ELSE c[k - 1]
  BY DEF Chain
<1>3. \A i \in 0..(k - 1) : c[i] \in Nodes /\ it[c[i]] \in Blocks
  BY <1>1
<1>4. /\ \A i \in 0..(k - 2) : (i < at => c2[i] = c[i]) /\ (i >= at => c2[i] = c[i + 1])
      /\ c2 \in [0..(k - 2) -> Nodes]
  <2>1. ASSUME NEW i \in 0..(k - 2)
        PROVE  i \in 0..(k - 1) /\ i + 1 \in 0..(k - 1) /\ (i < at \/ i >= at)
    BY <1>1
  <2>2. \A i \in 0..(k - 2) : c2[i] = (IF i < at THEN c[i] ELSE c[i + 1]) /\ c2[i] \in Nodes
    BY <2>1, <1>3 DEF Dropped
  <2>3. \A i \in 0..(k - 2) : (i < at => c2[i] = c[i]) /\ (i >= at => c2[i] = c[i + 1])
    BY <2>2, <1>1
  <2>4. c2 = [i \in 0..(k - 2) |-> c2[i]]
    BY DEF Dropped
  <2> QED
    BY <2>2, <2>3, <2>4
<1>5. Before(c, at) \in Nodes \cup {Nil} /\ After(c, k, at) \in Nodes \cup {Nil}
  BY <1>1, <1>3 DEF Before, After
<1>6. /\ it2[c[at]] = Nil
      /\ \A i \in 0..(k - 1) : /\ i = at + 1 => it2[c[i]] = [it[c[i]] EXCEPT !.prev = Before(c, at)]
                               /\ i = at - 1 => it2[c[i]] = [it[c[i]] EXCEPT !.next = After(c, k, at)]
                               /\ i # at /\ i # at + 1 /\ i # at - 1 => it2[c[i]] = it[c[i]]
      /\ \A x \in Nodes : (\A i \in 0..(k - 1) : c[i] # x) => it2[x] = it[x]
  <2>1. it2[c[at]] = Nil
    BY <1>3 DEF Unlinked
  <2>2. ASSUME NEW i \in 0..(k - 1)
        PROVE  /\ i = at + 1 => it2[c[i]] = [it[c[i]] EXCEPT !.prev = Before(c, at)]
               /\ i = at - 1 => it2[c[i]] = [it[c[i]] EXCEPT !.next = After(c, k, at)]
               /\ i # at /\ i # at + 1 /\ i # at - 1 => it2[c[i]] = it[c[i]]
    <3>1. c[i] \in Nodes /\ (c[i] = c[at] <=> i = at)
      BY <1>1, <1>3
    <3>2. at < k - 1 => (c[i] = c[at + 1] <=> i = at + 1)
      BY <1>1
    <3>3. at > 0 => (c[i] = c[at - 1] <=> i = at - 1)
      BY <1>1
    <3>4. i # at => it2[c[i]] = IF at < k - 1 /\ c[i] = c[at + 1] THEN [it[c[i]] EXCEPT !.prev = Before(c, at)]
                      ELSE IF at > 0 /\ c[i] = c[at - 1] THEN [it[c[i]] EXCEPT !.next = After(c, k, at)] ELSE it[c[i]]
      BY <3>1 DEF Unlinked
    <3>5. (i = at + 1 => at < k - 1 /\ i # at) /\ (i = at - 1 => at > 0 /\ i # at /\ i # at + 1)
      BY <1>1
    <3>6. i = at + 1 => it2[c[i]] = [it[c[i]] EXCEPT !.prev = Before(c, at)]
      BY <3>4, <3>5
    <3>7. i = at - 1 => it2[c[i]] = [it[c[i]] EXCEPT !.next = After(c, k, at)]
      BY <3>2, <3>3, <3>4, <3>5
    <3>8. i # at /\ i # at + 1 /\ i # at - 1 => it2[c[i]] = it[c[i]]
      BY <3>2, <3>3, <3>4
    <3> QED
      BY <3>6, <3>7, <3>8
  <2>3. ASSUME NEW x \in Nodes, \A i \in 0..(k - 1) : c[i] # x
        PROVE  it2[x] = it[x]
    <3>1. x # c[at] /\ (at < k - 1 => x # c[at + 1]) /\ (at > 0 => x # c[at - 1])
      BY <2>3, <1>1
    <3> QED
      BY <3>1 DEF Unlinked
  <2> QED
    BY <2>1, <2>2, <2>3
<1>7. \A i \in 0..(k - 1) : i # at => it2[c[i]] \in Blocks
  <2> SUFFICES ASSUME NEW i \in 0..(k - 1), i # at
               PROVE  it2[c[i]] \in Blocks
    OBVIOUS
  <2>1. [it[c[i]] EXCEPT !.prev = Before(c, at)] \in Blocks /\ [it[c[i]] EXCEPT !.next = After(c, k, at)] \in Blocks
    BY <1>3, <1>5, Relinked
  <2> QED
    BY <2>1, <1>3, <1>6
<1> HIDE DEF c2, it2
<1>8. it2 \in [Nodes -> Blocks \cup {Nil}]
  <2>1. \A x \in Nodes : it2[x] \in Blocks \cup {Nil}
    BY <1>1, <1>6, <1>7
  <2>2. it2 = [x \in Nodes |-> it2[x]]
    BY DEF it2, Unlinked
  <2> QED
    BY <2>1, <2>2
<1>9. \A i, j \in 0..(k - 2) : c2[i] = c2[j] => i = j
  <2> SUFFICES ASSUME NEW i \in 0..(k - 2), NEW j \in 0..(k - 2), i < j
               PROVE  c2[i] # c2[j]
    BY <1>1
  <2>1. i \in 0..(k - 1) /\ i + 1 \in 0..(k - 1) /\ j \in 0..(k - 1) /\ j + 1 \in 0..(k - 1) /\ i # j /\ i # j + 1 /\ i + 1 # j + 1
    BY <1>1
  <2>2. (c2[i] = c[i] /\ i < at) \/ (c2[i] = c[i + 1] /\ i >= at)
    BY <1>1, <1>4
  <2>3. (c2[j] = c[j] /\ j < at) \/ (c2[j] = c[j + 1] /\ j >= at)
    BY <1>1, <1>4
  <2> QED
    BY <2>1, <2>2, <2>3, <1>1
<1>10. \A x \in Nodes : it2[x] # Nil <=> \E i \in 0..(k - 2) : c2[i] = x
  <2>1. \A i \in 0..(k - 1) : i # at => \E j \in 0..(k - 2) : c2[j] = c[i]
    <3> SUFFICES ASSUME NEW i \in 0..(k - 1), i # at
                 PROVE  \E j \in 0..(k - 2) : c2[j] = c[i]
      OBVIOUS
    <3>1. CASE i < at
      <4>1. i \in 0..(k - 2) /\ c2[i] = c[i]
        BY <3>1, <1>1, <1>4
      <4> QED
        BY <4>1
    <3>2. CASE i > at
      <4>1. i - 1 \in 0..(k - 2) /\ i - 1 >= at /\ (i - 1) + 1 = i
        BY <3>2, <1>1
      <4>2. c2[i - 1] = c[i]
        BY <4>1, <1>4
      <4> QED
        BY <4>1, <4>2
    <3> QED
      BY <3>1, <3>2, <1>1
  <2>2. \A j \in 0..(k - 2) : \E i \in 0..(k - 1) : i # at /\ c2[j] = c[i]
    <3> SUFFICES ASSUME NEW j \in 0..(k - 2)
                 PROVE  \E i \in 0..(k - 1) : i # at /\ c2[j] = c[i]
      OBVIOUS
    <3>1. j \in 0..(k - 1) /\ j + 1 \in 0..(k - 1) /\ (j < at => j # at) /\ (j >= at => j + 1 # at)
      BY <1>1
    <3>2. (c2[j] = c[j] /\ j < at) \/ (c2[j] = c[j + 1] /\ j >= at)
      BY <1>1, <1>4
    <3> QED
      BY <3>1, <3>2
  <2>3. Nil \notin Blocks
    BY DEF Blocks
  <2> SUFFICES ASSUME NEW x \in Nodes
               PROVE  it2[x] # Nil <=> \E i \in 0..(k - 2) : c2[i] = x
    OBVIOUS
  <2>4. CASE x = c[at]
    <3>1. \A i \in 0..(k - 1) : i # at => c[i] # x
      BY <2>4, <1>1
    <3> QED
      BY <2>2, <2>4, <3>1, <1>6
  <2>5. CASE x # c[at] /\ \E i \in 0..(k - 1) : c[i] = x
    <3>1. PICK i \in 0..(k - 1) : c[i] = x
      BY <2>5
    <3>2. i # at
      BY <2>5, <3>1
    <3> QED
      BY <2>1, <2>3, <3>1, <3>2, <1>7
  <2>6. CASE \A i \in 0..(k - 1) : c[i] # x
    BY <2>2, <2>6, <1>1, <1>6
  <2> QED
    BY <2>4, <2>5, <2>6
<1>11. \A i \in 0..(k - 2) : /\ it2[c2[i]].next = IF i = k - 2 THEN Nil ELSE c2[i + 1]
                            /\ it2[c2[i]].prev = IF i = 0 THEN Nil ELSE c2[i - 1]
  <2> SUFFICES ASSUME NEW i \in 0..(k - 2)
               PROVE  /\ it2[c2[i]].next = IF i = k - 2 THEN Nil ELSE c2[i + 1]
                      /\ it2[c2[i]].prev = IF i = 0 THEN Nil ELSE c2[i - 1]
    OBVIOUS
  <2>1. CASE i < at
    <3>1. /\ i \in 0..(k - 1) /\ c2[i] = c[i] /\ i # at /\ i # at + 1 /\ it[c[i]] \in Blocks
          /\ (i = at - 1 /\ at < k - 1 => c2[i + 1] = c[at + 1])
          /\ (i # at - 1 => c2[i + 1] = c[i + 1])
          /\ (i > 0 => c2[i - 1] = c[i - 1])
      <4>1. i \in 0..(k - 1) /\ i # at /\ i # at + 1
        BY <2>1, <1>1
      <4>2. i = at - 1 /\ at < k - 1 => i + 1 \in 0..(k - 2) /\ i + 1 >= at /\ (i + 1) + 1 = at + 1
        BY <1>1
      <4>3. i # at - 1 => i + 1 \in 0..(k - 2) /\ i + 1 < at
        BY <2>1, <1>1
      <4>4. i > 0 => i - 1 \in 0..(k - 2) /\ i - 1 < at
        BY <2>1, <1>1
      <4> QED
        BY <4>1, <4>2, <4>3, <4>4, <2>1, <1>3, <1>4
    <3>2. it2[c[i]].prev = it[c[i]].prev /\ it2[c[i]].next = IF i = at - 1 THEN After(c, k, at) ELSE it[c[i]].next
      <4>1. /\ [it[c[i]] EXCEPT !.next = After(c, k, at)].next = After(c, k, at)
            /\ [it[c[i]] EXCEPT !.next = After(c, k, at)].prev = it[c[i]].prev
        BY <3>1, <1>5, Relinked
      <4>2. /\ i = at - 1 => it2[c[i]] = [it[c[i]] EXCEPT !.next = After(c, k, at)]
            /\ i # at - 1 => it2[c[i]] = it[c[i]]
        BY <3>1, <1>6
      <4> QED
        BY <4>1, <4>2
    <3>3. it[c[i]].prev = (IF i = 0 THEN Nil ELSE c[i - 1]) /\ it[c[i]].next = c[i + 1]
      BY <2>1, <3>1, <1>1, <1>2
    <3>4. i = at - 1 => (i = k - 2 <=> at = k - 1)
      BY <1>1
    <3>5. i # at - 1 => i # k - 2
      BY <2>1, <1>1
    <3>6. at = k - 1 \/ at < k - 1
      BY <1>1
    <3> QED
      BY <3>1, <3>2, <3>3, <3>4, <3>5, <3>6, <1>1 DEF After
  <2>2. CASE i >= at
    <3>1. /\ i + 1 \in 0..(k - 1) /\ c2[i] = c[i + 1] /\ i + 1 # at /\ i + 1 # at - 1 /\ it[c[i + 1]] \in Blocks
          /\ (i # k - 2 => c2[i + 1] = c[i + 2])
          /\ (i = at /\ at > 0 => c2[i - 1] = c[at - 1])
          /\ (i # at => c2[i - 1] = c[i] /\ i > 0)
      <4>1. i + 1 \in 0..(k - 1) /\ i + 1 # at /\ i + 1 # at - 1
        BY <2>2, <1>1
      <4>2. i # k - 2 => i + 1 \in 0..(k - 2) /\ i + 1 >= at /\ (i + 1) + 1 = i + 2
        BY <2>2, <1>1
      <4>3. i = at /\ at > 0 => i - 1 \in 0..(k - 2) /\ i - 1 < at
        BY <1>1
      <4>4. i # at => i - 1 \in 0..(k - 2) /\ i - 1 >= at /\ (i - 1) + 1 = i /\ i > 0
        BY <2>2, <1>1
      <4> QED
        BY <4>1, <4>2, <4>3, <4>4, <2>2, <1>3, <1>4
    <3>2. /\ it2[c[i + 1]].next = it[c[i + 1]].next
          /\ it2[c[i + 1]].prev = IF i = at THEN Before(c, at) ELSE it[c[i + 1]].prev
      <4>1. /\ [it[c[i + 1]] EXCEPT !.prev = Before(c, at)].prev = Before(c, at)
            /\ [it[c[i + 1]] EXCEPT !.prev = Before(c, at)].next = it[c[i + 1]].next
        BY <3>1, <1>5, Relinked
      <4>2. /\ i = at => it2[c[i + 1]] = [it[c[i + 1]] EXCEPT !.prev = Before(c, at)]
            /\ i # at => it2[c[i + 1]] = it[c[i + 1]]
        <5>1. (i = at => i + 1 = at + 1) /\ (i # at => i + 1 # at + 1)
          BY <1>1
        <5> QED
          BY <3>1, <5>1, <1>6
      <4> QED
        BY <4>1, <4>2
    <3>3. it[c[i + 1]].prev = c[i] /\ it[c[i + 1]].next = (IF i = k - 2 THEN Nil ELSE c[i + 2])
      <4>1. i + 1 # 0 /\ (i + 1 = k - 1 <=> i = k - 2) /\ (i + 1) - 1 = i /\ (i + 1) + 1 = i + 2
        BY <1>1
      <4> QED
        BY <3>1, <4>1, <1>2
    <3>4. i = at => (i = 0 <=> at = 0)
      OBVIOUS
    <3> QED
      BY <3>1, <3>2, <3>3, <3>4, <1>1 DEF Before
  <2> QED
    BY <2>1, <2>2, <1>1
<1>12. /\ (IF at = 0 THEN After(c, k, at) ELSE h) = IF k - 1 = 0 THEN Nil ELSE c2[0]
       /\ (IF at = k - 1 THEN Before(c, at) ELSE t) = IF k - 1 = 0 THEN Nil ELSE c2[k - 2]
  <2>1. k - 1 = 0 => at = 0 /\ at = k - 1
    BY <1>1
  <2>2. k - 1 # 0 => 0 \in 0..(k - 2) /\ k - 2 \in 0..(k - 2) /\ (k - 2) + 1 = k - 1 /\ (k - 1) - 1 = k - 2
    BY <1>1
  <2>3. k - 1 # 0 /\ at = 0 => c2[0] = c[1] /\ at # k - 1
    BY <2>2, <1>1, <1>4
  <2>4. k - 1 # 0 /\ at # 0 => c2[0] = c[0]
    BY <2>2, <1>1, <1>4
  <2>5. k - 1 # 0 /\ at = k - 1 => c2[k - 2] = c[k - 2] /\ at # 0
    BY <2>2, <1>1, <1>4
  <2>6. k - 1 # 0 /\ at # k - 1 => c2[k - 2] = c[k - 1]
    BY <2>2, <1>1, <1>4
  <2> QED
    BY <2>1, <2>2, <2>3, <2>4, <2>5, <2>6, <1>1, <1>2 DEF Before, After
<1> QED
  <2>1. k - 1 \in Nat /\ (k - 1) - 1 = k - 2
    BY <1>1
  <2>2. Chain(c2, k - 1, IF at = 0 THEN After(c, k, at) ELSE h, IF at = k - 1 THEN Before(c, at) ELSE t, it2)
    BY <2>1, <1>4, <1>8, <1>9, <1>10, <1>11, <1>12 DEF Chain
  <2> QED
    BY <2>2 DEF c2, it2

-----------------------------------------------------------------------------
(***************************************************************************)
(* The elements along the chain.                                          *)
(***************************************************************************)
ElementsOf(c, k, it) == [i \in 1..k |-> it[c[i - 1]].data]

LEMMA ElementsType ==
  ASSUME NEW c, NEW k, NEW h, NEW t, NEW it, Chain(c, k, h, t, it)
  PROVE  /\ ElementsOf(c, k, it) \in Seq(Data) /\ Len(ElementsOf(c, k, it)) = k
         /\ DOMAIN ElementsOf(c, k, it) = 1..k
         /\ \A i \in 1..k : ElementsOf(c, k, it)[i] = it[c[i - 1]].data
<1>1. k \in Nat
  BY DEF Chain
<1>2. ASSUME NEW i \in 1..k
      PROVE  it[c[i - 1]].data \in Data
  <2>1. i - 1 \in 0..(k - 1)
    BY <1>1
  <2>2. c[i - 1] \in Nodes /\ it[c[i - 1]] \in Blocks
    BY <2>1 DEF Chain
  <2> QED
    BY <2>2 DEF Blocks
<1>3. ElementsOf(c, k, it) \in [1..k -> Data]
  BY <1>2 DEF ElementsOf
<1> QED
  BY <1>1, <1>3, SeqDef DEF ElementsOf

(* Linking and unlinking leave the data of the blocks alone.                *)
LEMMA LinkedData ==
  ASSUME NEW c, NEW k, NEW h, NEW t, NEW it, Chain(c, k, h, t, it),
         NEW n \in Nodes, it[n] = Nil, NEW d \in Data, NEW at \in 0..k
  PROVE  /\ Linked(it, c, k, at, n, d)[n].data = d
         /\ \A i \in 0..(k - 1) : Linked(it, c, k, at, n, d)[c[i]].data = it[c[i]].data
<1>1. Linked(it, c, k, at, n, d)[n].data = d
  BY DEF Linked, Block
<1>2. ASSUME NEW i \in 0..(k - 1)
      PROVE  Linked(it, c, k, at, n, d)[c[i]].data = it[c[i]].data
  <2>1. c[i] \in Nodes /\ c[i] # n /\ it[c[i]] \in Blocks
    BY DEF Chain
  <2>2. [it[c[i]] EXCEPT !.prev = n].data = it[c[i]].data /\ [it[c[i]] EXCEPT !.next = n].data = it[c[i]].data
    BY <2>1, Relinked
  <2> QED
    BY <2>1, <2>2 DEF Linked
<1> QED
  BY <1>1, <1>2

LEMMA UnlinkedData ==
  ASSUME NEW c, NEW k, NEW h, NEW t, NEW it, Chain(c, k, h, t, it), NEW at \in 0..(k - 1)
  PROVE  \A i \in 0..(k - 1) : i # at => Unlinked(it, c, k, at)[c[i]].data = it[c[i]].data
<1> SUFFICES ASSUME NEW i \in 0..(k - 1), i # at
             PROVE  Unlinked(it, c, k, at)[c[i]].data = it[c[i]].data
  OBVIOUS
<1>1. c[i] \in Nodes /\ c[i] # c[at] /\ it[c[i]] \in Blocks
  BY DEF Chain
<1>2. Before(c, at) \in Nodes \cup {Nil} /\ After(c, k, at) \in Nodes \cup {Nil}
  BY DEF Chain, Before, After
<1>3. [it[c[i]] EXCEPT !.prev = Before(c, at)].data = it[c[i]].data /\ [it[c[i]] EXCEPT !.next = After(c, k, at)].data = it[c[i]].data
  BY <1>1, <1>2, Relinked
<1> QED
  BY <1>1, <1>3 DEF Unlinked

LEMMA InsertedElements ==
  ASSUME NEW c, NEW k, NEW h, NEW t, NEW it, Chain(c, k, h, t, it),
         NEW n \in Nodes, it[n] = Nil, NEW d \in Data, NEW at \in 0..k
  PROVE  ElementsOf(Inserted(c, k, at, n), k + 1, Linked(it, c, k, at, n, d))
           = InsertAt(ElementsOf(c, k, it), at + 1, d)
<1> DEFINE e == ElementsOf(c, k, it)
           c2 == Inserted(c, k, at, n)
           it2 == Linked(it, c, k, at, n, d)
           e2 == ElementsOf(c2, k + 1, it2)
           left == SubSeq(e, 1, at)
           right == SubSeq(e, at + 1, k)
<1>0. k \in Nat /\ at \in Nat /\ at <= k
  BY DEF Chain
<1>1. /\ e \in Seq(Data) /\ Len(e) = k
      /\ \A i \in 1..k : e[i] = it[c[i - 1]].data /\ e[i] \in Data
  BY ElementsType, ElementOfSeq
<1>2. /\ e2 \in Seq(Data) /\ Len(e2) = k + 1
      /\ \A i \in 1..(k + 1) : e2[i] = it2[c2[i - 1]].data
  <2>1. Chain(c2, k + 1, IF at = 0 THEN n ELSE h, IF at = k THEN n ELSE t, it2)
    BY InsertedChain
  <2> HIDE DEF c2, it2
  <2> QED
    BY <2>1, ElementsType
<1>3. /\ it2[n].data = d
      /\ \A i \in 0..(k - 1) : it2[c[i]].data = it[c[i]].data
      /\ \A i \in 0..k : c2[i] = IF i < at THEN c[i] ELSE IF i = at THEN n ELSE c[i - 1]
  BY LinkedData DEF Inserted
<1> HIDE DEF e, c2, it2, e2
<1>4. left \in Seq(Data) /\ Len(left) = at /\ \A i \in 1..at : left[i] = e[i]
  <2>1. \A i \in 1..at : e[i] \in Data
    BY <1>0, <1>1
  <2>2. /\ left \in Seq(Data) /\ Len(left) = (IF 1 <= at THEN at - 1 + 1 ELSE 0)
        /\ \A i \in 1..(at - 1 + 1) : left[i] = e[1 + i - 1]
    BY <1>0, <2>1, SubSeqProperties
  <2> QED
    BY <1>0, <2>2
<1>5. right \in Seq(Data) /\ Len(right) = k - at /\ \A i \in 1..(k - at) : right[i] = e[at + i]
  <2>1. \A i \in (at + 1)..k : e[i] \in Data
    BY <1>0, <1>1
  <2>2. /\ right \in Seq(Data) /\ Len(right) = (IF at + 1 <= k THEN k - (at + 1) + 1 ELSE 0)
        /\ \A i \in 1..(k - (at + 1) + 1) : right[i] = e[(at + 1) + i - 1]
    BY <1>0, <2>1, SubSeqProperties
  <2> QED
    BY <1>0, <2>2
<1> HIDE DEF left, right
<1>6. <<d>> \in Seq(Data) /\ Len(<<d>>) = 1 /\ <<d>>[1] = d
  OBVIOUS
<1> DEFINE s == left \o <<d>>
           r == s \o right
<1>7. s \in Seq(Data) /\ Len(s) = at + 1 /\ \A i \in 1..(at + 1) : s[i] = IF i <= at THEN e[i] ELSE d
  <2>1. /\ s \in Seq(Data) /\ Len(s) = Len(left) + Len(<<d>>)
        /\ \A i \in 1..(Len(left) + Len(<<d>>)) : s[i] = IF i <= Len(left) THEN left[i] ELSE <<d>>[i - Len(left)]
    BY <1>4, <1>6, ConcatProperties
  <2>2. ASSUME NEW i \in 1..(at + 1)
        PROVE  s[i] = IF i <= at THEN e[i] ELSE d
    <3>1. s[i] = IF i <= at THEN left[i] ELSE <<d>>[i - at]
      BY <2>1, <1>4, <1>6
    <3>2. (i <= at => i \in 1..at) /\ (~(i <= at) => i - at = 1)
      BY <1>0
    <3> QED
      BY <3>1, <3>2, <1>4, <1>6
  <2> QED
    BY <2>1, <2>2, <1>4, <1>6
<1> HIDE DEF s
<1>8. r \in Seq(Data) /\ Len(r) = k + 1
      /\ \A i \in 1..(k + 1) : r[i] = IF i <= at THEN e[i] ELSE IF i = at + 1 THEN d ELSE e[i - 1]
  <2>1. /\ r \in Seq(Data) /\ Len(r) = Len(s) + Len(right)
        /\ \A i \in 1..(Len(s) + Len(right)) : r[i] = IF i <= Len(s) THEN s[i] ELSE right[i - Len(s)]
    BY <1>5, <1>7, ConcatProperties
  <2>2. Len(s) + Len(right) = k + 1
    BY <1>0, <1>5, <1>7
  <2>3. ASSUME NEW i \in 1..(k + 1)
        PROVE  r[i] = IF i <= at THEN e[i] ELSE IF i = at + 1 THEN d ELSE e[i - 1]
    <3>1. r[i] = IF i <= at + 1 THEN s[i] ELSE right[i - (at + 1)]
      BY <2>1, <2>2, <1>7
    <3>2. /\ i <= at + 1 => i \in 1..(at + 1)
          /\ ~(i <= at + 1) => i - (at + 1) \in 1..(k - at) /\ at + (i - (at + 1)) = i - 1
      BY <1>0
    <3> QED
      BY <3>1, <3>2, <1>0, <1>5, <1>7
  <2> QED
    BY <2>1, <2>2, <2>3
<1> HIDE DEF r
<1>9. \A i \in 1..(k + 1) : e2[i] = r[i]
  <2> SUFFICES ASSUME NEW i \in 1..(k + 1)
               PROVE  e2[i] = r[i]
    OBVIOUS
  <2>1. i - 1 \in 0..k /\ e2[i] = it2[c2[i - 1]].data
    BY <1>0, <1>2
  <2>2. CASE i <= at
    <3>1. i - 1 < at /\ i - 1 \in 0..(k - 1) /\ i \in 1..k
      BY <2>2, <1>0
    <3> QED
      BY <2>1, <2>2, <3>1, <1>1, <1>3, <1>8
  <2>3. CASE i = at + 1
    BY <2>1, <2>3, <1>0, <1>3, <1>8
  <2>4. CASE i > at + 1
    <3>1. ~(i - 1 < at) /\ i - 1 # at /\ (i - 1) - 1 \in 0..(k - 1) /\ i - 1 \in 1..k /\ ~(i <= at) /\ i # at + 1
      BY <2>4, <1>0
    <3>2. e2[i] = it[c[(i - 1) - 1]].data
      BY <2>1, <3>1, <1>3
    <3> QED
      BY <3>1, <3>2, <1>1, <1>8
  <2> QED
    BY <2>2, <2>3, <2>4, <1>0
<1>10. e2 = r
  BY <1>2, <1>8, <1>9, SeqEqual
<1> QED
  <2>1. InsertAt(e, at + 1, d) = SubSeq(e, 1, (at + 1) - 1) \o <<d>> \o SubSeq(e, at + 1, Len(e))
    BY DEF InsertAt
  <2>2. (at + 1) - 1 = at
    BY <1>0
  <2>3. InsertAt(e, at + 1, d) = r
    BY <2>1, <2>2, <1>1 DEF r, s, left, right
  <2> QED
    BY <2>3, <1>10 DEF e, e2, c2, it2

LEMMA RemovedElements ==
  ASSUME NEW c, NEW k, NEW h, NEW t, NEW it, Chain(c, k, h, t, it), NEW at \in 0..(k - 1)
  PROVE  ElementsOf(Dropped(c, k, at), k - 1, Unlinked(it, c, k, at)) = RemoveAt(ElementsOf(c, k, it), at + 1)
<1> DEFINE e == ElementsOf(c, k, it)
           c2 == Dropped(c, k, at)
           it2 == Unlinked(it, c, k, at)
           e2 == ElementsOf(c2, k - 1, it2)
           left == SubSeq(e, 1, at)
           right == SubSeq(e, at + 2, k)
<1>0. k \in Nat /\ at \in Nat /\ at < k
  BY DEF Chain
<1>1. /\ e \in Seq(Data) /\ Len(e) = k
      /\ \A i \in 1..k : e[i] = it[c[i - 1]].data /\ e[i] \in Data
  BY ElementsType, ElementOfSeq
<1>2. /\ e2 \in Seq(Data) /\ Len(e2) = k - 1
      /\ \A i \in 1..(k - 1) : e2[i] = it2[c2[i - 1]].data
  <2>1. Chain(c2, k - 1, IF at = 0 THEN After(c, k, at) ELSE h, IF at = k - 1 THEN Before(c, at) ELSE t, it2)
    BY RemovedChain
  <2> HIDE DEF c2, it2
  <2> QED
    BY <2>1, ElementsType
<1>3. /\ \A i \in 0..(k - 1) : i # at => it2[c[i]].data = it[c[i]].data
      /\ \A i \in 0..(k - 2) : c2[i] = IF i < at THEN c[i] ELSE c[i + 1]
  BY UnlinkedData DEF Dropped
<1> HIDE DEF e, c2, it2, e2
<1>4. left \in Seq(Data) /\ Len(left) = at /\ \A i \in 1..at : left[i] = e[i]
  <2>1. \A i \in 1..at : e[i] \in Data
    BY <1>0, <1>1
  <2>2. /\ left \in Seq(Data) /\ Len(left) = (IF 1 <= at THEN at - 1 + 1 ELSE 0)
        /\ \A i \in 1..(at - 1 + 1) : left[i] = e[1 + i - 1]
    BY <1>0, <2>1, SubSeqProperties
  <2> QED
    BY <1>0, <2>2
<1>5. right \in Seq(Data) /\ Len(right) = k - 1 - at /\ \A i \in 1..(k - 1 - at) : right[i] = e[at + 1 + i]
  <2>1. \A i \in (at + 2)..k : e[i] \in Data
    BY <1>0, <1>1
  <2>2. /\ right \in Seq(Data) /\ Len(right) = (IF at + 2 <= k THEN k - (at + 2) + 1 ELSE 0)
        /\ \A i \in 1..(k - (at + 2) + 1) : right[i] = e[(at + 2) + i - 1]
    BY <1>0, <2>1, SubSeqProperties
  <2> QED
    BY <1>0, <2>2
<1> HIDE DEF left, right
<1> DEFINE r == left \o right
<1>6. r \in Seq(Data) /\ Len(r) = k - 1 /\ \A i \in 1..(k - 1) : r[i] = IF i <= at THEN e[i] ELSE e[i + 1]
  <2>1. /\ r \in Seq(Data) /\ Len(r) = Len(left) + Len(right)
        /\ \A i \in 1..(Len(left) + Len(right)) : r[i] = IF i <= Len(left) THEN left[i] ELSE right[i - Len(left)]
    BY <1>4, <1>5, ConcatProperties
  <2>2. Len(left) + Len(right) = k - 1
    BY <1>0, <1>4, <1>5
  <2>3. ASSUME NEW i \in 1..(k - 1)
        PROVE  r[i] = IF i <= at THEN e[i] ELSE e[i + 1]
    <3>1. r[i] = IF i <= at THEN left[i] ELSE right[i - at]
      BY <2>1, <2>2, <1>4
    <3>2. (i <= at => i \in 1..at) /\ (~(i <= at) => i - at \in 1..(k - 1 - at) /\ at + 1 + (i - at) = i + 1)
      BY <1>0
    <3> QED
      BY <3>1, <3>2, <1>4, <1>5
  <2> QED
    BY <2>1, <2>2, <2>3
<1> HIDE DEF r
<1>7. \A i \in 1..(k - 1) : e2[i] = r[i]
  <2> SUFFICES ASSUME NEW i \in 1..(k - 1)
               PROVE  e2[i] = r[i]
    OBVIOUS
  <2>1. i - 1 \in 0..(k - 2) /\ e2[i] = it2[c2[i - 1]].data
    BY <1>0, <1>2
  <2>2. CASE i <= at
    <3>1. i - 1 < at /\ i - 1 \in 0..(k - 1) /\ i - 1 # at /\ i \in 1..k
      BY <2>2, <1>0
    <3> QED
      BY <2>1, <2>2, <3>1, <1>1, <1>3, <1>6
  <2>3. CASE ~(i <= at)
    <3>1. ~(i - 1 < at) /\ (i - 1) + 1 = i /\ i \in 0..(k - 1) /\ i # at /\ i + 1 \in 1..k /\ (i + 1) - 1 = i
      BY <2>3, <1>0
    <3>2. e2[i] = it[c[i]].data
      BY <2>1, <3>1, <1>3
    <3> QED
      BY <2>3, <3>1, <3>2, <1>1, <1>6
  <2> QED
    BY <2>2, <2>3
<1>8. e2 = r
  BY <1>2, <1>6, <1>7, SeqEqual
<1> QED
  <2>1. RemoveAt(e, at + 1) = SubSeq(e, 1, (at + 1) - 1) \o SubSeq(e, (at + 1) + 1, Len(e))
    BY DEF RemoveAt
  <2>2. (at + 1) - 1 = at /\ (at + 1) + 1 = at + 2
    BY <1>0
  <2>3. RemoveAt(e, at + 1) = r
    BY <2>1, <2>2, <1>1 DEF r, left, right
  <2> QED
    BY <2>3, <1>8 DEF e, e2, c2, it2

-----------------------------------------------------------------------------
(***************************************************************************)
(* The list is a chain.                                                   *)
(***************************************************************************)
ListInv == \E c : Chain(c, size, head, tail, item)

LEMMA ElementsIs ==
  \A c : Chain(c, size, head, tail, item) => Elements = ElementsOf(c, size, item)
<1> SUFFICES ASSUME NEW c, Chain(c, size, head, tail, item)
             PROVE  Elements = ElementsOf(c, size, item)
  OBVIOUS
<1>1. size \in Nat /\ \A i \in 0..(size - 1) : NodeAt[i] = c[i]
  BY NodeAtIs DEF Chain
<1>2. \A i \in 1..size : i - 1 \in 0..(size - 1)
  BY <1>1
<1>3. \A i \in 1..size : item[NodeAt[i - 1]].data = item[c[i - 1]].data
  BY <1>1, <1>2
<1> QED
  BY <1>3 DEF Elements, DataAt, ElementsOf

LEMMA ElementsIsThen ==
  \A c : Chain(c, size', head', tail', item') => Elements' = ElementsOf(c, size', item')
<1> SUFFICES ASSUME NEW c, NEW k, k = size', Chain(c, k, head', tail', item')
             PROVE  Elements' = ElementsOf(c, k, item')
  OBVIOUS
<1>1. k \in Nat /\ \A i \in 0..(k - 1) : NodeAt'[i] = c[i]
  <2>1. k \in Nat
    BY DEF Chain
  <2> QED
    BY <2>1, NodeAtIsThen
<1>2. \A i \in 1..k : i - 1 \in 0..(k - 1)
  BY <1>1
<1>3. \A i \in 1..k : item'[NodeAt'[i - 1]].data = item'[c[i - 1]].data
  BY <1>1, <1>2
<1>4. Elements' = [i \in 1..k |-> item'[NodeAt'[i - 1]].data]
  BY DEF Elements, DataAt
<1> QED
  BY <1>3, <1>4 DEF ElementsOf

(* A chain is sound: as many blocks as are allocated, linked both ways.   *)
LEMMA ChainCounts ==
  ASSUME NEW c, NEW k, NEW h, NEW t, NEW it, Chain(c, k, h, t, it)
  PROVE  k = Cardinality({n \in Nodes : it[n] # Nil})
<1> DEFINE S == {n \in Nodes : it[n] # Nil}
           f == [i \in 1..k |-> c[i - 1]]
<1>0. k \in Nat
  BY DEF Chain
<1>1. \A i \in 1..k : i - 1 \in 0..(k - 1) /\ f[i] = c[i - 1] /\ f[i] \in S
  <2> SUFFICES ASSUME NEW i \in 1..k
               PROVE  i - 1 \in 0..(k - 1) /\ f[i] = c[i - 1] /\ f[i] \in S
    OBVIOUS
  <2>1. i - 1 \in 0..(k - 1)
    BY <1>0
  <2> QED
    BY <2>1 DEF Chain
<1>2. \A n \in S : \E i \in 1..k : f[i] = n
  <2> SUFFICES ASSUME NEW n \in S
               PROVE  \E i \in 1..k : f[i] = n
    OBVIOUS
  <2>1. PICK j \in 0..(k - 1) : c[j] = n
    BY DEF Chain
  <2>2. j + 1 \in 1..k /\ (j + 1) - 1 = j
    BY <1>0
  <2> QED
    BY <2>1, <2>2
<1>3. \A i, j \in 1..k : f[i] = f[j] => i = j
  <2> SUFFICES ASSUME NEW i \in 1..k, NEW j \in 1..k, f[i] = f[j]
               PROVE  i = j
    OBVIOUS
  <2>1. i - 1 = j - 1
    BY <1>1 DEF Chain
  <2> QED
    BY <2>1
<1>4. f \in Bijection(1..k, S)
  <2>1. f \in [1..k -> S]
    BY <1>1
  <2> HIDE DEF f, S
  <2> QED
    BY <2>1, <1>2, <1>3 DEF Bijection, Injection, Surjection, IsInjective
<1> HIDE DEF f, S
<1>5. ExistsBijection(1..k, S)
  BY <1>4 DEF ExistsBijection
<1> QED
  BY <1>0, <1>5, FS_CountingElements DEF S

LEMMA ChainLinks ==
  ASSUME NEW c, NEW k, NEW h, NEW t, NEW it, Chain(c, k, h, t, it),
         NEW f, \A i \in 0..(k - 1) : f[i] = c[i]
  PROVE  /\ k = 0 => h = Nil /\ t = Nil
         /\ k > 0 => /\ f[k - 1] = t /\ it[h].prev = Nil /\ it[t].next = Nil
                     /\ \A i \in 1..(k - 1) : it[f[i]].prev = f[i - 1]
<1>0. k \in Nat
  BY DEF Chain
<1>1. k = 0 => h = Nil /\ t = Nil
  BY DEF Chain
<1>2. ASSUME k > 0
      PROVE  f[k - 1] = t /\ it[h].prev = Nil /\ it[t].next = Nil
  <2>1. 0 \in 0..(k - 1) /\ k - 1 \in 0..(k - 1) /\ k # 0
    BY <1>0, <1>2
  <2> QED
    BY <2>1 DEF Chain
<1>3. ASSUME NEW i \in 1..(k - 1)
      PROVE  it[f[i]].prev = f[i - 1]
  <2>1. i \in 0..(k - 1) /\ i - 1 \in 0..(k - 1) /\ i # 0
    BY <1>0
  <2> QED
    BY <2>1 DEF Chain
<1> QED
  BY <1>1, <1>2, <1>3

LEMMA ChainSoundThen ==
  \A c : Chain(c, size', head', tail', item') => ChainSound'
<1> SUFFICES ASSUME NEW c, NEW k, k = size', Chain(c, k, head', tail', item')
             PROVE  ChainSound'
  OBVIOUS
<1>1. \A i \in 0..(k - 1) : NodeAt'[i] = c[i]
  BY NodeAtIsThen
<1>2. /\ k = 0 => head' = Nil /\ tail' = Nil
      /\ k > 0 => /\ NodeAt'[k - 1] = tail' /\ item'[head'].prev = Nil /\ item'[tail'].next = Nil
                  /\ \A i \in 1..(k - 1) : item'[NodeAt'[i]].prev = NodeAt'[i - 1]
  BY <1>1, ChainLinks
<1>3. k = Cardinality((Nodes \ Fresh)')
  <2>1. (Nodes \ Fresh)' = {n \in Nodes : item'[n] # Nil}
    BY DEF Fresh
  <2> QED
    BY <2>1, ChainCounts
<1> QED
  BY <1>2, <1>3 DEF ChainSound

(* What the operations leave as it is.                                      *)
LEMMA SameChain ==
  ASSUME UNCHANGED chain
  PROVE  /\ \A c : Chain(c, size, head, tail, item) => Chain(c, size', head', tail', item')
         /\ ListInv => Elements' = Elements
<1>1. \A c : Chain(c, size, head, tail, item) => Chain(c, size', head', tail', item')
  BY DEF chain
<1>2. ASSUME NEW c, Chain(c, size, head, tail, item)
      PROVE  Elements' = Elements
  <2>1. Elements = ElementsOf(c, size, item)
    BY <1>2, ElementsIs
  <2>2. Elements' = ElementsOf(c, size', item')
    BY <1>1, <1>2, ElementsIsThen
  <2> QED
    BY <2>1, <2>2 DEF chain
<1> QED
  BY <1>1, <1>2 DEF ListInv

-----------------------------------------------------------------------------
(***************************************************************************)
(* The operations.                                                         *)
(***************************************************************************)
Slot(place) == IF place < size THEN place ELSE size

(* However a block is added, it is linked at its place.                     *)
LEMMA AddLinks ==
  ASSUME NEW c, Chain(c, size, head, tail, item), NEW n \in Nodes, item[n] = Nil,
         NEW d \in Data, NEW place \in Nat,
         \/ AddFirst(n, d)
         \/ size > 0 /\ place = 0 /\ AddHead(n, d)
         \/ size > 0 /\ place > 0 /\ place >= size /\ AddTail(n, d)
         \/ place > 0 /\ place < size /\ AddBefore(n, d, NodeAt[place])
  PROVE  /\ Slot(place) \in 0..size
         /\ item' = Linked(item, c, size, Slot(place), n, d)
         /\ head' = IF Slot(place) = 0 THEN n ELSE head
         /\ tail' = IF Slot(place) = size THEN n ELSE tail
<1>1. /\ size \in Nat /\ item \in [Nodes -> Blocks \cup {Nil}]
      /\ \A i \in 0..(size - 1) : c[i] \in Nodes /\ c[i] # n /\ item[c[i]] \in Blocks
      /\ \A i, j \in 0..(size - 1) : c[i] = c[j] => i = j
      /\ size > 0 => head = c[0] /\ tail = c[size - 1]
  <2>1. /\ size \in Nat /\ item \in [Nodes -> Blocks \cup {Nil}]
        /\ \A i \in 0..(size - 1) : c[i] \in Nodes /\ item[c[i]] # Nil
        /\ \A i, j \in 0..(size - 1) : c[i] = c[j] => i = j
    BY DEF Chain
  <2>2. \A i \in 0..(size - 1) : c[i] # n /\ item[c[i]] \in Blocks
    BY <2>1
  <2>3. size > 0 => head = c[0] /\ tail = c[size - 1]
    BY <2>1 DEF Chain
  <2> QED
    BY <2>1, <2>2, <2>3
<1>2. CASE AddFirst(n, d)
  <2>1. Slot(place) = 0 /\ size = 0
    BY <1>2, <1>1 DEF AddFirst, Slot
  <2>2. item' = [item EXCEPT ![n] = Block(d, Nil, Nil)] /\ head' = n /\ tail' = n
    BY <1>2 DEF AddFirst
  <2>3. Linked(item, c, 0, 0, n, d) = [x \in Nodes |-> IF x = n THEN Block(d, Nil, Nil) ELSE item[x]]
    BY DEF Linked
  <2>4. item' = Linked(item, c, 0, 0, n, d)
    BY <2>2, <2>3, <1>1
  <2> QED
    BY <2>1, <2>2, <2>4
<1>3. CASE size > 0 /\ place = 0 /\ AddHead(n, d)
  <2>1. Slot(place) = 0 /\ 0 < size /\ 0 # size /\ 0 \in 0..(size - 1)
    BY <1>3, <1>1 DEF Slot
  <2>2. head = c[0] /\ head \in Nodes /\ head # n
    BY <2>1, <1>1
  <2>3. item' = [item EXCEPT ![n] = Block(d, head, Nil), ![head].prev = n]
    BY <1>3 DEF AddHead
  <2>4. item' = Linked(item, c, size, 0, n, d)
    <3>1. Linked(item, c, size, 0, n, d)
            = [x \in Nodes |-> IF x = n THEN Block(d, head, Nil)
                              ELSE IF x = head THEN [item[x] EXCEPT !.prev = n] ELSE item[x]]
      BY <2>1, <2>2 DEF Linked
    <3> QED
      BY <2>2, <2>3, <3>1, <1>1
  <2>5. head' = n /\ tail' = tail
    BY <1>3 DEF AddHead
  <2> QED
    BY <2>1, <2>4, <2>5, <1>1
<1>4. CASE size > 0 /\ place > 0 /\ place >= size /\ AddTail(n, d)
  <2>1. Slot(place) = size /\ size > 0 /\ size # 0 /\ ~(size < size) /\ size - 1 \in 0..(size - 1)
    BY <1>4, <1>1 DEF Slot
  <2>2. tail = c[size - 1] /\ tail \in Nodes /\ tail # n
    BY <2>1, <1>1
  <2>3. item' = [item EXCEPT ![n] = Block(d, Nil, tail), ![tail].next = n]
    BY <1>4 DEF AddTail
  <2>4. item' = Linked(item, c, size, size, n, d)
    <3>1. Linked(item, c, size, size, n, d)
            = [x \in Nodes |-> IF x = n THEN Block(d, Nil, tail)
                              ELSE IF x = tail THEN [item[x] EXCEPT !.next = n] ELSE item[x]]
      BY <2>1, <2>2 DEF Linked
    <3> QED
      BY <2>2, <2>3, <3>1, <1>1
  <2>5. tail' = n /\ head' = head
    BY <1>4 DEF AddTail
  <2> QED
    BY <2>1, <2>4, <2>5, <1>1
<1>5. CASE place > 0 /\ place < size /\ AddBefore(n, d, NodeAt[place])
  <2>1. Slot(place) = place /\ place # size /\ place # 0 /\ place \in 0..(size - 1) /\ place - 1 \in 0..(size - 1)
    BY <1>5, <1>1 DEF Slot
  <2>2. NodeAt[place] = c[place] /\ c[place] \in Nodes /\ c[place] # n
    BY <2>1, <1>1, NodeAtIs
  <2>3. item[c[place]].prev = c[place - 1] /\ c[place - 1] \in Nodes /\ c[place - 1] # n /\ c[place - 1] # c[place]
    <3>1. item[c[place]].prev = c[place - 1]
      BY <2>1 DEF Chain
    <3>2. place - 1 # place
      OBVIOUS
    <3> QED
      BY <2>1, <3>1, <3>2, <1>1
  <2>4. item' = [item EXCEPT ![n] = Block(d, c[place], c[place - 1]), ![c[place - 1]].next = n, ![c[place]].prev = n]
    BY <1>5, <2>2, <2>3 DEF AddBefore
  <2>5. item' = Linked(item, c, size, place, n, d)
    BY <1>5, <2>1, <2>2, <2>3, <2>4, <1>1 DEF Linked
  <2>6. UNCHANGED <<head, tail>>
    BY <1>5 DEF AddBefore
  <2> QED
    BY <2>1, <2>5, <2>6, <1>1
<1> QED
  BY <1>2, <1>3, <1>4, <1>5

(* However a block is deleted, its neighbours are linked.                   *)
LEMMA DelUnlinks ==
  ASSUME NEW c, Chain(c, size, head, tail, item), NEW place \in Nat, place < size, MayDel(place),
         \/ place = 0 /\ DelHead
         \/ place > 0 /\ NodeAt[place] = tail /\ DelTail(NodeAt[place])
         \/ place > 0 /\ NodeAt[place] # tail /\ DelInner(NodeAt[place])
  PROVE  /\ place \in 0..(size - 1)
         /\ item' = Unlinked(item, c, size, place)
         /\ head' = IF place = 0 THEN After(c, size, place) ELSE head
         /\ tail' = IF place = size - 1 THEN Before(c, place) ELSE tail
<1>1. /\ size \in Nat /\ item \in [Nodes -> Blocks \cup {Nil}] /\ place \in 0..(size - 1) /\ size - 1 \in 0..(size - 1)
      /\ \A i \in 0..(size - 1) : c[i] \in Nodes /\ item[c[i]] \in Blocks
      /\ \A i, j \in 0..(size - 1) : c[i] = c[j] => i = j
      /\ head = c[0] /\ tail = c[size - 1]
  BY DEF Chain
<1>2. NodeAt[place] = c[place]
  BY <1>1, NodeAtIs
<1>3. /\ item[c[place]].next = IF place = size - 1 THEN Nil ELSE c[place + 1]
      /\ item[c[place]].prev = IF place = 0 THEN Nil ELSE c[place - 1]
  BY <1>1 DEF Chain
<1>4. CASE place = 0 /\ DelHead
  <2>1. 1 \in 0..(size - 1) /\ 0 \in 0..(size - 1) /\ 0 # size - 1 /\ 0 + 1 = 1
    BY <1>4, <1>1 DEF MayDel
  <2>2. item[head].next = c[1] /\ c[1] \in Nodes /\ c[0] \in Nodes /\ c[1] # c[0] /\ head = c[0]
    BY <1>4, <2>1, <1>1, <1>3
  <2>3. item' = [item EXCEPT ![c[1]].prev = Nil, ![c[0]] = Nil] /\ head' = c[1] /\ tail' = tail
    BY <1>4, <2>2 DEF DelHead
  <2>4. item' = Unlinked(item, c, size, 0)
    <3>1. Unlinked(item, c, size, 0)
            = [x \in Nodes |-> IF x = c[0] THEN Nil
                              ELSE IF x = c[1] THEN [item[x] EXCEPT !.prev = Nil] ELSE item[x]]
      <4>1. 0 < size - 1 /\ ~(0 > 0)
        BY <2>1, <1>1
      <4> QED
        BY <2>1, <2>2, <4>1 DEF Unlinked, Before
    <3>2. item' = [x \in Nodes |-> IF x = c[0] THEN Nil
                                  ELSE IF x = c[1] THEN [item[x] EXCEPT !.prev = Nil] ELSE item[x]]
      BY <2>2, <2>3, <1>1
    <3> QED
      BY <3>1, <3>2
  <2> QED
    BY <1>1, <1>4, <2>1, <2>3, <2>4 DEF After
<1>5. CASE place > 0 /\ NodeAt[place] = tail /\ DelTail(NodeAt[place])
  <2>1. place = size - 1 /\ place # 0 /\ place - 1 \in 0..(size - 1) /\ place - 1 # place
    BY <1>5, <1>1, <1>2
  <2>2. item[c[place]].prev = c[place - 1] /\ c[place] \in Nodes /\ c[place - 1] \in Nodes /\ c[place - 1] # c[place]
    BY <2>1, <1>1, <1>3
  <2>3. item' = [item EXCEPT ![c[place - 1]].next = Nil, ![c[place]] = Nil] /\ tail' = c[place - 1] /\ head' = head
    BY <1>5, <1>2, <2>2 DEF DelTail
  <2>4. item' = Unlinked(item, c, size, place)
    <3>1. Unlinked(item, c, size, place)
            = [x \in Nodes |-> IF x = c[place] THEN Nil
                              ELSE IF x = c[place - 1] THEN [item[x] EXCEPT !.next = Nil] ELSE item[x]]
      <4>1. ~(place < size - 1) /\ place > 0
        BY <2>1, <1>1
      <4> QED
        BY <2>1, <2>2, <4>1 DEF Unlinked, After
    <3>2. item' = [x \in Nodes |-> IF x = c[place] THEN Nil
                                  ELSE IF x = c[place - 1] THEN [item[x] EXCEPT !.next = Nil] ELSE item[x]]
      BY <2>2, <2>3, <1>1
    <3> QED
      BY <3>1, <3>2
  <2> QED
    BY <1>1, <2>1, <2>3, <2>4 DEF Before
<1>6. CASE place > 0 /\ NodeAt[place] # tail /\ DelInner(NodeAt[place])
  <2>1. place # size - 1 /\ place < size - 1 /\ place # 0 /\ place - 1 \in 0..(size - 1) /\ place + 1 \in 0..(size - 1)
    BY <1>6, <1>1, <1>2
  <2>2. place - 1 # place /\ place + 1 # place /\ place - 1 # place + 1
    OBVIOUS
  <2>3. /\ item[c[place]].prev = c[place - 1] /\ item[c[place]].next = c[place + 1]
        /\ c[place] \in Nodes /\ c[place - 1] \in Nodes /\ c[place + 1] \in Nodes
        /\ c[place - 1] # c[place] /\ c[place + 1] # c[place] /\ c[place - 1] # c[place + 1]
    BY <2>1, <2>2, <1>1, <1>3
  <2>4. /\ item' = [item EXCEPT ![c[place - 1]].next = c[place + 1], ![c[place + 1]].prev = c[place - 1], ![c[place]] = Nil]
        /\ tail' = tail /\ head' = head
    BY <1>6, <1>2, <2>3 DEF DelInner
  <2>5. item' = Unlinked(item, c, size, place)
    BY <1>6, <2>1, <2>3, <2>4, <1>1 DEF Unlinked, Before, After
  <2> QED
    BY <1>1, <2>1, <2>4, <2>5
<1> QED
  BY <1>4, <1>5, <1>6

-----------------------------------------------------------------------------
(***************************************************************************)
(* What every operation does.                                              *)
(***************************************************************************)
Promised == ListInv' /\ ChainSound' /\ ElementsStep

LEMMA Kept ==
  ASSUME ListInv, UNCHANGED chain
  PROVE  ListInv' /\ ChainSound' /\ Elements' = Elements
<1>1. PICK c : Chain(c, size, head, tail, item)
  BY DEF ListInv
<1>2. Chain(c, size', head', tail', item')
  BY <1>1, SameChain
<1>3. ListInv'
  BY <1>2 DEF ListInv
<1>4. ChainSound'
  BY <1>2, ChainSoundThen
<1>5. Elements' = Elements
  BY SameChain
<1> QED
  BY <1>3, <1>4, <1>5

LEMMA AddPromised ==
  ASSUME ListInv, NEW place \in Nat, NEW d \in Data, wstk_list_add(place, d)
  PROVE  Promised
<1> USE ListAssumption
<1>1. CASE Fresh = {} /\ UNCHANGED chain /\ Answer("add", place, d, "MEM_FAIL", <<>>)
  <2>1. answer' = [op |-> "add", pos |-> place, data |-> d, val |-> "MEM_FAIL", gone |-> <<>>]
    BY <1>1 DEF Answer
  <2>2. ListInv' /\ ChainSound' /\ Elements' = Elements
    BY <1>1, Kept
  <2> QED
    BY <2>1, <2>2 DEF Promised, ElementsStep
<1>2. ASSUME NEW n \in Fresh, size' = size + 1, Answer("add", place, d, Nil, <<>>),
             \/ AddFirst(n, d)
             \/ size > 0 /\ place = 0 /\ AddHead(n, d)
             \/ size > 0 /\ place > 0 /\ place >= size /\ AddTail(n, d)
             \/ place > 0 /\ place < size /\ AddBefore(n, d, NodeAt[place])
      PROVE  Promised
  <2>1. PICK c : Chain(c, size, head, tail, item)
    BY DEF ListInv
  <2>2. n \in Nodes /\ item[n] = Nil
    BY <1>2 DEF Fresh
  <2>3. /\ Slot(place) \in 0..size
        /\ item' = Linked(item, c, size, Slot(place), n, d)
        /\ head' = IF Slot(place) = 0 THEN n ELSE head
        /\ tail' = IF Slot(place) = size THEN n ELSE tail
    BY <1>2, <2>1, <2>2, AddLinks
  <2> DEFINE c2 == Inserted(c, size, Slot(place), n)
  <2>4. Chain(c2, size', head', tail', item')
    BY <1>2, <2>1, <2>2, <2>3, InsertedChain
  <2>5. ElementsOf(c2, size', item') = InsertAt(ElementsOf(c, size, item), Slot(place) + 1, d)
    BY <1>2, <2>1, <2>2, <2>3, InsertedElements
  <2> HIDE DEF c2
  <2>6. Elements' = InsertAt(Elements, Slot(place) + 1, d)
    <3>1. Elements' = ElementsOf(c2, size', item')
      BY <2>4, ElementsIsThen
    <3>2. Elements = ElementsOf(c, size, item)
      BY <2>1, ElementsIs
    <3> QED
      BY <3>1, <3>2, <2>5
  <2>7. answer' = [op |-> "add", pos |-> place, data |-> d, val |-> Nil, gone |-> <<>>]
    BY <1>2 DEF Answer
  <2>8. ElementsStep
    BY <2>6, <2>7 DEF ElementsStep, Slot
  <2> QED
    BY <2>4, <2>8, ChainSoundThen DEF Promised, ListInv
<1>3. Fresh # {} => (CHOOSE x \in Fresh : TRUE) \in Fresh
  OBVIOUS
<1> QED
  BY <1>1, <1>2, <1>3 DEF wstk_list_add

LEMMA ElementAt ==
  \A c : Chain(c, size, head, tail, item) =>
    \A i \in 0..(size - 1) : DataAt(i) = Elements[i + 1] /\ DataAt(i) \in Data
<1> SUFFICES ASSUME NEW c, Chain(c, size, head, tail, item), NEW i \in 0..(size - 1)
             PROVE  DataAt(i) = Elements[i + 1] /\ DataAt(i) \in Data
  OBVIOUS
<1>1. i + 1 \in 1..size /\ (i + 1) - 1 = i
  BY DEF Chain
<1>2. Elements[i + 1] = DataAt(i)
  BY <1>1 DEF Elements
<1>3. NodeAt[i] = c[i]
  BY NodeAtIs
<1>4. c[i] \in Nodes /\ item[c[i]] \in Blocks
  BY DEF Chain
<1> QED
  BY <1>2, <1>3, <1>4 DEF DataAt, Blocks

LEMMA DelPromised ==
  ASSUME ListInv, NEW place \in Nat, wstk_list_del(place)
  PROVE  Promised
<1>1. PICK c : Chain(c, size, head, tail, item)
  BY DEF ListInv
<1>2. size \in Nat
  BY <1>1 DEF Chain
<1>3. CASE place >= size /\ UNCHANGED chain /\ Answer("del", place, Nil, Nil, <<>>)
  <2>1. answer' = [op |-> "del", pos |-> place, data |-> Nil, val |-> Nil, gone |-> <<>>]
    BY <1>3 DEF Answer
  <2>2. ListInv' /\ ChainSound' /\ Elements' = Elements
    BY <1>3, Kept
  <2>3. ~(place < size)
    BY <1>2, <1>3
  <2> QED
    BY <2>1, <2>2, <2>3 DEF Promised, ElementsStep
<1>4. CASE /\ place < size /\ MayDel(place) /\ size' = size - 1
           /\ \/ place = 0 /\ DelHead
              \/ place > 0 /\ NodeAt[place] = tail /\ DelTail(NodeAt[place])
              \/ place > 0 /\ NodeAt[place] # tail /\ DelInner(NodeAt[place])
           /\ Answer("del", place, Nil, Handed(DataAt(place)), Gone(DataAt(place)))
  <2>1. /\ place \in 0..(size - 1)
        /\ item' = Unlinked(item, c, size, place)
        /\ head' = IF place = 0 THEN After(c, size, place) ELSE head
        /\ tail' = IF place = size - 1 THEN Before(c, place) ELSE tail
    BY <1>1, <1>4, DelUnlinks
  <2> DEFINE c2 == Dropped(c, size, place)
  <2>2. Chain(c2, size', head', tail', item')
    BY <1>1, <1>4, <2>1, RemovedChain
  <2>3. ElementsOf(c2, size', item') = RemoveAt(ElementsOf(c, size, item), place + 1)
    BY <1>1, <1>4, <2>1, RemovedElements
  <2> HIDE DEF c2
  <2>4. Elements' = RemoveAt(Elements, place + 1)
    <3>1. Elements' = ElementsOf(c2, size', item')
      BY <2>2, ElementsIsThen
    <3>2. Elements = ElementsOf(c, size, item)
      BY <1>1, ElementsIs
    <3> QED
      BY <3>1, <3>2, <2>3
  <2>5. answer' = [op |-> "del", pos |-> place, data |-> Nil, val |-> Handed(DataAt(place)), gone |-> Gone(DataAt(place))]
    BY <1>4 DEF Answer
  <2>6. DataAt(place) = Elements[place + 1]
    BY <1>1, <2>1, ElementAt
  <2>7. ElementsStep
    BY <1>4, <2>4, <2>5, <2>6 DEF ElementsStep, Handed, Gone
  <2> QED
    BY <2>2, <2>7, ChainSoundThen DEF Promised, ListInv
<1> QED
  BY <1>3, <1>4 DEF wstk_list_del

LEMMA GetPromised ==
  ASSUME ListInv, NEW place \in Nat, wstk_list_get(place)
  PROVE  Promised
<1>1. PICK c : Chain(c, size, head, tail, item)
  BY DEF ListInv
<1>2. answer' = [op |-> "get", pos |-> place, data |-> Nil, val |-> IF place < size THEN DataAt(place) ELSE Nil, gone |-> <<>>]
  BY DEF wstk_list_get, Answer
<1>3. place < size => DataAt(place) = Elements[place + 1]
  <2>1. place < size => place \in 0..(size - 1)
    BY <1>1 DEF Chain
  <2> QED
    BY <1>1, <2>1, ElementAt
<1>4. ListInv' /\ ChainSound' /\ Elements' = Elements
  BY Kept DEF wstk_list_get
<1> QED
  BY <1>2, <1>3, <1>4 DEF Promised, ElementsStep

LEMMA FindPromised ==
  ASSUME ListInv, NEW d \in Data, wstk_list_find(d)
  PROVE  Promised
<1> DEFINE at == {i \in 0..(size - 1) : DataAt(i) = d}
           least == CHOOSE i \in at : \A j \in at : i <= j
           place == IF at = {} THEN 0 ELSE least
<1>1. PICK c : Chain(c, size, head, tail, item)
  BY DEF ListInv
<1>2. size \in Nat
  BY <1>1 DEF Chain
<1>3. answer' = [op |-> "find", pos |-> place, data |-> d, val |-> at # {}, gone |-> <<>>]
  BY DEF wstk_list_find, Answer
<1>4. ListInv' /\ ChainSound' /\ Elements' = Elements
  BY Kept DEF wstk_list_find
<1>5. /\ Elements \in Seq(Data) /\ Len(Elements) = size /\ DOMAIN Elements = 1..size
      /\ \A i \in 0..(size - 1) : Elements[i + 1] = DataAt(i)
  BY <1>1, ElementsIs, ElementsType, ElementAt
<1>6. at # {} <=> d \in ToSet(Elements)
  <2>1. \A i \in 1..size : i - 1 \in 0..(size - 1) /\ (i - 1) + 1 = i
    BY <1>2
  <2>2. \A i \in 0..(size - 1) : i + 1 \in 1..size
    BY <1>2
  <2> QED
    BY <2>1, <2>2, <1>5 DEF ToSet
<1>7. ASSUME at # {}
      PROVE  Elements[place + 1] = d /\ d \notin ToSet(SubSeq(Elements, 1, place))
  <2>1. \E i \in at : \A j \in at : i <= j
    <3>1. at \subseteq Nat
      BY <1>2
    <3> HIDE DEF at
    <3> QED
      BY <3>1, <1>7, LeastMember
  <2>2. least \in at /\ \A j \in at : least <= j
    BY <2>1
  <2>3. place = least
    BY <1>7
  <2> HIDE DEF least, place
  <2>4. place \in 0..(size - 1) /\ DataAt(place) = d /\ \A j \in 0..(size - 1) : DataAt(j) = d => place <= j
    BY <2>2, <2>3
  <2> DEFINE u == SubSeq(Elements, 1, place)
  <2>5. u \in Seq(Data) /\ Len(u) = place /\ DOMAIN u = 1..place /\ \A i \in 1..place : u[i] = Elements[i]
    <3>1. place \in Int /\ \A i \in 1..place : i \in 1..size
      BY <2>4, <1>2
    <3>2. \A i \in 1..place : Elements[i] \in Data
      BY <3>1, <1>5, ElementOfSeq
    <3>3. /\ u \in Seq(Data) /\ Len(u) = (IF 1 <= place THEN place - 1 + 1 ELSE 0)
          /\ \A i \in 1..(place - 1 + 1) : u[i] = Elements[1 + i - 1]
      BY <3>1, <3>2, SubSeqProperties
    <3>4. Len(u) = place /\ \A i \in 1..place : u[i] = Elements[i]
      BY <3>3, <2>4
    <3> QED
      BY <3>3, <3>4, LenProperties
  <2> HIDE DEF u
  <2>6. ASSUME NEW i \in 1..place
        PROVE  u[i] # d
    <3>1. i - 1 \in 0..(size - 1) /\ (i - 1) + 1 = i /\ ~(place <= i - 1)
      BY <2>4, <1>2
    <3> QED
      BY <3>1, <2>4, <2>5, <1>5
  <2>7. d \notin ToSet(u)
    BY <2>5, <2>6 DEF ToSet
  <2> QED
    BY <2>4, <2>7, <1>5 DEF u
<1> HIDE DEF place, at
<1>8. answer'.op = "find" /\ answer'.data = d /\ answer'.pos = place /\ answer'.val = (at # {})
  BY <1>3
<1>9. /\ answer'.val = (answer'.data \in ToSet(Elements))
      /\ answer'.val => Elements[answer'.pos + 1] = answer'.data
                       /\ answer'.data \notin ToSet(SubSeq(Elements, 1, answer'.pos))
  <2>1. answer'.val = (d \in ToSet(Elements))
    <3>1. (at # {}) = (d \in ToSet(Elements))
      BY <1>6
    <3> QED
      BY <3>1, <1>8
  <2>2. ASSUME answer'.val
        PROVE  Elements[place + 1] = d /\ d \notin ToSet(SubSeq(Elements, 1, place))
    <3>1. d \in ToSet(Elements)
      BY <2>1, <2>2
    <3> QED
      BY <3>1, <1>6, <1>7
  <2> QED
    BY <2>1, <2>2, <1>8
<1>10. ElementsStep
  BY <1>4, <1>8, <1>9 DEF ElementsStep
<1> QED
  BY <1>4, <1>10 DEF Promised

LEMMA ClearPromised ==
  ASSUME ListInv, wstk_list_clear
  PROVE  Promised
<1> USE ListAssumption
<1>1. PICK c : Chain(c, size, head, tail, item)
  BY DEF ListInv
<1>2. item' = [n \in Nodes |-> Nil]
  <2>1. ASSUME NEW n \in Nodes
        PROVE  (IF \E i \in 0..(size - 1) : NodeAt[i] = n THEN Nil ELSE item[n]) = Nil
    <3>1. item[n] # Nil => \E i \in 0..(size - 1) : c[i] = n
      BY <1>1 DEF Chain
    <3>2. \A i \in 0..(size - 1) : NodeAt[i] = c[i]
      BY <1>1, NodeAtIs
    <3> QED
      BY <3>1, <3>2
  <2> QED
    BY <2>1 DEF wstk_list_clear
<1>3. head' = Nil /\ tail' = Nil /\ size' = 0
  BY DEF wstk_list_clear
<1> DEFINE c2 == [i \in 0..(0 - 1) |-> Nil]
<1>4. Chain(c2, size', head', tail', item')
  <2>1. 0..(0 - 1) = {}
    OBVIOUS
  <2>2. Chain(c2, 0, Nil, Nil, [n \in Nodes |-> Nil])
    BY <2>1 DEF Chain
  <2> QED
    BY <2>2, <1>2, <1>3
<1> HIDE DEF c2
<1>5. Elements' = <<>>
  <2>1. Elements' = ElementsOf(c2, size', item')
    BY <1>4, ElementsIsThen
  <2>2. Elements' \in Seq(Data) /\ Len(Elements') = 0
    BY <2>1, <1>3, <1>4, ElementsType
  <2> QED
    BY <2>2, EmptySeq
<1>6. answer' = [op |-> "clear", pos |-> 0, data |-> Nil, val |-> Nil, gone |-> AllGone(Elements)]
  BY DEF wstk_list_clear, Answer, Elements
<1>7. ElementsStep
  BY <1>5, <1>6 DEF ElementsStep
<1> QED
  BY <1>4, <1>7, ChainSoundThen DEF Promised, ListInv

LEMMA NextPromised ==
  ASSUME ListInv, ListNext
  PROVE  Promised
<1>1. \A place \in 0..Cardinality(Nodes) : place \in Nat
  OBVIOUS
<1> QED
  BY <1>1, AddPromised, DelPromised, GetPromised, FindPromised, ClearPromised DEF ListNext

(* The list is a sequence, whatever the data and however much memory there  *)
(* is (wstk-list.c:94).                                                     *)
THEOREM ListHoldsSequence == ListSpec => ListIsSequence
<1>1. ListInit => ListInv
  <2> SUFFICES ASSUME ListInit
               PROVE  ListInv
    OBVIOUS
  <2>1. 0..(0 - 1) = {}
    OBVIOUS
  <2>2. Chain([i \in 0..(0 - 1) |-> Nil], 0, Nil, Nil, [n \in Nodes |-> Nil])
    BY <2>1, ListAssumption DEF Chain
  <2> QED
    BY <2>2 DEF ListInit, ListInv
<1>2. ListInv /\ [ListNext]_listVars => ListInv'
  <2>1. ListInv /\ UNCHANGED listVars => ListInv'
    BY Kept DEF listVars
  <2> QED
    BY <2>1, NextPromised DEF Promised
<1>3. ListInv /\ [ListNext]_listVars => [listVars' # listVars => ChainSound' /\ ElementsStep]_listVars
  BY NextPromised DEF Promised
<1> QED
  BY <1>1, <1>2, <1>3, PTL DEF ListSpec, ListIsSequence

-----------------------------------------------------------------------------
(***************************************************************************)
(* Sequences of entries.                                                   *)
(***************************************************************************)
(* no two entries of one key                                                *)
Once(s) == \A i, j \in 1..Len(s) : s[i].key = s[j].key => i = j
Keyed(s, k) == \E i \in 1..Len(s) : s[i].key = k

LEMMA ChainIs ==
  ASSUME NEW s \in Seq(Entries)
  PROVE  /\ Len(s) \in Nat /\ DOMAIN s = 1..Len(s)
         /\ \A i \in 1..Len(s) : s[i] \in Entries /\ s[i].key \in Keys /\ s[i].val \in Vals
         /\ \A e : e \in ToSet(s) <=> \E i \in 1..Len(s) : s[i] = e
<1>1. Len(s) \in Nat /\ DOMAIN s = 1..Len(s)
  BY LenProperties
<1>2. \A i \in 1..Len(s) : s[i] \in Entries
  BY ElementOfSeq
<1> QED
  BY <1>1, <1>2 DEF Entries, ToSet

LEMMA EmptyIs ==
  /\ <<>> \in Seq(Entries) /\ Len(<<>>) = 0 /\ Once(<<>>) /\ ToSet(<<>>) = {}
<1>1. <<>> \in Seq(Entries) /\ Len(<<>>) = 0
  BY EmptySeq
<1>2. 1..0 = {}
  OBVIOUS
<1> QED
  BY <1>1, <1>2, ChainIs DEF Once

LEMMA JoinIs ==
  ASSUME NEW s \in Seq(Entries), NEW u \in Seq(Entries)
  PROVE  /\ s \o u \in Seq(Entries) /\ Len(s \o u) = Len(s) + Len(u)
         /\ \A i \in 1..Len(s) : (s \o u)[i] = s[i]
         /\ \A i \in 1..Len(u) : (s \o u)[Len(s) + i] = u[i]
         /\ ToSet(s \o u) = ToSet(s) \cup ToSet(u)
         /\ Once(s) /\ Once(u) /\ (\A e \in ToSet(s), f \in ToSet(u) : e.key # f.key) => Once(s \o u)
<1> DEFINE r == s \o u
           m == Len(s)
           n == Len(u)
<1>0. m \in Nat /\ n \in Nat
  BY ChainIs
<1>1. r \in Seq(Entries) /\ Len(r) = m + n
  BY ConcatProperties
<1>2. \A i \in 1..(m + n) : r[i] = IF i <= m THEN s[i] ELSE u[i - m]
  BY ConcatProperties
<1> HIDE DEF r
<1>3. \A i \in 1..m : r[i] = s[i]
  BY <1>0, <1>2
<1>4. ASSUME NEW i \in 1..n
      PROVE  r[m + i] = u[i]
  <2>1. m + i \in 1..(m + n) /\ ~(m + i <= m) /\ (m + i) - m = i
    BY <1>0
  <2> HIDE DEF m, n
  <2> QED
    BY <2>1, <1>2
<1>5. \A i \in 1..(m + n) : i \in 1..m \/ (i - m \in 1..n /\ m + (i - m) = i)
  BY <1>0
<1>6. (\A i \in 1..m : i \in 1..(m + n)) /\ (\A i \in 1..n : m + i \in 1..(m + n))
  BY <1>0
<1>7. ToSet(r) = ToSet(s) \cup ToSet(u)
  <2>1. ASSUME NEW e \in ToSet(r)
        PROVE  e \in ToSet(s) \/ e \in ToSet(u)
    <3>1. PICK i \in 1..(m + n) : r[i] = e
      BY <1>1, ChainIs
    <3>2. (i \in 1..m /\ s[i] = e) \/ (i - m \in 1..n /\ u[i - m] = e)
      BY <3>1, <1>3, <1>4, <1>5
    <3> QED
      BY <3>2, ChainIs
  <2>2. ASSUME NEW e \in ToSet(s)
        PROVE  e \in ToSet(r)
    BY <1>1, <1>3, <1>6, ChainIs
  <2>3. ASSUME NEW e \in ToSet(u)
        PROVE  e \in ToSet(r)
    BY <1>1, <1>4, <1>6, ChainIs
  <2> QED
    BY <2>1, <2>2, <2>3
<1>8. ASSUME Once(s), Once(u), \A e \in ToSet(s), f \in ToSet(u) : e.key # f.key
      PROVE  Once(r)
  <2>1. \A i \in 1..m, j \in 1..n : s[i].key # u[j].key
    BY <1>8, ChainIs
  <2> SUFFICES ASSUME NEW i \in 1..(m + n), NEW j \in 1..(m + n), r[i].key = r[j].key
               PROVE  i = j
    BY <1>1 DEF Once
  <2>2. CASE i \in 1..m /\ j \in 1..m
    BY <2>2, <1>3, <1>8 DEF Once
  <2>3. CASE i \in 1..m /\ j - m \in 1..n /\ m + (j - m) = j
    <3>1. r[i] = s[i] /\ r[j] = u[j - m]
      BY <2>3, <1>3, <1>4
    <3> QED
      BY <2>1, <2>3, <3>1
  <2>4. CASE j \in 1..m /\ i - m \in 1..n /\ m + (i - m) = i
    <3>1. r[j] = s[j] /\ r[i] = u[i - m]
      BY <2>4, <1>3, <1>4
    <3> QED
      BY <2>1, <2>4, <3>1
  <2>5. CASE i - m \in 1..n /\ m + (i - m) = i /\ j - m \in 1..n /\ m + (j - m) = j
    <3>1. u[i - m].key = u[j - m].key
      BY <2>5, <1>4
    <3>2. i - m = j - m
      BY <2>5, <3>1, <1>8 DEF Once
    <3> QED
      BY <2>5, <3>2
  <2> QED
    BY <2>2, <2>3, <2>4, <2>5, <1>5
<1> QED
  BY <1>1, <1>3, <1>4, <1>7, <1>8 DEF r

LEMMA JoinedIs ==
  ASSUME NEW s \in Seq(Entries), NEW u \in Seq(Entries), NEW r, r = s \o u
  PROVE  /\ r \in Seq(Entries) /\ Len(r) = Len(s) + Len(u)
         /\ \A i \in 1..Len(s) : r[i] = s[i]
         /\ \A i \in 1..Len(u) : r[Len(s) + i] = u[i]
BY JoinIs

LEMMA OneIs ==
  ASSUME NEW e \in Entries
  PROVE  <<e>> \in Seq(Entries) /\ Len(<<e>>) = 1 /\ <<e>>[1] = e /\ ToSet(<<e>>) = {e} /\ Once(<<e>>)
<1>1. <<e>> \in Seq(Entries) /\ Len(<<e>>) = 1 /\ <<e>>[1] = e
  OBVIOUS
<1>2. 1..1 = {1}
  OBVIOUS
<1> DEFINE s == <<e>>
<1> HIDE DEF s
<1>3. \A f : f \in ToSet(s) <=> \E i \in 1..1 : s[i] = f
  <2>1. s \in Seq(Entries) /\ Len(s) = 1
    BY <1>1 DEF s
  <2> QED
    BY <2>1, ChainIs
<1>4. ToSet(s) = {e} /\ Once(s)
  BY <1>1, <1>2, <1>3 DEF Once, s
<1> QED
  BY <1>1, <1>4 DEF s

LEMMA ReverseIs ==
  ASSUME NEW s \in Seq(Entries)
  PROVE  /\ Reverse(s) \in Seq(Entries) /\ ToSet(Reverse(s)) = ToSet(s)
         /\ Once(s) => Once(Reverse(s))
<1> DEFINE n == Len(s)
           r == Reverse(s)
<1>0. n \in Nat
  BY ChainIs
<1>1. \A i \in 1..n : (n - i) + 1 \in 1..n /\ (n - ((n - i) + 1)) + 1 = i
  BY <1>0
<1>2. r = [i \in 1..n |-> s[(n - i) + 1]]
  BY DEF Reverse
<1>3. r \in Seq(Entries) /\ Len(r) = n
  <2>1. r \in [1..n -> Entries]
    BY <1>1, <1>2, ChainIs
  <2> QED
    BY <2>1, <1>0, SeqDef
<1>4. \A i \in 1..n : r[i] = s[(n - i) + 1]
  BY <1>2
<1> HIDE DEF r
<1>5. ToSet(r) = ToSet(s)
  <2>1. ASSUME NEW e \in ToSet(r)
        PROVE  e \in ToSet(s)
    BY <1>1, <1>3, <1>4, ChainIs
  <2>2. ASSUME NEW e \in ToSet(s)
        PROVE  e \in ToSet(r)
    <3>1. PICK i \in 1..n : s[i] = e
      BY ChainIs
    <3>2. (n - i) + 1 \in 1..n /\ r[(n - i) + 1] = e
      BY <3>1, <1>1, <1>4
    <3> QED
      BY <3>2, <1>3, ChainIs
  <2> QED
    BY <2>1, <2>2
<1>6. ASSUME Once(s)
      PROVE  Once(r)
  <2> SUFFICES ASSUME NEW i \in 1..n, NEW j \in 1..n, r[i].key = r[j].key
               PROVE  i = j
    BY <1>3 DEF Once
  <2>1. (n - i) + 1 = (n - j) + 1
    <3>1. s[(n - i) + 1].key = s[(n - j) + 1].key
      BY <1>4
    <3>2. (n - i) + 1 \in 1..n /\ (n - j) + 1 \in 1..n
      BY <1>0
    <3> HIDE DEF n
    <3> QED
      BY <3>1, <3>2, <1>6 DEF Once, n
  <2> QED
    BY <2>1, <1>0
<1> QED
  BY <1>3, <1>5, <1>6 DEF r

-----------------------------------------------------------------------------
(***************************************************************************)
(* What is built up entry by entry.                                        *)
(***************************************************************************)
(* A value built in n steps, each a function, exists.                       *)
LEMMA BuiltUp ==
  ASSUME NEW X, NEW x0 \in X, NEW n \in Nat, NEW step \in [1..n -> [X -> X]]
  PROVE  \E f \in [0..n -> X] : f[0] = x0 /\ \A i \in 1..n : f[i] = step[i][f[i - 1]]
<1> DEFINE Good(f, m) == f \in [0..m -> X] /\ f[0] = x0 /\ \A i \in 1..m : f[i] = step[i][f[i - 1]]
           T == {m \in 0..n : \E f : Good(f, m)}
<1>1. 0 \in T
  <2> DEFINE g == [i \in 0..0 |-> x0]
  <2>1. g \in [0..0 -> X] /\ g[0] = x0 /\ 1..0 = {}
    OBVIOUS
  <2> HIDE DEF g
  <2>2. Good(g, 0) /\ 0 \in 0..n
    BY <2>1
  <2> QED
    BY <2>2
<1>2. ASSUME NEW m \in 0..(n - 1), m \in T
      PROVE  m + 1 \in T
  <2>1. PICK f : Good(f, m)
    BY <1>2
  <2> DEFINE g == [i \in 0..(m + 1) |-> IF i <= m THEN f[i] ELSE step[m + 1][f[m]]]
  <2>2. m + 1 \in 1..n /\ m \in 0..m /\ m \in Nat
    BY <1>2
  <2>3. f[m] \in X /\ step[m + 1] \in [X -> X]
    BY <2>1, <2>2
  <2>4. step[m + 1][f[m]] \in X
    BY <2>3
  <2>5. \A i \in 0..(m + 1) : (i <= m => i \in 0..m /\ g[i] = f[i]) /\ (~(i <= m) => i = m + 1 /\ g[i] = step[m + 1][f[m]])
    BY <2>2
  <2>6. g \in [0..(m + 1) -> X]
    BY <2>1, <2>4, <2>5
  <2>7. g[0] = x0
    BY <2>1, <2>2, <2>5
  <2>8. ASSUME NEW i \in 1..(m + 1)
        PROVE  g[i] = step[i][g[i - 1]]
    <3>1. i - 1 \in 0..(m + 1) /\ i - 1 <= m /\ i \in 0..(m + 1)
      BY <2>2
    <3>2. g[i - 1] = f[i - 1]
      BY <3>1, <2>5
    <3>3. CASE i <= m
      <4>1. i \in 1..m /\ g[i] = f[i]
        BY <3>1, <3>3, <2>5
      <4> QED
        BY <4>1, <3>2, <2>1
    <3>4. CASE ~(i <= m)
      <4>1. i = m + 1 /\ i - 1 = m /\ g[i] = step[m + 1][f[m]]
        BY <3>1, <3>4, <2>2, <2>5
      <4> QED
        BY <4>1, <3>2
    <3> QED
      BY <3>3, <3>4
  <2> HIDE DEF g
  <2>9. Good(g, m + 1)
    BY <2>6, <2>7, <2>8
  <2> QED
    BY <2>2, <2>9
<1>3. n \in T
  <2>1. n \in 0..n
    OBVIOUS
  <2> HIDE DEF T
  <2>2. 0..n \subseteq T
    BY <1>1, <1>2, NumbersUpTo
  <2> QED
    BY <2>1, <2>2
<1>4. PICK f : Good(f, n)
  BY <1>3
<1> QED
  BY <1>4

(* What is chosen from a sequence of entries: those of its entries in the set. *)
LEMMA ChosenIs ==
  ASSUME NEW s \in Seq(Entries), NEW S
  PROVE  /\ Chosen(s, S) \in Seq(Entries) /\ ToSet(Chosen(s, S)) = ToSet(s) \cap S
         /\ Once(s) => Once(Chosen(s, S))
<1> DEFINE n == Len(s)
           Rec(f) == f = [i \in 0..n |-> IF i = 0 THEN <<>> ELSE IF s[i] \in S THEN Append(f[i - 1], s[i]) ELSE f[i - 1]]
           step == [i \in 1..n |-> [x \in Seq(Entries) |-> IF s[i] \in S THEN Append(x, s[i]) ELSE x]]
<1>0. n \in Nat /\ \A i \in 1..n : s[i] \in Entries
  BY ChainIs
<1>1. step \in [1..n -> [Seq(Entries) -> Seq(Entries)]]
  BY <1>0
<1>2. \E f : Rec(f)
  <2>1. PICK f \in [0..n -> Seq(Entries)] : f[0] = <<>> /\ \A i \in 1..n : f[i] = step[i][f[i - 1]]
    <3>1. <<>> \in Seq(Entries) /\ n \in Nat
      BY <1>0, EmptyIs
    <3> DEFINE X == Seq(Entries)
               x0 == <<>>
    <3>2. x0 \in X /\ n \in Nat /\ step \in [1..n -> [X -> X]]
      BY <1>1, <3>1
    <3> HIDE DEF step, n, X, x0
    <3>3. \E f \in [0..n -> X] : f[0] = x0 /\ \A i \in 1..n : f[i] = step[i][f[i - 1]]
      BY <3>2, BuiltUp
    <3> QED
      BY <3>3 DEF X, x0
  <2>2. ASSUME NEW i \in 0..n
        PROVE  f[i] = IF i = 0 THEN <<>> ELSE IF s[i] \in S THEN Append(f[i - 1], s[i]) ELSE f[i - 1]
    <3>1. CASE i = 0
      BY <2>1, <3>1
    <3>2. CASE i # 0
      <4>1. i \in 1..n /\ i - 1 \in 0..n
        BY <3>2, <1>0
      <4>2. f[i] = step[i][f[i - 1]] /\ f[i - 1] \in Seq(Entries)
        BY <4>1, <2>1
      <4> QED
        BY <3>2, <4>1, <4>2
    <3> QED
      BY <3>1, <3>2
  <2>3. Rec(f)
    BY <2>1, <2>2
  <2> QED
    BY <2>3
<1>3. PICK f : Rec(f) /\ Chosen(s, S) = f[n]
  <2>1. Chosen(s, S) = (CHOOSE f : Rec(f))[n]
    BY DEF Chosen
  <2>2. Rec(CHOOSE f : Rec(f))
    <3> HIDE DEF Rec
    <3> QED
      BY <1>2
  <2> QED
    BY <2>1, <2>2
<1>4. f[0] = <<>> /\ \A i \in 1..n : f[i] = IF s[i] \in S THEN Append(f[i - 1], s[i]) ELSE f[i - 1]
  <2>1. \A i \in 0..n : f[i] = IF i = 0 THEN <<>> ELSE IF s[i] \in S THEN Append(f[i - 1], s[i]) ELSE f[i - 1]
    BY <1>3
  <2>2. 0 \in 0..n /\ \A i \in 1..n : i \in 0..n /\ i # 0
    BY <1>0
  <2> QED
    BY <2>1, <2>2
<1> DEFINE P(m) == /\ f[m] \in Seq(Entries)
                   /\ \A e : e \in ToSet(f[m]) <=> e \in S /\ \E j \in 1..m : s[j] = e
                   /\ Once(s) => Once(f[m])
<1>5. P(0)
  <2>1. 1..0 = {}
    OBVIOUS
  <2> QED
    BY <2>1, <1>4, EmptyIs
<1>6. ASSUME NEW m \in 0..(n - 1), P(m)
      PROVE  P(m + 1)
  <2>1. m + 1 \in 1..n /\ (m + 1) - 1 = m /\ \A j : j \in 1..(m + 1) <=> j \in 1..m \/ j = m + 1
    BY <1>0
  <2>2. s[m + 1] \in Entries
    BY <1>0, <2>1
  <2>3. f[m + 1] = IF s[m + 1] \in S THEN Append(f[m], s[m + 1]) ELSE f[m]
    BY <1>4, <2>1
  <2> DEFINE x == f[m]
             y == f[m + 1]
             z == s[m + 1]
  <2>4. x \in Seq(Entries) /\ (\A e : e \in ToSet(x) <=> e \in S /\ \E j \in 1..m : s[j] = e) /\ (Once(s) => Once(x))
    BY <1>6
  <2>5. z \in Entries /\ y = IF z \in S THEN Append(x, z) ELSE x
    BY <2>2, <2>3
  <2> HIDE DEF x, y
  <2>6. CASE z \notin S
    <3>1. y = x
      BY <2>5, <2>6
    <3>2. ASSUME NEW e
          PROVE  e \in ToSet(x) <=> e \in S /\ \E j \in 1..(m + 1) : s[j] = e
      BY <2>1, <2>4, <2>6
    <3>3. P(m + 1) <=> /\ y \in Seq(Entries) /\ (\A e : e \in ToSet(y) <=> e \in S /\ \E j \in 1..(m + 1) : s[j] = e)
                       /\ (Once(s) => Once(y))
      BY DEF y
    <3> QED
      BY <2>4, <3>1, <3>2, <3>3
  <2>7. CASE z \in S
    <3> HIDE DEF z
    <3>1. y = x \o <<z>>
      BY <2>4, <2>5, <2>7, AppendIsConcat
    <3>2. /\ <<z>> \in Seq(Entries) /\ ToSet(<<z>>) = {z} /\ Once(<<z>>)
      BY <2>5, OneIs
    <3>3. /\ y \in Seq(Entries) /\ ToSet(y) = ToSet(x) \cup {z}
          /\ Once(x) /\ (\A e \in ToSet(x) : e.key # z.key) => Once(y)
      <4> DEFINE w == <<z>>
      <4> HIDE DEF w
      <4>1. w \in Seq(Entries) /\ ToSet(w) = {z} /\ Once(w)
        BY <3>2 DEF w
      <4>2. /\ x \o w \in Seq(Entries) /\ ToSet(x \o w) = ToSet(x) \cup ToSet(w)
            /\ Once(x) /\ Once(w) /\ (\A e \in ToSet(x), f2 \in ToSet(w) : e.key # f2.key) => Once(x \o w)
        BY <2>4, <4>1, JoinIs
      <4> QED
        BY <4>1, <4>2, <3>1 DEF w
    <3>4. ASSUME Once(s)
          PROVE  Once(y)
      <4>1. ASSUME NEW e \in ToSet(x)
            PROVE  e.key # z.key
        <5>1. PICK j \in 1..m : s[j] = e
          BY <2>4
        <5>2. j \in 1..n /\ j # m + 1
          BY <1>0, <2>1
        <5> QED
          BY <5>1, <5>2, <2>1, <3>4 DEF Once, z
      <4> QED
        BY <2>4, <3>3, <3>4, <4>1
    <3>5. ASSUME NEW e
          PROVE  e \in ToSet(y) <=> e \in S /\ \E j \in 1..(m + 1) : s[j] = e
      <4>1. e \in ToSet(y) <=> (e \in S /\ \E j \in 1..m : s[j] = e) \/ e = z
        BY <2>4, <3>3
      <4>2. (\E j \in 1..(m + 1) : s[j] = e) <=> (\E j \in 1..m : s[j] = e) \/ s[m + 1] = e
        BY <2>1
      <4> QED
        BY <4>1, <4>2, <2>7 DEF z
    <3>6. P(m + 1) <=> /\ y \in Seq(Entries) /\ (\A e : e \in ToSet(y) <=> e \in S /\ \E j \in 1..(m + 1) : s[j] = e)
                       /\ (Once(s) => Once(y))
      BY DEF y
    <3> QED
      BY <3>3, <3>4, <3>5, <3>6
  <2> QED
    BY <2>6, <2>7
<1>7. P(n)
  <2> DEFINE T == {m \in 0..n : P(m)}
  <2> HIDE DEF P
  <2>1. 0 \in T
    BY <1>0, <1>5
  <2>2. ASSUME NEW m \in 0..(n - 1), m \in T
        PROVE  m + 1 \in T
    BY <1>0, <1>6, <2>2
  <2>3. n \in 0..n
    BY <1>0
  <2> HIDE DEF T, n
  <2>4. 0..n \subseteq T
    BY <1>0, <2>1, <2>2, NumbersUpTo
  <2> QED
    BY <2>3, <2>4 DEF T
<1>8. \A e : e \in ToSet(s) <=> \E j \in 1..n : s[j] = e
  BY ChainIs
<1>9. ToSet(f[n]) = ToSet(s) \cap S
  BY <1>7, <1>8
<1> QED
  BY <1>3, <1>7, <1>9

-----------------------------------------------------------------------------
(***************************************************************************)
(* Tables.                                                                 *)
(***************************************************************************)
(* Every entry in the chain of its bucket, a key once.                    *)
Placed(t, len) ==
  /\ len \in Nat \ {0} /\ t \in [Buckets(len) -> Seq(Entries)]
  /\ \A b \in Buckets(len) : Once(t[b]) /\ \A e \in ToSet(t[b]) : IndexFor(len, e.key) = b

Held(t, len) == {e \in Entries : \E b \in Buckets(len) : e \in ToSet(t[b])}

LEMMA IndexIs ==
  ASSUME NEW len \in Nat \ {0}, NEW k \in Keys
  PROVE  IndexFor(len, k) \in Buckets(len)
BY HashAssumption DEF IndexFor, Buckets

LEMMA PlacedIs ==
  ASSUME NEW t, NEW len, Placed(t, len)
  PROVE  /\ len \in Nat \ {0} /\ DOMAIN t = Buckets(len)
         /\ \A b \in Buckets(len) : /\ t[b] \in Seq(Entries) /\ Once(t[b])
                                    /\ \A e \in ToSet(t[b]) : e \in Entries /\ IndexFor(len, e.key) = b
         /\ \A e : e \in Held(t, len) <=> e \in Entries /\ e \in ToSet(t[IndexFor(len, e.key)])
         /\ \A e, f \in Held(t, len) : e.key = f.key => e = f
<1>1. len \in Nat \ {0} /\ DOMAIN t = Buckets(len) /\ \A b \in Buckets(len) : t[b] \in Seq(Entries)
  BY DEF Placed
<1>2. \A b \in Buckets(len) : \A e \in ToSet(t[b]) : e \in Entries
  BY <1>1, ChainIs
<1>3. \A e : e \in Held(t, len) <=> e \in Entries /\ e \in ToSet(t[IndexFor(len, e.key)])
  <2>1. ASSUME NEW e \in Entries
        PROVE  IndexFor(len, e.key) \in Buckets(len)
    BY <1>1, IndexIs DEF Entries
  <2> QED
    BY <2>1, <1>1 DEF Held, Placed
<1>4. ASSUME NEW e \in Held(t, len), NEW f \in Held(t, len), e.key = f.key
      PROVE  e = f
  <2> DEFINE s == t[IndexFor(len, e.key)]
  <2>1. e \in ToSet(s) /\ f \in ToSet(s) /\ e \in Entries
    BY <1>3, <1>4
  <2>2. IndexFor(len, e.key) \in Buckets(len)
    BY <2>1, <1>1, IndexIs DEF Entries
  <2>3. s \in Seq(Entries) /\ Once(s)
    BY <2>2, <1>1 DEF Placed
  <2> HIDE DEF s
  <2>4. PICK i \in 1..Len(s) : s[i] = e
    BY <2>1, <2>3, ChainIs
  <2>5. PICK j \in 1..Len(s) : s[j] = f
    BY <2>1, <2>3, ChainIs
  <2> QED
    BY <1>4, <2>3, <2>4, <2>5 DEF Once
<1> QED
  BY <1>1, <1>2, <1>3, <1>4 DEF Placed

(* All entries, bucket after bucket.                                        *)
LEMMA AllEntriesIs ==
  ASSUME NEW t, NEW len, Placed(t, len)
  PROVE  /\ AllEntries(t, len) \in Seq(Entries) /\ Once(AllEntries(t, len))
         /\ ToSet(AllEntries(t, len)) = Held(t, len)
<1> DEFINE Rec(f) == f = [i \in 0..len |-> IF i = 0 THEN <<>> ELSE f[i - 1] \o t[i - 1]]
           step == [i \in 1..len |-> [x \in Seq(Entries) |-> x \o t[i - 1]]]
<1>0. /\ len \in Nat
      /\ \A b \in 0..(len - 1) : /\ t[b] \in Seq(Entries) /\ Once(t[b])
                                 /\ \A e \in ToSet(t[b]) : e \in Entries /\ IndexFor(len, e.key) = b
  BY PlacedIs DEF Buckets
<1>1. step \in [1..len -> [Seq(Entries) -> Seq(Entries)]]
  <2>1. ASSUME NEW i \in 1..len, NEW x \in Seq(Entries)
        PROVE  x \o t[i - 1] \in Seq(Entries)
    <3>1. i - 1 \in 0..(len - 1)
      BY <1>0
    <3> QED
      BY <3>1, <1>0, JoinIs
  <2> QED
    BY <2>1
<1>2. \E f : Rec(f)
  <2>1. PICK f \in [0..len -> Seq(Entries)] : f[0] = <<>> /\ \A i \in 1..len : f[i] = step[i][f[i - 1]]
    <3>1. <<>> \in Seq(Entries) /\ len \in Nat
      BY <1>0, EmptyIs
    <3> DEFINE X == Seq(Entries)
               x0 == <<>>
    <3>2. x0 \in X /\ len \in Nat /\ step \in [1..len -> [X -> X]]
      BY <1>1, <3>1
    <3> HIDE DEF step, X, x0
    <3>3. \E f \in [0..len -> X] : f[0] = x0 /\ \A i \in 1..len : f[i] = step[i][f[i - 1]]
      BY <3>2, BuiltUp
    <3> QED
      BY <3>3 DEF X, x0
  <2>2. ASSUME NEW i \in 0..len
        PROVE  f[i] = IF i = 0 THEN <<>> ELSE f[i - 1] \o t[i - 1]
    <3>1. CASE i = 0
      BY <2>1, <3>1
    <3>2. CASE i # 0
      <4>1. i \in 1..len /\ i - 1 \in 0..len
        BY <3>2, <1>0
      <4>2. f[i] = step[i][f[i - 1]] /\ f[i - 1] \in Seq(Entries)
        BY <4>1, <2>1
      <4> QED
        BY <3>2, <4>1, <4>2
    <3> QED
      BY <3>1, <3>2
  <2>3. Rec(f)
    BY <2>1, <2>2
  <2> QED
    BY <2>3
<1>3. PICK f : Rec(f) /\ AllEntries(t, len) = f[len]
  <2>1. AllEntries(t, len) = (CHOOSE f : Rec(f))[len]
    BY DEF AllEntries
  <2>2. Rec(CHOOSE f : Rec(f))
    <3> HIDE DEF Rec
    <3> QED
      BY <1>2
  <2> QED
    BY <2>1, <2>2
<1>4. f[0] = <<>> /\ \A i \in 1..len : f[i] = f[i - 1] \o t[i - 1]
  <2>1. \A i \in 0..len : f[i] = IF i = 0 THEN <<>> ELSE f[i - 1] \o t[i - 1]
    BY <1>3
  <2>2. 0 \in 0..len /\ \A i \in 1..len : i \in 0..len /\ i # 0
    BY <1>0
  <2> QED
    BY <2>1, <2>2
<1> DEFINE P(m) == /\ f[m] \in Seq(Entries) /\ Once(f[m])
                   /\ \A e : e \in ToSet(f[m]) <=> \E b \in 0..(m - 1) : e \in ToSet(t[b])
<1>5. P(0)
  <2>1. 0..(0 - 1) = {}
    OBVIOUS
  <2> QED
    BY <2>1, <1>4, EmptyIs
<1>6. ASSUME NEW m \in 0..(len - 1), P(m)
      PROVE  P(m + 1)
  <2>1. m + 1 \in 1..len /\ (m + 1) - 1 = m /\ \A b : b \in 0..m <=> b \in 0..(m - 1) \/ b = m
    BY <1>0
  <2> DEFINE x == f[m]
             y == f[m + 1]
             z == t[m]
  <2>2. x \in Seq(Entries) /\ Once(x) /\ \A e : e \in ToSet(x) <=> \E b \in 0..(m - 1) : e \in ToSet(t[b])
    BY <1>6
  <2>3. z \in Seq(Entries) /\ Once(z) /\ \A e \in ToSet(z) : IndexFor(len, e.key) = m
    BY <1>0
  <2>4. y = x \o z
    BY <1>4, <2>1
  <2>5. \A e \in ToSet(x), g \in ToSet(z) : e.key # g.key
    <3> SUFFICES ASSUME NEW e \in ToSet(x), NEW g \in ToSet(z), e.key = g.key
                 PROVE  FALSE
      OBVIOUS
    <3>1. PICK b \in 0..(m - 1) : e \in ToSet(t[b])
      BY <2>2
    <3>2. b \in 0..(len - 1) /\ b # m
      BY <1>0
    <3>3. IndexFor(len, e.key) = b /\ IndexFor(len, g.key) = m
      BY <3>1, <3>2, <1>0, <2>3
    <3> QED
      BY <3>2, <3>3
  <2> HIDE DEF x, y, z
  <2>6. y \in Seq(Entries) /\ Once(y) /\ ToSet(y) = ToSet(x) \cup ToSet(z)
    BY <2>2, <2>3, <2>4, <2>5, JoinIs
  <2>7. ASSUME NEW e
        PROVE  e \in ToSet(y) <=> \E b \in 0..m : e \in ToSet(t[b])
    <3>1. (\E b \in 0..m : e \in ToSet(t[b])) <=> (\E b \in 0..(m - 1) : e \in ToSet(t[b])) \/ e \in ToSet(t[m])
      BY <2>1
    <3> QED
      BY <3>1, <2>2, <2>6 DEF z
  <2>8. P(m + 1) <=> /\ y \in Seq(Entries) /\ Once(y)
                     /\ \A e : e \in ToSet(y) <=> \E b \in 0..m : e \in ToSet(t[b])
    BY <2>1 DEF y
  <2> QED
    BY <2>6, <2>7, <2>8
<1>7. P(len)
  <2> DEFINE T == {m \in 0..len : P(m)}
  <2> HIDE DEF P
  <2>1. 0 \in T
    BY <1>0, <1>5
  <2>2. ASSUME NEW m \in 0..(len - 1), m \in T
        PROVE  m + 1 \in T
    BY <1>0, <1>6, <2>2
  <2>3. len \in 0..len
    BY <1>0
  <2> HIDE DEF T
  <2>4. 0..len \subseteq T
    BY <1>0, <2>1, <2>2, NumbersUpTo
  <2> QED
    BY <2>3, <2>4 DEF T
<1>8. \A e : e \in ToSet(f[len]) <=> e \in Held(t, len)
  BY <1>0, <1>7 DEF Held, Buckets
<1>9. ToSet(f[len]) = Held(t, len)
  BY <1>8
<1> QED
  BY <1>3, <1>7, <1>9

(* What a search finds.                                                     *)
LEMMA AtIs ==
  ASSUME NEW s \in Seq(Entries), Once(s), NEW k
  PROVE  /\ At(s, k) = {} => \A e \in ToSet(s) : e.key # k
         /\ At(s, k) # {} => /\ First(s, k) \in 1..Len(s) /\ s[First(s, k)].key = k
                            /\ At(s, k) = {First(s, k)}
                            /\ \A i \in 1..Len(s) : s[i].key = k => i = First(s, k)
<1>1. Len(s) \in Nat /\ At(s, k) = {i \in 1..Len(s) : s[i].key = k}
  BY ChainIs DEF At
<1>2. At(s, k) = {} => \A e \in ToSet(s) : e.key # k
  BY <1>1, ChainIs
<1>3. ASSUME At(s, k) # {}
      PROVE  /\ First(s, k) \in 1..Len(s) /\ s[First(s, k)].key = k
             /\ At(s, k) = {First(s, k)}
             /\ \A i \in 1..Len(s) : s[i].key = k => i = First(s, k)
  <2>1. \E i \in At(s, k) : \A j \in At(s, k) : i <= j
    <3>1. At(s, k) \subseteq Nat
      BY <1>1
    <3> QED
      BY <3>1, <1>3, LeastMember
  <2>2. First(s, k) \in At(s, k)
    BY <2>1 DEF First
  <2>3. \A i \in 1..Len(s) : s[i].key = k => i = First(s, k)
    BY <2>2, <1>1 DEF Once
  <2> QED
    BY <2>2, <2>3, <1>1
<1> QED
  BY <1>2, <1>3

LEMMA FindIs ==
  ASSUME NEW t, NEW len, Placed(t, len), NEW k \in Keys
  PROVE  /\ Find(t, len, k) \in Vals \cup {NoVal}
         /\ \A v \in Vals : Find(t, len, k) = v <=> Entry(k, v) \in Held(t, len)
         /\ Find(t, len, k) = NoVal <=> \A e \in Held(t, len) : e.key # k
         /\ Find(t, len, k) = NoVal <=> At(t[IndexFor(len, k)], k) = {}
<1> DEFINE b == IndexFor(len, k)
           s == t[b]
<1>1. b \in Buckets(len) /\ s \in Seq(Entries) /\ Once(s)
  BY PlacedIs, IndexIs
<1>2. /\ \A e : e \in Held(t, len) <=> e \in Entries /\ e \in ToSet(t[IndexFor(len, e.key)])
      /\ \A e \in Entries : e.key = k => (e \in Held(t, len) <=> e \in ToSet(s))
      /\ \A e \in Held(t, len) : e \in Entries
  BY PlacedIs
<1>3. \A v \in Vals : Entry(k, v) \in Entries /\ Entry(k, v).key = k /\ Entry(k, v).val = v
  BY DEF Entry, Entries
<1>4. Find(t, len, k) = IF At(s, k) = {} THEN NoVal ELSE s[First(s, k)].val
  BY DEF Find
<1> HIDE DEF b, s
<1>5. CASE At(s, k) = {}
  <2>1. \A e \in ToSet(s) : e.key # k
    BY <1>1, <1>5, AtIs
  <2>2. \A e \in Held(t, len) : e.key # k
    BY <2>1, <1>2
  <2> QED
    BY <1>3, <1>4, <1>5, <2>2, HashAssumption DEF s, b
<1>6. CASE At(s, k) # {}
  <2>1. First(s, k) \in 1..Len(s) /\ s[First(s, k)].key = k
    BY <1>1, <1>6, AtIs
  <2> DEFINE e == s[First(s, k)]
  <2>2. e \in Entries /\ e \in ToSet(s) /\ e.val \in Vals /\ e.key = k
    BY <2>1, <1>1, ChainIs
  <2>3. e \in Held(t, len)
    BY <2>2, <1>2
  <2>4. Find(t, len, k) = e.val
    BY <1>4, <1>6
  <2>5. e = Entry(k, e.val)
    BY <2>2 DEF Entry, Entries
  <2> HIDE DEF e
  <2>6. ASSUME NEW v \in Vals, Entry(k, v) \in Held(t, len)
        PROVE  v = e.val
    <3>1. Entry(k, v) = e
      BY <2>2, <2>3, <2>6, <1>3, PlacedIs
    <3> QED
      BY <3>1, <1>3
  <2>7. e.val # NoVal
    BY <2>2, HashAssumption
  <2> QED
    BY <1>6, <2>2, <2>3, <2>4, <2>5, <2>6, <2>7 DEF s, b
<1> QED
  BY <1>5, <1>6

-----------------------------------------------------------------------------
(***************************************************************************)
(* Entries that come and go.                                               *)
(***************************************************************************)
(* k comes after x in a chain                                             *)
Follows(s, x, k) == \E i, j \in 1..Len(s) : i < j /\ s[i].key = x /\ s[j].key = k

LEMMA WithoutIs ==
  ASSUME NEW s \in Seq(Entries), Once(s), NEW k
  PROVE  /\ Without(s, k) \in Seq(Entries) /\ Once(Without(s, k))
         /\ ToSet(Without(s, k)) = {e \in ToSet(s) : e.key # k}
         /\ \A x, y : x # k /\ y # k => (Follows(Without(s, k), x, y) <=> Follows(s, x, y))
<1> DEFINE m == First(s, k)
           n == Len(s)
           r == Without(s, k)
<1>0. n \in Nat /\ \A i \in 1..n : s[i] \in Entries
  BY ChainIs
<1>1. CASE At(s, k) = {}
  <2>1. r = s
    BY <1>1 DEF Without
  <2>2. \A e \in ToSet(s) : e.key # k
    BY <1>1, AtIs
  <2>3. ToSet(s) = {e \in ToSet(s) : e.key # k}
    BY <2>2
  <2> HIDE DEF r
  <2>4. r \in Seq(Entries) /\ Once(r) /\ ToSet(r) = {e \in ToSet(s) : e.key # k}
    BY <2>1, <2>3
  <2>5. \A x, y : x # k /\ y # k => (Follows(r, x, y) <=> Follows(s, x, y))
    BY <2>1
  <2> QED
    BY <2>4, <2>5 DEF r
<1>2. CASE At(s, k) # {}
  <2>1. m \in 1..n /\ s[m].key = k /\ \A i \in 1..n : s[i].key = k => i = m
    BY <1>2, AtIs
  <2> HIDE DEF m
  <2> DEFINE u == SubSeq(s, 1, m - 1)
             w == SubSeq(s, m + 1, n)
  <2>2. r = u \o w
    BY <1>2 DEF Without, RemoveAt, m
  <2>3. u \in Seq(Entries) /\ Len(u) = m - 1 /\ \A i \in 1..(m - 1) : u[i] = s[i]
    <3>1. \A i \in 1..(m - 1) : s[i] \in Entries
      BY <1>0, <2>1
    <3>2. /\ u \in Seq(Entries) /\ Len(u) = (IF 1 <= m - 1 THEN (m - 1) - 1 + 1 ELSE 0)
          /\ \A i \in 1..((m - 1) - 1 + 1) : u[i] = s[1 + i - 1]
      BY <2>1, <3>1, SubSeqProperties
    <3> QED
      BY <2>1, <3>2
  <2>4. w \in Seq(Entries) /\ Len(w) = n - m /\ \A i \in 1..(n - m) : w[i] = s[m + i]
    <3>1. \A i \in (m + 1)..n : s[i] \in Entries
      BY <1>0, <2>1
    <3>2. /\ w \in Seq(Entries) /\ Len(w) = (IF m + 1 <= n THEN n - (m + 1) + 1 ELSE 0)
          /\ \A i \in 1..(n - (m + 1) + 1) : w[i] = s[(m + 1) + i - 1]
      BY <1>0, <2>1, <3>1, SubSeqProperties
    <3> QED
      BY <1>0, <2>1, <3>2
  <2> HIDE DEF u, w
  <2>5. /\ r \in Seq(Entries) /\ Len(r) = Len(u) + Len(w)
        /\ \A i \in 1..Len(u) : r[i] = u[i]
        /\ \A i \in 1..Len(w) : r[Len(u) + i] = w[i]
    <3> HIDE DEF r
    <3>1. u \in Seq(Entries) /\ w \in Seq(Entries) /\ r = u \o w
      BY <2>2, <2>3, <2>4
    <3> QED
      BY <3>1, JoinedIs
  <2> HIDE DEF r, n
  <2>6. Len(r) = n - 1 /\ \A i \in 1..(m - 1) : r[i] = s[i]
    <3>1. Len(r) = n - 1
      <4>1. Len(r) = (m - 1) + (n - m)
        BY <2>3, <2>4, <2>5
      <4> QED
        BY <4>1, <1>0, <2>1
    <3>2. \A i \in 1..(m - 1) : r[i] = u[i]
      BY <2>3, <2>5
    <3> QED
      BY <3>1, <3>2, <2>3
  <2>7. \A i \in m..(n - 1) : r[i] = s[i + 1]
    <3> SUFFICES ASSUME NEW i \in m..(n - 1)
                 PROVE  r[i] = s[i + 1]
      OBVIOUS
    <3>1. i - (m - 1) \in 1..(n - m) /\ (m - 1) + (i - (m - 1)) = i /\ m + (i - (m - 1)) = i + 1
      BY <1>0, <2>1
    <3>2. r[(m - 1) + (i - (m - 1))] = w[i - (m - 1)]
      BY <3>1, <2>3, <2>4, <2>5
    <3>3. w[i - (m - 1)] = s[m + (i - (m - 1))]
      BY <3>1, <2>4
    <3> QED
      BY <3>1, <3>2, <3>3
  <2> DEFINE from(i) == IF i < m THEN i ELSE i + 1
             to(i) == IF i < m THEN i ELSE i - 1
  <2>8. \A i \in 1..(n - 1) : from(i) \in 1..n /\ from(i) # m /\ r[i] = s[from(i)]
    BY <1>0, <2>1, <2>6, <2>7
  <2>9. \A i \in 1..n : i # m => to(i) \in 1..(n - 1) /\ r[to(i)] = s[i]
    <3> SUFFICES ASSUME NEW i \in 1..n, i # m
                 PROVE  to(i) \in 1..(n - 1) /\ r[to(i)] = s[i]
      OBVIOUS
    <3>1. CASE i < m
      BY <3>1, <1>0, <2>1, <2>6
    <3>2. CASE i > m
      <4>1. i - 1 \in m..(n - 1) /\ (i - 1) + 1 = i /\ ~(i < m)
        BY <3>2, <1>0, <2>1
      <4>2. r[i - 1] = s[i]
        BY <4>1, <2>7
      <4> QED
        BY <4>1, <4>2, <2>1
    <3> QED
      BY <3>1, <3>2, <2>1
  <2>10. \A i, j \in 1..(n - 1) : (from(i) = from(j) => i = j) /\ (i < j => from(i) < from(j))
    BY <2>1
  <2>11. \A i, j \in 1..n : i # m /\ j # m /\ i < j => to(i) < to(j)
    BY <2>1
  <2> HIDE DEF from, to
  <2>12. Once(r)
    <3> SUFFICES ASSUME NEW i \in 1..(n - 1), NEW j \in 1..(n - 1), r[i].key = r[j].key
                 PROVE  i = j
      BY <2>6 DEF Once
    <3>1. from(i) = from(j)
      <4>1. from(i) \in 1..n /\ from(j) \in 1..n /\ s[from(i)].key = s[from(j)].key
        BY <2>8
      <4>2. \A x, y \in 1..n : s[x].key = s[y].key => x = y
        BY DEF Once, n
      <4> QED
        BY <4>1, <4>2
    <3> QED
      BY <3>1, <2>10
  <2>13. ASSUME NEW e
         PROVE  e \in ToSet(r) <=> e \in ToSet(s) /\ e.key # k
    <3>1. ASSUME e \in ToSet(r)
          PROVE  e \in ToSet(s) /\ e.key # k
      <4>1. PICK i \in 1..(n - 1) : r[i] = e
        BY <2>5, <2>6, <3>1, ChainIs
      <4>2. from(i) \in 1..n /\ s[from(i)] = e /\ from(i) # m
        BY <4>1, <2>8
      <4>3. e \in ToSet(s)
        BY <4>2, ChainIs DEF n
      <4> QED
        BY <4>2, <4>3, <2>1
    <3>2. ASSUME e \in ToSet(s), e.key # k
          PROVE  e \in ToSet(r)
      <4>1. PICK i \in 1..n : s[i] = e
        BY <3>2, ChainIs DEF n
      <4>2. i # m
        BY <4>1, <3>2, <2>1
      <4>3. to(i) \in 1..(n - 1) /\ r[to(i)] = e
        BY <4>1, <4>2, <2>9
      <4> QED
        BY <4>3, <2>5, <2>6, ChainIs
    <3> QED
      BY <3>1, <3>2
  <2>14. ASSUME NEW x, NEW y, x # k, y # k
         PROVE  Follows(r, x, y) <=> Follows(s, x, y)
    <3>1. ASSUME NEW i \in 1..(n - 1), NEW j \in 1..(n - 1), i < j, r[i].key = x, r[j].key = y
          PROVE  Follows(s, x, y)
      <4>1. from(i) \in 1..n /\ from(j) \in 1..n /\ from(i) < from(j) /\ s[from(i)].key = x /\ s[from(j)].key = y
        BY <3>1, <2>8, <2>10
      <4> QED
        BY <4>1 DEF Follows, n
    <3>2. ASSUME NEW i \in 1..n, NEW j \in 1..n, i < j, s[i].key = x, s[j].key = y
          PROVE  Follows(r, x, y)
      <4>1. i # m /\ j # m
        BY <3>2, <2>14, <2>1
      <4>2. to(i) \in 1..(n - 1) /\ to(j) \in 1..(n - 1) /\ to(i) < to(j) /\ r[to(i)].key = x /\ r[to(j)].key = y
        BY <3>2, <4>1, <2>9, <2>11
      <4> QED
        BY <4>2, <2>6 DEF Follows
    <3> QED
      BY <3>1, <3>2, <2>6 DEF Follows, n
  <2> QED
    BY <2>5, <2>12, <2>13, <2>14 DEF r
<1> QED
  BY <1>1, <1>2

(* The table without a key.                                                 *)
LEMMA RemovedIs ==
  ASSUME NEW t, NEW len, Placed(t, len), NEW k \in Keys
  PROVE  /\ Placed(Removed(t, len, k), len)
         /\ Held(Removed(t, len, k), len) = {e \in Held(t, len) : e.key # k}
         /\ \A b \in Buckets(len) : \A x, y : x # k /\ y # k =>
              (Follows(Removed(t, len, k)[b], x, y) <=> Follows(t[b], x, y))
<1> DEFINE c == IndexFor(len, k)
           r == Removed(t, len, k)
<1>1. /\ len \in Nat \ {0} /\ t \in [Buckets(len) -> Seq(Entries)] /\ c \in Buckets(len)
      /\ \A b \in Buckets(len) : /\ t[b] \in Seq(Entries) /\ Once(t[b])
                                 /\ \A e \in ToSet(t[b]) : e \in Entries /\ IndexFor(len, e.key) = b
  BY PlacedIs, IndexIs DEF Placed
<1>2. /\ Without(t[c], k) \in Seq(Entries) /\ Once(Without(t[c], k))
      /\ ToSet(Without(t[c], k)) = {e \in ToSet(t[c]) : e.key # k}
      /\ \A x, y : x # k /\ y # k => (Follows(Without(t[c], k), x, y) <=> Follows(t[c], x, y))
  BY <1>1, WithoutIs
<1>3. r \in [Buckets(len) -> Seq(Entries)] /\ \A b \in Buckets(len) : r[b] = IF b = c THEN Without(t[c], k) ELSE t[b]
  <2>1. r = [t EXCEPT ![c] = Without(t[c], k)]
    BY DEF Removed
  <2> HIDE DEF c, r
  <2> QED
    BY <2>1, <1>1, <1>2
<1> HIDE DEF r
<1>4. Placed(r, len)
  BY <1>1, <1>2, <1>3 DEF Placed
<1>5. \A e \in Entries : e.key = k => IndexFor(len, e.key) = c
  OBVIOUS
<1> HIDE DEF c
<1>6. ASSUME NEW e
      PROVE  e \in Held(r, len) <=> e \in Held(t, len) /\ e.key # k
  <2>1. \A b \in Buckets(len) : e \in Entries => (e \in ToSet(r[b]) <=> e \in ToSet(t[b]) /\ e.key # k)
    BY <1>1, <1>2, <1>3, <1>5
  <2> QED
    BY <2>1 DEF Held
<1>7. ASSUME NEW b \in Buckets(len), NEW x, NEW y, x # k, y # k
      PROVE  Follows(r[b], x, y) <=> Follows(t[b], x, y)
  BY <1>2, <1>3, <1>7
<1> QED
  BY <1>4, <1>6, <1>7 DEF r

(* The table with an entry more, of a new key, in front of its chain.     *)
InFront(t, len, e) == [t EXCEPT ![IndexFor(len, e.key)] = <<e>> \o @]

LEMMA InsertedIs ==
  ASSUME NEW t, NEW len, Placed(t, len), NEW e \in Entries, \A f \in Held(t, len) : f.key # e.key
  PROVE  Placed(InFront(t, len, e), len) /\ Held(InFront(t, len, e), len) = Held(t, len) \cup {e}
<1> DEFINE c == IndexFor(len, e.key)
           w == <<e>>
           r == [t EXCEPT ![c] = w \o @]
<1>1. /\ len \in Nat \ {0} /\ t \in [Buckets(len) -> Seq(Entries)] /\ c \in Buckets(len)
      /\ \A b \in Buckets(len) : /\ t[b] \in Seq(Entries) /\ Once(t[b])
                                 /\ \A f \in ToSet(t[b]) : f \in Entries /\ IndexFor(len, f.key) = b
  BY PlacedIs, IndexIs DEF Placed, Entries
<1>2. w \in Seq(Entries) /\ ToSet(w) = {e} /\ Once(w)
  BY OneIs
<1> HIDE DEF w
<1>3. \A f \in ToSet(t[c]) : f.key # e.key
  BY <1>1 DEF Held
<1>4. w \o t[c] \in Seq(Entries) /\ ToSet(w \o t[c]) = {e} \cup ToSet(t[c]) /\ Once(w \o t[c])
  <2>1. \A g \in ToSet(w), f \in ToSet(t[c]) : g.key # f.key
    BY <1>2, <1>3
  <2> HIDE DEF c
  <2> QED
    BY <1>1, <1>2, <2>1, JoinIs
<1>5. r \in [Buckets(len) -> Seq(Entries)] /\ \A b \in Buckets(len) : r[b] = IF b = c THEN w \o t[c] ELSE t[b]
  <2>1. r = [t EXCEPT ![c] = w \o t[c]]
    OBVIOUS
  <2> HIDE DEF c, r
  <2> QED
    BY <2>1, <1>1, <1>4
<1>6. IndexFor(len, e.key) = c
  OBVIOUS
<1> HIDE DEF r, c
<1>7. Placed(r, len)
  BY <1>1, <1>4, <1>5, <1>6 DEF Placed
<1>8. ASSUME NEW f
      PROVE  f \in Held(r, len) <=> f \in Held(t, len) \/ f = e
  BY <1>1, <1>4, <1>5 DEF Held
<1> QED
  BY <1>7, <1>8 DEF r, w, c, InFront

(* A table whose every chain has just the entries of its bucket holds what *)
(* the old one held.                                                        *)
LEMMA SameHeld ==
  ASSUME NEW t, NEW len, Placed(t, len), NEW newlen \in Nat \ {0}, NEW r \in [Buckets(newlen) -> Seq(Entries)],
         \A b \in Buckets(newlen) : Once(r[b]) /\ ToSet(r[b]) = Held(t, len) \cap Belong(newlen, b)
  PROVE  Placed(r, newlen) /\ Held(r, newlen) = Held(t, len)
<1>1. Placed(r, newlen)
  BY DEF Placed, Belong
<1>2. ASSUME NEW e
      PROVE  e \in Held(r, newlen) <=> e \in Held(t, len)
  <2>1. e \in Held(t, len) => e \in Entries /\ IndexFor(newlen, e.key) \in Buckets(newlen)
    BY IndexIs DEF Held, Entries
  <2>2. e \in Entries => e \in Belong(newlen, IndexFor(newlen, e.key))
    BY DEF Belong
  <2> QED
    BY <2>1, <2>2 DEF Held
<1> QED
  BY <1>1, <1>2

LEMMA TransferredIs ==
  ASSUME NEW t, NEW len, Placed(t, len), NEW newlen \in Nat \ {0}
  PROVE  Placed(Transferred(t, len, newlen), newlen) /\ Held(Transferred(t, len, newlen), newlen) = Held(t, len)
<1> DEFINE r == Transferred(t, len, newlen)
           a == AllEntries(t, len)
<1>1. a \in Seq(Entries) /\ Once(a) /\ ToSet(a) = Held(t, len)
  BY AllEntriesIs
<1> HIDE DEF a
<1>2. ASSUME NEW b \in Buckets(newlen)
      PROVE  /\ Reverse(Chosen(a, Belong(newlen, b))) \in Seq(Entries)
             /\ Once(Reverse(Chosen(a, Belong(newlen, b))))
             /\ ToSet(Reverse(Chosen(a, Belong(newlen, b)))) = Held(t, len) \cap Belong(newlen, b)
  <2> DEFINE c == Chosen(a, Belong(newlen, b))
  <2>1. c \in Seq(Entries) /\ Once(c) /\ ToSet(c) = Held(t, len) \cap Belong(newlen, b)
    BY <1>1, ChosenIs
  <2> HIDE DEF c
  <2>2. Reverse(c) \in Seq(Entries) /\ Once(Reverse(c)) /\ ToSet(Reverse(c)) = ToSet(c)
    BY <2>1, ReverseIs
  <2> QED
    BY <2>1, <2>2 DEF c
<1>3. r = [b \in Buckets(newlen) |-> Reverse(Chosen(a, Belong(newlen, b)))]
  BY DEF Transferred, a
<1> HIDE DEF r
<1>4. r \in [Buckets(newlen) -> Seq(Entries)]
  BY <1>2, <1>3
<1>5. \A b \in Buckets(newlen) : Once(r[b]) /\ ToSet(r[b]) = Held(t, len) \cap Belong(newlen, b)
  BY <1>2, <1>3
<1>6. Placed(r, newlen) /\ Held(r, newlen) = Held(t, len)
  BY <1>4, <1>5, SameHeld
<1> QED
  BY <1>6 DEF r

LEMMA InPlaceIs ==
  ASSUME NEW t, NEW len, Placed(t, len), NEW newlen \in Nat \ {0}
  PROVE  Placed(InPlace(t, len, newlen), newlen) /\ Held(InPlace(t, len, newlen), newlen) = Held(t, len)
<1> DEFINE r == InPlace(t, len, newlen)
           a == AllEntries(t, len)
           coming(b) == Chosen(a, Belong(newlen, b) \ Belong(len, b))
           staying(b) == IF b < len THEN Chosen(t[b], Belong(newlen, b)) ELSE <<>>
           joined(b) == Reverse(coming(b)) \o staying(b)
<1>1. a \in Seq(Entries) /\ Once(a) /\ ToSet(a) = Held(t, len)
  BY AllEntriesIs
<1> HIDE DEF a
<1>2. ASSUME NEW b \in Buckets(newlen)
      PROVE  joined(b) \in Seq(Entries) /\ Once(joined(b)) /\ ToSet(joined(b)) = Held(t, len) \cap Belong(newlen, b)
  <2> DEFINE c == Reverse(coming(b))
             d == staying(b)
  <2>1. c \in Seq(Entries) /\ Once(c) /\ ToSet(c) = Held(t, len) \cap (Belong(newlen, b) \ Belong(len, b))
    <3> DEFINE g == coming(b)
    <3>1. g \in Seq(Entries) /\ Once(g) /\ ToSet(g) = Held(t, len) \cap (Belong(newlen, b) \ Belong(len, b))
      BY <1>1, ChosenIs
    <3> HIDE DEF g
    <3>2. Reverse(g) \in Seq(Entries) /\ Once(Reverse(g)) /\ ToSet(Reverse(g)) = ToSet(g)
      BY <3>1, ReverseIs
    <3> QED
      BY <3>1, <3>2 DEF g
  <2>2. d \in Seq(Entries) /\ Once(d) /\ ToSet(d) = Held(t, len) \cap (Belong(newlen, b) \cap Belong(len, b))
    <3>1. CASE b < len
      <4>1. b \in Buckets(len)
        BY <3>1, PlacedIs DEF Buckets
      <4> DEFINE g == Chosen(t[b], Belong(newlen, b))
      <4>2. g \in Seq(Entries) /\ Once(g) /\ ToSet(g) = ToSet(t[b]) \cap Belong(newlen, b)
        BY <4>1, PlacedIs, ChosenIs
      <4>3. ToSet(t[b]) = Held(t, len) \cap Belong(len, b)
        BY <4>1, PlacedIs DEF Held, Belong
      <4>4. d = g
        BY <3>1
      <4> HIDE DEF g, d
      <4> QED
        BY <4>2, <4>3, <4>4
    <3>2. CASE ~(b < len)
      <4>1. d = <<>>
        BY <3>2
      <4>2. \A e \in Entries : IndexFor(len, e.key) # b
        <5> SUFFICES ASSUME NEW e \in Entries
                     PROVE  IndexFor(len, e.key) # b
          OBVIOUS
        <5>1. IndexFor(len, e.key) \in Buckets(len) /\ len \in Nat
          BY PlacedIs, IndexIs DEF Entries
        <5> QED
          BY <3>2, <5>1 DEF Buckets
      <4>3. Belong(len, b) = {}
        BY <4>2 DEF Belong
      <4> HIDE DEF d
      <4> QED
        BY <4>1, <4>3, EmptyIs
    <3> QED
      BY <3>1, <3>2
  <2> HIDE DEF c, d
  <2>3. \A e \in ToSet(c), f \in ToSet(d) : e.key # f.key
    BY <2>1, <2>2 DEF Belong
  <2>4. c \o d \in Seq(Entries) /\ Once(c \o d) /\ ToSet(c \o d) = ToSet(c) \cup ToSet(d)
    BY <2>1, <2>2, <2>3, JoinIs
  <2>5. ToSet(c) \cup ToSet(d) = Held(t, len) \cap Belong(newlen, b)
    BY <2>1, <2>2
  <2> QED
    BY <2>4, <2>5 DEF c, d
<1>3. r = [b \in Buckets(newlen) |-> joined(b)]
  BY DEF InPlace, a
<1> HIDE DEF r, joined
<1>4. r \in [Buckets(newlen) -> Seq(Entries)]
  BY <1>2, <1>3
<1>5. \A b \in Buckets(newlen) : Once(r[b]) /\ ToSet(r[b]) = Held(t, len) \cap Belong(newlen, b)
  BY <1>2, <1>3
<1>6. Placed(r, newlen) /\ Held(r, newlen) = Held(t, len)
  BY <1>4, <1>5, SameHeld
<1> QED
  BY <1>6 DEF r

(* The table with another value for a key.                                  *)
Revalued(t, p, i, v) == [t EXCEPT ![p][i].val = v]

LEMMA ReplacedIs ==
  ASSUME NEW t, NEW len, Placed(t, len), NEW p \in Buckets(len), NEW i \in 1..Len(t[p]), NEW v \in Vals
  PROVE  /\ Placed(Revalued(t, p, i, v), len)
         /\ Held(Revalued(t, p, i, v), len)
              = {e \in Held(t, len) : e.key # t[p][i].key} \cup {Entry(t[p][i].key, v)}
         /\ \A b \in Buckets(len) : \A x, y :
              Follows(Revalued(t, p, i, v)[b], x, y) <=> Follows(t[b], x, y)
<1> DEFINE r == [t EXCEPT ![p][i].val = v]
           s == t[p]
           u == [s EXCEPT ![i] = [s[i] EXCEPT !.val = v]]
           k == s[i].key
           n == Entry(k, v)
<1>1. /\ len \in Nat \ {0} /\ t \in [Buckets(len) -> Seq(Entries)] /\ s \in Seq(Entries) /\ Once(s)
      /\ \A b \in Buckets(len) : /\ t[b] \in Seq(Entries) /\ Once(t[b])
                                 /\ \A f \in ToSet(t[b]) : f \in Entries /\ IndexFor(len, f.key) = b
  BY PlacedIs DEF Placed
<1>2. s[i] \in Entries /\ s[i] \in ToSet(s) /\ k \in Keys /\ IndexFor(len, k) = p
  BY <1>1, ChainIs
<1>3. n \in Entries /\ n.key = k /\ [s[i] EXCEPT !.val = v] = n
  BY <1>2 DEF Entry, Entries
<1>4. u \in Seq(Entries) /\ Len(u) = Len(s) /\ \A j \in 1..Len(s) : u[j] = IF j = i THEN n ELSE s[j]
  <2>1. u = [s EXCEPT ![i] = n]
    BY <1>3
  <2> HIDE DEF u, s, n
  <2> QED
    BY <2>1, <1>1, <1>3, ExceptSeq DEF s
<1>5. r = [t EXCEPT ![p] = u]
  BY <1>1
<1> HIDE DEF r, u, s, n, k
<1>6. \A j \in 1..Len(s) : u[j].key = s[j].key
  BY <1>3, <1>4 DEF k
<1>7. Once(u)
  BY <1>1, <1>4, <1>6 DEF Once
<1>8. ASSUME NEW e
      PROVE  e \in ToSet(u) <=> (e \in ToSet(s) /\ e.key # k) \/ e = n
  <2>1. e \in ToSet(u) <=> \E j \in 1..Len(s) : u[j] = e
    BY <1>4, ChainIs
  <2>2. e \in ToSet(s) <=> \E j \in 1..Len(s) : s[j] = e
    BY <1>1, ChainIs
  <2>3. \A j \in 1..Len(s) : s[j].key = k <=> j = i
    BY <1>1 DEF Once, k, s
  <2>4. i \in 1..Len(s)
    BY DEF s
  <2> QED
    BY <2>1, <2>2, <2>3, <2>4, <1>4
<1>9. r \in [Buckets(len) -> Seq(Entries)] /\ \A b \in Buckets(len) : r[b] = IF b = p THEN u ELSE t[b]
  BY <1>1, <1>4, <1>5
<1>10. Placed(r, len)
  <2>1. \A e \in ToSet(u) : IndexFor(len, e.key) = p
    BY <1>1, <1>2, <1>3, <1>8 DEF s
  <2> QED
    BY <2>1, <1>1, <1>7, <1>9 DEF Placed
<1>11. ASSUME NEW e
       PROVE  e \in Held(r, len) <=> (e \in Held(t, len) /\ e.key # k) \/ e = n
  <2>1. \A b \in Buckets(len) : e \in Entries =>
          (e \in ToSet(r[b]) <=> (e \in ToSet(t[b]) /\ e.key # k) \/ (b = p /\ e = n))
    <3> SUFFICES ASSUME NEW b \in Buckets(len), e \in Entries
                 PROVE  e \in ToSet(r[b]) <=> (e \in ToSet(t[b]) /\ e.key # k) \/ (b = p /\ e = n)
      OBVIOUS
    <3>1. CASE b = p
      BY <3>1, <1>8, <1>9 DEF s
    <3>2. CASE b # p
      <4>1. e \in ToSet(t[b]) => e.key # k
        BY <3>2, <1>1, <1>2
      <4> QED
        BY <3>2, <4>1, <1>9
    <3> QED
      BY <3>1, <3>2
  <2> QED
    BY <2>1, <1>3 DEF Held
<1>12. ASSUME NEW b \in Buckets(len), NEW x, NEW y
       PROVE  Follows(r[b], x, y) <=> Follows(t[b], x, y)
  <2>1. Follows(u, x, y) <=> Follows(s, x, y)
    BY <1>4, <1>6 DEF Follows
  <2> QED
    BY <2>1, <1>9 DEF s
<1>13. Held(r, len) = {e \in Held(t, len) : e.key # k} \cup {n}
  BY <1>11
<1> QED
  BY <1>10, <1>12, <1>13 DEF r, k, n, s, Revalued

-----------------------------------------------------------------------------
(***************************************************************************)
(* The content, the count and what is destroyed.                           *)
(***************************************************************************)
KeysOf(E) == {e.key : e \in E}

(* Searches find the same where tables hold the same.                       *)
LEMMA FindSame ==
  ASSUME NEW t, NEW len, Placed(t, len), NEW u, NEW newlen, Placed(u, newlen), NEW k \in Keys,
         \A v \in Vals : Entry(k, v) \in Held(u, newlen) <=> Entry(k, v) \in Held(t, len)
  PROVE  Find(u, newlen, k) = Find(t, len, k)
<1>1. /\ Find(t, len, k) \in Vals \cup {NoVal}
      /\ \A v \in Vals : Find(t, len, k) = v <=> Entry(k, v) \in Held(t, len)
  BY FindIs
<1>2. /\ Find(u, newlen, k) \in Vals \cup {NoVal}
      /\ \A v \in Vals : Find(u, newlen, k) = v <=> Entry(k, v) \in Held(u, newlen)
  BY FindIs
<1> QED
  BY <1>1, <1>2

LEMMA EntryIs ==
  /\ \A k \in Keys, v \in Vals : Entry(k, v) \in Entries /\ Entry(k, v).key = k /\ Entry(k, v).val = v
  /\ \A e \in Entries : e = Entry(e.key, e.val) /\ e.key \in Keys /\ e.val \in Vals
BY DEF Entry, Entries

(* A key goes, and perhaps comes with another value.                        *)
LEMMA FindWithout ==
  ASSUME NEW t, NEW len, Placed(t, len), NEW u, NEW newlen, Placed(u, newlen), NEW k \in Keys,
         Held(u, newlen) = {e \in Held(t, len) : e.key # k}
  PROVE  [j \in Keys |-> Find(u, newlen, j)] = [[j \in Keys |-> Find(t, len, j)] EXCEPT ![k] = NoVal]
<1>1. Find(u, newlen, k) = NoVal
  BY FindIs
<1>2. ASSUME NEW j \in Keys, j # k
      PROVE  Find(u, newlen, j) = Find(t, len, j)
  <2>1. \A v \in Vals : Entry(j, v) \in Held(u, newlen) <=> Entry(j, v) \in Held(t, len)
    BY <1>2, EntryIs
  <2> QED
    BY <2>1, FindSame
<1> QED
  BY <1>1, <1>2

LEMMA FindWith ==
  ASSUME NEW t, NEW len, Placed(t, len), NEW u, NEW newlen, Placed(u, newlen), NEW k \in Keys, NEW v \in Vals,
         Held(u, newlen) = {e \in Held(t, len) : e.key # k} \cup {Entry(k, v)}
  PROVE  [j \in Keys |-> Find(u, newlen, j)] = [[j \in Keys |-> Find(t, len, j)] EXCEPT ![k] = v]
<1>1. Find(u, newlen, k) = v
  BY FindIs
<1>2. ASSUME NEW j \in Keys, j # k
      PROVE  Find(u, newlen, j) = Find(t, len, j)
  <2>1. \A w \in Vals : Entry(j, w) \in Held(u, newlen) <=> Entry(j, w) \in Held(t, len)
    BY <1>2, EntryIs
  <2> QED
    BY <2>1, FindSame
<1> QED
  BY <1>1, <1>2

(* Sequences in which nothing comes twice.                                  *)
LEMMA OnceAfter ==
  ASSUME NEW S, NEW s \in Seq(S), NEW u \in Seq(S), IsInjective(s), IsInjective(u), ToSet(s) \cap ToSet(u) = {}
  PROVE  s \o u \in Seq(S) /\ IsInjective(s \o u) /\ ToSet(s \o u) = ToSet(s) \cup ToSet(u)
<1> DEFINE r == s \o u
           m == Len(s)
           n == Len(u)
<1>0. m \in Nat /\ n \in Nat /\ DOMAIN s = 1..m /\ DOMAIN u = 1..n
  BY LenProperties
<1>1. r \in Seq(S) /\ Len(r) = m + n /\ \A i \in 1..(m + n) : r[i] = IF i <= m THEN s[i] ELSE u[i - m]
  BY ConcatProperties
<1>2. DOMAIN r = 1..(m + n)
  BY <1>1, LenProperties
<1> HIDE DEF r, m, n
<1>3. ASSUME NEW i \in 1..(m + n)
      PROVE  (i \in 1..m /\ r[i] = s[i]) \/ (i - m \in 1..n /\ r[i] = u[i - m])
  BY <1>0, <1>1
<1>4. ASSUME NEW i \in 1..m
      PROVE  i \in 1..(m + n) /\ r[i] = s[i]
  BY <1>0, <1>1
<1>5. ASSUME NEW i \in 1..n
      PROVE  m + i \in 1..(m + n) /\ r[m + i] = u[i]
  <2>1. m + i \in 1..(m + n) /\ ~(m + i <= m) /\ (m + i) - m = i
    BY <1>0
  <2> QED
    BY <2>1, <1>1
<1>6. \A i \in 1..m, j \in 1..n : s[i] # u[j]
  BY <1>0 DEF ToSet
<1>7. IsInjective(r)
  <2> SUFFICES ASSUME NEW i \in 1..(m + n), NEW j \in 1..(m + n), r[i] = r[j]
               PROVE  i = j
    BY <1>2 DEF IsInjective
  <2>1. (i \in 1..m /\ r[i] = s[i]) \/ (i - m \in 1..n /\ r[i] = u[i - m])
    BY <1>3
  <2>2. (j \in 1..m /\ r[j] = s[j]) \/ (j - m \in 1..n /\ r[j] = u[j - m])
    BY <1>3
  <2>3. i \in 1..m /\ j \in 1..m /\ s[i] = s[j] => i = j
    BY <1>0 DEF IsInjective
  <2>4. i - m \in 1..n /\ j - m \in 1..n /\ u[i - m] = u[j - m] => i - m = j - m
    BY <1>0 DEF IsInjective
  <2> QED
    BY <2>1, <2>2, <2>3, <2>4, <1>0, <1>6
<1>8. ToSet(r) = ToSet(s) \cup ToSet(u)
  <2>1. ToSet(r) \subseteq ToSet(s) \cup ToSet(u)
    BY <1>0, <1>2, <1>3 DEF ToSet
  <2>2. ToSet(s) \subseteq ToSet(r)
    BY <1>0, <1>2, <1>4 DEF ToSet
  <2>3. ToSet(u) \subseteq ToSet(r)
    BY <1>0, <1>2, <1>5 DEF ToSet
  <2> QED
    BY <2>1, <2>2, <2>3
<1> QED
  BY <1>1, <1>7, <1>8 DEF r

LEMMA OneOnce ==
  ASSUME NEW S, NEW v \in S
  PROVE  <<v>> \in Seq(S) /\ IsInjective(<<v>>) /\ ToSet(<<v>>) = {v}
<1> DEFINE s == <<v>>
<1>1. s \in Seq(S) /\ DOMAIN s = 1..1 /\ s[1] = v
  OBVIOUS
<1>2. 1..1 = {1}
  OBVIOUS
<1> HIDE DEF s
<1>3. IsInjective(s) /\ ToSet(s) = {v}
  BY <1>1, <1>2 DEF IsInjective, ToSet
<1> QED
  BY <1>1, <1>3 DEF s

LEMMA NoneOnce ==
  ASSUME NEW S
  PROVE  <<>> \in Seq(S) /\ IsInjective(<<>>) /\ ToSet(<<>>) = {}
<1> DEFINE s == <<>>
<1>1. s \in Seq(S) /\ Len(s) = 0
  BY EmptySeq
<1>2. DOMAIN s = 1..0
  BY <1>1, LenProperties
<1>3. 1..0 = {}
  OBVIOUS
<1> HIDE DEF s
<1>4. IsInjective(s) /\ ToSet(s) = {}
  BY <1>2, <1>3 DEF IsInjective, ToSet
<1> QED
  BY <1>1, <1>4 DEF s

(* A table, its count, and the values destroyed so far.                     *)
Store(t, len, n, fr) ==
  /\ Placed(t, len) /\ n = Cardinality(KeysOf(Held(t, len)))
  /\ fr \in Seq(Vals) /\ IsInjective(fr)
  /\ \A e, f \in Held(t, len) : e.val = f.val => e = f
  /\ \A e \in Held(t, len) : e.val \notin ToSet(fr)

(* What a key's removal destroys.                                           *)
LEMMA DestroyedIs ==
  ASSUME NEW t, NEW len, NEW n, NEW fr, Store(t, len, n, fr), NEW k \in Keys
  PROVE  /\ fr \o Destroyed(t, len, k) \in Seq(Vals) /\ IsInjective(fr \o Destroyed(t, len, k))
         /\ ToSet(fr \o Destroyed(t, len, k)) = ToSet(fr) \cup ({Find(t, len, k)} \cap OwnedVals)
<1> DEFINE v == Find(t, len, k)
           d == Destroyed(t, len, k)
<1>1. d = IF v \in OwnedVals THEN <<v>> ELSE <<>>
  BY DEF Destroyed
<1> HIDE DEF d
<1>2. CASE v \in OwnedVals
  <2>1. v \in Vals
    BY <1>2, HashAssumption
  <2>2. Entry(k, v) \in Held(t, len)
    BY <2>1, FindIs DEF Store
  <2>3. v \notin ToSet(fr)
    BY <2>1, <2>2, EntryIs DEF Store
  <2> HIDE DEF v
  <2>4. d \in Seq(Vals) /\ IsInjective(d) /\ ToSet(d) = {v}
    BY <1>1, <1>2, <2>1, OneOnce
  <2>5. ToSet(fr) \cap ToSet(d) = {}
    BY <2>3, <2>4
  <2>6. fr \o d \in Seq(Vals) /\ IsInjective(fr \o d) /\ ToSet(fr \o d) = ToSet(fr) \cup ToSet(d)
    BY <2>4, <2>5, OnceAfter DEF Store
  <2>7. ToSet(d) = {v} \cap OwnedVals
    BY <1>2, <2>4
  <2> QED
    BY <2>6, <2>7 DEF d, v
<1>3. CASE v \notin OwnedVals
  <2> HIDE DEF v
  <2>1. d \in Seq(Vals) /\ IsInjective(d) /\ ToSet(d) = {}
    BY <1>1, <1>3, NoneOnce
  <2>2. fr \o d \in Seq(Vals) /\ IsInjective(fr \o d) /\ ToSet(fr \o d) = ToSet(fr) \cup ToSet(d)
    <3>1. d \in Seq(Vals) /\ IsInjective(d) /\ ToSet(fr) \cap ToSet(d) = {}
      BY <2>1
    <3> QED
      BY <3>1, OnceAfter DEF Store
  <2>3. ToSet(d) = {v} \cap OwnedVals
    BY <1>3, <2>1
  <2> QED
    BY <2>2, <2>3 DEF d, v
<1> QED
  BY <1>2, <1>3

(* The operations on the store.                                             *)
LEMMA StoreSame ==
  ASSUME NEW t, NEW len, NEW n, NEW fr, Store(t, len, n, fr),
         NEW u, NEW newlen, Placed(u, newlen), Held(u, newlen) = Held(t, len)
  PROVE  Store(u, newlen, n, fr)
BY DEF Store

LEMMA KeysFinite ==
  ASSUME NEW t, NEW len, Placed(t, len)
  PROVE  IsFiniteSet(KeysOf(Held(t, len))) /\ Cardinality(KeysOf(Held(t, len))) \in Nat
<1>1. KeysOf(Held(t, len)) \subseteq Keys
  BY EntryIs DEF KeysOf, Held
<1>2. IsFiniteSet(KeysOf(Held(t, len)))
  BY <1>1, HashAssumption, FS_Subset
<1> QED
  BY <1>2, FS_CardinalityType

LEMMA CountAt ==
  ASSUME NEW t, NEW len, Placed(t, len), NEW k \in Keys
  PROVE  /\ Cardinality(At(t[IndexFor(len, k)], k)) = IF At(t[IndexFor(len, k)], k) = {} THEN 0 ELSE 1
         /\ At(t[IndexFor(len, k)], k) = {} <=> k \notin KeysOf(Held(t, len))
<1> DEFINE A == At(t[IndexFor(len, k)], k)
<1>1. t[IndexFor(len, k)] \in Seq(Entries) /\ Once(t[IndexFor(len, k)])
  BY PlacedIs, IndexIs
<1>2. A # {} => \E x : A = {x}
  BY <1>1, AtIs
<1>3. A = {} <=> k \notin KeysOf(Held(t, len))
  BY FindIs DEF KeysOf
<1> HIDE DEF A
<1>4. Cardinality(A) = IF A = {} THEN 0 ELSE 1
  BY <1>2, FS_EmptySet, FS_Singleton
<1> QED
  BY <1>3, <1>4 DEF A

LEMMA StoreRemoved ==
  ASSUME NEW t, NEW len, NEW n, NEW fr, Store(t, len, n, fr), NEW k \in Keys
  PROVE  Store(Removed(t, len, k), len, n - Cardinality(At(t[IndexFor(len, k)], k)), fr \o Destroyed(t, len, k))
<1> DEFINE u == Removed(t, len, k)
           g == fr \o Destroyed(t, len, k)
           H == Held(t, len)
           G == Held(u, len)
           A == At(t[IndexFor(len, k)], k)
<1>1. Placed(u, len) /\ G = {e \in H : e.key # k}
  BY RemovedIs DEF Store
<1>2. g \in Seq(Vals) /\ IsInjective(g) /\ ToSet(g) = ToSet(fr) \cup ({Find(t, len, k)} \cap OwnedVals)
  BY DestroyedIs
<1>3. /\ Cardinality(A) = IF A = {} THEN 0 ELSE 1
      /\ A = {} <=> k \notin KeysOf(H)
  BY CountAt DEF Store
<1>4. \A v \in Vals : Find(t, len, k) = v <=> Entry(k, v) \in H
  BY FindIs DEF Store
<1>5. \A e \in H : e \in Entries
  BY DEF Held
<1>6. n = Cardinality(KeysOf(H)) /\ IsFiniteSet(KeysOf(H)) /\ n \in Nat
  BY KeysFinite DEF Store
<1>7. /\ \A e, f \in H : e.val = f.val => e = f
      /\ \A e \in H : e.val \notin ToSet(fr)
  BY DEF Store
<1> HIDE DEF u, g, H, G, A
<1>8. KeysOf(G) = KeysOf(H) \ {k}
  BY <1>1 DEF KeysOf
<1>9. Cardinality(KeysOf(G)) = n - Cardinality(A)
  BY <1>3, <1>6, <1>8, FS_RemoveElement
<1>10. ASSUME NEW e \in G
       PROVE  e.val \notin ToSet(g)
  <2>1. e \in H /\ e.key # k /\ e.val \in Vals
    BY <1>1, <1>5, EntryIs
  <2>2. e.val # Find(t, len, k)
    BY <2>1, <1>4, <1>7, EntryIs
  <2> QED
    BY <2>1, <2>2, <1>2, <1>7
<1>11. \A e, f \in G : e.val = f.val => e = f
  BY <1>1, <1>7
<1> QED
  BY <1>1, <1>2, <1>9, <1>10, <1>11 DEF Store, u, g, G, A

LEMMA StoreInserted ==
  ASSUME NEW t, NEW len, NEW n, NEW fr, Store(t, len, n, fr), NEW k \in Keys, NEW v \in Vals,
         \A f \in Held(t, len) : f.key # k /\ f.val # v, v \notin ToSet(fr)
  PROVE  /\ Store(InFront(t, len, Entry(k, v)), len, n + 1, fr)
         /\ Held(InFront(t, len, Entry(k, v)), len) = Held(t, len) \cup {Entry(k, v)}
<1> DEFINE e == Entry(k, v)
           u == InFront(t, len, e)
           H == Held(t, len)
           G == Held(u, len)
<1>1. e \in Entries /\ e.key = k /\ e.val = v
  BY EntryIs
<1>2. Placed(u, len) /\ G = H \cup {e}
  <2>1. Placed(t, len) /\ \A f \in Held(t, len) : f.key # e.key
    BY <1>1 DEF Store
  <2> HIDE DEF e
  <2> QED
    BY <1>1, <2>1, InsertedIs
<1>3. n = Cardinality(KeysOf(H)) /\ IsFiniteSet(KeysOf(H)) /\ n \in Nat
  BY KeysFinite DEF Store
<1>4. /\ \A f, g \in H : f.val = g.val => f = g
      /\ \A f \in H : f.val \notin ToSet(fr) /\ f.key # k /\ f.val # v
  BY DEF Store
<1> HIDE DEF e, u, H, G
<1>5. KeysOf(G) = KeysOf(H) \cup {k} /\ k \notin KeysOf(H)
  BY <1>1, <1>2, <1>4 DEF KeysOf
<1>6. Cardinality(KeysOf(G)) = n + 1
  BY <1>3, <1>5, FS_AddElement
<1>7. /\ \A f, g \in G : f.val = g.val => f = g
      /\ \A f \in G : f.val \notin ToSet(fr)
  BY <1>1, <1>2, <1>4
<1>8. Store(u, len, n + 1, fr)
  BY <1>2, <1>6, <1>7 DEF Store, G
<1> QED
  BY <1>2, <1>8 DEF e, u, G, H

LEMMA StoreReplaced ==
  ASSUME NEW t, NEW len, NEW n, NEW fr, Store(t, len, n, fr),
         NEW p \in Buckets(len), NEW i \in 1..Len(t[p]), NEW v \in Vals,
         \A f \in Held(t, len) : f.val # v, v \notin ToSet(fr)
  PROVE  Store(Revalued(t, p, i, v), len, n, fr)
<1> DEFINE k == t[p][i].key
           u == Revalued(t, p, i, v)
           H == Held(t, len)
           G == Held(u, len)
<1>1. Placed(u, len) /\ G = {e \in H : e.key # k} \cup {Entry(k, v)}
  <2>1. Placed(t, len)
    BY DEF Store
  <2> QED
    BY <2>1, ReplacedIs
<1>2. t[p][i] \in H /\ k \in Keys
  <2>1. t[p] \in Seq(Entries)
    BY PlacedIs DEF Store
  <2>2. t[p][i] \in Entries /\ t[p][i] \in ToSet(t[p])
    BY <2>1, ChainIs
  <2> QED
    BY <2>2, EntryIs DEF Held
<1>3. Entry(k, v).key = k /\ Entry(k, v).val = v
  BY <1>2, EntryIs
<1>4. /\ n = Cardinality(KeysOf(H))
      /\ \A f, g \in H : f.val = g.val => f = g
      /\ \A f \in H : f.val \notin ToSet(fr) /\ f.val # v
  BY DEF Store
<1>5. KeysOf(G) = KeysOf(H)
  <2>1. k \in KeysOf(H)
    BY <1>2 DEF KeysOf
  <2> HIDE DEF u, H, G, k
  <2> QED
    BY <2>1, <1>1, <1>3 DEF KeysOf
<1> HIDE DEF u, H, G, k
<1>6. /\ \A f, g \in G : f.val = g.val => f = g
      /\ \A f \in G : f.val \notin ToSet(fr)
  BY <1>1, <1>3, <1>4
<1>7. Store(u, len, n, fr)
  BY <1>1, <1>4, <1>5, <1>6 DEF Store, G
<1> QED
  BY <1>7 DEF u

LEMMA EmptyTable ==
  ASSUME NEW len \in Nat \ {0}
  PROVE  Placed([b \in Buckets(len) |-> <<>>], len) /\ Held([b \in Buckets(len) |-> <<>>], len) = {}
<1> DEFINE t == [b \in Buckets(len) |-> <<>>]
<1>1. t \in [Buckets(len) -> Seq(Entries)] /\ \A b \in Buckets(len) : Once(t[b]) /\ ToSet(t[b]) = {}
  BY EmptyIs
<1> HIDE DEF t
<1>2. Placed(t, len) /\ Held(t, len) = {}
  BY <1>1 DEF Placed, Held
<1> QED
  BY <1>2 DEF t

(* What the destruction of a table destroys.                                *)
ValuesOf(o) == [i \in DOMAIN o |-> o[i].val]
Found(t, len) == {Find(t, len, k) : k \in Keys}
OwnedEntries(t, len) == Chosen(AllEntries(t, len), [key : Keys, val : OwnedVals])

LEMMA OwnedIs ==
  ASSUME NEW t, NEW len, NEW n, NEW fr, Store(t, len, n, fr), NEW o,
         o = OwnedEntries(t, len), NEW d, d = fr \o ValuesOf(o)
  PROVE  /\ d \in Seq(Vals) /\ IsInjective(d)
         /\ ToSet(d) = ToSet(fr) \cup (Found(t, len) \cap OwnedVals)
<1> DEFINE g == [i \in DOMAIN o |-> o[i].val]
           H == Held(t, len)
           a == AllEntries(t, len)
           O == [key : Keys, val : OwnedVals]
<1>1. a \in Seq(Entries) /\ Once(a) /\ ToSet(a) = H
  BY AllEntriesIs DEF Store
<1>2. o \in Seq(Entries) /\ Once(o) /\ ToSet(o) = H \cap O
  <2> HIDE DEF a, H, O
  <2>1. Chosen(a, O) \in Seq(Entries) /\ Once(Chosen(a, O)) /\ ToSet(Chosen(a, O)) = ToSet(a) \cap O
    BY <1>1, ChosenIs
  <2> QED
    BY <1>1, <2>1 DEF a, O, OwnedEntries
<1>3. /\ fr \in Seq(Vals) /\ IsInjective(fr)
      /\ \A e, f \in H : e.val = f.val => e = f
      /\ \A e \in H : e.val \notin ToSet(fr) /\ e \in Entries
      /\ Placed(t, len)
  BY DEF Store, Held
<1> HIDE DEF H, a
<1>4. Len(o) \in Nat /\ DOMAIN o = 1..Len(o) /\ \A i \in 1..Len(o) : o[i] \in H /\ o[i] \in O /\ o[i].val \in Vals
  <2>1. /\ Len(o) \in Nat /\ DOMAIN o = 1..Len(o) /\ \A i \in 1..Len(o) : o[i].val \in Vals
        /\ \A e : e \in ToSet(o) <=> \E i \in 1..Len(o) : o[i] = e
    BY <1>2, ChainIs
  <2> HIDE DEF O
  <2> QED
    BY <2>1, <1>2
<1>5. g \in Seq(Vals) /\ DOMAIN g = 1..Len(o) /\ \A i \in 1..Len(o) : g[i] = o[i].val
  <2>1. g \in [1..Len(o) -> Vals] /\ DOMAIN g = 1..Len(o) /\ \A i \in 1..Len(o) : g[i] = o[i].val
    BY <1>4
  <2> DEFINE m == Len(o)
  <2>2. m \in Nat /\ g \in [1..m -> Vals]
    BY <2>1, <1>4
  <2> HIDE DEF g, m
  <2>3. g \in Seq(Vals)
    BY <2>2, SeqDef
  <2> QED
    BY <2>1, <2>3
<1> HIDE DEF g
<1>6. IsInjective(g)
  <2> SUFFICES ASSUME NEW i \in 1..Len(o), NEW j \in 1..Len(o), g[i] = g[j]
               PROVE  i = j
    BY <1>5 DEF IsInjective
  <2>1. o[i] = o[j]
    <3>1. o[i] \in H /\ o[j] \in H
      BY <1>4
    <3>2. o[i].val = o[j].val
      BY <1>5
    <3> QED
      BY <3>1, <3>2, <1>3
  <2> QED
    BY <2>1, <1>2 DEF Once
<1>7. \A v : v \in ToSet(g) <=> \E i \in 1..Len(o) : o[i].val = v
  BY <1>5 DEF ToSet
<1>8. \A e : e \in ToSet(o) <=> \E i \in 1..Len(o) : o[i] = e
  BY <1>2, ChainIs
<1>9. ASSUME NEW v
      PROVE  v \in ToSet(g) <=> v \in OwnedVals /\ \E e \in H : e.val = v
  <2>1. ASSUME v \in ToSet(g)
        PROVE  v \in OwnedVals /\ \E e \in H : e.val = v
    <3>1. PICK i \in 1..Len(o) : o[i].val = v
      BY <1>7, <2>1
    <3> QED
      BY <3>1, <1>4
  <2>2. ASSUME v \in OwnedVals, NEW e \in H, e.val = v
        PROVE  v \in ToSet(g)
    <3>1. e \in O
      BY <2>2, <1>3 DEF Entries
    <3>2. e \in ToSet(o)
      BY <3>1, <1>2
    <3> HIDE DEF O
    <3> QED
      BY <3>2, <2>2, <1>7, <1>8
  <2> QED
    BY <2>1, <2>2
<1>10. ASSUME NEW v \in Vals
       PROVE  (\E e \in H : e.val = v) <=> \E k \in Keys : Find(t, len, k) = v
  <2>1. \A k \in Keys : Find(t, len, k) = v <=> Entry(k, v) \in H
    BY <1>3, FindIs DEF H
  <2> QED
    BY <2>1, <1>3, EntryIs
<1>11. ToSet(g) = Found(t, len) \cap OwnedVals
  BY <1>9, <1>10, HashAssumption DEF Found
<1>12. ToSet(fr) \cap ToSet(g) = {}
  BY <1>3, <1>9
<1>13. fr \o g \in Seq(Vals) /\ IsInjective(fr \o g) /\ ToSet(fr \o g) = ToSet(fr) \cup ToSet(g)
  BY <1>3, <1>5, <1>6, <1>12, OnceAfter
<1> QED
  BY <1>11, <1>13 DEF g, ValuesOf

-----------------------------------------------------------------------------
(***************************************************************************)
(* Iterations.                                                             *)
(***************************************************************************)
(* an iteration that stands at key x of bucket p has still to come to k     *)
Ahead(t, len, p, x, k) ==
  IndexFor(len, k) > p \/ (IndexFor(len, k) = p /\ Follows(t[p], x, k))

(* It stands at an entry; what it gave is behind it, and what is behind it  *)
(* and was there from the start, it gave.                                   *)
Going(t, len, p, x, sn, dr) ==
  /\ p \in Buckets(len) /\ x \in ToSet(sn)
  /\ \E e \in ToSet(t[p]) : e.key = x
  /\ dr \subseteq KeysOf(Held(t, len))
  /\ \A k \in KeysOf(Held(t, len)) :
       /\ Ahead(t, len, p, x, k) => k \notin ToSet(sn)
       /\ k \in dr => Ahead(t, len, p, x, k) \/ k \in ToSet(sn)

LEMMA GoingRemoved ==
  ASSUME NEW t, NEW len, Placed(t, len), NEW p, NEW x, NEW sn, NEW dr, Going(t, len, p, x, sn, dr),
         NEW k \in Keys, k # x
  PROVE  Going(Removed(t, len, k), len, p, x, sn, dr \ {k})
<1> DEFINE u == Removed(t, len, k)
<1>1. /\ Placed(u, len) /\ Held(u, len) = {e \in Held(t, len) : e.key # k}
      /\ \A b \in Buckets(len) : \A y, z : y # k /\ z # k => (Follows(u[b], y, z) <=> Follows(t[b], y, z))
  BY RemovedIs
<1> HIDE DEF u
<1>2. KeysOf(Held(u, len)) = KeysOf(Held(t, len)) \ {k}
  BY <1>1 DEF KeysOf
<1>3. \A j \in KeysOf(Held(u, len)) : Ahead(u, len, p, x, j) <=> Ahead(t, len, p, x, j)
  BY <1>1, <1>2 DEF Going, Ahead
<1>4. \E e \in ToSet(u[p]) : e.key = x
  <2>1. PICK e \in ToSet(t[p]) : e.key = x
    BY DEF Going
  <2>2. e \in Held(t, len) /\ IndexFor(len, e.key) = p
    BY PlacedIs DEF Going, Held
  <2>3. e \in Held(u, len)
    BY <2>1, <2>2, <1>1
  <2>4. e \in ToSet(u[IndexFor(len, e.key)])
    BY <2>3, <1>1, PlacedIs
  <2> QED
    BY <2>1, <2>2, <2>4
<1>5. Going(u, len, p, x, sn, dr \ {k})
  BY <1>2, <1>3, <1>4 DEF Going
<1> QED
  BY <1>5 DEF u

LEMMA GoingReplaced ==
  ASSUME NEW t, NEW len, Placed(t, len), NEW p, NEW x, NEW sn, NEW dr, Going(t, len, p, x, sn, dr),
         NEW i \in 1..Len(t[p]), NEW v \in Vals
  PROVE  Going(Revalued(t, p, i, v), len, p, x, sn, dr)
<1> DEFINE u == Revalued(t, p, i, v)
           k == t[p][i].key
<1>0. p \in Buckets(len)
  BY DEF Going
<1>1. /\ Placed(u, len) /\ Held(u, len) = {e \in Held(t, len) : e.key # k} \cup {Entry(k, v)}
      /\ \A b \in Buckets(len) : \A y, z : Follows(u[b], y, z) <=> Follows(t[b], y, z)
  <2>1. /\ Placed(Revalued(t, p, i, v), len)
        /\ Held(Revalued(t, p, i, v), len)
             = {e \in Held(t, len) : e.key # t[p][i].key} \cup {Entry(t[p][i].key, v)}
    BY <1>0, ReplacedIs
  <2>2. \A b \in Buckets(len) : \A y, z : Follows(Revalued(t, p, i, v)[b], y, z) <=> Follows(t[b], y, z)
    BY <1>0, ReplacedIs
  <2> QED
    BY <2>1, <2>2
<1>2. t[p][i] \in Held(t, len) /\ k \in Keys
  <2>1. t[p] \in Seq(Entries)
    BY <1>0, PlacedIs
  <2>2. t[p][i] \in Entries /\ t[p][i] \in ToSet(t[p])
    BY <2>1, ChainIs
  <2> QED
    BY <1>0, <2>2, EntryIs DEF Held
<1>3. k \in KeysOf(Held(t, len)) /\ Entry(k, v).key = k
  BY <1>2, EntryIs DEF KeysOf
<1> HIDE DEF u, k
<1>4. KeysOf(Held(u, len)) = KeysOf(Held(t, len))
  BY <1>1, <1>3 DEF KeysOf
<1>5. \A j : Ahead(u, len, p, x, j) <=> Ahead(t, len, p, x, j)
  BY <1>0, <1>1 DEF Ahead
<1>6. \E e \in ToSet(u[p]) : e.key = x
  <2>1. PICK e \in ToSet(t[p]) : e.key = x
    BY DEF Going
  <2>2. e \in Held(t, len) /\ IndexFor(len, e.key) = p
    BY PlacedIs DEF Going, Held
  <2>3. PICK f \in Held(u, len) : f.key = x
    BY <2>1, <2>2, <1>4 DEF KeysOf
  <2>4. f \in ToSet(u[IndexFor(len, f.key)])
    BY <2>3, <1>1, PlacedIs
  <2> QED
    BY <2>1, <2>2, <2>3, <2>4
<1>7. Going(u, len, p, x, sn, dr)
  BY <1>4, <1>5, <1>6 DEF Going
<1> QED
  BY <1>7 DEF u

(* Where a key is.                                                          *)
LEMMA KeyAt ==
  ASSUME NEW t, NEW len, Placed(t, len), NEW b \in Buckets(len)
  PROVE  /\ t[b] \in Seq(Entries) /\ Len(t[b]) \in Nat
         /\ \A i \in 1..Len(t[b]) : t[b][i].key \in KeysOf(Held(t, len)) /\ IndexFor(len, t[b][i].key) = b
         /\ \A i, j \in 1..Len(t[b]) : t[b][i].key = t[b][j].key => i = j
         /\ \A k \in KeysOf(Held(t, len)) : IndexFor(len, k) = b => \E i \in 1..Len(t[b]) : t[b][i].key = k
<1> DEFINE s == t[b]
<1>1. /\ s \in Seq(Entries) /\ Once(s)
      /\ \A e \in ToSet(s) : e \in Entries /\ IndexFor(len, e.key) = b
      /\ \A e : e \in Held(t, len) <=> e \in Entries /\ e \in ToSet(t[IndexFor(len, e.key)])
  BY PlacedIs
<1>2. Len(s) \in Nat /\ \A e : e \in ToSet(s) <=> \E i \in 1..Len(s) : s[i] = e
  BY <1>1, ChainIs
<1>3. ASSUME NEW i \in 1..Len(s)
      PROVE  s[i].key \in KeysOf(Held(t, len)) /\ IndexFor(len, s[i].key) = b
  <2>1. s[i] \in ToSet(s)
    BY <1>2
  <2>2. s[i] \in Held(t, len)
    BY <2>1, <1>1
  <2> QED
    BY <2>1, <2>2, <1>1 DEF KeysOf
<1>4. ASSUME NEW k \in KeysOf(Held(t, len)), IndexFor(len, k) = b
      PROVE  \E i \in 1..Len(s) : s[i].key = k
  <2>1. PICK e \in Held(t, len) : e.key = k
    BY DEF KeysOf
  <2>2. e \in ToSet(s)
    BY <2>1, <1>1, <1>4
  <2> QED
    BY <2>1, <2>2, <1>2
<1> QED
  BY <1>1, <1>2, <1>3, <1>4 DEF Once

(* From the end of a chain only later buckets are ahead, from its start all *)
(* but the first, and a step along it leaves the key it comes to behind.    *)
LEMMA LastAhead ==
  ASSUME NEW t, NEW len, Placed(t, len), NEW b \in Buckets(len), NEW i \in 1..Len(t[b]), ~(i < Len(t[b])),
         NEW k
  PROVE  Ahead(t, len, b, t[b][i].key, k) <=> IndexFor(len, k) > b
<1>1. Len(t[b]) \in Nat /\ \A j, m \in 1..Len(t[b]) : t[b][j].key = t[b][m].key => j = m
  BY KeyAt
<1>2. ~Follows(t[b], t[b][i].key, k)
  BY <1>1 DEF Follows
<1> QED
  BY <1>2 DEF Ahead

LEMMA FirstAhead ==
  ASSUME NEW t, NEW len, Placed(t, len), NEW b \in Buckets(len), t[b] # <<>>
  PROVE  /\ t[b][1].key \in KeysOf(Held(t, len)) /\ IndexFor(len, t[b][1].key) = b
         /\ \E e \in ToSet(t[b]) : e.key = t[b][1].key
         /\ \A k \in KeysOf(Held(t, len)) :
              Ahead(t, len, b, t[b][1].key, k) <=> IndexFor(len, k) >= b /\ k # t[b][1].key
<1> DEFINE s == t[b]
<1>1. /\ s \in Seq(Entries) /\ Len(s) \in Nat
      /\ \A i \in 1..Len(s) : s[i].key \in KeysOf(Held(t, len)) /\ IndexFor(len, s[i].key) = b
      /\ \A i, j \in 1..Len(s) : s[i].key = s[j].key => i = j
      /\ \A k \in KeysOf(Held(t, len)) : IndexFor(len, k) = b => \E i \in 1..Len(s) : s[i].key = k
  BY KeyAt
<1>2. 1 \in 1..Len(s)
  <2>1. Len(s) # 0
    BY <1>1, EmptySeq
  <2> QED
    BY <2>1, <1>1
<1>3. s[1] \in ToSet(s)
  BY <1>1, <1>2, ChainIs
<1>4. IndexFor(len, s[1].key) = b /\ b \in Nat /\ s[1].key \in KeysOf(Held(t, len))
  BY <1>1, <1>2 DEF Buckets
<1>5. ASSUME NEW k \in KeysOf(Held(t, len))
      PROVE  IndexFor(len, k) \in Nat
  <2>1. k \in Keys /\ len \in Nat \ {0}
    BY EntryIs DEF KeysOf, Held, Placed
  <2> QED
    BY <2>1, IndexIs DEF Buckets
<1>6. ASSUME NEW k \in KeysOf(Held(t, len)), IndexFor(len, k) = b
      PROVE  Follows(s, s[1].key, k) <=> k # s[1].key
  <2>1. PICK j \in 1..Len(s) : s[j].key = k
    BY <1>1, <1>6
  <2>2. j = 1 \/ 1 < j
    BY <2>1, <1>1
  <2> HIDE DEF s
  <2>3. Follows(s, s[1].key, k) => k # s[1].key
    BY <1>1, <1>2 DEF Follows
  <2>4. k # s[1].key => Follows(s, s[1].key, k)
    BY <1>2, <2>1, <2>2 DEF Follows
  <2> QED
    BY <2>3, <2>4
<1> HIDE DEF s
<1>7. ASSUME NEW k \in KeysOf(Held(t, len))
      PROVE  Ahead(t, len, b, s[1].key, k) <=> IndexFor(len, k) >= b /\ k # s[1].key
  <2>1. IndexFor(len, k) > b => k # s[1].key
    BY <1>4
  <2>2. Ahead(t, len, b, s[1].key, k)
          <=> IndexFor(len, k) > b \/ (IndexFor(len, k) = b /\ Follows(s, s[1].key, k))
    BY DEF Ahead, s
  <2> QED
    BY <1>4, <1>5, <1>6, <2>1, <2>2
<1> QED
  BY <1>3, <1>4, <1>7 DEF s

LEMMA StepAhead ==
  ASSUME NEW t, NEW len, Placed(t, len), NEW b \in Buckets(len), NEW i \in 1..Len(t[b]), i < Len(t[b]),
         NEW n, n = i + 1, NEW x, x = t[b][i].key, NEW y, y = t[b][n].key
  PROVE  /\ y \in KeysOf(Held(t, len)) /\ \E e \in ToSet(t[b]) : e.key = y
         /\ Ahead(t, len, b, x, y)
         /\ \A k : Ahead(t, len, b, y, k) <=> Ahead(t, len, b, x, k) /\ k # y
<1> DEFINE s == t[b]
<1>1. /\ s \in Seq(Entries) /\ Len(s) \in Nat /\ b \in Nat
      /\ \A j \in 1..Len(s) : s[j].key \in KeysOf(Held(t, len)) /\ IndexFor(len, s[j].key) = b
      /\ \A j, m \in 1..Len(s) : s[j].key = s[m].key => j = m
  BY KeyAt DEF Buckets
<1>2. n \in 1..Len(s) /\ i < n /\ i \in 1..Len(s) /\ i \in Nat /\ \A m \in 1..Len(s) : i < m => m = n \/ n < m
  BY <1>1
<1>3. s[n] \in ToSet(s)
  BY <1>1, <1>2, ChainIs
<1>4. IndexFor(len, s[n].key) = b /\ s[n].key \in KeysOf(Held(t, len))
  BY <1>1, <1>2
<1> HIDE DEF s
<1>5. Follows(s, s[i].key, s[n].key)
  BY <1>2 DEF Follows
<1>6. ASSUME NEW k
      PROVE  Follows(s, s[n].key, k) <=> Follows(s, s[i].key, k) /\ k # s[n].key
  <2>1. ASSUME Follows(s, s[n].key, k)
        PROVE  Follows(s, s[i].key, k) /\ k # s[n].key
    <3>1. PICK j \in 1..Len(s), m \in 1..Len(s) : j < m /\ s[j].key = s[n].key /\ s[m].key = k
      BY <2>1 DEF Follows
    <3>2. j = n /\ m # n /\ i < m
      BY <3>1, <1>1, <1>2
    <3> QED
      BY <3>1, <3>2, <1>1, <1>2 DEF Follows
  <2>2. ASSUME Follows(s, s[i].key, k), k # s[n].key
        PROVE  Follows(s, s[n].key, k)
    <3>1. PICK j \in 1..Len(s), m \in 1..Len(s) : j < m /\ s[j].key = s[i].key /\ s[m].key = k
      BY <2>2 DEF Follows
    <3>2. j = i /\ m # n
      BY <3>1, <2>2, <1>1, <1>2
    <3>3. n < m
      BY <3>1, <3>2, <1>2
    <3> QED
      BY <3>1, <3>3, <1>2 DEF Follows
  <2> QED
    BY <2>1, <2>2
<1>7. Ahead(t, len, b, s[i].key, s[n].key)
  BY <1>4, <1>5 DEF Ahead, s
<1>8. ASSUME NEW k
      PROVE  Ahead(t, len, b, s[n].key, k) <=> Ahead(t, len, b, s[i].key, k) /\ k # s[n].key
  <2>1. /\ Ahead(t, len, b, s[n].key, k)
             <=> IndexFor(len, k) > b \/ (IndexFor(len, k) = b /\ Follows(s, s[n].key, k))
        /\ Ahead(t, len, b, s[i].key, k)
             <=> IndexFor(len, k) > b \/ (IndexFor(len, k) = b /\ Follows(s, s[i].key, k))
    BY DEF Ahead, s
  <2>2. IndexFor(len, k) > b => k # s[n].key
    BY <1>1, <1>4
  <2> QED
    BY <2>1, <2>2, <1>6
<1> QED
  BY <1>3, <1>4, <1>7, <1>8 DEF s

(* y is the first of the keys ahead of x.                                   *)
Leaves(t, len, b, x, y) ==
  \A k : Ahead(t, len, b, y, k) <=> Ahead(t, len, b, x, k) /\ k # y

LEMMA StepLeaves ==
  ASSUME NEW t, NEW len, Placed(t, len), NEW b \in Buckets(len), NEW i \in 1..Len(t[b]), i < Len(t[b]),
         NEW n, n = i + 1, NEW x, x = t[b][i].key, NEW y, y = t[b][n].key
  PROVE  Leaves(t, len, b, x, y)
BY StepAhead DEF Leaves

(* The iterator came to the next of the keys that were ahead.               *)
CameTo(y, A) ==
  /\ y \in [pos : Nat, e : Keys] /\ y.pos \in Buckets(tablelength)
  /\ \E e \in ToSet(table[y.pos]) : e.key = y.e
  /\ y.e \in A
  /\ \A k \in KeysOf(Held(table, tablelength)) :
       Ahead(table, tablelength, y.pos, y.e, k) <=> k \in A /\ k # y.e

(* The first entry of the chains from a bucket on.                        *)
FromChain(from) ==
  IF NonEmpty(from) = {} THEN NoVal
  ELSE LET b == CHOOSE x \in NonEmpty(from) : \A z \in NonEmpty(from) : x <= z
       IN [pos |-> b, e |-> table[b][1].key]

LEMMA NextChain ==
  ASSUME Placed(table, tablelength), NEW from \in Nat, NEW y, NEW A,
         A = {k \in KeysOf(Held(table, tablelength)) : IndexFor(tablelength, k) >= from},
         y = FromChain(from)
  PROVE  (y = NoVal => A = {}) /\ (y # NoVal => CameTo(y, A))
<1> DEFINE K == KeysOf(Held(table, tablelength))
           bs == NonEmpty(from)
           b == CHOOSE x \in bs : \A z \in bs : x <= z
<1>1. ASSUME NEW k \in K
      PROVE  /\ IndexFor(tablelength, k) \in Buckets(tablelength) /\ k \in Keys
             /\ table[IndexFor(tablelength, k)] # <<>>
  <2>1. k \in Keys /\ tablelength \in Nat \ {0}
    BY EntryIs DEF KeysOf, Held, Placed
  <2>2. IndexFor(tablelength, k) \in Buckets(tablelength)
    BY <2>1, IndexIs
  <2>3. PICK i \in 1..Len(table[IndexFor(tablelength, k)]) : table[IndexFor(tablelength, k)][i].key = k
    BY <2>2, KeyAt
  <2>4. Len(table[IndexFor(tablelength, k)]) # 0
    BY <2>3
  <2> QED
    BY <2>1, <2>2, <2>4, EmptyIs
<1>2. \A k \in A : IndexFor(tablelength, k) \in bs
  BY <1>1 DEF NonEmpty
<1>3. CASE bs = {}
  BY <1>2, <1>3 DEF FromChain
<1>4. CASE bs # {}
  <2>1. bs \subseteq Nat
    BY DEF NonEmpty, Buckets
  <2>2. b \in bs /\ \A z \in bs : b <= z
    <3>1. \E x \in bs : \A z \in bs : x <= z
      BY <1>4, <2>1, LeastMember
    <3> HIDE DEF bs
    <3> QED
      BY <3>1
  <2>3. b \in Buckets(tablelength) /\ b >= from /\ table[b] # <<>> /\ b \in Nat
    BY <2>1, <2>2 DEF NonEmpty
  <2>4. y = [pos |-> b, e |-> table[b][1].key]
    BY <1>4 DEF FromChain
  <2> HIDE DEF bs, b
  <2> DEFINE c == table[b][1].key
  <2>5. /\ c \in K /\ IndexFor(tablelength, c) = b
        /\ \E e \in ToSet(table[b]) : e.key = c
        /\ \A k \in K : Ahead(table, tablelength, b, c, k) <=> IndexFor(tablelength, k) >= b /\ k # c
    BY <2>3, FirstAhead
  <2>6. y.pos = b /\ y.e = c /\ y = [pos |-> b, e |-> c]
    BY <2>4
  <2>7. \A k \in K : IndexFor(tablelength, k) \in Nat /\ k \in Keys
    BY <1>1 DEF Buckets
  <2>8. \A k \in K : k \in A <=> IndexFor(tablelength, k) >= b
    BY <1>2, <2>1, <2>2, <2>3, <2>7
  <2> HIDE DEF c, K
  <2>9. c \in A
    BY <2>5, <2>7, <2>8, <2>3
  <2>10. y \in [pos : Nat, e : Keys]
    BY <2>3, <2>5, <2>6, <2>7
  <2>11. CameTo(y, A)
    BY <2>3, <2>5, <2>6, <2>8, <2>9, <2>10 DEF CameTo, K
  <2> QED
    BY <2>10, <2>11, HashAssumption
<1> QED
  BY <1>3, <1>4

LEMMA FirstIs ==
  ASSUME Placed(table, tablelength), NEW y, y = Successor(0, NoVal)
  PROVE  /\ y = NoVal => KeysOf(Held(table, tablelength)) = {}
         /\ y # NoVal => CameTo(y, KeysOf(Held(table, tablelength)))
<1> DEFINE A == {k \in KeysOf(Held(table, tablelength)) : IndexFor(tablelength, k) >= 0}
<1>1. y = FromChain(0)
  BY DEF Successor, FromChain
<1>2. A = KeysOf(Held(table, tablelength))
  <2>1. \A k \in KeysOf(Held(table, tablelength)) : k \in Keys /\ tablelength \in Nat \ {0}
    BY EntryIs DEF KeysOf, Held, Placed
  <2>2. \A k \in KeysOf(Held(table, tablelength)) : IndexFor(tablelength, k) \in Nat
    BY <2>1, IndexIs DEF Buckets
  <2> QED
    BY <2>2
<1>3. (y = NoVal => A = {}) /\ (y # NoVal => CameTo(y, A))
  <2> HIDE DEF A
  <2>1. A = {k \in KeysOf(Held(table, tablelength)) : IndexFor(tablelength, k) >= 0}
    BY DEF A
  <2> QED
    BY <1>1, <2>1, NextChain
<1> QED
  BY <1>2, <1>3

LEMMA NextIs ==
  ASSUME Placed(table, tablelength), NEW p \in Buckets(tablelength), NEW x \in Keys,
         \E e \in ToSet(table[p]) : e.key = x, NEW y, y = Successor(p, x), NEW A,
         A = {k \in KeysOf(Held(table, tablelength)) : Ahead(table, tablelength, p, x, k)}
  PROVE  (y = NoVal => A = {}) /\ (y # NoVal => CameTo(y, A))
<1> DEFINE s == table[p]
           i == CHOOSE j \in DOMAIN s : s[j].key = x
           K == KeysOf(Held(table, tablelength))
<1>1. /\ s \in Seq(Entries) /\ Len(s) \in Nat
      /\ \A j, m \in 1..Len(s) : s[j].key = s[m].key => j = m
  BY KeyAt
<1>2. DOMAIN s = 1..Len(s) /\ \A e : e \in ToSet(s) <=> \E j \in 1..Len(s) : s[j] = e
  BY <1>1, ChainIs
<1>3. i \in 1..Len(s) /\ s[i].key = x
  <2>1. \E j \in DOMAIN s : s[j].key = x
    BY <1>2
  <2> HIDE DEF s
  <2> QED
    BY <1>2, <2>1
<1>4. x # NoVal
  BY HashAssumption
<1>5. y = IF i < Len(s) THEN [pos |-> p, e |-> s[i + 1].key]
          ELSE FromChain(p + 1)
  BY <1>4 DEF Successor, FromChain
<1> HIDE DEF i
<1>6. CASE i < Len(s)
  <2> DEFINE n == i + 1
             c == s[n].key
  <2>0. n = i + 1
    OBVIOUS
  <2> HIDE DEF n
  <2>1. /\ c \in K /\ \E e \in ToSet(s) : e.key = c
        /\ Ahead(table, tablelength, p, x, c)
        /\ \A k : Ahead(table, tablelength, p, c, k) <=> Ahead(table, tablelength, p, x, k) /\ k # c
    <3>1. c = s[n].key
      OBVIOUS
    <3> HIDE DEF c
    <3>2. /\ i \in 1..Len(table[p]) /\ i < Len(table[p]) /\ n = i + 1
          /\ x = table[p][i].key /\ c = table[p][n].key
      BY <1>3, <1>6, <2>0, <3>1
    <3> HIDE DEF s
    <3>3. c \in K
      BY <3>2, StepAhead
    <3>4. \E e \in ToSet(s) : e.key = c
      BY <3>2, StepAhead DEF s
    <3>5. Ahead(table, tablelength, p, x, c)
      BY <3>2, StepAhead
    <3>6. Leaves(table, tablelength, p, x, c)
      BY <3>2, StepLeaves
    <3> QED
      BY <3>3, <3>4, <3>5, <3>6 DEF Leaves
  <2>2. y = [pos |-> p, e |-> c]
    BY <1>5, <1>6, <2>0
  <2>3. y.pos = p /\ y.e = c /\ p \in Nat /\ c \in Keys
    BY <2>1, <2>2, EntryIs DEF KeysOf, Held, Buckets
  <2>4. y \in [pos : Nat, e : Keys]
    BY <2>2, <2>3
  <2> HIDE DEF c
  <2>5. CameTo(y, A)
    BY <1>3, <2>1, <2>3, <2>4 DEF CameTo
  <2> QED
    BY <2>4, <2>5, HashAssumption
<1>7. CASE ~(i < Len(s))
  <2>1. \A k : Ahead(table, tablelength, p, x, k) <=> IndexFor(tablelength, k) > p
    <3>1. \A k : Ahead(table, tablelength, p, s[i].key, k) <=> IndexFor(tablelength, k) > p
      BY <1>3, <1>7, LastAhead
    <3> QED
      BY <3>1, <1>3
  <2>2. \A k \in K : IndexFor(tablelength, k) \in Nat
    <3>1. \A k \in K : k \in Keys /\ tablelength \in Nat \ {0}
      BY EntryIs DEF KeysOf, Held, Placed
    <3> QED
      BY <3>1, IndexIs DEF Buckets
  <2>3. A = {k \in K : IndexFor(tablelength, k) >= p + 1} /\ p + 1 \in Nat
    BY <2>1, <2>2 DEF Buckets
  <2>4. y = FromChain(p + 1)
    BY <1>5, <1>7
  <2> DEFINE q == p + 1
  <2> HIDE DEF q
  <2>5. /\ A = {k \in K : IndexFor(tablelength, k) >= q} /\ q \in Nat
        /\ y = FromChain(q)
    BY <2>3, <2>4 DEF q
  <2> QED
    BY <2>5, NextChain
<1> QED
  BY <1>6, <1>7

(* What an iteration gives.                                                 *)
LEMMA GoingOn ==
  ASSUME Placed(table, tablelength), NEW p, NEW x \in Keys, NEW sn \in Seq(Keys), IsInjective(sn), NEW dr,
         Going(table, tablelength, p, x, sn, dr), NEW y, y = Successor(p, x)
  PROVE  /\ y = NoVal => dr \subseteq ToSet(sn)
         /\ y # NoVal => /\ y \in [pos : Nat, e : Keys]
                         /\ Append(sn, y.e) \in Seq(Keys) /\ IsInjective(Append(sn, y.e))
                         /\ Going(table, tablelength, y.pos, y.e, Append(sn, y.e), dr)
<1> DEFINE K == KeysOf(Held(table, tablelength))
           A == {k \in K : Ahead(table, tablelength, p, x, k)}
<1>1. /\ p \in Buckets(tablelength) /\ \E e \in ToSet(table[p]) : e.key = x
      /\ dr \subseteq K
      /\ \A k \in A : k \notin ToSet(sn)
      /\ \A k \in dr : k \in A \/ k \in ToSet(sn)
  BY DEF Going
<1>2. (y = NoVal => A = {}) /\ (y # NoVal => CameTo(y, A))
  <2>1. A = {k \in K : Ahead(table, tablelength, p, x, k)}
    OBVIOUS
  <2> HIDE DEF A
  <2> QED
    BY <1>1, <2>1, NextIs
<1>3. A \subseteq K
  OBVIOUS
<1> HIDE DEF A
<1>4. y = NoVal => dr \subseteq ToSet(sn)
  BY <1>1, <1>2
<1>5. ASSUME y # NoVal
      PROVE  /\ y \in [pos : Nat, e : Keys]
             /\ Append(sn, y.e) \in Seq(Keys) /\ IsInjective(Append(sn, y.e))
             /\ Going(table, tablelength, y.pos, y.e, Append(sn, y.e), dr)
  <2>1. /\ y \in [pos : Nat, e : Keys] /\ y.pos \in Buckets(tablelength)
        /\ \E e \in ToSet(table[y.pos]) : e.key = y.e
        /\ y.e \in A /\ y.e \in Keys
        /\ \A k \in K : Ahead(table, tablelength, y.pos, y.e, k) <=> k \in A /\ k # y.e
    BY <1>2, <1>5 DEF CameTo
  <2> DEFINE w == <<y.e>>
             g == Append(sn, y.e)
  <2>2. w \in Seq(Keys) /\ IsInjective(w) /\ ToSet(w) = {y.e}
    BY <2>1, OneOnce
  <2>3. g = sn \o w
    BY <2>1, AppendIsConcat
  <2> HIDE DEF w, g
  <2>4. ToSet(sn) \cap ToSet(w) = {}
    BY <1>1, <2>1, <2>2
  <2>5. g \in Seq(Keys) /\ IsInjective(g) /\ ToSet(g) = ToSet(sn) \cup ToSet(w)
    BY <2>2, <2>3, <2>4, OnceAfter
  <2>6. ToSet(g) = ToSet(sn) \cup {y.e}
    BY <2>2, <2>5
  <2>7. Going(table, tablelength, y.pos, y.e, g, dr)
    BY <1>1, <1>3, <2>1, <2>6 DEF Going
  <2> QED
    BY <2>1, <2>5, <2>7 DEF g
<1> QED
  BY <1>4, <1>5

LEMMA GoingFirst ==
  ASSUME Placed(table, tablelength), NEW y, y = Successor(0, NoVal), y # NoVal
  PROVE  /\ y \in [pos : Nat, e : Keys] /\ <<y.e>> \in Seq(Keys) /\ IsInjective(<<y.e>>)
         /\ Going(table, tablelength, y.pos, y.e, <<y.e>>, KeysOf(Held(table, tablelength)))
<1> DEFINE K == KeysOf(Held(table, tablelength))
           w == <<y.e>>
<1>1. /\ y \in [pos : Nat, e : Keys] /\ y.pos \in Buckets(tablelength)
      /\ \E e \in ToSet(table[y.pos]) : e.key = y.e
      /\ y.e \in K /\ y.e \in Keys
      /\ \A k \in K : Ahead(table, tablelength, y.pos, y.e, k) <=> k \in K /\ k # y.e
  BY FirstIs DEF CameTo
<1>2. w \in Seq(Keys) /\ IsInjective(w) /\ ToSet(w) = {y.e}
  BY <1>1, OneOnce
<1> HIDE DEF w, K
<1>3. Going(table, tablelength, y.pos, y.e, w, K)
  BY <1>1, <1>2 DEF Going, K
<1> QED
  BY <1>1, <1>2, <1>3 DEF w, K

-----------------------------------------------------------------------------
(***************************************************************************)
(* The invariant, and what every operation does.                           *)
(***************************************************************************)
HashState(pi, t, n, fr, it, sn, dr) ==
  /\ pi \in 1..Len(Primes) /\ Store(t, Primes[pi], n, fr)
  /\ sn \in Seq(Keys) /\ IsInjective(sn)
  /\ it # NoVal => it \in [pos : Nat, e : Keys] /\ Going(t, Primes[pi], it.pos, it.e, sn, dr)

HashInv == HashState(primeindex, table, entrycount, freed, iter, seen, during)

LEMMA PrimeIs ==
  ASSUME NEW pi \in 1..Len(Primes)
  PROVE  Primes[pi] \in Nat \ {0}
BY HashAssumption, ElementOfSeq

(* the content of a table *)
ContentOf(t, len) == [k \in Keys |-> Find(t, len, k)]

LEMMA ContentIs ==
  /\ Content = ContentOf(table, tablelength)
  /\ Content' = ContentOf(table', tablelength')
BY DEF Content, wstk_hash_find, ContentOf

LEMMA StoreSound ==
  ASSUME NEW t, NEW len, NEW n, NEW fr, Store(t, len, n, fr), NEW f, f = ContentOf(t, len)
  PROVE  /\ DOMAIN t = Buckets(len)
         /\ \A b \in DOMAIN t : \A i, j \in DOMAIN t[b] :
              IndexFor(len, t[b][i].key) = b /\ (t[b][i].key = t[b][j].key => i = j)
         /\ n = Cardinality({k \in Keys : f[k] # NoVal})
         /\ IsInjective(fr) /\ \A k \in Keys : f[k] \notin ToSet(fr)
<1>1. Placed(t, len)
  BY DEF Store
<1>2. DOMAIN t = Buckets(len)
  BY <1>1, PlacedIs
<1>3. ASSUME NEW b \in Buckets(len)
      PROVE  \A i, j \in DOMAIN t[b] :
               IndexFor(len, t[b][i].key) = b /\ (t[b][i].key = t[b][j].key => i = j)
  <2>1. /\ t[b] \in Seq(Entries)
        /\ \A i \in 1..Len(t[b]) : IndexFor(len, t[b][i].key) = b
        /\ \A i, j \in 1..Len(t[b]) : t[b][i].key = t[b][j].key => i = j
    BY <1>1, KeyAt
  <2>2. DOMAIN t[b] = 1..Len(t[b])
    BY <2>1, ChainIs
  <2> QED
    BY <2>1, <2>2
<1>4. \A k \in Keys : /\ f[k] \in Vals \cup {NoVal}
                      /\ \A v \in Vals : f[k] = v <=> Entry(k, v) \in Held(t, len)
                      /\ f[k] = NoVal <=> \A e \in Held(t, len) : e.key # k
  BY <1>1, FindIs DEF ContentOf
<1>5. {k \in Keys : f[k] # NoVal} = KeysOf(Held(t, len))
  <2>1. KeysOf(Held(t, len)) \subseteq Keys
    BY EntryIs DEF KeysOf, Held
  <2> QED
    BY <2>1, <1>4 DEF KeysOf
<1>6. ASSUME NEW k \in Keys
      PROVE  f[k] \notin ToSet(fr)
  <2>1. CASE f[k] = NoVal
    <3>1. ToSet(fr) \subseteq Vals
      <4>1. fr \in Seq(Vals) /\ DOMAIN fr = 1..Len(fr)
        BY LenProperties DEF Store
      <4>2. \A i \in 1..Len(fr) : fr[i] \in Vals
        BY <4>1, ElementOfSeq
      <4> QED
        BY <4>1, <4>2 DEF ToSet
    <3> QED
      BY <2>1, <3>1, HashAssumption
  <2>2. CASE f[k] # NoVal
    <3>1. f[k] \in Vals /\ Entry(k, f[k]) \in Held(t, len)
      BY <1>4, <2>2
    <3> QED
      BY <3>1, EntryIs DEF Store
  <2> QED
    BY <2>1, <2>2
<1> QED
  BY <1>2, <1>3, <1>5, <1>6 DEF Store

LEMMA SoundThen ==
  ASSUME NEW len, len = tablelength', Store(table', len, entrycount', freed')
  PROVE  TableSound'
<1> DEFINE f == Content'
<1>1. f = ContentOf(table', len)
  BY ContentIs
<1> HIDE DEF f
<1>2. /\ DOMAIN table' = Buckets(len)
      /\ \A b \in DOMAIN table' : \A i, j \in DOMAIN table'[b] :
           IndexFor(len, table'[b][i].key) = b /\ (table'[b][i].key = table'[b][j].key => i = j)
      /\ entrycount' = Cardinality({k \in Keys : f[k] # NoVal})
      /\ IsInjective(freed') /\ \A k \in Keys : f[k] \notin ToSet(freed')
  BY <1>1, StoreSound
<1>3. (\A b \in DOMAIN table : \A i, j \in DOMAIN table[b] :
         /\ Bucket(table[b][i].key) = b
         /\ table[b][i].key = table[b][j].key => i = j)'
  BY <1>2 DEF Bucket
<1> QED
  BY <1>2, <1>3 DEF TableSound, f

(* The store of a state, and its keys.                                      *)
LEMMA InvIs ==
  ASSUME HashInv
  PROVE  /\ primeindex \in 1..Len(Primes) /\ tablelength \in Nat \ {0}
         /\ Store(table, tablelength, entrycount, freed) /\ Placed(table, tablelength)
         /\ seen \in Seq(Keys) /\ IsInjective(seen)
         /\ iter # NoVal => /\ iter \in [pos : Nat, e : Keys]
                            /\ Going(table, tablelength, iter.pos, iter.e, seen, during)
BY PrimeIs DEF HashInv, HashState, Store, tablelength

(* An entry is inserted, or only the old one of its key removed.            *)
LEMMA InsertDoes ==
  ASSUME HashInv, NEW k \in Keys, NEW v \in Vals, wstk_hash_insert_ex(k, v)
  PROVE  /\ Becomes(k, v) \/ Becomes(k, NoVal)
         /\ Destroys({k})
         /\ Available(v) => HashInv'
<1> DEFINE u == Removed(table, tablelength, k)
           c == Cardinality(At(table[Bucket(k)], k))
           g == freed \o Destroyed(table, tablelength, k)
           count == entrycount - c + 1
           L == Primes[primeindex']
<1>1. /\ primeindex \in 1..Len(Primes) /\ tablelength \in Nat \ {0}
      /\ Store(table, tablelength, entrycount, freed) /\ Placed(table, tablelength)
      /\ seen \in Seq(Keys) /\ IsInjective(seen)
  BY InvIs
<1>2. Store(u, tablelength, entrycount - c, g)
  BY <1>1, StoreRemoved DEF Bucket
<1>3. Placed(u, tablelength) /\ Held(u, tablelength) = {e \in Held(table, tablelength) : e.key # k}
  BY <1>1, RemovedIs
<1>4. entrycount - c \in Int /\ count - 1 = entrycount - c
  <2>1. entrycount \in Nat /\ c \in Nat
    BY <1>1, CountAt, KeysFinite DEF Store, Bucket
  <2> HIDE DEF c
  <2> QED
    BY <2>1
<1>5. iter = NoVal /\ iter' = NoVal /\ seen' = seen /\ freed' = g
  BY DEF wstk_hash_insert_ex, iteration
<1>6. PICK grow \in {FALSE, Expandable(count)}, stored \in BOOLEAN :
        /\ primeindex' = IF grow THEN primeindex + 1 ELSE primeindex
        /\ \E grown \in IF grow THEN Expanded(u, tablelength, L) ELSE {u} :
             table' = IF stored THEN [grown EXCEPT ![IndexFor(L, k)] = <<Entry(k, v)>> \o @] ELSE grown
        /\ entrycount' = IF stored THEN count ELSE count - 1
  BY DEF wstk_hash_insert_ex
<1>7. PICK grown \in IF grow THEN Expanded(u, tablelength, L) ELSE {u} :
        table' = IF stored THEN [grown EXCEPT ![IndexFor(L, k)] = <<Entry(k, v)>> \o @] ELSE grown
  BY <1>6
<1>8. primeindex' \in 1..Len(Primes) /\ L \in Nat \ {0} /\ (~grow => L = tablelength)
  <2>1. Len(Primes) \in Nat
    BY HashAssumption, LenProperties
  <2>2. Expandable(count) => primeindex < Len(Primes)
    BY DEF Expandable
  <2>3. CASE grow
    <3>1. Expandable(count) /\ primeindex' = primeindex + 1
      BY <1>6, <2>3, Zenon
    <3>2. primeindex' \in 1..Len(Primes)
      BY <1>1, <2>1, <2>2, <3>1
    <3> QED
      BY <2>3, <3>2, PrimeIs
  <2>4. CASE ~grow
    <3>1. primeindex' = primeindex
      BY <1>6, <2>4
    <3> QED
      BY <1>1, <3>1, PrimeIs DEF tablelength
  <2> QED
    BY <2>3, <2>4
<1>9. tablelength' = L
  BY DEF tablelength
<1> HIDE DEF u, c, g, count, L
<1>10. Placed(grown, L) /\ Held(grown, L) = Held(u, tablelength)
  <2>1. CASE grow
    <3>1. grown = Transferred(u, tablelength, L) \/ grown = InPlace(u, tablelength, L)
      BY <1>7, <2>1 DEF Expanded
    <3> QED
      BY <3>1, <1>3, <1>8, TransferredIs, InPlaceIs
  <2>2. CASE ~grow
    BY <1>3, <1>7, <1>8, <2>2
  <2> QED
    BY <2>1, <2>2
<1>11. Store(grown, L, entrycount - c, g)
  BY <1>2, <1>10, StoreSame
<1>12. \A f \in Held(grown, L) : f.key # k
  BY <1>3, <1>10
<1> DEFINE e == Entry(k, v)
<1>13. e \in Entries /\ e.key = k /\ e.val = v
  BY EntryIs
<1>14. stored => table' = InFront(grown, L, e)
  <2>1. stored => table' = [grown EXCEPT ![IndexFor(L, k)] = <<e>> \o @]
    BY <1>7
  <2> HIDE DEF e
  <2> QED
    BY <1>13, <2>1 DEF InFront
<1>15. ~stored => table' = grown
  BY <1>7
<1> HIDE DEF e
<1>16. Becomes(k, v) \/ Becomes(k, NoVal)
  <2>1. CASE stored
    <3>1. Placed(table', L) /\ Held(table', L) = Held(grown, L) \cup {e}
      BY <2>1, <1>10, <1>12, <1>13, <1>14, InsertedIs
    <3>2. Held(table', L) = {f \in Held(table, tablelength) : f.key # k} \cup {Entry(k, v)}
      BY <3>1, <1>3, <1>10 DEF e
    <3>3. ContentOf(table', L) = [ContentOf(table, tablelength) EXCEPT ![k] = v]
      BY <3>1, <3>2, <1>1, FindWith DEF ContentOf
    <3> QED
      BY <3>3, <1>9, ContentIs DEF Becomes
  <2>2. CASE ~stored
    <3>1. Placed(table', L) /\ Held(table', L) = {f \in Held(table, tablelength) : f.key # k}
      BY <2>2, <1>3, <1>10, <1>15
    <3>2. ContentOf(table', L) = [ContentOf(table, tablelength) EXCEPT ![k] = NoVal]
      BY <3>1, <1>1, FindWithout DEF ContentOf
    <3> QED
      BY <3>2, <1>9, ContentIs DEF Becomes
  <2> QED
    BY <2>1, <2>2
<1>17. Destroys({k})
  <2>1. ToSet(g) = ToSet(freed) \cup ({Find(table, tablelength, k)} \cap OwnedVals)
    BY <1>1, DestroyedIs DEF g
  <2>2. {Content[j] : j \in {k}} = {Find(table, tablelength, k)}
    BY DEF Content, wstk_hash_find
  <2> QED
    BY <2>1, <2>2, <1>5 DEF Destroys
<1>18. ASSUME Available(v)
       PROVE  HashInv'
  <2>1. \A f \in Held(grown, L) : f.val # v
    <3>1. \A f \in Held(table, tablelength) : f.val # v
      <4>1. DOMAIN table = Buckets(tablelength)
        BY <1>1, PlacedIs
      <4>2. ASSUME NEW f \in Held(table, tablelength)
            PROVE  \E b \in DOMAIN table : \E i \in DOMAIN table[b] : table[b][i] = f
        BY <4>1 DEF Held, ToSet
      <4> QED
        BY <4>2, <1>18 DEF Available, InTable
    <3> QED
      BY <3>1, <1>3, <1>10
  <2>2. v \notin ToSet(g)
    <3>1. ToSet(g) = ToSet(freed) \cup ({Find(table, tablelength, k)} \cap OwnedVals)
      BY <1>1, DestroyedIs DEF g
    <3>2. Find(table, tablelength, k) # v
      <4>1. Find(table, tablelength, k) = v <=> Entry(k, v) \in Held(table, tablelength)
        BY <1>1, FindIs
      <4>2. DOMAIN table = Buckets(tablelength)
        BY <1>1, PlacedIs
      <4>3. ASSUME e \in Held(table, tablelength)
            PROVE  \E b \in DOMAIN table : \E i \in DOMAIN table[b] : table[b][i] = e
        BY <4>2, <4>3 DEF Held, ToSet
      <4> QED
        BY <4>1, <4>3, <1>13, <1>18 DEF Available, InTable, e
    <3> QED
      BY <3>1, <3>2, <1>18 DEF Available
  <2>3. Store(table', L, entrycount', g)
    <3>1. CASE stored
      <4>1. Store(InFront(grown, L, Entry(k, v)), L, entrycount - c + 1, g)
        BY <1>11, <1>12, <2>1, <2>2, StoreInserted
      <4> QED
        BY <4>1, <3>1, <1>6, <1>14 DEF e, count
    <3>2. CASE ~stored
      BY <3>2, <1>4, <1>6, <1>11, <1>15
    <3> QED
      BY <3>1, <3>2
  <2> QED
    BY <2>3, <1>1, <1>5, <1>8 DEF HashInv, HashState, L
<1> QED
  BY <1>16, <1>17, <1>18

LEMMA DeleteDoes ==
  ASSUME HashInv, NEW k \in Keys, wstk_hash_delete(k)
  PROVE  Becomes(k, NoVal) /\ Destroys({k}) /\ HashInv'
<1> DEFINE u == Removed(table, tablelength, k)
           c == Cardinality(At(table[Bucket(k)], k))
           g == freed \o Destroyed(table, tablelength, k)
           L == tablelength
<1>1. /\ primeindex \in 1..Len(Primes) /\ Store(table, L, entrycount, freed) /\ Placed(table, L)
      /\ seen \in Seq(Keys) /\ IsInjective(seen)
      /\ iter # NoVal => /\ iter \in [pos : Nat, e : Keys]
                         /\ Going(table, L, iter.pos, iter.e, seen, during)
  BY InvIs
<1>2. /\ table' = u /\ freed' = g /\ during' = during \ {k}
      /\ primeindex' = primeindex /\ iter' = iter /\ seen' = seen /\ (iter # NoVal => iter.e # k)
  BY DEF wstk_hash_delete
<1>3. entrycount' = entrycount - c
  <2>1. c = IF At(table[Bucket(k)], k) = {} THEN 0 ELSE 1
    BY <1>1, CountAt DEF Bucket
  <2> HIDE DEF c
  <2> QED
    BY <2>1 DEF wstk_hash_delete
<1>4. Store(u, L, entrycount - c, g)
  BY <1>1, StoreRemoved DEF Bucket
<1>5. Placed(u, L) /\ Held(u, L) = {e \in Held(table, L) : e.key # k}
  BY <1>1, RemovedIs
<1>6. iter # NoVal => Going(u, L, iter.pos, iter.e, seen, during \ {k})
  BY <1>1, <1>2, GoingRemoved
<1>7. tablelength' = L
  BY <1>2 DEF tablelength
<1> HIDE DEF u, c, g
<1>8. Becomes(k, NoVal)
  <2>1. ContentOf(u, L) = [ContentOf(table, L) EXCEPT ![k] = NoVal]
    BY <1>1, <1>5, FindWithout DEF ContentOf
  <2> QED
    BY <2>1, <1>2, <1>7, ContentIs DEF Becomes
<1>9. Destroys({k})
  <2>1. ToSet(g) = ToSet(freed) \cup ({Find(table, L, k)} \cap OwnedVals)
    BY <1>1, DestroyedIs DEF g
  <2>2. {Content[j] : j \in {k}} = {Find(table, L, k)}
    BY DEF Content, wstk_hash_find
  <2> QED
    BY <2>1, <2>2, <1>2 DEF Destroys
<1>10. HashInv'
  <2>1. HashState(primeindex, u, entrycount - c, g, iter, seen, during \ {k})
    BY <1>1, <1>4, <1>6 DEF HashState, tablelength
  <2> QED
    BY <2>1, <1>2, <1>3 DEF HashInv
<1> QED
  BY <1>8, <1>9, <1>10

(* The keys in the table are those that are found.                          *)
LEMMA FoundIs ==
  ASSUME NEW t, NEW len, Placed(t, len)
  PROVE  KeysOf(Held(t, len)) = {k \in Keys : Find(t, len, k) # NoVal}
<1>1. KeysOf(Held(t, len)) \subseteq Keys
  BY EntryIs DEF KeysOf, Held
<1>2. \A k \in Keys : Find(t, len, k) # NoVal <=> \E e \in Held(t, len) : e.key = k
  BY FindIs
<1> QED
  BY <1>1, <1>2 DEF KeysOf

LEMMA FirstDoes ==
  ASSUME HashInv, wstk_hash_first
  PROVE  HashInv'
<1> DEFINE y == Successor(0, NoVal)
           K == KeysOf(Held(table, tablelength))
           none == <<>>
<1>1. /\ primeindex \in 1..Len(Primes) /\ Store(table, tablelength, entrycount, freed)
      /\ Placed(table, tablelength)
  BY InvIs
<1>2. /\ primeindex' = primeindex /\ table' = table /\ entrycount' = entrycount /\ freed' = freed
      /\ iter' = y /\ seen' = IF y = NoVal THEN <<>> ELSE <<y.e>>
      /\ during' = {k \in Keys : Find(table, tablelength, k) # NoVal}
  BY DEF wstk_hash_first, hashTable, wstk_hash_find
<1>3. during' = K
  BY <1>1, <1>2, FoundIs
<1>4. none \in Seq(Keys) /\ IsInjective(none)
  BY NoneOnce
<1> HIDE DEF K, none
<1>5. CASE y = NoVal
  <2> HIDE DEF y
  <2>1. HashState(primeindex, table, entrycount, freed, y, none, during')
    BY <1>1, <1>4, <1>5 DEF HashState, tablelength
  <2>2. seen' = none
    BY <1>2, <1>5 DEF none
  <2> QED
    BY <2>1, <2>2, <1>2 DEF HashInv
<1>6. CASE y # NoVal
  <2> DEFINE w == <<y.e>>
  <2>1. y \in [pos : Nat, e : Keys] /\ w \in Seq(Keys) /\ IsInjective(w) /\ Going(table, tablelength, y.pos, y.e, w, K)
    BY <1>1, <1>6, GoingFirst DEF K
  <2>2. seen' = w
    BY <1>2, <1>6
  <2> HIDE DEF w, y
  <2>3. HashState(primeindex, table, entrycount, freed, y, w, K)
    BY <1>1, <2>1 DEF HashState, tablelength
  <2> QED
    BY <2>2, <2>3, <1>2, <1>3 DEF HashInv
<1> QED
  BY <1>5, <1>6

LEMMA NextDoes ==
  ASSUME HashInv, wstk_hash_next
  PROVE  HashInv' /\ (iter' = NoVal => during' \subseteq ToSet(seen'))
<1> DEFINE y == Successor(iter.pos, iter.e)
           w == Append(seen, y.e)
<1>1. /\ primeindex \in 1..Len(Primes) /\ Store(table, tablelength, entrycount, freed)
      /\ Placed(table, tablelength)
      /\ seen \in Seq(Keys) /\ IsInjective(seen)
      /\ iter \in [pos : Nat, e : Keys] /\ Going(table, tablelength, iter.pos, iter.e, seen, during)
  BY InvIs DEF wstk_hash_next
<1>2. /\ primeindex' = primeindex /\ table' = table /\ entrycount' = entrycount /\ freed' = freed
      /\ iter' = y /\ during' = during
      /\ (y = NoVal => seen' = seen) /\ (y # NoVal => seen' = w)
  BY DEF wstk_hash_next, hashTable
<1>3. /\ y = NoVal => during \subseteq ToSet(seen)
      /\ y # NoVal => /\ y \in [pos : Nat, e : Keys] /\ w \in Seq(Keys) /\ IsInjective(w)
                      /\ Going(table, tablelength, y.pos, y.e, w, during)
  <2> DEFINE x == iter.e
             p == iter.pos
  <2>1. x \in Keys /\ Going(table, tablelength, p, x, seen, during) /\ y = Successor(p, x)
    BY <1>1
  <2> HIDE DEF x, p, y
  <2> QED
    BY <2>1, <1>1, GoingOn
<1> HIDE DEF y, w
<1>4. CASE y = NoVal
  <2>1. HashState(primeindex, table, entrycount, freed, y, seen, during)
    BY <1>1, <1>4 DEF HashState, tablelength
  <2> QED
    BY <2>1, <1>2, <1>3, <1>4 DEF HashInv
<1>5. CASE y # NoVal
  <2>1. HashState(primeindex, table, entrycount, freed, y, w, during)
    BY <1>1, <1>3, <1>5 DEF HashState, tablelength
  <2> QED
    BY <2>1, <1>2, <1>5 DEF HashInv
<1> QED
  BY <1>4, <1>5

LEMMA ThisValDoes ==
  ASSUME HashInv, NEW v \in Vals, wstk_hash_this_val(v)
  PROVE  Becomes(iter.e, v) /\ Destroys({}) /\ (Available(v) => HashInv')
<1> DEFINE p == iter.pos
           x == iter.e
           s == table[p]
           i == CHOOSE j \in DOMAIN s : s[j].key = x
           L == tablelength
           u == Revalued(table, p, i, v)
<1>1. /\ primeindex \in 1..Len(Primes) /\ Store(table, L, entrycount, freed)
      /\ Placed(table, L)
      /\ seen \in Seq(Keys) /\ IsInjective(seen)
      /\ iter \in [pos : Nat, e : Keys] /\ Going(table, L, p, x, seen, during)
  BY InvIs DEF wstk_hash_this_val
<1>2. /\ primeindex' = primeindex /\ table' = u /\ entrycount' = entrycount /\ freed' = freed
      /\ iter' = iter /\ during' = during /\ seen' = seen
  BY DEF wstk_hash_this_val, iteration, Revalued
<1>3. p \in Buckets(L) /\ (\E e \in ToSet(s) : e.key = x) /\ x \in Keys
  BY <1>1 DEF Going
<1>4. i \in 1..Len(s) /\ s[i].key = x
  <2>1. s \in Seq(Entries)
    BY <1>1, <1>3, PlacedIs
  <2>2. DOMAIN s = 1..Len(s) /\ \A e : e \in ToSet(s) <=> \E j \in 1..Len(s) : s[j] = e
    BY <2>1, ChainIs
  <2>3. \E j \in DOMAIN s : s[j].key = x
    BY <1>3, <2>2
  <2> HIDE DEF s, x
  <2> QED
    BY <2>2, <2>3
<1> HIDE DEF i, p, x
<1>5. Placed(u, L) /\ Held(u, L) = {e \in Held(table, L) : e.key # x} \cup {Entry(x, v)}
  <2>1. Placed(u, L) /\ Held(u, L) = {e \in Held(table, L) : e.key # s[i].key} \cup {Entry(s[i].key, v)}
    BY <1>1, <1>3, <1>4, ReplacedIs
  <2> QED
    BY <2>1, <1>4
<1>6. Going(u, L, p, x, seen, during)
  BY <1>1, <1>4, GoingReplaced
<1>7. tablelength' = L
  BY <1>2 DEF tablelength
<1>8. Becomes(x, v)
  <2>1. ContentOf(u, L) = [ContentOf(table, L) EXCEPT ![x] = v]
    BY <1>1, <1>3, <1>5, FindWith DEF ContentOf
  <2> HIDE DEF u
  <2> QED
    BY <2>1, <1>2, <1>7, ContentIs DEF Becomes
<1>9. Destroys({})
  BY <1>2 DEF Destroys
<1>10. ASSUME Available(v)
       PROVE  HashInv'
  <2>1. \A f \in Held(table, L) : f.val # v
    <3>1. DOMAIN table = Buckets(L)
      BY <1>1, PlacedIs
    <3>2. ASSUME NEW f \in Held(table, L)
          PROVE  \E b \in DOMAIN table : \E j \in DOMAIN table[b] : table[b][j] = f
      BY <3>1 DEF Held, ToSet
    <3> QED
      BY <3>2, <1>10 DEF Available, InTable
  <2>2. v \notin ToSet(freed)
    BY <1>10 DEF Available
  <2>3. Store(u, L, entrycount, freed)
    BY <1>1, <1>3, <1>4, <2>1, <2>2, StoreReplaced
  <2> HIDE DEF u
  <2>4. HashState(primeindex, u, entrycount, freed, iter, seen, during)
    BY <1>1, <1>6, <2>3 DEF HashState, tablelength, p, x
  <2> QED
    BY <2>4, <1>2 DEF HashInv
<1> QED
  BY <1>8, <1>9, <1>10 DEF x

LEMMA DestructorDoes ==
  ASSUME HashInv, desctuctor__wstk_hashtable_t
  PROVE  Content' = [k \in Keys |-> NoVal] /\ Destroys(Keys) /\ HashInv'
<1> DEFINE o == OwnedEntries(table, tablelength)
           g == freed \o ValuesOf(o)
           L == Primes[1]
           u == [b \in Buckets(L) |-> <<>>]
<1>1. /\ Store(table, tablelength, entrycount, freed) /\ seen \in Seq(Keys) /\ IsInjective(seen)
  BY InvIs
<1>2. /\ iter = NoVal /\ freed' = g /\ primeindex' = 1 /\ table' = u /\ entrycount' = 0
      /\ iter' = iter /\ seen' = seen /\ during' = during
  BY DEF desctuctor__wstk_hashtable_t, iteration, OwnedEntries, ValuesOf
<1>3. /\ g \in Seq(Vals) /\ IsInjective(g)
      /\ ToSet(g) = ToSet(freed) \cup (Found(table, tablelength) \cap OwnedVals)
  <2>1. o = OwnedEntries(table, tablelength)
    OBVIOUS
  <2>2. g = freed \o ValuesOf(o)
    OBVIOUS
  <2> HIDE DEF o, g
  <2> QED
    BY <1>1, <2>1, <2>2, OwnedIs
<1>4. 1 \in 1..Len(Primes) /\ L \in Nat \ {0}
  <2>1. Len(Primes) \in Nat /\ Len(Primes) # 0
    <3>1. Primes \in Seq(Nat \ {0}) /\ Primes # <<>>
      BY HashAssumption
    <3> QED
      BY <3>1, LenProperties, EmptySeq
  <2>2. 1 \in 1..Len(Primes)
    BY <2>1
  <2> QED
    BY <2>2, PrimeIs
<1>5. Placed(u, L) /\ Held(u, L) = {}
  BY <1>4, EmptyTable
<1> HIDE DEF u, g, o
<1>6. Content' = [k \in Keys |-> NoVal]
  <2>1. \A k \in Keys : Find(u, L, k) = NoVal
    BY <1>5, FindIs
  <2>2. ContentOf(u, L) = [k \in Keys |-> NoVal]
    BY <2>1 DEF ContentOf
  <2>3. tablelength' = L
    BY <1>2 DEF tablelength
  <2> QED
    BY <2>2, <2>3, <1>2, ContentIs
<1>7. Destroys(Keys)
  <2>1. {Content[k] : k \in Keys} = Found(table, tablelength)
    BY DEF Content, wstk_hash_find, Found
  <2> QED
    BY <2>1, <1>2, <1>3 DEF Destroys
<1>8. HashInv'
  <2>1. Store(u, L, 0, g)
    <3>1. KeysOf(Held(u, L)) = {}
      BY <1>5 DEF KeysOf
    <3>2. 0 = Cardinality(KeysOf(Held(u, L)))
      BY <3>1, FS_EmptySet
    <3> QED
      BY <3>2, <1>3, <1>5 DEF Store
  <2>2. HashState(1, u, 0, g, iter, seen, during)
    BY <2>1, <1>1, <1>2, <1>4 DEF HashState
  <2> QED
    BY <2>2, <1>2 DEF HashInv
<1> QED
  BY <1>6, <1>7, <1>8

-----------------------------------------------------------------------------
(* The iterator stands at an entry, and it gives no key twice.              *)
LEMMA StandsThen ==
  ASSUME HashInv'
  PROVE  /\ TableSound' /\ IsInjective(seen')
         /\ iter' # NoVal => Content'[iter'.e] # NoVal
<1> DEFINE L == tablelength'
<1>1. /\ Store(table', L, entrycount', freed') /\ IsInjective(seen')
      /\ iter' # NoVal => /\ iter' \in [pos : Nat, e : Keys]
                          /\ Going(table', L, iter'.pos, iter'.e, seen', during')
  BY DEF HashInv, HashState, tablelength
<1>2. Content' = ContentOf(table', L)
  BY ContentIs
<1>3. L = tablelength'
  OBVIOUS
<1> HIDE DEF L
<1>4. TableSound'
  BY <1>1, <1>3, SoundThen
<1>5. ASSUME iter' # NoVal
      PROVE  Content'[iter'.e] # NoVal
  <2>1. Placed(table', L) /\ iter'.pos \in Buckets(L) /\ iter'.e \in Keys
    BY <1>1, <1>5 DEF Store, Going
  <2>2. PICK e \in ToSet(table'[iter'.pos]) : e.key = iter'.e
    BY <1>1, <1>5 DEF Going
  <2>3. table'[iter'.pos] \in Seq(Entries)
    BY <2>1, PlacedIs
  <2>4. e \in Held(table', L)
    BY <2>1, <2>2, <2>3, ChainIs DEF Held
  <2>5. Find(table', L, iter'.e) # NoVal
    BY <2>1, <2>2, <2>4, FindIs
  <2> QED
    BY <2>1, <2>5, <1>2 DEF ContentOf
<1> QED
  BY <1>1, <1>4, <1>5

LEMMA StepKeeps ==
  ASSUME HashInv, HashNext
  PROVE  /\ HashInv'
         /\ iter' # iter => Content' = Content
         /\ iter # NoVal /\ iter' = NoVal => during' \subseteq ToSet(seen')
<1>1. ASSUME NEW k \in Keys, NEW v \in Vals, Available(v), wstk_hash_insert_ex(k, v)
      PROVE  HashInv' /\ iter' = iter /\ iter = NoVal
  BY <1>1, InsertDoes DEF wstk_hash_insert_ex, iteration
<1>2. ASSUME NEW k \in Keys, wstk_hash_delete(k)
      PROVE  HashInv' /\ iter' = iter
  BY <1>2, DeleteDoes DEF wstk_hash_delete
<1>3. ASSUME wstk_hash_first
      PROVE  HashInv' /\ iter = NoVal /\ Content' = Content
  <2>1. table' = table /\ tablelength' = tablelength
    BY <1>3 DEF wstk_hash_first, hashTable, tablelength
  <2> QED
    BY <2>1, <1>3, FirstDoes, ContentIs DEF wstk_hash_first
<1>4. ASSUME wstk_hash_next
      PROVE  HashInv' /\ (iter' = NoVal => during' \subseteq ToSet(seen')) /\ Content' = Content
  <2>1. table' = table /\ tablelength' = tablelength
    BY <1>4 DEF wstk_hash_next, hashTable, tablelength
  <2> QED
    BY <2>1, <1>4, NextDoes, ContentIs
<1>5. ASSUME desctuctor__wstk_hashtable_t
      PROVE  HashInv' /\ iter' = iter /\ iter = NoVal
  BY <1>5, DestructorDoes DEF desctuctor__wstk_hashtable_t, iteration
<1>6. ASSUME NEW v \in Vals, Available(v), wstk_hash_this_val(v)
      PROVE  HashInv' /\ iter' = iter
  BY <1>6, ThisValDoes DEF wstk_hash_this_val, iteration
<1> QED
  BY <1>1, <1>2, <1>3, <1>4, <1>5, <1>6 DEF HashNext

LEMMA StepGives ==
  ASSUME HashInv, HashNext
  PROVE  TableSound' /\ ContentStep /\ IterationStep
<1>1. /\ HashInv'
      /\ iter' # iter => Content' = Content
      /\ iter # NoVal /\ iter' = NoVal => during' \subseteq ToSet(seen')
  BY StepKeeps
<1>2. /\ TableSound' /\ IsInjective(seen')
      /\ iter' # NoVal => Content'[iter'.e] # NoVal
  BY <1>1, StandsThen
<1>3. IterationStep
  BY <1>1, <1>2 DEF IterationStep
<1>4. ContentStep
  <2>1. ASSUME NEW k \in Keys
        PROVE  /\ wstk_hash_delete(k) => Becomes(k, NoVal) /\ Destroys({k})
               /\ \A v \in Vals :
                    wstk_hash_insert_ex(k, v) => (Becomes(k, v) \/ Becomes(k, NoVal)) /\ Destroys({k})
    BY DeleteDoes, InsertDoes
  <2>2. \A v \in Vals : wstk_hash_this_val(v) => Becomes(iter.e, v) /\ Destroys({})
    BY ThisValDoes
  <2>3. desctuctor__wstk_hashtable_t => Content' = [k \in Keys |-> NoVal] /\ Destroys(Keys)
    BY DestructorDoes
  <2> QED
    BY <2>1, <2>2, <2>3 DEF ContentStep
<1> QED
  BY <1>2, <1>3, <1>4

(* The table is a map, whatever the keys, the values, their hashes and the  *)
(* lengths of the tables (wstk-hashtable.c:148).                            *)
THEOREM TableHoldsMap == HashSpec => TableIsMap
<1>1. HashInit => HashInv
  <2> SUFFICES ASSUME HashInit
               PROVE  HashInv
    OBVIOUS
  <2> DEFINE L == Primes[1]
             u == [b \in Buckets(L) |-> <<>>]
             none == <<>>
  <2>1. 1 \in 1..Len(Primes) /\ L \in Nat \ {0}
    <3>1. Primes \in Seq(Nat \ {0}) /\ Primes # <<>>
      BY HashAssumption
    <3>2. Len(Primes) \in Nat /\ Len(Primes) # 0
      BY <3>1, LenProperties, EmptySeq
    <3>3. 1 \in 1..Len(Primes)
      BY <3>2
    <3> QED
      BY <3>3, PrimeIs
  <2>2. Placed(u, L) /\ Held(u, L) = {}
    BY <2>1, EmptyTable
  <2>3. primeindex = 1 /\ table = u /\ entrycount = 0 /\ freed = none /\ iter = NoVal /\ seen = none
    BY DEF HashInit
  <2>4. ToSet(none) = {} /\ none \in Seq(Vals) /\ none \in Seq(Keys) /\ IsInjective(none)
    BY NoneOnce
  <2> HIDE DEF u, none
  <2>5. 0 = Cardinality(KeysOf(Held(u, L)))
    <3>1. KeysOf(Held(u, L)) = {}
      BY <2>2 DEF KeysOf
    <3> QED
      BY <3>1, FS_EmptySet
  <2>6. Store(u, L, 0, none)
    BY <2>2, <2>4, <2>5 DEF Store
  <2>7. HashState(1, u, 0, none, NoVal, none, during)
    BY <2>1, <2>4, <2>6 DEF HashState
  <2> QED
    BY <2>3, <2>7 DEF HashInv
<1>2. HashInv /\ [HashNext]_hashVars => HashInv'
  <2>1. HashInv /\ UNCHANGED hashVars => HashInv'
    BY DEF hashVars, hashTable, iteration, HashInv
  <2> QED
    BY <2>1, StepKeeps
<1>3. HashInv /\ [HashNext]_hashVars
        => [hashVars' # hashVars => TableSound' /\ ContentStep /\ IterationStep]_hashVars
  BY StepGives
<1> QED
  BY <1>1, <1>2, <1>3, PTL DEF HashSpec, TableIsMap

-----------------------------------------------------------------------------
(***************************************************************************)
(* Buffers.                                                                *)
(***************************************************************************)
Octets == Bytes \cup {Unset}

(* After a failed reallocation size is ahead of the memory; the caller      *)
(* gives the buffer up.                                                     *)
MbufInv ==
  /\ memory \in Seq(Octets) /\ bsize \in Nat /\ pos \in Nat /\ end \in Nat /\ failed \in BOOLEAN
  /\ pos <= end /\ end <= Len(memory)
  /\ ~failed => bsize = Len(memory)
  /\ \A i \in (pos + 1)..end : memory[i] # Unset

-----------------------------------------------------------------------------
(***************************************************************************)
(* What the operators do to a block, byte by byte.                         *)
(***************************************************************************)
(* A function on 1..n is a sequence of length n.                            *)
LEMMA IsSequence ==
  ASSUME NEW S, NEW n \in Nat, NEW f \in [1..n -> S]
  PROVE  f \in Seq(S) /\ Len(f) = n
OBVIOUS

(* A reallocation keeps the bytes both blocks have.                         *)
LEMMA MovedIs ==
  ASSUME NEW mem \in Seq(Octets), NEW n \in Nat
  PROVE  /\ Moved(mem, n) \in Seq(Octets) /\ Len(Moved(mem, n)) = n
         /\ \A i \in 1..n : Moved(mem, n)[i] = IF i <= Len(mem) THEN mem[i] ELSE Unset
<1>1. Moved(mem, n) \in [1..n -> Octets]
  BY DEF Moved, Octets
<1>2. Moved(mem, n) \in Seq(Octets) /\ Len(Moved(mem, n)) = n
  BY <1>1, IsSequence
<1> QED
  BY <1>2 DEF Moved

(* A copy changes the bytes it is for.                                      *)
LEMMA PutIs ==
  ASSUME NEW mem \in Seq(Octets), NEW at \in Nat, NEW bytes \in Seq(Octets)
  PROVE  /\ Put(mem, at, bytes) \in Seq(Octets) /\ Len(Put(mem, at, bytes)) = Len(mem)
         /\ \A i \in 1..Len(mem) :
              Put(mem, at, bytes)[i] = IF i > at /\ i <= at + Len(bytes) THEN bytes[i - at] ELSE mem[i]
<1>1. \A i \in 1..Len(mem) :
        (IF i > at /\ i <= at + Len(bytes) THEN bytes[i - at] ELSE mem[i]) \in Octets
  <2> SUFFICES ASSUME NEW i \in 1..Len(mem)
               PROVE  (IF i > at /\ i <= at + Len(bytes) THEN bytes[i - at] ELSE mem[i]) \in Octets
    OBVIOUS
  <2>1. mem[i] \in Octets
    OBVIOUS
  <2>2. i > at /\ i <= at + Len(bytes) => bytes[i - at] \in Octets
    OBVIOUS
  <2> QED
    BY <2>1, <2>2
<1>2. Put(mem, at, bytes) \in [1..Len(mem) -> Octets]
  BY <1>1 DEF Put
<1>3. Len(mem) \in Nat
  OBVIOUS
<1>4. Put(mem, at, bytes) \in Seq(Octets) /\ Len(Put(mem, at, bytes)) = Len(mem)
  BY <1>2, <1>3, IsSequence
<1> QED
  BY <1>4 DEF Put

(* The bytes from position p to position e, of a block that has them.       *)
LEMMA PartIs ==
  ASSUME NEW mem \in Seq(Octets), NEW p \in Nat, NEW e \in Nat, p <= e, e <= Len(mem)
  PROVE  /\ SubSeq(mem, p + 1, e) \in Seq(Octets) /\ Len(SubSeq(mem, p + 1, e)) = e - p
         /\ \A i \in 1..(e - p) : SubSeq(mem, p + 1, e)[i] = mem[p + i]
<1>1. \A i \in (p + 1)..e : mem[i] \in Octets
  OBVIOUS
<1>2. /\ SubSeq(mem, p + 1, e) \in Seq(Octets)
      /\ Len(SubSeq(mem, p + 1, e)) = IF p + 1 <= e THEN e - (p + 1) + 1 ELSE 0
      /\ \A i \in 1..(e - (p + 1) + 1) : SubSeq(mem, p + 1, e)[i] = mem[(p + 1) + i - 1]
  <2>1. p + 1 \in Int /\ e \in Int
    OBVIOUS
  <2> QED
    BY <1>1, <2>1, SubSeqProperties
<1> QED
  BY <1>2

LEMMA PrefixIs ==
  ASSUME NEW mem \in Seq(Octets), NEW e \in Nat, e <= Len(mem)
  PROVE  /\ SubSeq(mem, 1, e) \in Seq(Octets) /\ Len(SubSeq(mem, 1, e)) = e
         /\ \A i \in 1..e : SubSeq(mem, 1, e)[i] = mem[i]
<1>1. /\ SubSeq(mem, 0 + 1, e) \in Seq(Octets) /\ Len(SubSeq(mem, 0 + 1, e)) = e - 0
      /\ \A i \in 1..(e - 0) : SubSeq(mem, 0 + 1, e)[i] = mem[0 + i]
  BY PartIs
<1>2. e - 0 = e /\ 0 + 1 = 1 /\ \A i \in 1..e : 0 + i = i
  OBVIOUS
<1> QED
  BY <1>1, <1>2

(* Positions after a later one, and after the last.                         *)
LEMMA Later ==
  ASSUME NEW p \in Nat, NEW q \in Nat, NEW e \in Nat, p <= q
  PROVE  /\ \A i \in (q + 1)..e : i \in (p + 1)..e
         /\ e <= q => \A i \in (q + 1)..e : FALSE
OBVIOUS

LEMMA WindowIs ==
  ASSUME MbufInv
  PROVE  /\ Window = SubSeq(memory, pos + 1, end)
         /\ Window \in Seq(Octets) /\ Len(Window) = end - pos
         /\ \A i \in 1..(end - pos) : Window[i] = memory[pos + i] /\ Window[i] # Unset
<1>1. Window = SubSeq(memory, pos + 1, end)
  BY DEF Window, AtMost, MbufInv
<1>2. /\ Window \in Seq(Octets) /\ Len(Window) = end - pos
      /\ \A i \in 1..(end - pos) : Window[i] = memory[pos + i]
  BY <1>1, PartIs DEF MbufInv
<1>3. \A i \in 1..(end - pos) : pos + i \in (pos + 1)..end
  BY DEF MbufInv
<1> QED
  BY <1>1, <1>2, <1>3 DEF MbufInv

(* What callers write is written.                                           *)
LEMMA InputIs ==
  ASSUME NEW s \in Inputs
  PROVE  /\ s \in Seq(Octets) /\ s \in Seq(Bytes) /\ Len(s) \in 0..2
         /\ \A i \in 1..Len(s) : s[i] # Unset
<1>1. PICK n \in 0..2 : s \in [1..n -> Bytes]
  BY DEF Inputs
<1>2. s \in Seq(Bytes) /\ Len(s) = n
  BY <1>1, IsSequence
<1>3. s \in [1..n -> Octets]
  BY <1>1 DEF Octets
<1>4. s \in Seq(Octets)
  BY <1>3, IsSequence
<1> QED
  BY <1>1, <1>2, <1>4, MbufAssumption

-----------------------------------------------------------------------------
(***************************************************************************)
(* What an operation that had the memory it asked for leaves.              *)
(***************************************************************************)
(* wstk_mbuf_write_mem (wstk-mbuf.c:163): the new bytes, and around them the *)
(* old ones.                                                                *)
LEMMA WriteLeaves ==
  ASSUME MbufInv, ~failed, NEW s \in Inputs, Write_mem(s), ~failed'
  PROVE  /\ memory' \in Seq(Octets) /\ bsize' = Len(memory') /\ bsize' \in Nat /\ Len(memory') >= Len(memory)
         /\ pos' = pos + Len(s) /\ end' = AtLeast(end, pos + Len(s)) /\ end' <= Len(memory')
         /\ failed' = failed
         /\ \A i \in 1..Len(memory') :
              memory'[i] = IF i > pos /\ i <= pos + Len(s) THEN s[i - pos]
                           ELSE IF i <= Len(memory) THEN memory[i] ELSE Unset
<1> DEFINE rsize == pos + Len(s)
           room == IF rsize > bsize THEN Grown(rsize) ELSE bsize
<1>1. /\ memory' = Put(Moved(memory, room), pos, s)
      /\ bsize' = room /\ pos' = rsize /\ end' = AtLeast(end, rsize) /\ failed' = failed
  BY DEF Write_mem, ResizeFails
<1>2. s \in Seq(Octets) /\ Len(s) \in Nat
  BY InputIs
<1>3. room \in Nat /\ room >= rsize /\ room >= bsize
  <2>1. DEFAULT_SIZE \in Nat /\ rsize \in Nat /\ bsize \in Nat
    BY <1>2, MbufAssumption DEF MbufInv
  <2>2. CASE rsize > bsize /\ bsize = 0
    BY <2>1, <2>2 DEF Grown, AtLeast
  <2>3. CASE rsize > bsize /\ bsize # 0
    BY <2>1, <2>3 DEF Grown, AtLeast
  <2>4. CASE ~(rsize > bsize)
    BY <2>1, <2>4
  <2> QED
    BY <2>2, <2>3, <2>4
<1> HIDE DEF room
<1>4. /\ Moved(memory, room) \in Seq(Octets) /\ Len(Moved(memory, room)) = room
      /\ \A i \in 1..room : Moved(memory, room)[i] = IF i <= Len(memory) THEN memory[i] ELSE Unset
  BY <1>3, MovedIs DEF MbufInv
<1>5. /\ memory' \in Seq(Octets) /\ Len(memory') = room
      /\ \A i \in 1..room : memory'[i] = IF i > pos /\ i <= pos + Len(s) THEN s[i - pos]
                                         ELSE Moved(memory, room)[i]
  BY <1>1, <1>2, <1>4, PutIs DEF MbufInv
<1>6. end' <= Len(memory')
  BY <1>1, <1>2, <1>3, <1>5 DEF MbufInv, AtLeast
<1> QED
  BY <1>1, <1>3, <1>4, <1>5, <1>6 DEF MbufInv

(* wstk_mbuf_resize and wstk_mbuf_trim: what was written stays.             *)
LEMMA ResizeLeaves ==
  ASSUME MbufInv, ~failed, NEW n \in Nat, wstk_mbuf_resize(n), ~failed'
  PROVE  /\ memory' \in Seq(Octets) /\ bsize' = n /\ Len(memory') = n /\ n >= end
         /\ pos' = pos /\ end' = end /\ failed' = failed
         /\ \A i \in 1..end : memory'[i] = memory[i]
<1>1. memory' = Moved(memory, n) /\ bsize' = n /\ n >= end /\ pos' = pos /\ end' = end /\ failed' = failed
  BY DEF wstk_mbuf_resize, MayResize, ResizeFails
<1>2. /\ memory' \in Seq(Octets) /\ Len(memory') = n
      /\ \A i \in 1..n : memory'[i] = IF i <= Len(memory) THEN memory[i] ELSE Unset
  BY <1>1, MovedIs DEF MbufInv
<1> QED
  BY <1>1, <1>2 DEF MbufInv

(* wstk_mbuf_shift: the window, elsewhere.                                  *)
LEMMA ShiftLeaves ==
  ASSUME MbufInv, ~failed, NEW n \in Int, wstk_mbuf_shift(n), ~failed'
  PROVE  /\ memory' \in Seq(Octets) /\ bsize' = Len(memory') /\ bsize' \in Nat
         /\ pos' = pos + n /\ end' = end + n /\ pos' \in Nat /\ end' \in Nat /\ end' <= Len(memory')
         /\ failed' = failed
         /\ \A i \in (pos' + 1)..end' : memory'[i] = Window[i - pos']
<1>1. /\ memory' = Put(Moved(memory, bsize'), pos + n, Window)
      /\ bsize' = AtLeast(bsize, end + n) /\ pos' = pos + n /\ end' = end + n
      /\ failed' = failed /\ pos + n >= 0 /\ end + n >= 0
  BY DEF wstk_mbuf_shift, ResizeFails
<1>2. pos' \in Nat /\ end' \in Nat /\ bsize' \in Nat /\ end' <= bsize' /\ bsize' >= bsize
  BY <1>1 DEF MbufInv, AtLeast
<1>3. Window \in Seq(Octets) /\ Len(Window) = end - pos
  BY WindowIs
<1>4. /\ Moved(memory, bsize') \in Seq(Octets) /\ Len(Moved(memory, bsize')) = bsize'
  BY <1>2, MovedIs DEF MbufInv
<1>5. /\ memory' \in Seq(Octets) /\ Len(memory') = bsize'
      /\ \A i \in 1..bsize' : i > pos' /\ i <= pos' + Len(Window) => memory'[i] = Window[i - pos']
  BY <1>1, <1>2, <1>3, <1>4, PutIs
<1>6. \A i \in (pos' + 1)..end' : i \in 1..bsize' /\ i > pos' /\ i <= pos' + Len(Window)
  BY <1>1, <1>2, <1>3 DEF MbufInv
<1> QED
  BY <1>1, <1>2, <1>5, <1>6

(* wstk_mbuf_cpy: the other buffer's bytes, all of them before pos.         *)
LEMMA CpyLeaves ==
  ASSUME MbufInv, ~failed, NEW s \in Inputs, wstk_mbuf_cpy(s)
  PROVE  /\ memory' \in Seq(Octets) /\ Len(memory') = Len(memory) /\ Len(memory) >= Len(s)
         /\ bsize' = bsize /\ pos' = Len(s) /\ end' = Len(s) /\ failed' = failed
         /\ \A i \in 1..Len(s) : memory'[i] = s[i]
<1>1. /\ memory' = Put(memory, 0, s) /\ bsize >= Len(s)
      /\ bsize' = bsize /\ pos' = Len(s) /\ end' = Len(s) /\ failed' = failed
  BY DEF wstk_mbuf_cpy
<1>2. s \in Seq(Octets) /\ Len(s) \in Nat
  BY InputIs
<1>3. /\ memory' \in Seq(Octets) /\ Len(memory') = Len(memory)
      /\ \A i \in 1..Len(memory) : memory'[i] = IF i > 0 /\ i <= 0 + Len(s) THEN s[i - 0] ELSE memory[i]
  BY <1>1, <1>2, PutIs DEF MbufInv
<1> QED
  BY <1>1, <1>2, <1>3 DEF MbufInv

-----------------------------------------------------------------------------
(***************************************************************************)
(* The invariant.                                                          *)
(***************************************************************************)
(* A reallocation that fails leaves the bytes where they are.               *)
LEMMA FailsInv ==
  ASSUME MbufInv, NEW n \in Nat, ResizeFails(n)
  PROVE  MbufInv'
BY DEF MbufInv, ResizeFails

LEMMA WriteInv ==
  ASSUME MbufInv, ~failed, NEW s \in Inputs, Write_mem(s)
  PROVE  MbufInv'
<1>1. CASE ~failed'
  <2>1. Len(s) \in Nat /\ \A i \in 1..Len(s) : s[i] # Unset
    BY InputIs
  <2>2. pos' \in Nat /\ end' \in Nat /\ pos' <= end'
    BY <1>1, <2>1, WriteLeaves DEF MbufInv, AtLeast
  <2>3. \A i \in (pos' + 1)..end' : memory'[i] # Unset
    <3> SUFFICES ASSUME NEW i \in (pos' + 1)..end'
                 PROVE  memory'[i] # Unset
      OBVIOUS
    <3>1. i \in 1..Len(memory') /\ i > pos + Len(s) /\ i <= end /\ i <= Len(memory)
      <4>1. /\ pos' = pos + Len(s) /\ end' = AtLeast(end, pos + Len(s)) /\ end' <= Len(memory')
            /\ Len(memory') \in Nat
        BY <1>1, WriteLeaves
      <4>2. pos \in Nat /\ end \in Nat /\ end <= Len(memory) /\ Len(memory) \in Nat
        BY DEF MbufInv
      <4> QED
        BY <2>1, <2>2, <4>1, <4>2 DEF AtLeast
    <3>2. memory'[i] = memory[i] /\ i \in (pos + 1)..end
      BY <1>1, <2>1, <3>1, WriteLeaves DEF MbufInv
    <3> QED
      BY <3>2 DEF MbufInv
  <2> QED
    BY <1>1, <2>2, <2>3, WriteLeaves DEF MbufInv
<1>2. CASE failed'
  <2>1. PICK room : ResizeFails(room) /\ room = Grown(pos + Len(s))
    BY <1>2 DEF Write_mem
  <2>2. Len(s) \in Nat /\ DEFAULT_SIZE \in Nat
    BY InputIs, MbufAssumption
  <2>3. room \in Nat
    BY <2>1, <2>2 DEF Grown, AtLeast, MbufInv
  <2> QED
    BY <2>1, <2>3, FailsInv
<1> QED
  BY <1>1, <1>2

LEMMA ResizeInv ==
  ASSUME MbufInv, ~failed, NEW n \in Nat, wstk_mbuf_resize(n)
  PROVE  MbufInv'
<1>1. CASE ~failed'
  <2>1. \A i \in (pos' + 1)..end' : memory'[i] # Unset
    <3>1. \A i \in (pos + 1)..end : i \in 1..end /\ memory[i] # Unset
      BY DEF MbufInv
    <3> QED
      BY <1>1, <3>1, ResizeLeaves
  <2> QED
    BY <1>1, <2>1, ResizeLeaves DEF MbufInv
<1>2. CASE failed'
  BY <1>2, FailsInv DEF wstk_mbuf_resize
<1> QED
  BY <1>1, <1>2

LEMMA ShiftInv ==
  ASSUME MbufInv, ~failed, NEW n \in Int, wstk_mbuf_shift(n)
  PROVE  MbufInv'
<1>1. CASE ~failed'
  <2>1. \A i \in (pos' + 1)..end' : memory'[i] # Unset
    <3> SUFFICES ASSUME NEW i \in (pos' + 1)..end'
                 PROVE  memory'[i] # Unset
      OBVIOUS
    <3>1. memory'[i] = Window[i - pos'] /\ i - pos' \in 1..(end - pos)
      <4>1. /\ \A k \in (pos' + 1)..end' : memory'[k] = Window[k - pos']
            /\ pos' = pos + n /\ end' = end + n /\ pos' \in Nat /\ end' \in Nat
        BY <1>1, ShiftLeaves
      <4>2. pos \in Nat /\ end \in Nat
        BY DEF MbufInv
      <4> QED
        BY <4>1, <4>2
    <3> QED
      BY <3>1, WindowIs
  <2>2. pos' <= end'
    BY <1>1, ShiftLeaves DEF MbufInv
  <2> QED
    BY <1>1, <2>1, <2>2, ShiftLeaves DEF MbufInv
<1>2. CASE failed'
  <2>1. ResizeFails(end + n)
    BY <1>2 DEF wstk_mbuf_shift, MbufInv
  <2>2. end + n \in Nat
    BY DEF wstk_mbuf_shift, MbufInv
  <2> QED
    BY <2>1, <2>2, FailsInv
<1> QED
  BY <1>1, <1>2

LEMMA CpyInv ==
  ASSUME MbufInv, ~failed, NEW s \in Inputs, wstk_mbuf_cpy(s)
  PROVE  MbufInv'
<1>1. Len(s) \in Nat
  BY InputIs
<1>2. /\ memory' \in Seq(Octets) /\ Len(memory') = Len(memory) /\ Len(memory) >= Len(s)
      /\ bsize' = bsize /\ pos' = Len(s) /\ end' = Len(s) /\ failed' = failed
  BY CpyLeaves
<1>3. pos' \in Nat /\ end' \in Nat /\ pos' <= end' /\ end' <= Len(memory')
  BY <1>1, <1>2 DEF MbufInv
<1>4. \A i \in (pos' + 1)..end' : FALSE
  BY <1>3, <1>2, Later
<1> QED
  BY <1>2, <1>3, <1>4 DEF MbufInv

LEMMA NextMbufInv == MbufInv /\ [MbufNext]_mbufVars => MbufInv'
<1> SUFFICES ASSUME MbufInv, [MbufNext]_mbufVars
             PROVE  MbufInv'
  OBVIOUS
<1>1. ASSUME ~failed, NEW s \in Inputs, Write_mem(s)
      PROVE  MbufInv'
  BY <1>1, WriteInv
<1>2. ASSUME ~failed, NEW n \in 0..2, Read_mem(n)
      PROVE  MbufInv'
  <2>1. pos' \in Nat /\ pos <= pos' /\ pos' <= end /\ UNCHANGED <<memory, bsize, end, failed>>
    BY <1>2 DEF Read_mem, wstk_mbuf_left, MbufInv
  <2>2. \A i \in (pos' + 1)..end : i \in (pos + 1)..end
    BY <2>1, Later DEF MbufInv
  <2>3. \A i \in (pos' + 1)..end' : memory'[i] # Unset
    BY <2>1, <2>2 DEF MbufInv
  <2> QED
    BY <2>1, <2>3 DEF MbufInv
<1>3. ASSUME ~failed, NEW n \in {-1, 1, 2}, wstk_mbuf_shift(n)
      PROVE  MbufInv'
  BY <1>3, ShiftInv
<1>4. ASSUME ~failed, NEW p \in 0..BufferMax, NEW e \in 0..BufferMax, wstk_mbuf_set_posend(p, e)
      PROVE  MbufInv'
  BY <1>4, MbufAssumption DEF wstk_mbuf_set_posend, Written, MbufInv
<1>5. ASSUME ~failed, NEW n \in Nat, wstk_mbuf_resize(n)
      PROVE  MbufInv'
  BY <1>5, ResizeInv
<1>6. ASSUME ~failed, wstk_mbuf_trim
      PROVE  MbufInv'
  BY <1>6, <1>5 DEF wstk_mbuf_trim, MbufInv
<1>7. ASSUME ~failed, NEW s \in Inputs, wstk_mbuf_cpy(s)
      PROVE  MbufInv'
  BY <1>7, CpyInv
<1>8. CASE wstk_mbuf_reset
  <2>1. bsize' = 0 /\ pos' = 0 /\ end' = 0 /\ failed' = FALSE
    BY <1>8 DEF wstk_mbuf_reset
  <2>2. memory' \in Seq(Octets) /\ Len(memory') = 0
    BY <1>8, EmptySeq DEF wstk_mbuf_reset
  <2>3. \A i \in (pos' + 1)..end' : FALSE
    BY <2>1, Later
  <2>4. /\ bsize' \in Nat /\ pos' \in Nat /\ end' \in Nat
        /\ pos' <= end' /\ end' <= Len(memory') /\ bsize' = Len(memory')
    BY <2>1, <2>2, SMT
  <2>5. failed' \in BOOLEAN
    BY <2>1
  <2> QED
    BY <2>2, <2>3, <2>4, <2>5 DEF MbufInv
<1>9. CASE UNCHANGED mbufVars
  BY <1>9 DEF mbufVars, buffer, MbufInv
<1>10. \A n \in 1..BufferMax : n \in Nat
  BY MbufAssumption
<1> QED
  BY <1>1, <1>2, <1>3, <1>4, <1>5, <1>6, <1>7, <1>8, <1>9, <1>10 DEF MbufNext, MbufUse

-----------------------------------------------------------------------------
(***************************************************************************)
(* What a step does to the text.                                           *)
(***************************************************************************)
LEMMA TextIs ==
  ASSUME MbufInv
  PROVE  /\ Text \in Seq(Octets) /\ Len(Text) = end /\ \A i \in 1..end : Text[i] = memory[i]
         /\ Upto \in Seq(Octets) /\ Len(Upto) = pos /\ \A i \in 1..pos : Upto[i] = memory[i]
<1>1. pos <= Len(memory) /\ pos \in Nat /\ end \in Nat /\ end <= Len(memory) /\ memory \in Seq(Octets)
  BY DEF MbufInv
<1> QED
  BY <1>1, PrefixIs DEF Text, Upto

(* The same after the step.                                                 *)
LEMMA NewTextIs ==
  ASSUME MbufInv'
  PROVE  Text' \in Seq(Octets) /\ Len(Text') = end' /\ \A i \in 1..end' : Text'[i] = memory'[i]
<1>1. end' \in Nat /\ end' <= Len(memory') /\ memory' \in Seq(Octets)
  BY DEF MbufInv
<1> QED
  BY <1>1, PrefixIs DEF Text

LEMMA WriteText ==
  ASSUME MbufInv, ~failed, NEW s \in Inputs, Write_mem(s), ~failed'
  PROVE  Text' = Upto \o s \o SubSeq(Text, pos + Len(s) + 1, end)
<1> DEFINE rest == SubSeq(Text, pos + Len(s) + 1, end)
<1>1. s \in Seq(Octets) /\ Len(s) \in Nat
  BY InputIs
<1>2. /\ rest \in Seq(Octets)
      /\ Len(rest) = IF pos + Len(s) <= end THEN end - (pos + Len(s)) ELSE 0
      /\ \A i \in 1..Len(rest) : rest[i] = memory[pos + Len(s) + i]
  <2>1. CASE pos + Len(s) <= end
    <3>1. /\ rest \in Seq(Octets) /\ Len(rest) = end - (pos + Len(s))
          /\ \A i \in 1..(end - (pos + Len(s))) : rest[i] = Text[pos + Len(s) + i]
      <4>1. pos + Len(s) \in Nat /\ end \in Nat /\ Text \in Seq(Octets) /\ end <= Len(Text)
        BY <1>1, TextIs DEF MbufInv
      <4> QED
        BY <2>1, <4>1, PartIs
    <3>2. \A i \in 1..Len(rest) : pos + Len(s) + i \in 1..end
      BY <1>1, <2>1, <3>1 DEF MbufInv
    <3> QED
      BY <2>1, <3>1, <3>2, TextIs
  <2>2. CASE ~(pos + Len(s) <= end)
    <3>1. rest = <<>>
      <4>1. pos + Len(s) + 1 \in Int /\ end \in Int /\ end < pos + Len(s) + 1
        BY <1>1, <2>2 DEF MbufInv
      <4> QED
        BY <4>1, SubSeqEmpty
    <3>2. <<>> \in Seq(Octets) /\ Len(<<>>) = 0 /\ \A i \in 1..0 : FALSE
      BY EmptySeq
    <3>3. rest \in Seq(Octets) /\ Len(rest) = 0 /\ \A i \in 1..Len(rest) : FALSE
      BY <3>1, <3>2
    <3> QED
      BY <2>2, <3>3
  <2> QED
    BY <2>1, <2>2
<1>len. /\ pos + Len(s) <= end => Len(rest) = end - (pos + Len(s))
        /\ ~(pos + Len(s) <= end) => Len(rest) = 0
  BY <1>2
<1> HIDE DEF rest
<1>3. Upto \in Seq(Octets) /\ Len(Upto) = pos /\ \A i \in 1..pos : Upto[i] = memory[i]
  BY TextIs
<1>4. /\ Upto \o s \in Seq(Octets) /\ Len(Upto \o s) = pos + Len(s)
      /\ \A i \in 1..(pos + Len(s)) : (Upto \o s)[i] = IF i <= pos THEN memory[i] ELSE s[i - pos]
  <2>1. pos \in Nat
    BY DEF MbufInv
  <2>2. /\ Upto \o s \in Seq(Octets) /\ Len(Upto \o s) = Len(Upto) + Len(s)
        /\ \A i \in 1..(Len(Upto) + Len(s)) :
             (Upto \o s)[i] = IF i <= Len(Upto) THEN Upto[i] ELSE s[i - Len(Upto)]
    BY <1>1, <1>3, ConcatProperties
  <2>3. \A i \in 1..(pos + Len(s)) : i <= pos => i \in 1..pos
    BY <1>1, <2>1
  <2> QED
    BY <1>3, <2>2, <2>3
<1>5. /\ (Upto \o s) \o rest \in Seq(Octets)
      /\ Len((Upto \o s) \o rest) = pos + Len(s) + Len(rest)
      /\ \A i \in 1..(pos + Len(s) + Len(rest)) : ((Upto \o s) \o rest)[i] =
           IF i <= pos + Len(s) THEN (Upto \o s)[i] ELSE rest[i - (pos + Len(s))]
  <2> DEFINE front == Upto \o s
  <2> HIDE DEF front
  <2>1. front \in Seq(Octets) /\ Len(front) = pos + Len(s)
    BY <1>4 DEF front
  <2>3. rest \in Seq(Octets)
    BY <1>2
  <2>2. /\ front \o rest \in Seq(Octets) /\ Len(front \o rest) = Len(front) + Len(rest)
        /\ \A i \in 1..(Len(front) + Len(rest)) :
             (front \o rest)[i] = IF i <= Len(front) THEN front[i] ELSE rest[i - Len(front)]
    BY <2>1, <2>3, ConcatProperties
  <2> QED
    BY <2>1, <2>2 DEF front
<1>6. MbufInv'
  BY WriteInv
<1>7. Text' \in Seq(Octets) /\ Len(Text') = end' /\ \A i \in 1..end' : Text'[i] = memory'[i]
  BY <1>6, NewTextIs
<1>8. end' = pos + Len(s) + Len(rest) /\ end' <= Len(memory') /\ end' \in Nat
  <2>1. end' = AtLeast(end, pos + Len(s)) /\ end' <= Len(memory')
    BY WriteLeaves
  <2>2. pos \in Nat /\ end \in Nat /\ end' \in Nat
    BY <1>6 DEF MbufInv
  <2>3. Len(s) \in Nat
    BY <1>1
  <2>4. CASE pos + Len(s) <= end
    <3>1. end' = end /\ Len(rest) = end - (pos + Len(s))
      BY <1>len, <2>1, <2>2, <2>3, <2>4 DEF AtLeast
    <3> QED
      BY <2>1, <2>2, <2>3, <3>1
  <2>5. CASE ~(pos + Len(s) <= end)
    <3>1. end' = pos + Len(s) /\ Len(rest) = 0
      BY <1>len, <2>1, <2>2, <2>3, <2>5 DEF AtLeast
    <3> QED
      BY <2>1, <2>2, <2>3, <3>1
  <2> QED
    BY <2>4, <2>5
<1>old. /\ \A i \in 1..Len(memory') :
             memory'[i] = IF i > pos /\ i <= pos + Len(s) THEN s[i - pos]
                          ELSE IF i <= Len(memory) THEN memory[i] ELSE Unset
        /\ pos \in Nat /\ end \in Nat /\ pos <= end /\ end <= Len(memory) /\ Len(memory) \in Nat
        /\ Len(memory') \in Nat
  BY WriteLeaves DEF MbufInv
<1>9. ASSUME NEW i \in 1..end'
      PROVE  memory'[i] = ((Upto \o s) \o rest)[i]
  <2>1. i \in 1..Len(memory') /\ i \in Nat /\ pos \in Nat
    BY <1>8, <1>old
  <2>2. CASE i <= pos
    <3>1. memory'[i] = memory[i]
      BY <1>1, <2>1, <2>2, <1>old
    <3> QED
      BY <1>1, <1>4, <1>5, <1>8, <2>1, <2>2, <3>1
  <2>3. CASE i > pos /\ i <= pos + Len(s)
    <3>1. memory'[i] = s[i - pos]
      BY <2>1, <2>3, <1>old
    <3> QED
      BY <1>1, <1>4, <1>5, <1>8, <2>1, <2>3, <3>1
  <2>4. CASE i > pos + Len(s)
    <3>1. i <= end /\ i - (pos + Len(s)) \in 1..Len(rest)
      <4>1. /\ i <= pos + Len(s) + Len(rest) /\ i \in Nat /\ pos \in Nat /\ end \in Nat
            /\ Len(s) \in Nat /\ Len(rest) \in Nat
        <5>1. Len(rest) \in Nat
          BY <1>2
        <5>2. i <= pos + Len(s) + Len(rest)
          <6>1. i <= end'
            BY <1>8
          <6>2. end' = pos + Len(s) + Len(rest)
            BY <1>8
          <6> QED
            BY <6>1, <6>2
        <5>3. i \in Nat /\ pos \in Nat
          BY <2>1
        <5>4. end \in Nat /\ Len(s) \in Nat
          BY <1>1, <1>old
        <5> QED
          BY <5>1, <5>2, <5>3, <5>4
      <4>2. pos + Len(s) <= end /\ Len(rest) = end - (pos + Len(s))
        BY <1>len, <2>4, <4>1
      <4> DEFINE q == pos + Len(s)
                 m == Len(rest)
      <4>3. q \in Nat /\ m \in Nat /\ i \in Nat /\ end \in Nat
        BY <4>1
      <4>4. i > q /\ q <= end /\ m = end - q
        BY <2>4, <4>2
      <4> HIDE DEF q, m
      <4>5. i <= end /\ i - q \in 1..m
        <5>1. i <= q + m
          BY <4>1 DEF q, m
        <5> QED
          BY <5>1, <4>3, <4>4
      <4> QED
        BY <4>5 DEF q, m
    <3>2. memory'[i] = memory[i]
      <4>1. memory'[i] = IF i > pos /\ i <= pos + Len(s) THEN s[i - pos]
                         ELSE IF i <= Len(memory) THEN memory[i] ELSE Unset
        BY <2>1, <1>old
      <4>2. ~(i <= pos + Len(s))
        BY <1>1, <2>1, <2>4
      <4>3. i <= Len(memory)
        BY <2>1, <3>1, <1>old
      <4> QED
        BY <4>1, <4>2, <4>3
    <3>3. rest[i - (pos + Len(s))] = memory[i]
      BY <1>1, <1>2, <2>1, <3>1
    <3> QED
      BY <1>1, <1>5, <1>8, <2>1, <2>4, <3>2, <3>3
  <2> QED
    <3>1. pos \in Nat /\ Len(s) \in Nat /\ i \in Nat
      BY <1>1, <2>1
    <3>2. i <= pos \/ (i > pos /\ i <= pos + Len(s)) \/ i > pos + Len(s)
      BY <3>1
    <3> QED
      BY <2>2, <2>3, <2>4, <3>2
<1>10. Text' = (Upto \o s) \o rest
  BY <1>5, <1>7, <1>8, <1>9, SeqEqual
<1> QED
  BY <1>10 DEF rest

(* The window after a step.                                                 *)
LEMMA NewWindowIs ==
  ASSUME MbufInv'
  PROVE  /\ Window' \in Seq(Octets) /\ Len(Window') = end' - pos'
         /\ \A i \in 1..(end' - pos') : Window'[i] = memory'[pos' + i]
<1>1. /\ memory' \in Seq(Octets) /\ pos' \in Nat /\ end' \in Nat /\ Len(memory') \in Nat
      /\ pos' <= end' /\ end' <= Len(memory')
  BY DEF MbufInv
<1>2. AtMost(end', Len(memory')) = end'
  BY <1>1 DEF AtMost
<1>3. Window' = SubSeq(memory', pos' + 1, end')
  BY <1>2 DEF Window
<1> QED
  BY <1>1, <1>3, PartIs

LEMMA ShiftText ==
  ASSUME MbufInv, ~failed, NEW n \in Int, wstk_mbuf_shift(n), ~failed'
  PROVE  Window' = Window
<1>1. MbufInv'
  BY ShiftInv
<1>2. /\ Window' \in Seq(Octets) /\ Len(Window') = end' - pos'
      /\ \A i \in 1..(end' - pos') : Window'[i] = memory'[pos' + i]
  BY <1>1, NewWindowIs
<1>3. Window \in Seq(Octets) /\ Len(Window) = end - pos
  BY WindowIs
<1>4. /\ pos' = pos + n /\ end' = end + n /\ pos' \in Nat /\ end' \in Nat
      /\ \A k \in (pos' + 1)..end' : memory'[k] = Window[k - pos']
  BY ShiftLeaves
<1>5. pos \in Nat /\ end \in Nat /\ pos <= end
  BY DEF MbufInv
<1>6. end' - pos' = end - pos
  BY <1>4, <1>5
<1>7. ASSUME NEW i \in 1..(end - pos)
      PROVE  Window'[i] = Window[i]
  <2>1. pos' + i \in (pos' + 1)..end' /\ (pos' + i) - pos' = i
    BY <1>4, <1>5
  <2>2. Window'[i] = memory'[pos' + i]
    BY <1>2, <1>6
  <2> QED
    BY <1>4, <2>1, <2>2
<1>8. Len(Window') = Len(Window) /\ \A i \in 1..Len(Window') : Window'[i] = Window[i]
  BY <1>2, <1>3, <1>6, <1>7
<1> QED
  BY <1>2, <1>3, <1>8, SeqEqual

LEMMA ResizeText ==
  ASSUME MbufInv, ~failed, NEW n \in Nat, wstk_mbuf_resize(n)
  PROVE  Text' = Text
<1>1. CASE ~failed'
  <2>1. MbufInv'
    BY ResizeInv
  <2>2. Text' \in Seq(Octets) /\ Len(Text') = end' /\ \A i \in 1..end' : Text'[i] = memory'[i]
    BY <2>1, NewTextIs
  <2>3. Text \in Seq(Octets) /\ Len(Text) = end /\ \A i \in 1..end : Text[i] = memory[i]
    BY TextIs
  <2>4. end' = end /\ \A i \in 1..end : memory'[i] = memory[i]
    BY <1>1, ResizeLeaves
  <2> QED
    BY <2>2, <2>3, <2>4, SeqEqual
<1>2. CASE failed'
  BY <1>2 DEF wstk_mbuf_resize, ResizeFails, Text
<1> QED
  BY <1>1, <1>2

LEMMA CpyText ==
  ASSUME MbufInv, ~failed, NEW s \in Inputs, wstk_mbuf_cpy(s)
  PROVE  Text' = s
<1>1. MbufInv'
  BY CpyInv
<1>2. Text' \in Seq(Octets) /\ Len(Text') = end' /\ \A i \in 1..end' : Text'[i] = memory'[i]
  BY <1>1, NewTextIs
<1>3. s \in Seq(Octets)
  BY InputIs
<1>4. end' = Len(s) /\ \A i \in 1..Len(s) : memory'[i] = s[i]
  BY CpyLeaves
<1> QED
  BY <1>2, <1>3, <1>4, SeqEqual

-----------------------------------------------------------------------------
LEMMA InitMbufInv == MbufInit => MbufInv
<1> SUFFICES ASSUME MbufInit
             PROVE  MbufInv
  OBVIOUS
<1>1. DEFAULT_SIZE \in Nat
  BY MbufAssumption
<1>2. Unwritten(DEFAULT_SIZE) \in [1..DEFAULT_SIZE -> Octets]
  BY DEF Unwritten, Octets
<1>3. Unwritten(DEFAULT_SIZE) \in Seq(Octets) /\ Len(Unwritten(DEFAULT_SIZE)) = DEFAULT_SIZE
  BY <1>1, <1>2, IsSequence
<1>4. bsize = DEFAULT_SIZE /\ pos = 0 /\ end = 0 /\ failed \in BOOLEAN
  BY DEF MbufInit
<1>5. memory \in Seq(Octets) /\ Len(memory) = DEFAULT_SIZE
  BY <1>3 DEF MbufInit
<1>6. bsize \in Nat /\ pos \in Nat /\ end \in Nat /\ pos <= end /\ end <= Len(memory) /\ bsize = Len(memory)
  BY <1>1, <1>4, <1>5
<1>7. \A i \in (pos + 1)..end : FALSE
  BY <1>4, Later
<1> QED
  BY <1>4, <1>5, <1>6, <1>7 DEF MbufInv

LEMMA NewBounds == MbufInv' => BoundsSound'
<1> SUFFICES ASSUME MbufInv'
             PROVE  BoundsSound'
  OBVIOUS
<1>1. pos' <= end' /\ end' <= Len(memory') /\ (~failed' => bsize' = Len(memory'))
  BY DEF MbufInv
<1>2. Unset \notin ToSet(Window')
  <2>1. /\ Window' \in Seq(Octets) /\ Len(Window') = end' - pos'
        /\ \A i \in 1..(end' - pos') : Window'[i] = memory'[pos' + i]
    BY NewWindowIs
  <2>2. ASSUME NEW i \in DOMAIN Window'
        PROVE  Window'[i] # Unset
    <3>1. pos' \in Nat /\ end' \in Nat
      BY DEF MbufInv
    <3>2. i \in 1..(end' - pos')
      BY <2>1
    <3>3. pos' + i \in (pos' + 1)..end'
      BY <3>1, <3>2
    <3> QED
      BY <2>1, <3>2, <3>3 DEF MbufInv
  <2> QED
    BY <2>2 DEF ToSet
<1> QED
  BY <1>1, <1>2 DEF BoundsSound

(* A buffer that was given up is only reset, which does none of this.       *)
LEMMA GivenUp ==
  ASSUME MbufInv, failed, MbufNext
  PROVE  TextStep
<1>1. memory' = <<>> /\ bsize' = 0 /\ end' = 0 /\ ~failed'
  BY DEF MbufNext, wstk_mbuf_reset
<1>2. \A s \in Inputs : ~Write_mem(s)
  BY <1>1 DEF Write_mem, ResizeFails
<1>3. \A n \in {-1, 1, 2} : ~wstk_mbuf_shift(n)
  BY <1>1 DEF wstk_mbuf_shift, ResizeFails
<1>4. \A n \in 1..BufferMax : ~wstk_mbuf_resize(n)
  BY <1>1 DEF wstk_mbuf_resize, ResizeFails
<1>5. \A s \in Inputs : ~wstk_mbuf_cpy(s)
  BY <1>1 DEF wstk_mbuf_cpy
<1> QED
  BY <1>2, <1>3, <1>4, <1>5 DEF TextStep

LEMMA NextText ==
  ASSUME MbufInv, MbufNext
  PROVE  TextStep
<1>1. CASE failed
  BY <1>1, GivenUp
<1>2. CASE ~failed
  <2>1. \A s \in Inputs : Write_mem(s) /\ ~failed' =>
          Text' = Upto \o s \o SubSeq(Text, pos + Len(s) + 1, end)
    BY <1>2, WriteText
  <2>2. \A n \in {-1, 1, 2} : wstk_mbuf_shift(n) /\ ~failed' => Window' = Window
    BY <1>2, ShiftText
  <2>3. \A n \in 1..BufferMax : wstk_mbuf_resize(n) => Text' = Text
    <3>1. \A n \in 1..BufferMax : n \in Nat
      BY MbufAssumption
    <3> QED
      BY <1>2, <3>1, ResizeText
  <2>4. \A s \in Inputs : wstk_mbuf_cpy(s) => Text' = s
    BY <1>2, CpyText
  <2> QED
    BY <2>1, <2>2, <2>3, <2>4 DEF TextStep
<1> QED
  BY <1>1, <1>2

(* Whatever a caller writes, reads, moves, copies, grows and trims, and     *)
(* whichever allocations fail: the buffer keeps every byte up to its end,   *)
(* stays within its memory, and has no byte between pos and end that nobody *)
(* wrote (wstk-mbuf.c:163).                                                 *)
THEOREM MbufHoldsBytes == MbufSpec => BufferHoldsBytes
<1>1. MbufSpec => []MbufInv
  <2>1. MbufInit => MbufInv
    BY InitMbufInv
  <2>2. MbufInv /\ [MbufNext]_mbufVars => MbufInv'
    BY NextMbufInv
  <2> QED
    BY <2>1, <2>2, PTL DEF MbufSpec
<1>2. MbufInv /\ [MbufNext]_mbufVars => [mbufVars' # mbufVars => BoundsSound' /\ TextStep]_mbufVars
  <2> SUFFICES ASSUME MbufInv, MbufNext
               PROVE  BoundsSound' /\ TextStep
    OBVIOUS
  <2>1. MbufInv'
    BY NextMbufInv
  <2> QED
    BY <2>1, NewBounds, NextText
<1> QED
  BY <1>1, <1>2, PTL DEF MbufSpec, BufferHoldsBytes

=============================================================================
