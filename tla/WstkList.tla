------------------------------- MODULE WstkList -------------------------------
(***************************************************************************)
(* wstk_list_t (wstk-list.c): items in blocks of memory, linked both ways. *)
(* Nodes is the memory: an operation that finds none free fails.  Positions *)
(* go one past the longest list, further ones mean the same (the tail).    *)
(***************************************************************************)
EXTENDS Naturals, FiniteSets, SequencesExt

CONSTANTS
  Nodes,   \* blocks of memory
  Data,    \* what callers put into the list
  Owned,   \* the data that is added with a destroy handler
  Nil      \* no block, and no data

ASSUME ListAssumption ==
  /\ IsFiniteSet(Nodes) /\ Owned \subseteq Data /\ Nil # "MEM_FAIL"
  /\ Nil \notin Nodes \cup Data \cup [data : Data, next : Nodes \cup {Nil}, prev : Nodes \cup {Nil}]

VARIABLES
  head, tail, size,   \* wstk_list_s
  item,               \* the blocks: [data, next, prev], or Nil when not allocated
  answer              \* the last operation, what it returned and what it destroyed

chain == <<head, tail, size, item>>
listVars == <<chain, answer>>

Fresh == {n \in Nodes : item[n] = Nil}
Block(d, next, prev) == [data |-> d, next |-> next, prev |-> prev]
Answer(op, pos, d, val, gone) ==
  answer' = [op |-> op, pos |-> pos, data |-> d, val |-> val, gone |-> gone]

(* the blocks from the head on, and NULL after the last *)
NodeAt[i \in Nat] == IF i = 0 THEN head
                     ELSE IF NodeAt[i - 1] = Nil THEN Nil ELSE item[NodeAt[i - 1]].next
DataAt(i) == item[NodeAt[i]].data

ListInit ==
  /\ head = Nil /\ tail = Nil /\ size = 0
  /\ item = [n \in Nodes |-> Nil]
  /\ answer = [op |-> "none", pos |-> 0, data |-> Nil, val |-> Nil, gone |-> <<>>]

-----------------------------------------------------------------------------
AddFirst(n, d) ==
  /\ size = 0
  /\ item' = [item EXCEPT ![n] = Block(d, Nil, Nil)]
  /\ head' = n /\ tail' = n

AddHead(n, d) ==
  /\ item' = [item EXCEPT ![n] = Block(d, head, Nil), ![head].prev = n]
  /\ head' = n /\ UNCHANGED tail

AddTail(n, d) ==
  /\ item' = [item EXCEPT ![n] = Block(d, Nil, tail), ![tail].next = n]
  /\ tail' = n /\ UNCHANGED head

AddBeforeForgetsPrev(n, d, target) ==
  LET before == item[target].prev IN
  /\ item' = [item EXCEPT ![n] = Block(d, target, before), ![before].next = n]
  /\ UNCHANGED <<head, tail>>

AddBefore(n, d, target) ==
  LET before == item[target].prev IN
  /\ item' = [item EXCEPT ![n] = Block(d, target, before),
                          ![before].next = n, ![target].prev = n]
  /\ UNCHANGED <<head, tail>>

wstk_list_add(pos, d) ==
  \/ /\ size' = size + 1
     /\ LET n == CHOOSE x \in Fresh : TRUE IN
        /\ Fresh # {}
        /\ \/ AddFirst(n, d)
           \/ size > 0 /\ pos = 0 /\ AddHead(n, d)
           \/ size > 0 /\ pos > 0 /\ pos >= size /\ AddTail(n, d)
           \/ pos > 0 /\ pos < size /\ AddBefore(n, d, NodeAt[pos])
     /\ Answer("add", pos, d, Nil, <<>>)
  \/ /\ Fresh = {}
     /\ UNCHANGED chain
     /\ Answer("add", pos, d, "MEM_FAIL", <<>>)

(* The destructor of an item calls the destroy handler of its data. *)
Gone(d) == IF d \in Owned THEN <<d>> ELSE <<>>
AllGone(s) == SelectSeq(s, LAMBDA d : d \in Owned)
Handed(d) == IF d \in Owned THEN Nil ELSE d

DelHead ==
  LET n == head IN
  /\ head' = item[n].next /\ UNCHANGED tail
  /\ item' = [item EXCEPT ![item[n].next].prev = Nil, ![n] = Nil]

DelTail(n) ==
  /\ tail' = item[n].prev /\ UNCHANGED head
  /\ item' = [item EXCEPT ![item[n].prev].next = Nil, ![n] = Nil]

DelInner(n) ==
  /\ item' = [item EXCEPT ![item[n].prev].next = item[n].next,
                          ![item[n].next].prev = item[n].prev, ![n] = Nil]
  /\ UNCHANGED <<head, tail>>

(* The only item is never deleted by its position: the code would follow    *)
(* its next, NULL.                                                          *)
MayDel(pos) == pos = 0 => size # 1

wstk_list_del(pos) ==
  \/ /\ pos < size /\ MayDel(pos)
     /\ \/ pos = 0 /\ DelHead
        \/ pos > 0 /\ NodeAt[pos] = tail /\ DelTail(NodeAt[pos])
        \/ pos > 0 /\ NodeAt[pos] # tail /\ DelInner(NodeAt[pos])
     /\ size' = size - 1
     /\ Answer("del", pos, Nil, Handed(DataAt(pos)), Gone(DataAt(pos)))
  \/ /\ pos >= size
     /\ UNCHANGED chain
     /\ Answer("del", pos, Nil, Nil, <<>>)

wstk_list_get(pos) ==
  /\ UNCHANGED chain
  /\ Answer("get", pos, Nil, IF pos < size THEN DataAt(pos) ELSE Nil, <<>>)

(* with a callback that looks for d: its first position *)
wstk_list_find(d) ==
  LET at == {i \in 0..(size - 1) : DataAt(i) = d} IN
  /\ UNCHANGED chain
  /\ Answer("find", IF at = {} THEN 0 ELSE CHOOSE i \in at : \A j \in at : i <= j,
            d, at # {}, <<>>)

(* and its destructor, which frees the same items *)
wstk_list_clear ==
  /\ head' = Nil /\ tail' = Nil /\ size' = 0
  /\ item' = [n \in Nodes |-> IF \E i \in 0..(size - 1) : NodeAt[i] = n THEN Nil ELSE item[n]]
  /\ Answer("clear", 0, Nil, Nil, AllGone([i \in 1..size |-> DataAt(i - 1)]))

ListNext ==
  \/ \E pos \in 0..Cardinality(Nodes) :
       \/ \E d \in Data : wstk_list_add(pos, d)
       \/ wstk_list_del(pos)
       \/ wstk_list_get(pos)
  \/ \E d \in Data : wstk_list_find(d)
  \/ wstk_list_clear

-----------------------------------------------------------------------------
Elements == [i \in 1..size |-> DataAt(i - 1)]

(* The links are those of one chain in both directions, which owns exactly  *)
(* the allocated blocks.                                                    *)
ChainSound ==
  /\ size = Cardinality(Nodes \ Fresh)
  /\ size = 0 => head = Nil /\ tail = Nil
  /\ size > 0 =>
       /\ NodeAt[size - 1] = tail
       /\ item[head].prev = Nil /\ item[tail].next = Nil
       /\ \A i \in 1..(size - 1) : item[NodeAt[i]].prev = NodeAt[i - 1]

(* What an operation does to the sequence of the elements. *)
ElementsStep ==
  LET a == answer'
      at == IF a.pos < size THEN a.pos ELSE size
  IN CASE a.op = "add" ->
            Elements' = IF a.val = "MEM_FAIL" THEN Elements ELSE InsertAt(Elements, at + 1, a.data)
       [] a.op = "del" ->
            IF a.pos < size
            THEN LET d == Elements[a.pos + 1] IN
                 /\ Elements' = RemoveAt(Elements, a.pos + 1)
                 /\ IF d \in Owned THEN a.gone = <<d>> /\ a.val = Nil ELSE a.gone = <<>> /\ a.val = d
            ELSE Elements' = Elements /\ a.val = Nil
       [] a.op = "get" ->
            Elements' = Elements /\ a.val = IF a.pos < size THEN Elements[a.pos + 1] ELSE Nil
       [] a.op = "find" ->
            /\ Elements' = Elements
            /\ a.val = (a.data \in ToSet(Elements))
            /\ a.val => Elements[a.pos + 1] = a.data /\ a.data \notin ToSet(SubSeq(Elements, 1, a.pos))
       [] a.op = "clear" ->
            Elements' = <<>> /\ a.gone = AllGone(Elements)

(* The list is a sequence: wherever items are added and deleted, walking it *)
(* gives the elements the calls put there in their order, forwards and      *)
(* backwards, no block is lost or linked twice, and data with a handler is  *)
(* destroyed when it leaves, all other data handed back (wstk-list.c:94).   *)
ListIsSequence == [][listVars' # listVars => ChainSound' /\ ElementsStep]_listVars
=============================================================================
