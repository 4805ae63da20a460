---------------------------- MODULE WstkHashtable ----------------------------
(***************************************************************************)
(* wstk_hash_t and wstk_inthash_t (wstk-hashtable.c), as their public      *)
(* functions use the table: keys are copied and freed with their entry, an *)
(* insertion replaces.  An entry is [key, val]; a bucket is the sequence   *)
(* of its chain.  Allocations may fail.  An iteration runs through the     *)
(* table while entries are deleted.                                        *)
(***************************************************************************)
EXTENDS Naturals, FiniteSets, SequencesExt

CONSTANTS
  Keys, Vals, NoVal,
  OwnedVals, \* the values inserted with the flag that the table destroys them
  Hash,      \* the hash of each key
  Primes     \* the table lengths, smaller than those of the code

ASSUME HashAssumption ==
  /\ IsFiniteSet(Keys) /\ NoVal \notin Vals \cup Keys \cup [pos : Nat, e : Keys]
  /\ OwnedVals \subseteq Vals /\ Hash \in [Keys -> Nat]
  /\ Primes \in Seq(Nat \ {0}) /\ Primes # <<>>

VARIABLES
  primeindex, table, entrycount,   \* wstk_hashtable
  freed,                           \* the values destroyed so far
  iter,                            \* the iterator: [pos, e], or NoVal
  during, seen                     \* keys in the table all through the iteration; keys it gave

hashTable == <<primeindex, table, entrycount>>
iteration == <<iter, during, seen>>
hashVars == <<hashTable, freed, iteration>>

tablelength == Primes[primeindex]
LoadLimit(len) == (65 * len + 99) \div 100
IndexFor(len, k) == Hash[k] % len
Bucket(k) == IndexFor(tablelength, k)
Buckets(len) == 0..(len - 1)

Entry(k, v) == [key |-> k, val |-> v]
Entries == [key : Keys, val : Vals]
At(chain, k) == {i \in DOMAIN chain : chain[i].key = k}
First(chain, k) == CHOOSE i \in At(chain, k) : \A j \in At(chain, k) : i <= j
Find(t, len, k) ==
  LET chain == t[IndexFor(len, k)] IN
  IF At(chain, k) = {} THEN NoVal ELSE chain[First(chain, k)].val

HashInit ==
  /\ primeindex = 1 /\ table = [b \in Buckets(Primes[1]) |-> <<>>] /\ entrycount = 0
  /\ freed = <<>>
  /\ iter = NoVal /\ during = {} /\ seen = <<>>

-----------------------------------------------------------------------------
(* _wstk_hashtable_remove: the first entry of the key leaves its chain; a   *)
(* value the table owns is destroyed.                                       *)
Without(chain, k) ==
  IF At(chain, k) = {} THEN chain ELSE RemoveAt(chain, First(chain, k))

Removed(t, len, k) == [t EXCEPT ![IndexFor(len, k)] = Without(@, k)]

Destroyed(t, len, k) ==
  IF Find(t, len, k) \in OwnedVals THEN <<Find(t, len, k)>> ELSE <<>>

(* hashtable_expand: all chains in the order of their buckets, each entry   *)
(* put in front of its new chain; or, when there is no memory for a second  *)
(* table, within the enlarged one, where entries that stay keep their place *)
(* behind those that come.                                                  *)
AllEntries(t, len) ==
  LET upto[i \in 0..len] == IF i = 0 THEN <<>> ELSE upto[i - 1] \o t[i - 1] IN upto[len]

(* the entries of s that are in S, in their order *)
Chosen(s, S) ==
  LET upto[i \in 0..Len(s)] ==
        IF i = 0 THEN <<>> ELSE IF s[i] \in S THEN Append(upto[i - 1], s[i]) ELSE upto[i - 1]
  IN upto[Len(s)]

Belong(len, b) == {e \in Entries : IndexFor(len, e.key) = b}

Transferred(t, len, newlen) ==
  [b \in Buckets(newlen) |-> Reverse(Chosen(AllEntries(t, len), Belong(newlen, b)))]

InPlaceStays(t, len, newlen) ==
  [b \in Buckets(newlen) |-> IF b < len THEN t[b] ELSE <<>>]

InPlace(t, len, newlen) ==
  [b \in Buckets(newlen) |->
     Reverse(Chosen(AllEntries(t, len), Belong(newlen, b) \ Belong(len, b)))
     \o (IF b < len THEN Chosen(t[b], Belong(newlen, b)) ELSE <<>>)]

Expanded(t, len, newlen) == {Transferred(t, len, newlen), InPlace(t, len, newlen)}

Expandable(count) == count > LoadLimit(tablelength) /\ primeindex < Len(Primes)

(* wstk_hash_insert_ex: DUP_CHECK, then the count, then room, then the      *)
(* entry, for which there may be no memory.                                 *)
wstk_hash_insert_ex(k, v) ==
  LET t == Removed(table, tablelength, k)
      count == entrycount - Cardinality(At(table[Bucket(k)], k)) + 1
  IN
  /\ iter = NoVal
  /\ freed' = freed \o Destroyed(table, tablelength, k)
  /\ \E grow \in {FALSE, Expandable(count)}, stored \in BOOLEAN :
       /\ primeindex' = IF grow THEN primeindex + 1 ELSE primeindex
       /\ \E grown \in IF grow THEN Expanded(t, tablelength, Primes[primeindex']) ELSE {t} :
            LET index == IndexFor(Primes[primeindex'], k) IN
            table' = IF stored THEN [grown EXCEPT ![index] = <<Entry(k, v)>> \o @] ELSE grown
       /\ entrycount' = IF stored THEN count ELSE count - 1
  /\ UNCHANGED iteration

wstk_hash_delete(k) ==
  /\ iter # NoVal => iter.e # k
  /\ table' = Removed(table, tablelength, k)
  /\ entrycount' = entrycount - (IF At(table[Bucket(k)], k) = {} THEN 0 ELSE 1)
  /\ freed' = freed \o Destroyed(table, tablelength, k)
  /\ during' = during \ {k}
  /\ UNCHANGED <<primeindex, iter, seen>>

wstk_hash_find(k) == Find(table, tablelength, k)

(* wstk_hash_next: the rest of the chain the iterator stands in, then the   *)
(* first entry of the next bucket that has one.                             *)
NonEmpty(from) == {b \in Buckets(tablelength) : b >= from /\ table[b] # <<>>}

Successor(pos, e) ==
  LET chain == table[pos]
      i == CHOOSE j \in DOMAIN chain : chain[j].key = e
      bs == NonEmpty(IF e = NoVal THEN pos ELSE pos + 1)
  IN
  IF e # NoVal /\ i < Len(chain) THEN [pos |-> pos, e |-> chain[i + 1].key]
  ELSE IF bs = {} THEN NoVal
  ELSE LET b == CHOOSE x \in bs : \A y \in bs : x <= y IN [pos |-> b, e |-> table[b][1].key]

wstk_hash_first ==
  /\ iter = NoVal
  /\ iter' = Successor(0, NoVal)
  /\ seen' = IF iter' = NoVal THEN <<>> ELSE <<iter'.e>>
  /\ during' = {k \in Keys : wstk_hash_find(k) # NoVal}
  /\ UNCHANGED <<hashTable, freed>>

wstk_hash_next ==
  /\ iter # NoVal
  /\ iter' = Successor(iter.pos, iter.e)
  /\ seen' = IF iter' = NoVal THEN seen ELSE Append(seen, iter'.e)
  /\ UNCHANGED <<hashTable, freed, during>>

(* wstk_hash_this_val: the value is replaced and not destroyed *)
wstk_hash_this_val(v) ==
  /\ iter # NoVal
  /\ LET chain == table[iter.pos]
         i == CHOOSE j \in DOMAIN chain : chain[j].key = iter.e
     IN table' = [table EXCEPT ![iter.pos][i].val = v]
  /\ UNCHANGED <<primeindex, entrycount, freed, iteration>>

(* every entry in turn *)
desctuctor__wstk_hashtable_t ==
  /\ iter = NoVal
  /\ LET owned == Chosen(AllEntries(table, tablelength), [key : Keys, val : OwnedVals]) IN
     freed' = freed \o [i \in DOMAIN owned |-> owned[i].val]
  /\ primeindex' = 1 /\ table' = [b \in Buckets(Primes[1]) |-> <<>>] /\ entrycount' = 0
  /\ UNCHANGED iteration

(* The application's part: a value goes into one table at a time, and not   *)
(* after it was destroyed.                                                  *)
InTable(v) == \E b \in DOMAIN table : \E i \in DOMAIN table[b] : table[b][i].val = v
Available(v) == ~InTable(v) /\ v \notin ToSet(freed)

HashNext ==
  \/ \E k \in Keys, v \in Vals : Available(v) /\ wstk_hash_insert_ex(k, v)
  \/ \E k \in Keys : wstk_hash_delete(k)
  \/ wstk_hash_first \/ wstk_hash_next \/ desctuctor__wstk_hashtable_t
  \/ \E v \in Vals : Available(v) /\ wstk_hash_this_val(v)

-----------------------------------------------------------------------------
(* each key's value, as a search finds it *)
Content == [k \in Keys |-> wstk_hash_find(k)]

(* Every entry is in the chain a search will look at, once, the count is    *)
(* that of the entries, and nothing is destroyed twice or while it can      *)
(* still be found.                                                          *)
TableSound ==
  /\ DOMAIN table = Buckets(tablelength)
  /\ \A b \in DOMAIN table : \A i, j \in DOMAIN table[b] :
       /\ Bucket(table[b][i].key) = b
       /\ table[b][i].key = table[b][j].key => i = j
  /\ entrycount = Cardinality({k \in Keys : Content[k] # NoVal})
  /\ IsInjective(freed) /\ \A k \in Keys : Content[k] \notin ToSet(freed)

Becomes(k, v) == Content' = [Content EXCEPT ![k] = v]
Destroys(S) ==
  ToSet(freed') = ToSet(freed) \cup ({Content[k] : k \in S} \cap OwnedVals)

ContentStep ==
  /\ \A k \in Keys :
       /\ wstk_hash_delete(k) => Becomes(k, NoVal) /\ Destroys({k})
       /\ \A v \in Vals :
            wstk_hash_insert_ex(k, v) => (Becomes(k, v) \/ Becomes(k, NoVal)) /\ Destroys({k})
  /\ \A v \in Vals : wstk_hash_this_val(v) => Becomes(iter.e, v) /\ Destroys({})
  /\ desctuctor__wstk_hashtable_t => Content' = [k \in Keys |-> NoVal] /\ Destroys(Keys)

IterationStep ==
  /\ iter' # iter => Content' = Content
  /\ IsInjective(seen')
  /\ iter' # NoVal => Content'[iter'.e] # NoVal
  /\ iter # NoVal /\ iter' = NoVal => during' \subseteq ToSet(seen')

(* The table is a map: growing it, in a second table or in place, failing   *)
(* to grow it, or having no memory for an entry changes nothing but the key *)
(* at hand; an owned value is destroyed exactly when its entry goes; an     *)
(* iteration gives every key that stays in the table once, also when other  *)
(* entries are deleted on the way, as the polls and the server do           *)
(* (wstk-poll-select.c:345).                                                *)
TableIsMap == [][hashVars' # hashVars => TableSound' /\ ContentStep /\ IterationStep]_hashVars
=============================================================================
