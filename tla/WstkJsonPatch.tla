---------------------------- MODULE WstkJsonPatch ----------------------------
(***************************************************************************)
(* JSON pointers, patches and merge patches (cJSON_Utils.c) on the trees    *)
(* of WstkJson.                                                            *)
(***************************************************************************)
EXTENDS WstkJson

Zero == 48    Tilde == 126    Dash == 45

-----------------------------------------------------------------------------
(* Members by name *)

tolower(c) == IF c \in 65..90 THEN c + 32 ELSE c
Folded(s, case_sensitive) == IF case_sensitive THEN s ELSE [i \in DOMAIN s |-> tolower(s[i])]

(* the order of strcmp: the 0 that ends a string is below every character *)
Less(s, t) ==
  \/ \E i \in DOMAIN s \cap DOMAIN t : s[i] < t[i] /\ \A j \in 1..(i - 1) : s[j] = t[j]
  \/ Len(s) < Len(t) /\ IsPrefix(s, t)
compare_strings(s, t, case_sensitive) ==
  LET a == Folded(s, case_sensitive)
      b == Folded(t, case_sensitive)
  IN IF a = b THEN 0 ELSE IF Less(a, b) THEN -1 ELSE 1

(* the index of the member, 0 for none *)
get_object_item(object, string, case_sensitive) ==
  SelectInSeq(object.child, LAMBDA x : compare_strings(x.string, string, case_sensitive) = 0)

(* cJSON_AddItemToArray: the item goes behind the one that tail designates, *)
(* those that followed it are lost; nowhere when tail is NULL; and what     *)
(* comes of it is undefined when tail is an item that was deleted.          *)
Corrupt == cJSON_New_Item("corrupt", <<>>, <<>>)
AddItemToArray(array, x) ==
  CASE array.child = <<>> \/ array.tail > 0 ->
         [array EXCEPT !.child = Append(SubSeq(@, 1, array.tail), x), !.tail = @ + 1]
    [] array.child # <<>> /\ array.tail = 0 -> array
    [] OTHER -> [Corrupt EXCEPT !.string = array.string]

AddItemToObject(object, string, x) == AddItemToArray(object, [x EXCEPT !.string = string])

DetachItemLeavesTail(parent, i) ==
  [parent EXCEPT !.child = RemoveAt(@, i),
                 !.tail = IF Len(parent.child) = 1 THEN 0 ELSE IF @ > i THEN @ - 1 ELSE IF @ = i THEN -1 ELSE @]

DetachItem(parent, i) ==
  LET n == Len(parent.child) IN
  [parent EXCEPT
     !.child = RemoveAt(@, i),
     !.tail = CASE n = 1 -> 0
                [] n > 1 /\ i = n -> n - 1
                [] n > 1 /\ i < n /\ @ = i -> -1
                [] OTHER -> IF @ > i THEN @ - 1 ELSE @]

DeleteItemFromObject(object, string, case_sensitive) ==
  LET i == get_object_item(object, string, case_sensitive) IN
  IF i = 0 THEN object ELSE DetachItem(object, i)

insert_item_in_array(array, which, x) ==
  IF which >= Len(array.child) THEN AddItemToArray(array, x)
  ELSE [array EXCEPT !.child = InsertAt(@, which + 1, x), !.tail = IF @ > which THEN @ + 1 ELSE @]

(* sort_list leaves the first item's prev what it was: still the formerly   *)
(* last item when the first one stays first, NULL otherwise.  Of two equal  *)
(* names the later one goes first.                                          *)
sort_object(object, case_sensitive) ==
  LET Order(i, j) == compare_strings(object.child[i].string, object.child[j].string, case_sensitive)
      n == Len(object.child)
      sorted == SetToSortSeq(1..n, LAMBDA i, j : Order(i, j) < 0 \/ (Order(i, j) = 0 /\ i > j))
  IN IF \A i \in 1..(n - 1) : Order(i, i + 1) < 0 THEN object
     ELSE [object EXCEPT !.child = [i \in 1..n |-> object.child[sorted[i]]],
                         !.tail = IF sorted[1] # 1 THEN 0
                                  ELSE IF @ > 0 THEN SelectInSeq(sorted, LAMBDA i : i = object.tail) ELSE @]

(* a copy's lists are linked afresh *)
RECURSIVE cJSON_Duplicate(_)
cJSON_Duplicate(x) ==
  [x EXCEPT !.child = [i \in DOMAIN @ |-> cJSON_Duplicate(@[i])], !.tail = Len(x.child)]

(* The members are compared in order, once both objects are sorted, up to   *)
(* the first that differ: whether all were the same, and what became of a.  *)
(* b is sorted too, but nobody adds to it afterwards.                       *)
RECURSIVE Compared(_, _, _)
Compared(a, b, case_sensitive) ==
  LET Sorted(x) == IF x.type = "object" THEN sort_object(x, case_sensitive) ELSE x
      d == Sorted(b).child
      Both(s, i) ==
        LET c == s.a.child[i]
            r == Compared(c, d[i], case_sensitive)
        IN IF ~s.same \/ (a.type = "object" /\ compare_strings(c.string, d[i].string, case_sensitive) # 0)
           THEN [s EXCEPT !.same = FALSE]
           ELSE [same |-> r.same, a |-> [s.a EXCEPT !.child[i] = r.a]]
      all == FoldLeft(Both, [same |-> TRUE, a |-> Sorted(a)], [i \in 1..Min({Len(a.child), Len(d)}) |-> i])
  IN CASE a.type # b.type -> [same |-> FALSE, a |-> a]
       [] a.type = b.type /\ a.type \in {"array", "object"} -> [all EXCEPT !.same = @ /\ Len(a.child) = Len(d)]
       [] OTHER -> [same |-> a.type \in {"number", "string"} => a.valuestring = b.valuestring, a |-> a]

compare_json(a, b, case_sensitive) == Compared(a, b, case_sensitive).same

-----------------------------------------------------------------------------
(* Pointers.  A place in a tree is the sequence of child indices that leads *)
(* to it.                                                                  *)
(***************************************************************************)
Nowhere == <<0>>

RECURSIVE ItemAt(_, _), WithItemAt(_, _, _), Places(_)
ItemAt(x, place) == IF place = <<>> THEN x ELSE ItemAt(x.child[Head(place)], Tail(place))
WithItemAt(x, place, y) ==
  IF place = <<>> THEN y
  ELSE [x EXCEPT !.child[Head(place)] = WithItemAt(@, Tail(place), y)]
Places(x) == {<<>>} \cup UNION {{<<i>> \o p : p \in Places(x.child[i])} : i \in DOMAIN x.child}

encode_string_as_pointer(s) ==
  FoldLeft(LAMBDA out, c : out \o (CASE c = Solidus -> <<Tilde, 49>> [] c = Tilde -> <<Tilde, Zero>> [] OTHER -> <<c>>),
           <<>>, s)

RECURSIVE cJSONUtils_FindPointerFromObjectTo(_, _)
cJSONUtils_FindPointerFromObjectTo(object, place) ==
  IF place = <<>> THEN <<>>
  ELSE LET i == Head(place) IN
       <<Solidus>>
       \o (IF object.type = "array" THEN Decimal(i - 1) ELSE encode_string_as_pointer(object.child[i].string))
       \o cJSONUtils_FindPointerFromObjectTo(object.child[i], Tail(place))

Char0(s, i) == IF i <= Len(s) THEN s[i] ELSE 0
Ends(c) == c \in {0, Solidus}

(* name against the first token of pointer *)
RECURSIVE compare_pointers(_, _, _)
compare_pointers(name, pointer, case_sensitive) ==
  LET n == Char0(name, 1)
      p == Char0(pointer, 1)
      e == Char0(pointer, 2)
  IN CASE n = 0 \/ Ends(p) -> (n = 0) = Ends(p)
       [] n # 0 /\ p = Tilde ->
            /\ (e = Zero /\ n = Tilde) \/ (e = 49 /\ n = Solidus)
            /\ compare_pointers(Tail(name), SubSeq(pointer, 3, Len(pointer)), case_sensitive)
       [] OTHER ->
            /\ Folded(<<n>>, case_sensitive) = Folded(<<p>>, case_sensitive)
            /\ compare_pointers(Tail(name), Tail(pointer), case_sensitive)

(* -1 for no index.  The loop looks whether the first character is at most  *)
(* '9', and goes on for every later one from '0' up.                        *)
decode_array_index_from_pointer(pointer) ==
  LET Taken(i) == Char0(pointer, i) >= Zero /\ Char0(pointer, 1) <= 57
      n == CHOOSE k \in 0..Len(pointer) : ~Taken(k + 1) /\ \A i \in 1..k : Taken(i)
  IN IF (Char0(pointer, 1) = Zero /\ ~Ends(Char0(pointer, 2))) \/ ~Ends(Char0(pointer, n + 1)) THEN -1
     ELSE FoldLeft(LAMBDA index, c : 10 * index + c - Zero, 0, SubSeq(pointer, 1, n))

RECURSIVE FromPointer(_, _, _)
FromPointer(x, pointer, case_sensitive) ==
  LET token == Tail(pointer)
      slashes == {i \in DOMAIN token : token[i] = Solidus}
      rest == IF slashes = {} THEN <<>> ELSE SubSeq(token, Min(slashes), Len(token))
      index == decode_array_index_from_pointer(token)
      i == CASE x.type = "array" -> IF index \in 0..(Len(x.child) - 1) THEN index + 1 ELSE 0
             [] x.type = "object" -> SelectInSeq(x.child, LAMBDA y : compare_pointers(y.string, token, case_sensitive))
             [] OTHER -> 0
  IN CASE Char0(pointer, 1) # Solidus -> <<>>
       [] Char0(pointer, 1) = Solidus /\ i = 0 -> Nowhere
       [] OTHER -> <<i>> \o FromPointer(x.child[i], rest, case_sensitive)

get_item_from_pointer(x, pointer, case_sensitive) ==
  LET place == FromPointer(x, pointer, case_sensitive) IN
  IF 0 \in ToSet(place) THEN Nowhere ELSE place

(* Characters are read at i and written at k; a plain one is not copied.    *)
RECURSIVE Decode(_, _, _)
Decode(s, i, k) ==
  CASE i > Len(s) -> SubSeq(s, 1, k - 1)
    [] i <= Len(s) /\ s[i] # Tilde -> Decode(s, i + 1, k + 1)
    [] i <= Len(s) /\ s[i] = Tilde ->
         CASE Char0(s, i + 1) = Zero -> Decode([s EXCEPT ![k] = Tilde], i + 2, k + 1)
           [] Char0(s, i + 1) = 49 -> Decode([s EXCEPT ![k + 1] = Solidus], i + 2, k + 1)
           [] OTHER -> s
decode_pointer_inplace(s) == Decode(s, 1, 1)

Split(path) ==
  LET last == {i \in DOMAIN path : path[i] = Solidus} IN
  IF last = {} THEN [ok |-> FALSE, parent |-> path, child |-> <<>>]
  ELSE [ok |-> TRUE, parent |-> SubSeq(path, 1, Max(last) - 1),
        child |-> decode_pointer_inplace(SubSeq(path, Max(last) + 1, Len(path)))]

(* The member is looked for without regard to case, whatever was asked for. *)
ChildToDetach(parent, child) ==
  CASE parent.type = "array" ->
         LET index == decode_array_index_from_pointer(child) IN
         IF index \in 0..(Len(parent.child) - 1) THEN index + 1 ELSE 0
    [] parent.type = "object" -> get_object_item(parent, child, FALSE)
    [] OTHER -> 0

detach_path(object, path, case_sensitive) ==
  LET split == Split(path)
      place == get_item_from_pointer(object, split.parent, case_sensitive)
      parent == ItemAt(object, place)
      i == ChildToDetach(parent, split.child)
  IN IF ~split.ok \/ place = Nowhere THEN [ok |-> FALSE, object |-> object]
     ELSE IF i = 0 THEN [ok |-> FALSE, object |-> object]
     ELSE [ok |-> TRUE, object |-> WithItemAt(object, place, DetachItem(parent, i)), item |-> parent.child[i]]

-----------------------------------------------------------------------------
(* Patches.  A patch is its operation, path, from and value.                *)
(***************************************************************************)
Result(status, object) == [status |-> status, object |-> object]

(* "Now, just add value to path." *)
AddAt(object, path, value, case_sensitive) ==
  LET split == Split(path)
      place == get_item_from_pointer(object, split.parent, case_sensitive)
      parent == ItemAt(object, place)
      index == decode_array_index_from_pointer(split.child)
      Into(x) == Result(0, WithItemAt(object, place, x))
  IN CASE ~split.ok \/ place = Nowhere -> Result(9, object)
       [] OTHER ->
            CASE parent.type = "array" ->
                   CASE split.child = <<Dash>> -> Into(AddItemToArray(parent, value))
                     [] split.child # <<Dash>> /\ index = -1 -> Result(11, object)
                     [] split.child # <<Dash>> /\ index > Len(parent.child) -> Result(10, object)
                     [] OTHER -> Into(insert_item_in_array(parent, index, value))
              [] parent.type = "object" ->
                   Into(AddItemToObject(DeleteItemFromObject(parent, split.child, case_sensitive), split.child, value))
              [] OTHER -> Result(9, object)

apply_patch(object, patch, case_sensitive) ==
  LET Detached(path) == detach_path(object, path, case_sensitive)
      source == get_item_from_pointer(object, patch.from, case_sensitive)
      tested == get_item_from_pointer(object, patch.path, case_sensitive)
      test == Compared(ItemAt(object, tested), patch.value, case_sensitive)
  IN CASE patch.op = "test" ->
            IF tested = Nowhere THEN Result(1, object)
            ELSE Result(IF test.same THEN 0 ELSE 1, WithItemAt(object, tested, test.a))
       [] patch.op = "remove" /\ patch.path = <<>> -> Result(0, Invalid)
       [] patch.op \in {"add", "replace"} /\ patch.path = <<>> -> Result(0, [patch.value EXCEPT !.string = NoName])
       [] patch.op = "remove" /\ patch.path # <<>> ->
            IF Detached(patch.path).ok THEN Result(0, Detached(patch.path).object) ELSE Result(13, object)
       [] patch.op = "replace" /\ patch.path # <<>> ->
            IF Detached(patch.path).ok
            THEN AddAt(Detached(patch.path).object, patch.path, patch.value, case_sensitive)
            ELSE Result(13, object)
       [] patch.op = "move" ->
            IF Detached(patch.from).ok
            THEN AddAt(Detached(patch.from).object, patch.path, Detached(patch.from).item, case_sensitive)
            ELSE Result(5, object)
       [] patch.op = "copy" ->
            IF source # Nowhere THEN AddAt(object, patch.path, cJSON_Duplicate(ItemAt(object, source)), case_sensitive)
            ELSE Result(5, object)
       [] patch.op = "add" /\ patch.path # <<>> -> AddAt(object, patch.path, patch.value, case_sensitive)

cJSONUtils_ApplyPatches(object, patches, case_sensitive) ==
  FoldLeft(LAMBDA r, patch : IF r.status = 0 THEN apply_patch(r.object, patch, case_sensitive) ELSE r,
           Result(0, object), patches)

-----------------------------------------------------------------------------
(* Making patches *)

Patch(op, path, value) == [op |-> op, path |-> path, from |-> <<>>, value |-> cJSON_Duplicate(value)]
compose_patch(op, path, suffix, value) == Patch(op, path \o <<Solidus>> \o encode_string_as_pointer(suffix), value)

(* Two sorted lists of members side by side: the indices of the members of  *)
(* one name, 0 in the list that lacks it.                                   *)
RECURSIVE Walk(_, _, _, _, _)
Walk(c, d, i, j, case_sensitive) ==
  LET diff == CASE i > Len(c) -> 1 [] i <= Len(c) /\ j > Len(d) -> -1 [] OTHER -> compare_strings(c[i].string, d[j].string, case_sensitive) IN
  CASE i > Len(c) /\ j > Len(d) -> <<>>
    [] (i <= Len(c) \/ j <= Len(d)) /\ diff = 0 -> <<<<i, j>>>> \o Walk(c, d, i + 1, j + 1, case_sensitive)
    [] (i <= Len(c) \/ j <= Len(d)) /\ diff < 0 -> <<<<i, 0>>>> \o Walk(c, d, i + 1, j, case_sensitive)
    [] OTHER -> <<<<0, j>>>> \o Walk(c, d, i, j + 1, case_sensitive)

RECURSIVE create_patches(_, _, _, _)
create_patches(path, from, to, case_sensitive) ==
  LET both == Min({Len(from.child), Len(to.child)})
      replace == <<Patch("replace", path, to)>>
      c == sort_object(from, case_sensitive).child
      d == sort_object(to, case_sensitive).child
      Member(w) ==
        CASE w[1] # 0 /\ w[2] # 0 ->
               create_patches(path \o <<Solidus>> \o encode_string_as_pointer(c[w[1]].string),
                              c[w[1]], d[w[2]], case_sensitive)
          [] w[2] = 0 -> <<compose_patch("remove", path, c[w[1]].string, Invalid)>>
          [] OTHER -> <<compose_patch("add", path, d[w[2]].string, d[w[2]])>>
  IN CASE from.type # to.type -> replace
       [] from.type = to.type /\ from.type \in {"number", "string"} ->
            IF from.valuestring = to.valuestring THEN <<>> ELSE replace
       [] from.type = to.type /\ from.type = "array" ->
            FlattenSeq([i \in 1..both |-> create_patches(path \o <<Solidus>> \o Decimal(i - 1),
                                                         from.child[i], to.child[i], case_sensitive)])
            \o [i \in 1..(Len(from.child) - both) |-> compose_patch("remove", path, Decimal(both), Invalid)]
            \o [i \in 1..(Len(to.child) - both) |-> compose_patch("add", path, <<Dash>>, to.child[both + i])]
       [] from.type = to.type /\ from.type = "object" ->
            LET walk == Walk(c, d, 1, 1, case_sensitive) IN FlattenSeq([i \in DOMAIN walk |-> Member(walk[i])])
       [] OTHER -> <<>>

RECURSIVE merge_patch(_, _, _)
merge_patch(target, patch, case_sensitive) ==
  LET object == IF target.type = "object" THEN target ELSE cJSON_CreateObject
      Merge(t, x) ==
        LET i == get_object_item(t, x.string, case_sensitive)
            old == IF i = 0 THEN Invalid ELSE t.child[i]
            rest == IF i = 0 THEN t ELSE DetachItem(t, i)
        IN IF x.type = "null" THEN rest
           ELSE AddItemToObject(rest, x.string, merge_patch(old, x, case_sensitive))
  IN IF patch.type # "object" THEN cJSON_Duplicate(patch) ELSE FoldLeft(Merge, object, patch.child)

(* The patch, Invalid for NULL when nothing differs, and what became of     *)
(* from, whose objects are sorted here and where they are compared.         *)
RECURSIVE generate_merge_patch(_, _, _)
generate_merge_patch(from, to, case_sensitive) ==
  LET sorted == sort_object(from, case_sensitive)
      c == sorted.child
      d == sort_object(to, case_sensitive).child
      Entry1(s, w) ==
        LET met == Compared(c[w[1]], d[w[2]], case_sensitive)
            nested == generate_merge_patch(met.a, d[w[2]], FALSE)
            Left(x) == [s.from EXCEPT !.child[w[1]] = x]
            With(string, x) == AddItemToObject(s.patch, string, x)
        IN CASE w[2] = 0 -> [s EXCEPT !.patch = With(c[w[1]].string, cJSON_CreateNull)]
             [] w[1] = 0 -> [s EXCEPT !.patch = With(d[w[2]].string, cJSON_Duplicate(d[w[2]]))]
             [] OTHER ->
                  IF met.same THEN [s EXCEPT !.from = Left(met.a)]
                  ELSE [from |-> Left(nested.from),
                        patch |-> IF nested.patch = Invalid THEN s.patch ELSE With(d[w[2]].string, nested.patch)]
      all == FoldLeft(Entry1, [patch |-> cJSON_CreateObject, from |-> sorted], Walk(c, d, 1, 1, TRUE))
  IN IF from.type # "object" \/ to.type # "object" THEN [patch |-> cJSON_Duplicate(to), from |-> from]
     ELSE [all EXCEPT !.patch = IF @.child = <<>> THEN Invalid ELSE @]

(* What create_patches does to from on its way: it sorts the objects it      *)
(* walks through.                                                           *)
RECURSIVE SortedOnTheWay(_, _, _)
SortedOnTheWay(from, to, case_sensitive) ==
  LET x == sort_object(from, case_sensitive)
      d == sort_object(to, case_sensitive).child
      walk == Walk(x.child, d, 1, 1, case_sensitive)
      Met(i) == SelectInSeq(walk, LAMBDA w : w[1] = i /\ w[2] # 0)
  IN CASE from.type # to.type -> from
       [] from.type = to.type /\ from.type = "object" ->
            [x EXCEPT !.child = [i \in DOMAIN @ |->
               IF Met(i) = 0 THEN @[i] ELSE SortedOnTheWay(@[i], d[walk[Met(i)][2]], case_sensitive)]]
       [] from.type = to.type /\ from.type = "array" ->
            [from EXCEPT !.child = [i \in DOMAIN @ |->
               IF i \in DOMAIN to.child THEN SortedOnTheWay(@[i], to.child[i], case_sensitive) ELSE @[i]]]
       [] OTHER -> from

-----------------------------------------------------------------------------
(* What is patched: pairs of trees *)

OneNumber == cJSON_New_Item("number", <<1>>, <<>>)
Names == {<<97>>, <<65>>, <<66, Solidus>>, <<99, Tilde>>}
ObjectOf(names, values) ==
  cJSON_New_Item("object", <<>>, [i \in DOMAIN names |-> [values[i] EXCEPT !.string = names[i]]])

Scalars == {OneNumber, cJSON_CreateNull}
Arrays == {cJSON_New_Item("array", <<>>, s) : s \in SeqOf(Scalars, 2)}
Inner == Scalars \cup {ObjectOf(<<<<97>>>>, <<OneNumber>>)}
Pairs == {p \in Names \X Names : p[1] # p[2]}
Objects ==
  {cJSON_CreateObject}
  \cup {ObjectOf(<<n>>, <<v>>) : n \in Names, v \in Inner}
  \cup {ObjectOf(p, v) : p \in Pairs, v \in Inner \X Inner}
  \cup {ObjectOf(<<p[1], <<99>>, p[2]>>, <<OneNumber, OneNumber, OneNumber>>) : p \in Pairs}
Trees == Scalars \cup Arrays \cup Objects

PatchNext == Reads("patch", Trees, 2)

-----------------------------------------------------------------------------
(* Properties *)

NamesIn(x) == {ItemAt(x, place).string : place \in Places(x)}
(* decode_pointer_inplace gives back no name with a "/", nor one that goes  *)
(* on behind a "~".                                                         *)
Decodable(names) == \A s \in names : decode_pointer_inplace(encode_string_as_pointer(s)) = s
CaseDistinct(names) == \A s, t \in names : Folded(s, FALSE) = Folded(t, FALSE) => s = t
(* generate_merge_patch walks by strcmp through lists sorted without regard *)
(* to case; nested ones, which have one name here, whatever was asked for.  *)
WalksInOrder(names, case_sensitive) ==
  \A s, t \in names : ~case_sensitive => (Less(s, t) <=> Less(Folded(s, FALSE), Folded(t, FALSE)))
HasNull(x) == \E place \in Places(x) : ItemAt(x, place).type = "null"
AllLinked(x) == \A place \in Places(x) : ItemAt(x, place).tail = Len(ItemAt(x, place).child)

(* a tree without some members of another's objects, or an undefined one *)
RECURSIVE PartOf(_, _)
PartOf(x, y) ==
  CASE x.type = "corrupt" -> TRUE
    [] x.type = "object" ->
         y.type = "object" /\ \A i \in DOMAIN x.child :
           \E j \in DOMAIN y.child : x.child[i].string = y.child[j].string /\ PartOf(x.child[i], y.child[j])
    [] OTHER -> compare_json(x, y, TRUE)

(* What became of x is y; of an x that sorting left without its last child, *)
(* no more than a part of y.                                                *)
Patched(x, result, y, case_sensitive) ==
  IF AllLinked(x) THEN compare_json(result, y, case_sensitive) ELSE PartOf(result, y)

(* The patches made from two trees turn the first into the second: a copy   *)
(* of it, and the tree itself, whose objects were sorted on the way.        *)
PatchesLead(from, to) ==
  \A case_sensitive \in BOOLEAN :
    LET names == NamesIn(from) \cup NamesIn(to)
        patches == create_patches(<<>>, from, to, case_sensitive)
        sorted == SortedOnTheWay(from, to, case_sensitive)
    IN Decodable(names) /\ CaseDistinct(names) =>
         \A x \in {from, sorted} :
           LET r == cJSONUtils_ApplyPatches(x, patches, case_sensitive) IN
           /\ AllLinked(x) => r.status = 0
           /\ r.status = 0 => Patched(x, r.object, to, case_sensitive)

(* So does the merge patch.                                                 *)
MergePatchLeads(from, to) ==
  \A case_sensitive \in BOOLEAN :
    LET names == NamesIn(from) \cup NamesIn(to)
        made == generate_merge_patch(from, to, case_sensitive)
        Merge(x) == IF made.patch = Invalid THEN x ELSE merge_patch(x, made.patch, case_sensitive)
    IN CaseDistinct(names) /\ WalksInOrder(names, case_sensitive) /\ ~HasNull(to) =>
         \A x \in {from, made.from} : Patched(x, Merge(x), to, case_sensitive)

(* A pointer made for an item leads to it, where a test against the item    *)
(* itself succeeds, and an item that was moved is found where it was moved  *)
(* to.                                                                      *)
PointersLead(x) ==
  \A place \in Places(x) : 
    /\ get_item_from_pointer(x, cJSONUtils_FindPointerFromObjectTo(x, place), TRUE) = place
    /\ LET path == cJSONUtils_FindPointerFromObjectTo(x, place)
           r == apply_patch(x, [op |-> "test", path |-> path, from |-> <<>>, value |-> ItemAt(x, place)], TRUE)
       IN r.status = 0 /\ PartOf(r.object, x) /\ PartOf(x, r.object)
    /\ \A target \in Places(x) :
         LET path == cJSONUtils_FindPointerFromObjectTo(x, target)
             move == [op |-> "move", path |-> path, value |-> Invalid,
                      from |-> cJSONUtils_FindPointerFromObjectTo(x, place)]
             r == apply_patch(x, move, TRUE)
             found == get_item_from_pointer(r.object, path, TRUE)
         IN Decodable(NamesIn(x)) /\ CaseDistinct(NamesIn(x)) /\ r.status = 0 =>
              found # Nowhere /\ compare_json(ItemAt(r.object, found), ItemAt(x, place), TRUE)

PatchesTried(trees) ==
  part = "patch" =>
    /\ Len(trees) = 2 => PatchesLead(trees[1], trees[2]) /\ MergePatchLeads(trees[1], trees[2])
    /\ Len(trees) = 1 => PointersLead(trees[1])

(* Patches do what they are made for: the patch made from two trees, and    *)
(* the merge patch, turn a copy of the first into the second; the first     *)
(* itself, whose objects the making sorted in place, they turn into the     *)
(* second too, or into a part of it when sorting made an object lose its    *)
(* last child (cJSON_Utils.c:486, cJSON.c:1986), where what is added is     *)
(* dropped and a tail that was deleted leaves anything; a pointer made for  *)
(* an item leads to it, also after a move, and the item passes a test       *)
(* against itself (cJSON_Utils.c:200, :1143, :1323, :1397).  Left out are   *)
(* names that a pointer does not give back whole (line 361) or that differ  *)
(* in case alone, merge patches that would have to set a null, and those    *)
(* over names that strcmp orders otherwise than the sort did (line 1425).   *)
PatchesApply == [][PatchesTried(input')]_<<part, input>>
=============================================================================
