------------------------------ MODULE WstkJson ------------------------------
(***************************************************************************)
(* JSON text and trees (cJSON.c).  Characters are their codes, a text is a *)
(* sequence of them, offsets count from 0 as in the code.                  *)
(***************************************************************************)
EXTENDS WstkInput, FiniteSets

CONSTANTS JsonMax, StringMax, ArrayMax,   \* how long the inputs get
          NestingLimit                    \* CJSON_NESTING_LIMIT
ASSUME JsonAssumption == NestingLimit \in Nat \ {0}

INT_MAX == 2147483647
DQuote == 34    BSlash == 92    Comma == 44    Colon == 58    Solidus == 47

-----------------------------------------------------------------------------
(* A tree: string is the member's name, valuestring also the number, child  *)
(* the list of children and tail the one the first child's prev designates: *)
(* 0 stands for NULL, -1 for an item that is no longer a child.             *)
(***************************************************************************)
NoName == <<0>>   \* no C string: they end at the first 0

cJSON_New_Item(type, valuestring, child) ==
  [type |-> type, string |-> NoName, valuestring |-> valuestring, child |-> child, tail |-> Len(child)]

cJSON_CreateNull == cJSON_New_Item("null", <<>>, <<>>)
cJSON_CreateObject == cJSON_New_Item("object", <<>>, <<>>)
Invalid == cJSON_New_Item("invalid", <<>>, <<>>)

CString(s) == IF 0 \in ToSet(s) THEN SubSeq(s, 1, SelectInSeq(s, LAMBDA c : c = 0) - 1) ELSE s

-----------------------------------------------------------------------------
(* Reading *)

CanAccess(c, o) == o < Len(c)
Sees(c, o, char) == CanAccess(c, o) /\ c[o + 1] = char
Read(c, o, word) == o + Len(word) <= Len(c) /\ SubSeq(c, o + 1, o + Len(word)) = word

buffer_skip_whitespace(c, o) ==
  LET words == {i \in o..(Len(c) - 1) : c[i + 1] > 32} IN
  IF ~CanAccess(c, o) THEN o
  ELSE IF words = {} THEN Len(c) - 1
  ELSE CHOOSE i \in words : \A j \in words : i <= j

Unread == [ok |-> FALSE, o |-> 0, item |-> Invalid]
ReadTo(o, item) == [ok |-> TRUE, o |-> o, item |-> item]

(* Of the characters strtod would take, whole numbers and their sign. *)
parse_number(c, o) ==
  LET IsDigit(i) == CanAccess(c, i) /\ c[i + 1] \in 48..57
      first == IF Sees(c, o, 45) THEN o + 1 ELSE o
      end == CHOOSE i \in first..Len(c) : ~IsDigit(i) /\ \A j \in first..(i - 1) : IsDigit(j)
      number == FoldLeft(LAMBDA n, d : 10 * n + d - 48, 0, SubSeq(c, first + 1, end))
  IN IF end = first THEN Unread
     ELSE ReadTo(end, cJSON_New_Item("number", <<IF first > o THEN -number ELSE number>>, <<>>))

HexDigit(d) == CASE d \in 48..57 -> d - 48 [] d \in 65..70 -> d - 55 [] d \in 97..102 -> d - 87 [] OTHER -> -1

parse_hex4(s) ==
  IF \E i \in 1..4 : HexDigit(s[i]) = -1 THEN 0
  ELSE FoldLeft(LAMBDA h, d : 16 * h + HexDigit(d), 0, s)

Utf8(codepoint) ==
  LET Low(shift) == 128 + ((codepoint \div shift) % 64) IN
  CASE codepoint < 128 -> <<codepoint>>
    [] codepoint \in 128..2047 -> <<192 + codepoint \div 64, Low(1)>>
    [] codepoint \in 2048..65535 -> <<224 + codepoint \div 4096, Low(64), Low(1)>>
    [] OTHER -> <<240 + codepoint \div 262144, Low(4096), Low(64), Low(1)>>

(* s is what is left of the literal, from its backslash on *)
utf16_literal_to_utf8(s) ==
  LET Code(i) == parse_hex4(SubSeq(s, i + 2, i + 5))
      Fail == [length |-> 0, out |-> <<>>]
  IN CASE Len(s) < 6 -> Fail
       [] Len(s) >= 6 /\ Code(1) \in 56320..57343 -> Fail
       [] Len(s) >= 6 /\ Code(1) \in 55296..56319 ->
            IF Len(s) >= 12 /\ s[7] = BSlash /\ s[8] = 117 /\ Code(7) \in 56320..57343
            THEN [length |-> 12, out |-> Utf8(65536 + (Code(1) % 1024) * 1024 + (Code(7) % 1024))]
            ELSE Fail
       [] OTHER -> [length |-> 6, out |-> Utf8(Code(1))]

ShortEscapes == [c \in {98, 102, 110, 114, 116} |->
            CASE c = 98 -> 8 [] c = 102 -> 12 [] c = 110 -> 10 [] c = 114 -> 13 [] c = 116 -> 9]

(* the quote that ends the literal, Len(c) when there is none *)
RECURSIVE EndOfLiteral(_, _)
EndOfLiteral(c, o) ==
  IF o >= Len(c) \/ Sees(c, o, DQuote) THEN Min({o, Len(c)})
  ELSE EndOfLiteral(c, IF c[o + 1] = BSlash THEN o + 2 ELSE o + 1)

RECURSIVE Decoded(_, _)
Decoded(s, out) ==
  LET Goes(n, written) == Decoded(SubSeq(s, n + 1, Len(s)), out \o written)
      Fail == [ok |-> FALSE, out |-> <<>>]
      literal == utf16_literal_to_utf8(s)
  IN CASE s = <<>> -> [ok |-> TRUE, out |-> out]
       [] s # <<>> /\ Head(s) # BSlash -> Goes(1, <<Head(s)>>)
       [] OTHER ->
            CASE s[2] \in DOMAIN ShortEscapes -> Goes(2, <<ShortEscapes[s[2]]>>)
              [] s[2] \in {DQuote, BSlash, Solidus} -> Goes(2, <<s[2]>>)
              [] s[2] = 117 -> IF literal.length = 0 THEN Fail ELSE Goes(literal.length, literal.out)
              [] OTHER -> Fail

parse_string(c, o) ==
  LET end == EndOfLiteral(c, o + 1)
      text == Decoded(SubSeq(c, o + 2, end), <<>>)
  IN IF ~Sees(c, o, DQuote) \/ end >= Len(c) \/ ~text.ok THEN Unread
     ELSE ReadTo(end + 1, cJSON_New_Item("string", CString(text.out), <<>>))

RECURSIVE parse_value(_, _, _), parse_children(_, _, _, _)

(* One turn of the loop of parse_array and parse_object: o is at the        *)
(* character before the child, type tells the two apart.                    *)
parse_children(c, o, x, depth) ==
  LET Skip(i) == buffer_skip_whitespace(c, i)
      name == parse_string(c, Skip(o + 1))
      colon == Skip(name.o)
      named == name.ok /\ Sees(c, colon, Colon)
      value == IF x.type = "array" THEN parse_value(c, Skip(o + 1), depth)
               ELSE IF named THEN parse_value(c, Skip(colon + 1), depth) ELSE Unread
      child == IF x.type = "array" THEN value.item
               ELSE [value.item EXCEPT !.string = name.item.valuestring]
      y == cJSON_New_Item(x.type, <<>>, Append(x.child, child))
      end == Skip(value.o)
  IN CASE ~value.ok -> Unread
       [] value.ok /\ Sees(c, end, Comma) -> parse_children(c, end, y, depth)
       [] value.ok /\ Sees(c, end, IF x.type = "array" THEN 93 ELSE 125) -> ReadTo(end + 1, y)
       [] OTHER -> Unread

parse_array_or_object(c, o, type, close, depth) ==
  LET first == buffer_skip_whitespace(c, o + 1)
      empty == cJSON_New_Item(type, <<>>, <<>>)
  IN CASE depth >= NestingLimit -> Unread
       [] depth < NestingLimit /\ Sees(c, first, close) -> ReadTo(first + 1, empty)
       [] OTHER -> parse_children(c, first - 1, empty, depth + 1)

Null == <<110, 117, 108, 108>>
False == <<102, 97, 108, 115, 101>>
True == <<116, 114, 117, 101>>

parse_value(c, o, depth) ==
  CASE Read(c, o, Null) -> ReadTo(o + 4, cJSON_CreateNull)
    [] Read(c, o, False) -> ReadTo(o + 5, cJSON_New_Item("false", <<>>, <<>>))
    [] Read(c, o, True) -> ReadTo(o + 4, cJSON_New_Item("true", <<>>, <<>>))
    [] Sees(c, o, DQuote) -> parse_string(c, o)
    [] CanAccess(c, o) /\ c[o + 1] \in {45} \cup 48..57 -> parse_number(c, o)
    [] Sees(c, o, 91) -> parse_array_or_object(c, o, "array", 93, depth)
    [] Sees(c, o, 123) -> parse_array_or_object(c, o, "object", 125, depth)
    [] OTHER -> Unread

BOM == <<239, 187, 191>>
skip_utf8_bom(c) == IF Len(c) > 4 /\ SubSeq(c, 1, 3) = BOM THEN 3 ELSE 0

(* the terminating 0 belongs to the buffer *)
cJSON_ParseWithOpts(text, require_null_terminated) ==
  LET c == Append(text, 0)
      value == parse_value(c, buffer_skip_whitespace(c, skip_utf8_bom(c)), 0)
  IN IF value.ok /\ (require_null_terminated => Sees(c, buffer_skip_whitespace(c, value.o), 0))
     THEN value ELSE Unread

-----------------------------------------------------------------------------
(* Writing.  A print buffer p has length bytes, of which the text takes     *)
(* Len(out); top is the most that was ever written of it.                   *)
(***************************************************************************)
ensure(p, needed) ==
  LET all == needed + Len(p.out) + 1 IN
  CASE ~p.ok \/ (p.length > 0 /\ Len(p.out) >= p.length) -> [p EXCEPT !.ok = FALSE]
    [] p.ok /\ all <= p.length -> p
    [] OTHER -> IF p.noalloc THEN [p EXCEPT !.ok = FALSE] ELSE [p EXCEPT !.length = 2 * all]

(* writes text, and zero 0s, into what ensure has made room for *)
Puts(p, needed, text, zero) ==
  LET q == ensure(p, needed) IN
  IF q.ok THEN [q EXCEPT !.out = @ \o text, !.top = Max({@, Len(q.out) + Len(text) + zero})] ELSE q

Decimal(n) ==
  LET Place[k \in Nat] == IF k < 10 THEN <<48 + k>> ELSE Append(Place[k \div 10], 48 + (k % 10)) IN
  IF n < 0 THEN <<45>> \o Place[-n] ELSE Place[n]

print_number(n, p) == Puts(p, Len(Decimal(n)) + 1, Decimal(n), 1)

HexCode(n) == IF n < 10 THEN 48 + n ELSE 87 + n

EscapedChar(c) ==
  CASE c \in {DQuote, BSlash} -> <<BSlash, c>>
    [] c \in {8, 9, 10, 12, 13} -> <<BSlash, CHOOSE e \in DOMAIN ShortEscapes : ShortEscapes[e] = c>>
    [] c < 32 /\ c \notin {8, 9, 10, 12, 13} -> <<BSlash, 117, 48, 48, HexCode(c \div 16), HexCode(c % 16)>>
    [] OTHER -> <<c>>

print_string_ptr(s, p) ==
  LET text == FoldLeft(LAMBDA out, c : out \o EscapedChar(c), <<>>, s) IN
  Puts(p, Len(text) + 3, <<DQuote>> \o text \o <<DQuote>>, 1)

RECURSIVE print_value(_, _, _)

Tabs(n) == [i \in 1..n |-> 9]

print_array(item, p, depth) ==
  LET Element(q, i) ==
        LET value == print_value(item.child[i], q, depth + 1) IN
        IF i = Len(item.child) THEN value
        ELSE Puts(value, IF p.format THEN 3 ELSE 2, IF p.format THEN <<Comma, 32>> ELSE <<Comma>>, 1)
  IN Puts(FoldLeft(Element, Puts(p, 1, <<91>>, 0), [i \in 1..Len(item.child) |-> i]), 2, <<93>>, 1)

print_object(item, p, depth) ==
  LET line == IF p.format THEN <<10>> ELSE <<>>
      Member(q, i) ==
        LET margin == IF p.format THEN Puts(q, depth + 1, Tabs(depth + 1), 0) ELSE q
            name == print_string_ptr(item.child[i].string, margin)
            colon == IF p.format THEN Puts(name, 2, <<Colon, 9>>, 0) ELSE Puts(name, 1, <<Colon>>, 0)
            value == print_value(item.child[i], colon, depth + 1)
            end == (IF i < Len(item.child) THEN <<Comma>> ELSE <<>>) \o line
        IN Puts(value, Len(end) + 1, end, 1)
      members == FoldLeft(Member, Puts(p, Len(line) + 2, <<123>> \o line, 0), [i \in 1..Len(item.child) |-> i])
  IN Puts(members, IF p.format THEN depth + 2 ELSE 2,
          (IF p.format THEN Tabs(depth) ELSE <<>>) \o <<125>>, 1)

print_value(item, p, depth) ==
  CASE item.type = "null" -> Puts(p, 5, Null, 1)
    [] item.type = "false" -> Puts(p, 6, False, 1)
    [] item.type = "true" -> Puts(p, 5, True, 1)
    [] item.type = "number" -> print_number(item.valuestring[1], p)
    [] item.type = "string" -> print_string_ptr(item.valuestring, p)
    [] item.type = "array" -> print_array(item, p, depth)
    [] item.type = "object" -> print_object(item, p, depth)

PrintBuffer(length, noalloc, format) ==
  [ok |-> TRUE, out |-> <<>>, top |-> 0, length |-> length, noalloc |-> noalloc, format |-> format]

cJSON_Print(item, format) == print_value(item, PrintBuffer(256, FALSE, format), 0)
cJSON_PrintPreallocated(item, length, format) == print_value(item, PrintBuffer(length, TRUE, format), 0)

-----------------------------------------------------------------------------
(* Minify *)

RECURSIVE minify_string(_, _), Minified(_, _), EndOfComment(_, _)

(* s is what is left to read, from behind the opening quote on *)
minify_string(s, into) ==
  CASE s = <<>> -> Minified(s, into)
    [] s # <<>> /\ Head(s) = DQuote -> Minified(Tail(s), Append(into, DQuote))
    [] Len(s) > 1 /\ s[1] = BSlash /\ s[2] = DQuote -> minify_string(SubSeq(s, 3, Len(s)), into \o <<BSlash, DQuote>>)
    [] OTHER -> minify_string(Tail(s), Append(into, Head(s)))

EndOfComment(s, ends) ==
  CASE s = <<>> -> s
    [] s # <<>> /\ IsPrefix(ends, s) -> SubSeq(s, Len(ends) + 1, Len(s))
    [] OTHER -> EndOfComment(Tail(s), ends)

Minified(s, into) ==
  CASE s = <<>> -> into
    [] s # <<>> /\ Head(s) \in {32, 9, 13, 10} -> Minified(Tail(s), into)
    [] s # <<>> /\ Head(s) = Solidus ->
         Minified(CASE IsPrefix(<<Solidus, Solidus>>, s) -> EndOfComment(SubSeq(s, 3, Len(s)), <<10>>)
                    [] IsPrefix(<<Solidus, 42>>, s) -> EndOfComment(SubSeq(s, 3, Len(s)), <<42, Solidus>>)
                    [] OTHER -> Tail(s), into)
    [] s # <<>> /\ Head(s) = DQuote -> minify_string(Tail(s), Append(into, DQuote))
    [] OTHER -> Minified(Tail(s), Append(into, Head(s)))

cJSON_Minify(json) == Minified(json, <<>>)

-----------------------------------------------------------------------------
(* The children of an item as memory: next and prev of each, 0 for NULL.    *)
(* The items are numbered, the number is also their name when they are      *)
(* sorted.                                                                  *)
(***************************************************************************)
CONSTANT JsonItems   \* how many items there are
Ids == 1..JsonItems

NoChildren == [child |-> 0, next |-> [i \in Ids |-> 0], prev |-> [i \in Ids |-> 0]]

(* a chain is followed for as many steps as there are items *)
ItemsFrom(m, first) ==
  FoldLeft(LAMBDA s, k : IF s.at = 0 THEN s ELSE [at |-> m.next[s.at], seen |-> Append(s.seen, s.at)],
           [at |-> first, seen |-> <<>>], [k \in Ids |-> k]).seen
Children(m) == ItemsFrom(m, m.child)
get_array_item(m, index) == IF index < Len(Children(m)) THEN Children(m)[index + 1] ELSE 0

add_item_to_array(m, item) ==
  LET last == m.prev[m.child] IN
  CASE m.child = 0 -> [m EXCEPT !.child = item, !.prev[item] = item, !.next[item] = 0]
    [] m.child # 0 /\ last # 0 -> [m EXCEPT !.next[last] = item, !.prev = [@ EXCEPT ![item] = last, ![m.child] = item]]
    [] OTHER -> m

Unlinked(m, item) ==
  LET n == m.next[item] IN
  [m EXCEPT !.child = IF item = @ THEN n ELSE @,
            !.next = IF item = m.child THEN @ ELSE [@ EXCEPT ![m.prev[item]] = n],
            !.prev = IF n = 0 THEN @ ELSE [@ EXCEPT ![n] = m.prev[item]]]

DetachForgetsTail(m, item) == [Unlinked(m, item) EXCEPT !.next[item] = 0, !.prev[item] = 0]

cJSON_DetachItemViaPointer(m, item) ==
  LET linked == Unlinked(m, item)
      moved == IF item # m.child /\ m.next[item] = 0 THEN [linked EXCEPT !.prev[m.child] = m.prev[item]] ELSE linked
  IN [moved EXCEPT !.next[item] = 0, !.prev[item] = 0]

cJSON_InsertItemInArray(m, which, item) ==
  LET after == get_array_item(m, which)
      before == m.prev[after]
      linked == [m EXCEPT !.next[item] = after, !.prev = [@ EXCEPT ![item] = before, ![after] = item]]
  IN CASE after = 0 -> add_item_to_array(m, item)
       [] after # 0 /\ after # m.child /\ before = 0 -> m
       [] after # 0 /\ after = m.child -> [linked EXCEPT !.child = item]
       [] OTHER -> [linked EXCEPT !.next[before] = item]

cJSON_ReplaceItemViaPointer(m, item, replacement) ==
  LET n == m.next[item]
      b == m.prev[item]
      copied == [m EXCEPT !.next[replacement] = n, !.prev[replacement] = b]
      after == IF n = 0 THEN copied ELSE [copied EXCEPT !.prev[n] = replacement]
      alone == after.prev[m.child] = m.child
      linked ==
        IF m.child = item
        THEN [after EXCEPT !.child = replacement, !.prev[replacement] = IF alone THEN replacement ELSE @]
        ELSE [after EXCEPT !.next = IF b = 0 THEN @ ELSE [@ EXCEPT ![b] = replacement],
                           !.prev = IF n = 0 THEN [@ EXCEPT ![m.child] = replacement] ELSE @]
  IN [linked EXCEPT !.next[item] = 0, !.prev[item] = 0]

(* The two lists are merged; result grows at its tail. *)
RECURSIVE Merged(_, _, _, _, _)
Merged(m, first, second, result, tail) ==
  LET smaller == IF first # 0 /\ (second = 0 \/ first < second) THEN first ELSE second
      joined == IF result = 0 THEN m ELSE [m EXCEPT !.next[tail] = smaller, !.prev[smaller] = tail]
  IN IF first = 0 \/ second = 0 THEN [m |-> joined, result |-> IF result = 0 THEN smaller ELSE result]
     ELSE Merged(joined, IF smaller = first THEN m.next[first] ELSE first,
                 IF smaller = second THEN m.next[second] ELSE second,
                 IF result = 0 THEN smaller ELSE result, smaller)

RECURSIVE sort_list(_, _)
sort_list(m, list) ==
  LET items == ItemsFrom(m, list)
      middle == items[(Len(items) + 1) \div 2 + 1]
      split == [m EXCEPT !.next[m.prev[middle]] = 0, !.prev[middle] = 0]
      left == sort_list(split, list)
      right == sort_list(left.m, middle)
  IN IF \A i \in 1..(Len(items) - 1) : items[i] < items[i + 1] THEN [m |-> m, result |-> list]
     ELSE Merged(right.m, left.result, right.result, 0, 0)

sort_items(m) == LET s == sort_list(m, m.child) IN [s.m EXCEPT !.child = s.result]

-----------------------------------------------------------------------------
(* What is read and what is done *)

(* "q" stands for a string that ends in a backslash, "s" for one with a     *)
(* space in it.                                                             *)
Spelled ==
  [u \in {"[", "]", "{", "{a", ",A", "}", ",", "1", "q", "s"} |->
     CASE u = "[" -> <<91>> [] u = "]" -> <<32, 93>> [] u = "{" -> <<123>>
       [] u = "{a" -> <<123, 32, DQuote, 97, DQuote, 9, Colon>>
       [] u = ",A" -> <<Comma, DQuote, 65, DQuote, Colon>>
       [] u = "}" -> <<125>> [] u = "," -> <<Comma, 10>> [] u = "1" -> <<45, 49, 48>>
       [] u = "q" -> <<DQuote, BSlash, BSlash, DQuote>>
       [] u = "s" -> <<DQuote, 120, 32, 120, DQuote>>]

Literals ==
  [u \in {"\\", "quote", "n", "\\u", "0041", "00e9", "20AC", "d83d", "DE00", "x", "lf"} |->
     CASE u = "\\" -> <<BSlash>> [] u = "quote" -> <<DQuote>> [] u = "n" -> <<110>>
       [] u = "\\u" -> <<BSlash, 117>> [] u = "0041" -> <<48, 48, 52, 49>>
       [] u = "00e9" -> <<48, 48, 101, 57>> [] u = "20AC" -> <<50, 48, 65, 67>>
       [] u = "d83d" -> <<100, 56, 51, 100>> [] u = "DE00" -> <<68, 69, 48, 48>>
       [] u = "x" -> <<120>> [] u = "lf" -> <<10>>]

ArrayOps == {"add low", "add high", "insert 0", "insert 1", "detach 0", "detach 1", "replace 0", "replace 1", "sort"}

JsonNext ==
  \/ Reads("json", DOMAIN Spelled, JsonMax)
  \/ Reads("literal", DOMAIN Literals, StringMax)
  \/ Reads("array", ArrayOps, ArrayMax)

JsonText(words) == FlattenSeq([i \in DOMAIN words |-> Spelled[words[i]]])
LiteralText(words) == <<DQuote>> \o FlattenSeq([i \in DOMAIN words |-> Literals[words[i]]]) \o <<DQuote>>

-----------------------------------------------------------------------------
(* Properties *)

(* What was read can be written, with and without line breaks, and reads as *)
(* the same tree again.  A buffer the caller brings is never overrun; what   *)
(* it holds when the call succeeds is the whole text; and a buffer five      *)
(* bytes longer than the text and its 0 is always enough (cJSON.h:162).      *)
Rooms(text) == 1..(Len(text) + 6)
WritesWhatItRead(item) ==
  \A format \in BOOLEAN :
    LET text == cJSON_Print(item, format)
    IN /\ text.ok /\ text.top <= text.length
       /\ \A bom \in {<<>>, BOM} :
            LET back == cJSON_ParseWithOpts(bom \o text.out, TRUE) IN back.ok /\ back.item = item
       /\ \A room \in Rooms(text.out) :
            LET p == cJSON_PrintPreallocated(item, room, format) IN
            /\ p.top <= room
            /\ p.ok => p.out = text.out
            /\ room >= Len(text.out) + 6 => p.ok

(* Minifying changes nothing but the look of a text, unless a string in it  *)
(* ends in a backslash: minify_string takes the end of the string for an    *)
(* escaped quote, and what follows for the inside of the string.            *)
MinifiesWhatItRead(words, item) ==
  LET minified == cJSON_ParseWithOpts(cJSON_Minify(JsonText(words)), TRUE) IN
  "q" \notin ToSet(words) => minified.ok /\ minified.item = item

(* A literal that is nothing but an escape spells the character its code    *)
(* names: the bytes, put together as UTF-8 says, give the code.             *)
CodeOf(bytes) ==
  LET first == CASE Len(bytes) = 1 -> Head(bytes) [] Len(bytes) = 2 -> Head(bytes) - 192
                 [] Len(bytes) = 3 -> Head(bytes) - 224 [] OTHER -> Head(bytes) - 240
  IN FoldLeft(LAMBDA n, b : 64 * n + b - 128, first, Tail(bytes))
EscapeNames(words, read) ==
  /\ \A u \in {<<"0041", 65>>, <<"00e9", 233>>, <<"20AC", 8364>>} :
       words = <<"\\u", u[1]>> => CodeOf(read.valuestring) = u[2]
  /\ words = <<"\\u", "d83d", "\\u", "DE00">> => CodeOf(read.valuestring) = 128512

(* Whatever was done to the children of an item, they can be walked in both *)
(* directions, and the first one's prev is the last.  Sorting children that *)
(* were not in order already leaves that prev behind.                       *)
Unused(refs) == Ids \ ToSet(refs)
Follow(s, op) ==
  LET Fresh1 == IF op = "add high" THEN Max(Unused(s.refs)) ELSE Min(Unused(s.refs))
      which == IF op \in {"insert 1", "detach 1", "replace 1"} THEN 1 ELSE 0
      there == which < Len(s.refs)
      room == Unused(s.refs) # {}
      Becomes1(m, refs, stale) == [m |-> m, refs |-> refs, stale |-> stale]
      sorted == SetToSortSeq(ToSet(s.refs), LAMBDA i, j : i < j)
  IN CASE s.stale -> s
       [] ~s.stale /\ op \in {"add low", "add high"} /\ room ->
            Becomes1(add_item_to_array(s.m, Fresh1), Append(s.refs, Fresh1), FALSE)
       [] ~s.stale /\ op \in {"insert 0", "insert 1"} /\ room ->
            Becomes1(cJSON_InsertItemInArray(s.m, which, Fresh1),
                     IF there THEN InsertAt(s.refs, which + 1, Fresh1) ELSE Append(s.refs, Fresh1), FALSE)
       [] ~s.stale /\ op \in {"detach 0", "detach 1"} /\ there ->
            Becomes1(cJSON_DetachItemViaPointer(s.m, get_array_item(s.m, which)), RemoveAt(s.refs, which + 1), FALSE)
       [] ~s.stale /\ op \in {"replace 0", "replace 1"} /\ there /\ room ->
            Becomes1(cJSON_ReplaceItemViaPointer(s.m, get_array_item(s.m, which), Fresh1),
                     ReplaceAt(s.refs, which + 1, Fresh1), FALSE)
       [] ~s.stale /\ op = "sort" -> Becomes1(sort_items(s.m), sorted, sorted # s.refs)
       [] OTHER -> s

ChildrenLinked(ops) ==
  LET s == FoldLeft(Follow, [m |-> NoChildren, refs |-> <<>>, stale |-> FALSE], ops)
  IN /\ Children(s.m) = s.refs
     /\ \A i \in 2..Len(s.refs) : s.m.prev[s.refs[i]] = s.refs[i - 1]
     /\ s.refs # <<>> /\ ~s.stale => s.m.prev[s.m.child] = Last(s.refs)

JsonKept(words) ==
  /\ part = "json" =>
       LET item == cJSON_ParseWithOpts(JsonText(words), TRUE) IN
       item.ok => WritesWhatItRead(item.item) /\ MinifiesWhatItRead(words, item.item)
  /\ part = "literal" =>
       LET item == cJSON_ParseWithOpts(LiteralText(words), TRUE) IN
       (item.ok => WritesWhatItRead(item.item)) /\ EscapeNames(words, item.item)
  /\ part = "array" => ChildrenLinked(words)

(* JSON text and trees keep what was put into them: what was read is        *)
(* written, with and without line breaks and into a buffer of any room, and *)
(* reads as the same tree, minified too (cJSON.c:446, :2850); an escape is  *)
(* the character it names (cJSON.c:659); and the children of an item stay   *)
(* one list in both directions through every addition, insertion,           *)
(* replacement, removal and sort (cJSON.c:2194).                            *)
JsonReadsBack == [][JsonKept(input')]_<<part, input>>
=============================================================================
