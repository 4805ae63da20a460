------------------------------ MODULE WstkText ------------------------------
(***************************************************************************)
(* Text: separating, searching, replacing and quoting (wstk-str.c),        *)
(* formatted output (wstk-fmt.c) and numbers read back (wstk-pl.c).        *)
(* Characters are strings of length one; NUL is behind a text's last.      *)
(***************************************************************************)
EXTENDS WstkInput

CONSTANTS WordsMax, FormatMax, SearchMax   \* how long the inputs get

NUL == "NUL"
CharAt(text, i) == IF i <= Len(text) THEN text[i] ELSE NUL
Occurrences(text, s) ==
  {i \in 1..(Len(text) - Len(s) + 1) : SubSeq(text, i, i + Len(s) - 1) = s}
Repeat(c, n) == [i \in 1..n |-> c]

-----------------------------------------------------------------------------
(* wstk_str_separate: s walks over the text; a piece begins at a start and  *)
(* ends before the delimiter at its cut.                                    *)
(***************************************************************************)
Quoting(text, i, inside) == inside \/ \E j \in (i + 1)..Len(text) : text[j] = "'"

StartPiece(s, next) == [s EXCEPT !.starts = Append(@, s.ptr), !.state = next]
CutPiece(s, next) == [s EXCEPT !.cuts = Append(@, s.ptr), !.state = next, !.ptr = @ + 1]
Toggle(s) == [s EXCEPT !.inside = ~@, !.ptr = @ + 1]
Pass(s, n) == [s EXCEPT !.ptr = @ + n]

CharDelim(text, delim, s) ==
  LET c == text[s.ptr] IN
  CASE s.state = "START" -> StartPiece(s, "FIND_DELIM")
    [] s.state = "FIND_DELIM" /\ c = "\\" -> Pass(s, 2)
    [] s.state = "FIND_DELIM" /\ c = "'" /\ Quoting(text, s.ptr, s.inside) -> Toggle(s)
    [] s.state = "FIND_DELIM" /\ c = delim /\ ~s.inside -> CutPiece(s, "START")
    [] OTHER -> Pass(s, 1)

BlankDelim(text, s) ==
  LET c == text[s.ptr] IN
  CASE s.state = "START" -> StartPiece(s, "SKIP_INITIAL_SPACE")
    [] s.state = "SKIP_INITIAL_SPACE" -> IF c = " " THEN Pass(s, 1) ELSE [s EXCEPT !.state = "FIND_DELIM"]
    [] s.state = "SKIP_ENDING_SPACE" -> IF c = " " THEN Pass(s, 1) ELSE [s EXCEPT !.state = "START"]
    [] s.state = "FIND_DELIM" /\ c = "\\" -> Pass(s, 2)
    [] s.state = "FIND_DELIM" /\ c = "'" -> Toggle(s)
    [] s.state = "FIND_DELIM" /\ c = " " /\ ~s.inside -> CutPiece(s, "SKIP_ENDING_SPACE")
    [] OTHER -> Pass(s, 1)

Walked(text, delim, arraylen) ==
  FoldLeft(LAMBDA s, i : IF s.ptr > Len(text) \/ Len(s.starts) = arraylen THEN s
                         ELSE IF delim = " " THEN BlankDelim(text, s) ELSE CharDelim(text, delim, s),
           [ptr |-> 1, state |-> "START", inside |-> FALSE, starts |-> <<>>, cuts |-> <<>>],
           Repeat(0, 3 * Len(text)))

Unescaped == [n |-> "nl", r |-> "cr", t |-> "tab", s |-> " "]
Escapes(c, delim) == c \in {"'", "\"", "\\", delim} \/ c \in DOMAIN Unescaped
unescape_char(c) == IF c \in DOMAIN Unescaped THEN Unescaped[c] ELSE c

CleanCharTrims(piece, delim, d, i) ==
  LET c == piece[i]
      next == CharAt(piece, i + 1)
      copied == Append(d.dest, c)
  IN IF d.skip THEN [d EXCEPT !.skip = FALSE]
     ELSE IF c = "\\" /\ Escapes(next, delim)
     THEN [d EXCEPT !.dest = Append(@, unescape_char(next)), !.end = Len(d.dest) + 1, !.skip = TRUE]
     ELSE IF c = "'" /\ Quoting(piece, i, d.inside)
     THEN [d EXCEPT !.inside = ~@, !.end = IF d.inside THEN @ ELSE Len(d.dest)]
     ELSE [d EXCEPT !.dest = copied, !.end = IF c # " " THEN Len(copied) ELSE @]

(* dest is what was copied, end how much of it is kept *)
CleanChar(piece, delim, d, i) ==
  LET c == piece[i]
      next == CharAt(piece, i + 1)
      copied == Append(d.dest, c)
  IN IF d.skip THEN [d EXCEPT !.skip = FALSE]
     ELSE IF c = "\\" /\ Escapes(next, delim)
     THEN [d EXCEPT !.dest = Append(@, unescape_char(next)), !.end = Len(d.dest) + 1, !.skip = TRUE]
     ELSE IF c = "'" /\ Quoting(piece, i, d.inside)
     THEN [d EXCEPT !.inside = ~@, !.end = IF d.inside THEN @ ELSE Len(d.dest)]
     ELSE [d EXCEPT !.dest = copied, !.end = IF c # " " \/ d.inside THEN Len(copied) ELSE @]

cleanup_separated_string(str, delim) ==
  LET solid == {i \in DOMAIN str : str[i] # " "}
      ptr == IF solid = {} THEN <<>>
             ELSE SubSeq(str, CHOOSE i \in solid : \A j \in solid : i <= j, Len(str))
      d == FoldLeft(LAMBDA x, i : CleanChar(ptr, delim, x, i),
                    [dest |-> <<>>, end |-> 0, inside |-> FALSE, skip |-> FALSE],
                    [i \in DOMAIN ptr |-> i])
  IN SubSeq(d.dest, 1, d.end)

wstk_str_separate(text, delim, arraylen) ==
  LET s == Walked(text, delim, arraylen) IN
  [k \in DOMAIN s.starts |->
     cleanup_separated_string(
       SubSeq(text, s.starts[k], IF k <= Len(s.cuts) THEN s.cuts[k] - 1 ELSE Len(text)),
       IF delim = " " THEN NUL ELSE delim)]

-----------------------------------------------------------------------------
(* Searching, replacing, quoting, hexadecimal digits                       *)
(***************************************************************************)
(* position 0 stands for NULL; on a misfit the character is not looked at   *)
(* again                                                                    *)
wstk_strnstr(buf, str) ==
  LET r == FoldLeft(LAMBDA x, c : IF x.j = Len(str) THEN x
                                  ELSE [i |-> x.i + 1, j |-> IF c = str[x.j + 1] THEN x.j + 1 ELSE 0],
                    [i |-> 0, j |-> 0], buf)
  IN IF r.j = Len(str) THEN r.i - Len(str) + 1 ELSE 0

wstk_pl_strstr(pl, str) ==
  LET at == Occurrences(pl, str) IN IF at = {} THEN 0 ELSE CHOOSE i \in at : \A j \in at : i <= j

wstk_str_match(str, search) == Len(search) <= Len(str) /\ SubSeq(str, 1, Len(search)) = search

(* skip: how many characters belong to the match before *)
wstk_str_replace(str, search, replace) ==
  FoldLeft(LAMBDA r, i : IF r.skip > 0 THEN [r EXCEPT !.skip = @ - 1]
                         ELSE IF wstk_str_match(SubSeq(str, i, Len(str)), search)
                         THEN [skip |-> Len(search) - 1, out |-> r.out \o replace]
                         ELSE [r EXCEPT !.out = Append(@, str[i])],
           [skip |-> 0, out |-> <<>>], [i \in DOMAIN str |-> i]).out

wstk_str_quote_shell_arg(str) ==
  <<"'">> \o FlattenSeq([i \in DOMAIN str |-> IF str[i] = "'" THEN <<"'", "\\", "'", "'">> ELSE <<str[i]>>])
  \o <<"'">>

HexDigits == <<"0", "1", "2", "3", "4", "5", "6", "7", "8", "9", "a", "b", "c", "d", "e", "f">>
HexValue(c) == IF \E v \in 0..15 : HexDigits[v + 1] = c THEN (CHOOSE v \in 0..15 : HexDigits[v + 1] = c) ELSE 0

wstk_str_bin2hex(octets) ==
  FlattenSeq([i \in DOMAIN octets |-> <<HexDigits[(octets[i] \div 16) + 1], HexDigits[(octets[i] % 16) + 1]>>])

(* twice as many octets as there are: those beyond the text come from what  *)
(* lies behind it                                                           *)
wstk_str_hex2bin(src) ==
  [i \in 1..Len(src) |-> 16 * HexValue(CharAt(src, 2 * i - 1)) + HexValue(CharAt(src, 2 * i))]

wstk_pl_hex(pl, len) ==
  [i \in 1..len |-> 16 * HexValue(pl[2 * i - 1]) + HexValue(pl[2 * i])]

-----------------------------------------------------------------------------
(* Numbers.  A word of 5 bits stands for one of 32.                         *)
(***************************************************************************)
WORD32 == 32
INT32_MIN == -16
Signed(v) == IF v % WORD32 >= 16 THEN (v % WORD32) - WORD32 ELSE v % WORD32

local_itoa(n, base) ==
  LET k == CHOOSE x \in 1..12 : base^x > n /\ \A y \in 1..(x - 1) : base^y <= n IN
  [i \in 1..k |-> HexDigits[((n \div base^(k - i)) % base) + 1]]

(* the value of the digits from the last on; what multiplies them wraps     *)
FromLast(text, base, sign) ==
  FoldRight(LAMBDA c, x : [v |-> (x.v + sign * x.mul * HexValue(c)) % WORD32, mul |-> (x.mul * base) % WORD32],
            text, [v |-> 0, mul |-> 1]).v

AllDigits(text, base) == ToSet(text) \subseteq {HexDigits[i] : i \in 1..base}

wstk_pl_u32(pl) == IF AllDigits(pl, 10) THEN FromLast(pl, 10, 1) ELSE 0
wstk_pl_x32(pl) == IF AllDigits(pl, 16) THEN FromLast(pl, 16, 1) ELSE 0

wstk_pl_i32(pl) ==
  LET signed == pl # <<>> /\ pl[1] \in {"-", "+"}
      digits == IF signed THEN Tail(pl) ELSE pl
      v == Signed(FromLast(digits, 10, -1))
      neg == signed /\ pl[1] = "-"
  IN IF ~AllDigits(digits, 10) THEN 0
     ELSE IF neg \/ v = INT32_MIN THEN v ELSE -v

-----------------------------------------------------------------------------
(* wstk_vhprintf: f reads the format; calls are those of the print handler, *)
(* one text each, in groups that are made whether or not one of them fails; *)
(* p0 is where the text not yet printed begins.                             *)
(***************************************************************************)
write_padded(p, pad, pch, plr, prfx) ==
  LET room == IF pad > Len(prfx) THEN pad - Len(prfx) ELSE 0
      padding == Repeat(<<pch>>, IF room > Len(p) THEN room - Len(p) ELSE 0)
      prefix == IF prfx = <<>> THEN <<>> ELSE <<prfx>>
      text == IF p = <<>> THEN <<>> ELSE <<p>>
  IN (IF pch = "0" THEN prefix ELSE <<>>) \o (IF plr THEN <<>> ELSE padding)
     \o (IF pch # "0" THEN prefix ELSE <<>>) \o text \o (IF plr THEN padding ELSE <<>>)

Directive == [fm |-> TRUE, pch |-> " ", plr |-> FALSE, pad |-> 0, uc |-> FALSE]
Literal(format, f, end) ==
  IF end > f.p0 THEN Append(f.calls, <<SubSeq(format, f.p0, end - 1)>>) ELSE f.calls
Prints(f, i, calls) == [f EXCEPT !.d.fm = FALSE, !.p0 = i + 1, !.calls = Append(@, calls), !.args = Tail(@)]
Writes(f, i, c) == [f EXCEPT !.d.fm = FALSE, !.p0 = i + 1, !.calls = Append(@, <<<<c>>>>)]

(* the character before pads numbers unless they are to the left *)
NumberPad(d) == IF d.plr THEN " " ELSE d.pch
Absolute(n) == IF n < 0 THEN -n ELSE n

FormatChar(format, f, i) ==
  LET c == format[i]
      d == f.d
      arg == f.args[1]
  IN CASE ~d.fm /\ c # "%" -> f
       [] ~d.fm /\ c = "%" -> [f EXCEPT !.calls = Literal(format, f, i), !.d = Directive]
       [] d.fm /\ c = "-" -> [f EXCEPT !.d.plr = TRUE]
       [] d.fm /\ c \in {"l", "z"} -> f
       [] d.fm /\ c = "%" -> Writes(f, i, "%")
       [] d.fm /\ c = "d" ->
            Prints(f, i, write_padded(local_itoa(Absolute(arg), 10), d.pad, NumberPad(d), d.plr,
                                      IF arg < 0 THEN <<"-">> ELSE <<>>))
       [] d.fm /\ c \in {"u", "x"} ->
            Prints(f, i, write_padded(local_itoa(arg, IF c = "x" THEN 16 ELSE 10), d.pad, NumberPad(d), d.plr, <<>>))
       [] d.fm /\ c = "s" -> Prints(f, i, write_padded(arg, d.pad, " ", d.plr, <<>>))
       [] d.fm /\ c = "0" /\ d.pad = 0 -> [f EXCEPT !.d.pch = "0"]
       [] d.fm /\ AllDigits(<<c>>, 10) /\ ~(c = "0" /\ d.pad = 0) ->
            [f EXCEPT !.d.pad = 10 * @ + HexValue(c)]
       [] OTHER -> Writes(f, i, "?")

wstk_vhprintf(format, args) ==
  LET f == FoldLeft(LAMBDA x, i : FormatChar(format, x, i),
                    [d |-> [Directive EXCEPT !.fm = FALSE], p0 |-> 1, calls |-> <<>>, args |-> args],
                    [i \in DOMAIN format |-> i])
  IN IF f.d.fm THEN f.calls ELSE Literal(format, f, Len(format) + 1)

(* The handler of a buffer that grows: l is the room left, of size; 4 for   *)
(* the first 16.                                                            *)
print_handler_dyn(dp, text) ==
  LET n == Len(text)
      grown == IF n > dp.l - 1 THEN IF dp.size + n > 2 * dp.size THEN dp.size + n ELSE 2 * dp.size
               ELSE dp.size
  IN [str |-> dp.str \o text, size |-> grown, l |-> dp.l + grown - dp.size - n]

wstk_vsdprintf(format, args) ==
  FoldLeft(print_handler_dyn, [str |-> <<>>, size |-> 4, l |-> 4], FlattenSeq(wstk_vhprintf(format, args)))

(* The handler of a buffer of fixed size: no group follows one in which a   *)
(* text had no room, but the rest of that group does.                       *)
print_handler(s, text) ==
  IF Len(text) > s.l THEN [s EXCEPT !.ok = FALSE] ELSE [s EXCEPT !.str = @ \o text, !.l = @ - Len(text)]

wstk_vsnprintf(size, format, args) ==
  LET s == FoldLeft(LAMBDA x, texts : IF x.ok THEN FoldLeft(print_handler, x, texts) ELSE x,
                    [ok |-> TRUE, str |-> <<>>, l |-> size - 1], wstk_vhprintf(format, args))
  IN [str |-> s.str, n |-> IF s.ok THEN Len(s.str) ELSE -1]

-----------------------------------------------------------------------------
WordsNext == Reads("words", {"s", " ", "'", "\\", ","}, WordsMax)
SearchNext == Reads("search", {"a", "b", "'"}, SearchMax)
HexNext == Reads("hex", {0, 10, 171, 255}, SearchMax - 1)
NumberNext == part = "number" /\ (\E n \in -16..31 : input' = <<n>>) /\ UNCHANGED part

(* pieces of a format, each with what it is given and what it prints        *)
Item(spelled, args, printed) == [spelled |-> spelled, args |-> args, printed |-> printed]
Formats ==
  [ letter |-> Item(<<"a">>, <<>>, <<"a">>), digit |-> Item(<<"7">>, <<>>, <<"7">>),
    percent |-> Item(<<"%", "%">>, <<>>, <<"%">>), unknown |-> Item(<<"%", "q">>, <<>>, <<"?">>),
    int |-> Item(<<"%", "d">>, << -7 >>, <<"-", "7">>),
    padded |-> Item(<<"%", "4", "d">>, << -7 >>, <<" ", " ", "-", "7">>),
    left |-> Item(<<"%", "-", "4", "d">>, << -7 >>, <<"-", "7", " ", " ">>),
    zeros |-> Item(<<"%", "0", "4", "d">>, << -7 >>, <<"-", "0", "0", "7">>),
    wide |-> Item(<<"%", "1", "0", "l", "u">>, <<20>>, Repeat(" ", 8) \o <<"2", "0">>),
    hex |-> Item(<<"%", "x">>, <<26>>, <<"1", "a">>),
    nothing |-> Item(<<"%", "0", "3", "x">>, <<0>>, <<"0", "0", "0">>),
    text |-> Item(<<"%", "s">>, << <<"a", "%", "d">> >>, <<"a", "%", "d">>),
    empty |-> Item(<<"%", "s">>, << <<>> >>, <<>>),
    short |-> Item(<<"%", "-", "4", "s">>, << <<"a", "b">> >>, <<"a", "b", " ", " ">>) ]
FormatNext == Reads("format", DOMAIN Formats, FormatMax)

(* A word as it is written so that it survives: with escapes, or in quotes. *)
Escaped(word, delim) ==
  FlattenSeq([i \in DOMAIN word |->
    CASE word[i] \in {"'", "\\"} -> <<"\\", word[i]>>
      [] word[i] = " " -> <<"\\", "s">>
      [] word[i] = delim -> <<"\\", delim>>
      [] OTHER -> <<word[i]>>])
Enquoted(word) ==
  <<"'">> \o FlattenSeq([i \in DOMAIN word |-> IF word[i] \in {"'", "\\"} THEN <<"\\", word[i]>> ELSE <<word[i]>>])
  \o <<"'">>
Spellings(word, delim) == {Enquoted(word)} \cup (IF word = <<>> THEN {} ELSE {Escaped(word, delim)})

(* A backslash as the last character of the text is outside quotes the one  *)
(* thing that takes the walk past its end (wstk-str.c:116, :155).           *)
EndsInside(text) == text # <<>> /\ Last(text) = "\\"

WordsSurvive ==
  \A delim \in {",", " "}, k \in 0..Len(input) :
    LET one == SubSeq(input, 1, k)
        two == SubSeq(input, k + 1, Len(input))
    IN /\ \A a \in Spellings(one, delim), b \in Spellings(two, delim) :
            \A arraylen \in {2, 3} :
              wstk_str_separate(a \o <<delim>> \o b, delim, arraylen) = <<one, two>>
       /\ ~EndsInside(input) => Walked(input, delim, 3).ptr <= Len(input) + 1

(* what a shell makes of an argument: quotes, and escapes outside them *)
ShellReads(arg) ==
  FoldLeft(LAMBDA s, c : IF s.escaped THEN [s EXCEPT !.escaped = FALSE, !.out = Append(@, c)]
                         ELSE IF c = "'" THEN [s EXCEPT !.inside = ~@]
                         ELSE IF c = "\\" /\ ~s.inside THEN [s EXCEPT !.escaped = TRUE]
                         ELSE [s EXCEPT !.out = Append(@, c)],
           [inside |-> FALSE, escaped |-> FALSE, out |-> <<>>], arg)

(* strnstr misses what begins within something that only began like it *)
Searched(s) ==
  LET i == wstk_strnstr(input, s)
      at == Occurrences(input, s)
  IN /\ i # 0 => i \in at
     /\ (\E j \in at : \A k \in 1..(j - 1) : input[k] # s[1]) => i # 0
     /\ wstk_pl_strstr(input, s) = 0 <=> at = {}
     /\ LET replaced == wstk_str_replace(input, s, <<"#">>) IN
        wstk_str_replace(replaced, <<"#">>, s) = input /\ Occurrences(replaced, s) = {}

SearchSound ==
  /\ \A s \in {<<"a">>, <<"a", "b">>, <<"a", "a">>, <<"a", "a", "b">>} : Searched(s)
  /\ LET shell == ShellReads(wstk_str_quote_shell_arg(input)) IN
     shell.out = input /\ ~shell.inside /\ ~shell.escaped

HexInverts ==
  LET hex == wstk_str_bin2hex(input) IN
  /\ wstk_pl_hex(hex, Len(input)) = input
  /\ SubSeq(wstk_str_hex2bin(hex), 1, Len(input)) = input

NumberInverts(n) ==
  \A pad \in 0..6 :
    LET Text(conversion) ==
          wstk_vsdprintf(<<"%", "0", HexDigits[pad + 1], conversion>>, <<n>>).str
    IN /\ n <= 15 => wstk_pl_i32(Text("d")) = n
       /\ n \in 0..15 => wstk_pl_i32(<<"+">> \o Text("d")) = n
       /\ n >= 0 => wstk_pl_u32(Text("u")) = n /\ wstk_pl_x32(Text("x")) = n

FormatsPrinted ==
  LET format == FlattenSeq([i \in DOMAIN input |-> Formats[input[i]].spelled])
      args == FlattenSeq([i \in DOMAIN input |-> Formats[input[i]].args])
      printed == FlattenSeq([i \in DOMAIN input |-> Formats[input[i]].printed])
      dyn == wstk_vsdprintf(format, args)
      fixed == wstk_vsnprintf(6, format, args)
  IN /\ dyn.str = printed /\ dyn.l >= 1 /\ dyn.size = dyn.l + Len(dyn.str)
     /\ IF Len(printed) <= 5 THEN fixed.n = Len(printed) /\ fixed.str = printed
        ELSE /\ fixed.n = -1 /\ Len(fixed.str) <= 5
             /\ \E k \in 0..Len(fixed.str) :
                  fixed.str = SubSeq(printed, 1, k) \o Repeat(" ", Len(fixed.str) - k)

(* Text survives what is done to it: words written with escapes or quotes   *)
(* come back from being separated, with every blank and delimiter they had, *)
(* and the walk stays within the text (wstk-str.c:83); what is replaced can *)
(* be put back, an argument quoted for a shell is read as it was, numbers   *)
(* print and read back at both ends of their range, and formats print each  *)
(* literal and argument once, into a buffer that grows to hold them and     *)
(* into one that does not, never beyond it and up to the first text without *)
(* room, behind which only padding may follow (wstk-fmt.c:55, :463).        *)
TextSurvives ==
  /\ part = "words" => WordsSurvive
  /\ part = "search" => SearchSound
  /\ part = "hex" => HexInverts
  /\ part = "number" /\ input # <<>> => NumberInverts(input[1])
  /\ part = "format" => FormatsPrinted
=============================================================================
