----------------------------- MODULE WstkHttpMsg -----------------------------
(***************************************************************************)
(* wstk_http_msg_decode (wstk-http-msg.c): the request line by two regular *)
(* expressions, the header fields by an automaton that reads one character *)
(* after the other.  Characters are "x" (a letter), ":", "sp", "cr", "lf", *)
(* and in the request line also "?", "9" and "H", which stands for HTTP/.  *)
(* The comma of a list (comsep is never set) and quotes change nothing.    *)
(***************************************************************************)
EXTENDS WstkInput, WstkRegex

CONSTANTS HeadMax, LineMax   \* how long the texts get

Blank == {"sp", "cr", "lf"}

-----------------------------------------------------------------------------
(* The request line                                                        *)
(***************************************************************************)
LineAlphabet == {"x", "sp", "?", "H", "9", "cr", "lf"}
Not(S) == LineAlphabet \ S

FirstLine(text) ==
  wstk_regex(text, <<Class({"cr", "lf"}, 0, Many(text)), Class(Not({"cr", "lf"}), 1, Many(text)),
                     Class({"cr"}, 0, Many(text)), Class({"lf"}, 1, 1)>>)

RequestLine(line) ==
  wstk_regex(line, <<Class({"x"}, 1, Many(line)), Char("sp"), Class(Not({"?", "sp"}), 1, Many(line)),
                     Class(Not({"sp"}), 0, Many(line)), Char("sp"), Char("H"),
                     Class({"9"}, 1, Many(line))>>)

Request(method, path, params) ==
  [status |-> "SUCCESS", method |-> method, path |-> path, params |-> params]
Refused(status) == [status |-> status, method |-> <<>>, path |-> <<>>, params |-> <<>>]

DecodeRequest(text) ==
  LET first == FirstLine(text)
      line == Part(text, first.found[2])
      r == RequestLine(line)
      params == Part(line, r.found[3])
  IN IF first.status # "SUCCESS" THEN Refused("NODATA")
     ELSE IF r.status # "SUCCESS" \/ r.found[1][1] # 1 THEN Refused("BAD_REQUEST")
     ELSE Request(Part(line, r.found[1]), Part(line, r.found[2]),
                  IF Len(params) > 1 /\ params[1] = "?" THEN Tail(params) ELSE params)

(* What a request line is: method, target and version between single       *)
(* blanks, the target with a path and parameters behind the first "?".     *)
IsWord(w, S) == w # <<>> /\ ToSet(w) \subseteq S

Breaks(text, i) == {0} \cup {k \in 1..i : text[k] \in {"cr", "lf"}}

LineBefore(text, i) ==
  LET last == CHOOSE k \in 1..i \ Breaks(text, i) : (k + 1)..i \subseteq Breaks(text, i) IN
  SubSeq(text, 1 + (CHOOSE k \in Breaks(text, last) : \A j \in Breaks(text, last) : j <= k), last)

LineEnds(text) ==
  {i \in 1..Len(text) : /\ text[i] = "lf"
                        /\ \E k \in 1..(i - 1) :
                             /\ text[k] \notin {"cr", "lf"}
                             /\ \A j \in (k + 1)..(i - 1) : text[j] = "cr"}

Readings(line) ==
  {Request(SubSeq(line, 1, b - 1), SubSeq(line, b + 1, q - 1), SubSeq(line, q, e - 1)) :
     <<b, q, e>> \in {t \in (1..Len(line)) \X (1..Len(line)) \X (1..Len(line)) :
        /\ t[1] + 1 < t[2] /\ t[2] <= t[3] /\ t[3] + 2 <= Len(line)
        /\ IsWord(SubSeq(line, 1, t[1] - 1), {"x"})
        /\ IsWord(SubSeq(line, t[1] + 1, t[2] - 1), Not({"?", "sp"}))
        /\ t[2] = t[3] \/ line[t[2]] = "?"
        /\ \A i \in t[2]..(t[3] - 1) : line[i] # "sp"
        /\ line[t[1]] = "sp" /\ line[t[3]] = "sp" /\ line[t[3] + 1] = "H" /\ line[t[3] + 2] = "9"}}

Unmarked(request) ==
  [request EXCEPT !.params = IF Len(@) > 1 THEN Tail(@) ELSE @]

-----------------------------------------------------------------------------
(* The header fields                                                       *)
(***************************************************************************)
HeadAlphabet == {"x", ":", "sp", "cr", "lf"}

(* name and cv are positions, 0 for none; nl is the name's length; read is *)
(* how much was consumed                                                   *)
AtStart ==
  [status |-> "NODATA", read |-> 0, name |-> 0, nl |-> 0, cv |-> 0, ws |-> 0, lf |-> 0,
   fields |-> <<>>]

(* hdr_put, which refuses an empty value *)
hdr_put(fields, name, value) ==
  IF value = <<>> THEN fields ELSE Append(fields, <<name, value>>)

(* a field ends before p *)
EndField(text, h, p) ==
  IF h.nl = 0 THEN [h EXCEPT !.status = "BAD_REQUEST"]
  ELSE [h EXCEPT !.fields =
         hdr_put(@, SubSeq(text, h.name, h.name + h.nl - 1),
                 IF h.cv = 0 THEN <<>> ELSE SubSeq(text, h.cv, p - h.ws - 1)),
         !.name = 0, !.nl = 0, !.cv = 0, !.lf = 0]

SpaceEndsLine(h) == [h EXCEPT !.ws = @ + 1]

Space(h) == [h EXCEPT !.lf = 0, !.ws = @ + 1]

LineFeed(text, h, p) ==
  IF h.name = 0 THEN [h EXCEPT !.status = "SUCCESS", !.read = p]
  ELSE IF h.lf = 0 THEN [h EXCEPT !.ws = @ + 1, !.lf = 1]
  ELSE LET end == EndField(text, [h EXCEPT !.ws = @ + 1], p + 1) IN
       IF end.status = "BAD_REQUEST" THEN end ELSE [end EXCEPT !.status = "SUCCESS", !.read = p]

(* a character of a name or of a value, after the end of the field before *)
Visible(text, h, p) ==
  LET named == IF h.name = 0 THEN [h EXCEPT !.name = p, !.ws = 0] ELSE h
      nl == p - named.name - named.ws
  IN IF h.nl > 0 THEN [h EXCEPT !.cv = IF @ = 0 THEN p ELSE @, !.ws = 0]
     ELSE IF text[p] # ":" THEN [named EXCEPT !.ws = 0]
     ELSE IF nl <= 0 THEN [named EXCEPT !.status = "BAD_REQUEST"]
     ELSE [named EXCEPT !.nl = nl]

Step(text, h, p) ==
  LET c == text[p]
      ended == IF h.lf > 0 THEN EndField(text, h, p) ELSE h
  IN CASE c = "sp" -> Space(h)
       [] c = "cr" -> [h EXCEPT !.ws = @ + 1]
       [] c = "lf" -> LineFeed(text, h, p)
       [] OTHER -> IF ended.status = "BAD_REQUEST" THEN ended ELSE Visible(text, ended, p)

wstk_http_msg_decode(text) ==
  FoldLeft(LAMBDA h, p : IF h.status = "NODATA" THEN Step(text, h, p) ELSE h,
           AtStart, [p \in 1..Len(text) |-> p])

(* What the header fields are: lines, a line that begins with a blank       *)
(* continuing the one before, up to the first empty line; each has a name,  *)
(* a colon and a value, without the blanks around them.                     *)
Trimmed(s) ==
  LET solid == {i \in DOMAIN s : s[i] \notin Blank} IN
  IF solid = {} THEN <<>>
  ELSE SubSeq(s, CHOOSE i \in solid : \A j \in solid : i <= j, CHOOSE i \in solid : \A j \in solid : j <= i)

OnlyBetween(text, a, b, S) == \A i \in (a + 1)..(b - 1) : text[i] \in S

EndsOfHead(text) ==
  {i \in DOMAIN text : /\ text[i] = "lf"
                       /\ \/ OnlyBetween(text, 0, i, {"sp", "cr"})
                          \/ \E k \in 1..(i - 1) : text[k] = "lf" /\ OnlyBetween(text, k, i, {"cr"})}

NextLines(text) ==
  {i \in DOMAIN text : /\ text[i] \notin Blank
                       /\ \E k \in 1..(i - 1) : text[k] = "lf" /\ OnlyBetween(text, k, i, {"cr"})}

(* the whole fields of a head without its end, and the piece that follows *)
Pieces(text) ==
  LET at == SetToSortSeq({1} \cup NextLines(text) \cup {Len(text) + 1}, <) IN
  [k \in 1..(Len(at) - 1) |-> Trimmed(SubSeq(text, at[k], at[k + 1] - 1))]

IsField(piece) == \E i \in 2..Len(piece) : piece[i] = ":" /\ \A j \in 1..(i - 1) : piece[j] # ":"

FieldOf(piece) ==
  LET i == CHOOSE k \in DOMAIN piece : piece[k] = ":" /\ \A j \in 1..(k - 1) : piece[j] # ":" IN
  <<Trimmed(SubSeq(piece, 1, i - 1)), Trimmed(SubSeq(piece, i + 1, Len(piece)))>>

Valued(pieces) ==
  SelectSeq([k \in DOMAIN pieces |-> FieldOf(pieces[k])], LAMBDA f : f[2] # <<>>)

-----------------------------------------------------------------------------
RequestNext == Reads("request", LineAlphabet, LineMax)
HeadNext == Reads("head", HeadAlphabet, HeadMax)

(* what comes behind the text: nothing yet, the rest of a request line; the *)
(* end of the head, another field and its end                              *)
LineRests == {<<>>, <<"sp", "H", "9", "lf">>}
HeadRests == {<<>>, <<"lf", "lf">>, <<"lf", "x", "x", ":", "sp", "x", "cr", "lf", "cr", "lf">>}

RequestAsLine(text) ==
  LET ends == LineEnds(text)
      line == LineBefore(text, CHOOSE i \in ends : \A j \in ends : i <= j)
      r == DecodeRequest(text)
  IN IF ends = {} THEN r = Refused("NODATA")
     ELSE IF Readings(line) = {} THEN r = Refused("BAD_REQUEST")
     ELSE r \in {Unmarked(q) : q \in Readings(line)}

FieldsAsLines(text) ==
  LET ends == EndsOfHead(text)
      end == CHOOSE i \in ends : \A j \in ends : i <= j
      uptoend == IF ends = {} THEN text ELSE SubSeq(text, 1, end)
      pieces == IF Trimmed(uptoend) = <<>> THEN <<>> ELSE Pieces(uptoend)
      whole == IF ends = {} /\ pieces # <<>> THEN Front(pieces) ELSE pieces
      h == wstk_http_msg_decode(text)
  IN IF h.status = "BAD_REQUEST" THEN \E k \in DOMAIN pieces : ~IsField(pieces[k])
     ELSE /\ \A k \in DOMAIN whole : IsField(whole[k])
          /\ h.fields = Valued(whole)
          /\ IF ends = {} THEN h.status = "NODATA" ELSE h.status = "SUCCESS" /\ h.read = end

(* A request is read as it was written: whatever blanks, line ends, folded  *)
(* lines, colons and empty values it has, the automaton without lookahead   *)
(* gives exactly the fields of its lines, stops behind its first empty line *)
(* and refuses only what has no name or no colon (wstk-http-msg.c:176).     *)
HeadIsRead ==
  /\ part = "request" => \A rest \in LineRests : RequestAsLine(input \o rest)
  /\ part = "head" => \A rest \in HeadRests : FieldsAsLines(input \o rest)
=============================================================================
