----------------------------- MODULE WstkChunks -----------------------------
(***************************************************************************)
(* What the library reads in pieces: multipart bodies (multipartparser.c,  *)
(* with the callbacks of wstk-servlet-upload.c) and the input of a digest   *)
(* (wstk-md5.c, wstk-sha1.c).                                              *)
(***************************************************************************)
EXTENDS WstkInput

CONSTANTS ChunkMax, DigestMax   \* how long the texts get

-----------------------------------------------------------------------------
(* Multipart.  Characters are "-", "cr", "lf", ":", and letters; "b" is the *)
(* letter of the boundary.  A parser x reads data at p; events are the      *)
(* callbacks.                                                              *)
(***************************************************************************)
boundary == <<"b", "b">>
FieldChars == {"-", "b", "d", "t", "f"}

multipartparser_init == [state |-> "preamble", index |-> 0]

Goes(x, state) == [x EXCEPT !.state = state, !.p = @ + 1]
Counts(x) == [x EXCEPT !.index = @ + 1, !.p = @ + 1]
Stays(x) == [x EXCEPT !.p = @ + 1]
Fails(x) == [x EXCEPT !.ok = FALSE]
Calls(x, name, text) == [x EXCEPT !.events = Append(@, <<name, text>>)]

(* goto reexecute *)
Back(x, text) == [Calls(x, "data", text) EXCEPT !.state = "data"]

(* up to the first character of S, or to the end of the data *)
Span(x, data, S) ==
  LET stops == {i \in x.p..Len(data) : data[i] \in S} IN
  IF stops = {} THEN Len(data) + 1 ELSE CHOOSE i \in stops : \A j \in stops : i <= j
Passes(x, name, data, end) ==
  LET y == [x EXCEPT !.p = end] IN
  IF end > x.p THEN Calls(y, name, SubSeq(data, x.p, end - 1)) ELSE y

FirstBoundary(x, c) ==
  IF x.index = Len(boundary) THEN IF c = "cr" THEN Counts(x) ELSE Fails(x)
  ELSE IF x.index = Len(boundary) + 1
       THEN IF c # "lf" THEN Fails(x)
            ELSE Goes([Calls(Calls(x, "body_begin", <<>>), "part_begin", <<>>) EXCEPT !.index = 0],
                      "header_field_start")
  ELSE IF c = boundary[x.index + 1] THEN Counts(x) ELSE Fails(x)

HeaderField(x, data) ==
  LET end == Span(x, data, {"cr", "lf", ":"})
      y == Passes([x EXCEPT !.state = "header_field"], "header_field", data, end)
  IN IF end > Len(data) THEN y
     ELSE IF data[end] = ":" THEN Goes(y, "header_value_start") ELSE Fails(y)

HeaderValue(x, data) ==
  LET end == Span(x, data, {"cr"})
      y == Passes([x EXCEPT !.state = "header_value"], "header_value", data, end)
  IN IF end > Len(data) THEN y ELSE Goes(y, "header_value_cr")

PartData(x, data) ==
  LET end == Span(x, data, {"cr"})
      y == Passes(x, "data", data, end)
  IN IF end > Len(data) THEN y ELSE Goes(y, "data_cr")

DataCrLfHyCut(x, c) ==
  IF c = "-" THEN Goes(x, "data_boundary_start") ELSE Back(x, <<"cr", "lf">>)

DataCrLfHy(x, c) ==
  IF c = "-" THEN Goes(x, "data_boundary_start") ELSE Back(x, <<"cr", "lf", "-">>)

DataBoundary(x, c) ==
  IF x.index = Len(boundary) THEN [x EXCEPT !.index = 0, !.state = "data_boundary_done"]
  ELSE IF c = boundary[x.index + 1] THEN Counts([x EXCEPT !.state = "data_boundary"])
  ELSE Back(x, SubSeq(boundary, 1, x.index))

(* one turn of the loop, or one way back in it *)
Turn(x, data) ==
  LET c == data[x.p]
      Needs(d, y) == IF c = d THEN y ELSE Fails(x)
  IN CASE x.state = "preamble" -> IF c = "-" THEN Goes(x, "preamble_hy_hy") ELSE Stays(x)
       [] x.state = "preamble_hy_hy" -> Goes(x, IF c = "-" THEN "first_boundary" ELSE "preamble")
       [] x.state = "first_boundary" -> FirstBoundary(x, c)
       [] x.state = "header_field_start" ->
            IF c = "cr" THEN Goes(x, "headers_done") ELSE HeaderField(x, data)
       [] x.state = "header_field" -> HeaderField(x, data)
       [] x.state \in {"header_value_start", "header_value"} -> HeaderValue(x, data)
       [] x.state = "header_value_cr" -> Needs("lf", Goes(x, "header_field_start"))
       [] x.state = "headers_done" -> Needs("lf", Goes(Calls(x, "headers_complete", <<>>), "data"))
       [] x.state = "data" -> PartData(x, data)
       [] x.state = "data_cr" -> IF c = "lf" THEN Goes(x, "data_cr_lf") ELSE Back(x, <<"cr">>)
       [] x.state = "data_cr_lf" ->
            IF c = "-" THEN Goes(x, "data_cr_lf_hy") ELSE Back(x, <<"cr", "lf">>)
       [] x.state = "data_cr_lf_hy" -> DataCrLfHy(x, c)
       [] x.state = "data_boundary_start" -> DataBoundary([x EXCEPT !.index = 0], c)
       [] x.state = "data_boundary" -> DataBoundary(x, c)
       [] x.state = "data_boundary_done" ->
            IF c = "cr" THEN Goes(x, "data_boundary_done_cr_lf")
            ELSE Needs("-", Goes(x, "data_boundary_done_hy_hy"))
       [] x.state = "data_boundary_done_cr_lf" ->
            Needs("lf", Goes(Calls(Calls(x, "part_end", <<>>), "part_begin", <<>>), "header_field_start"))
       [] x.state = "data_boundary_done_hy_hy" ->
            Needs("-", Goes(Calls(Calls(x, "part_end", <<>>), "body_end", <<>>), "epilogue"))
       [] x.state = "epilogue" -> Stays(x)

(* A turn that goes back is followed by one that does not: twice as many as *)
(* there are characters are enough.                                         *)
multipartparser_execute(parser, data) ==
  FoldLeft(LAMBDA x, i : IF x.ok /\ x.p <= Len(data) THEN Turn(x, data) ELSE x,
           [state |-> parser.state, index |-> parser.index, p |-> 1, ok |-> TRUE, events |-> <<>>],
           [i \in 1..(2 * Len(data)) |-> i])

(* The callbacks of the upload servlet.  "d" and "t" are the names          *)
(* Content-Disposition and Content-Type, "f" a value with name="file" and a *)
(* filename.                                                                *)
mp_decoder_on_header_name(u, name) ==
  [u EXCEPT !.cur_param = CASE name = <<"d">> -> 1 [] name = <<"t">> -> 2 [] OTHER -> @]

mp_decoder_on_header_value(u, value) ==
  CASE u.cur_param = 1 -> [u EXCEPT !.filename = @ \/ "f" \in ToSet(value)]
    [] u.cur_param = 2 -> [u EXCEPT !.cur_param = 10]
    [] OTHER -> u

mp_decoder_on_part_data(u, data) ==
  IF u.cur_param = 10 THEN [u EXCEPT !.body = @ \o data] ELSE u

Uploaded(body) ==
  FoldLeft(LAMBDA u, e : CASE e[1] = "header_field" -> mp_decoder_on_header_name(u, e[2])
                           [] e[1] = "header_value" -> mp_decoder_on_header_value(u, e[2])
                           [] e[1] = "data" -> mp_decoder_on_part_data(u, e[2])
                           [] OTHER -> u,
           [cur_param |-> 0, filename |-> FALSE, body |-> <<>>],
           multipartparser_execute(multipartparser_init, body).events)

-----------------------------------------------------------------------------
(* Digests.  Blocks of BLOCK octets for 64, the last LENGTH of which are    *)
(* the count of bits for 8; a word of this count has 6 bits for 32.  What   *)
(* the rounds compute from a block stands in blocks as the block itself.    *)
(***************************************************************************)
BLOCK == 4
LENGTH == 2
WORD == 64

DigestInit == [count |-> <<0, 0>>, buf |-> <<-1, -1, -1, -1>>, blocks |-> <<>>]
md5_process(m, block) == [m EXCEPT !.blocks = Append(@, block)]
SHA1_Transform(m, block) == [m EXCEPT !.blocks = Append(@, block)]

Offset(m) == (m.count[1] \div 8) % BLOCK
Copied(to, at, from) ==
  [i \in DOMAIN to |-> IF i > at /\ i <= at + Len(from) THEN from[i - at] ELSE to[i]]
BlocksOf(data) == [i \in 1..(Len(data) \div BLOCK) |-> SubSeq(data, BLOCK * (i - 1) + 1, BLOCK * i)]

(* n octets more.  The lower word is compared with nbits to see whether it  *)
(* went over.                                                               *)
Counted(m, n, nbits) ==
  LET low == (m.count[1] + 8 * n) % WORD
      carry == IF low < nbits THEN 1 ELSE 0
  IN [m EXCEPT !.count = <<low, (@[2] + (8 * n) \div WORD + carry) % WORD>>]

(* what was added to the lower word *)
md5_counted(m, n) == Counted(m, n, (8 * n) % WORD)

(* len << 3 is a size_t and is not cut to the word: what has 2^29 octets or *)
(* more is always taken to have gone over.                                  *)
SHA1_counted(m, n) == Counted(m, n, 8 * n)

md5_append(m, data) ==
  LET offset == Offset(m)
      room == BLOCK - offset
      copy == IF Len(data) > room THEN room ELSE Len(data)
      filled == Copied(m.buf, offset, SubSeq(data, 1, copy))
      first == IF offset = 0 THEN md5_counted(m, Len(data))
               ELSE md5_process([md5_counted(m, Len(data)) EXCEPT !.buf = filled], filled)
      rest == IF offset = 0 THEN data ELSE SubSeq(data, copy + 1, Len(data))
      whole == FoldLeft(md5_process, first, BlocksOf(rest))
  IN IF data = <<>> THEN m
     ELSE IF offset > 0 /\ copy < room THEN [md5_counted(m, Len(data)) EXCEPT !.buf = filled]
     ELSE [whole EXCEPT !.buf = Copied(@, 0, SubSeq(rest, BLOCK * (Len(rest) \div BLOCK) + 1, Len(rest)))]

(* 0x80 and zeros; the count of bits, the lower word first *)
Padding(n) == <<80>> \o [i \in 1..(n - 1) |-> 0]
LengthWord(w) == 100 + w

md5_finish(m) ==
  LET length == <<LengthWord(m.count[1]), LengthWord(m.count[2])>>
      pad == Padding(((BLOCK - LENGTH - 1 - (m.count[1] \div 8)) % BLOCK) + 1)
  IN md5_append(md5_append(m, pad), length).blocks

SHA1_Update(m, data) ==
  LET j == Offset(m)
      i == BLOCK - j
      filled == Copied(m.buf, j, SubSeq(data, 1, i))
      first == SHA1_Transform([SHA1_counted(m, Len(data)) EXCEPT !.buf = filled], filled)
      rest == SubSeq(data, i + 1, Len(data))
      whole == FoldLeft(SHA1_Transform, first, BlocksOf(rest))
  IN IF j + Len(data) < BLOCK THEN [SHA1_counted(m, Len(data)) EXCEPT !.buf = Copied(@, j, data)]
     ELSE [whole EXCEPT !.buf = Copied(@, 0, SubSeq(rest, BLOCK * (Len(rest) \div BLOCK) + 1, Len(rest)))]

SHA1_Final(m) ==
  LET finalcount == <<LengthWord(m.count[2]), LengthWord(m.count[1])>>
      marked == SHA1_Update(m, <<80>>)
      zeros == CHOOSE n \in 0..(BLOCK - 1) : (Offset(marked) + n) % BLOCK = BLOCK - LENGTH
      padded == FoldLeft(LAMBDA x, i : SHA1_Update(x, <<0>>), marked, [i \in 1..zeros |-> i])
  IN SHA1_Update(padded, finalcount).blocks

-----------------------------------------------------------------------------
MultipartNext == Reads("multipart", {"-", "b", "cr", "lf", ":"}, ChunkMax)
DigestNext == Reads("digest", {1, 2}, DigestMax)

Cuts == 0..Len(input)
Before(text, k) == SubSeq(text, 1, k)
After(text, k) == SubSeq(text, k + 1, Len(text))

FirstLineOfBody == <<"-", "-">> \o boundary \o <<"cr", "lf">>
FileHead == <<"d", ":", "f", "cr", "lf", "t", ":", "x", "cr", "lf", "cr", "lf">>

(* What comes before the text: nothing, the first boundary, the head of a   *)
(* file, the beginning of what may be a boundary.                           *)
Openings ==
  {<<>>, FirstLineOfBody, FirstLineOfBody \o FileHead,
   FirstLineOfBody \o FileHead \o <<"x", "cr", "lf", "-", "-", "b">>}

(* the callbacks, those of one kind in a row taken together *)
Joined(events) ==
  FoldLeft(LAMBDA s, e : IF e[2] = <<>> /\ e[1] = "data" THEN s
                         ELSE IF s # <<>> /\ Last(s)[1] = e[1] /\ e[2] # <<>>
                         THEN [s EXCEPT ![Len(s)][2] = @ \o e[2]] ELSE Append(s, e),
           <<>>, events)

AsParser(x) == [state |-> x.state, index |-> x.index]

Opened == {AsParser(multipartparser_execute(multipartparser_init, text)) : text \in Openings}

MultipartCutFree(parser, k) ==
  LET whole == multipartparser_execute(parser, input)
      first == multipartparser_execute(parser, Before(input, k))
      second == multipartparser_execute(AsParser(first), After(input, k))
  IN IF first.ok
     THEN /\ Joined(first.events \o second.events) = Joined(whole.events)
          /\ second.ok = whole.ok /\ k + second.p = whole.p
          /\ AsParser(second) = AsParser(whole)
     ELSE ~whole.ok /\ first.p = whole.p /\ first.events = whole.events

(* What is left of the content of a part: a line end with two hyphens that  *)
(* does not begin a boundary is dropped.                                    *)
Delimiter == <<"cr", "lf", "-", "-">>
Occurs(s, text, i) == i + Len(s) - 1 <= Len(text) /\ SubSeq(text, i, i + Len(s) - 1) = s
Kept(content) ==
  LET dropped == {i \in DOMAIN content : \E k \in 0..3 : i > k /\ Occurs(Delimiter, content, i - k)}
      kept == SetToSortSeq(DOMAIN content \ dropped, <)
  IN [i \in DOMAIN kept |-> content[kept[i]]]

(* The file is the content up to the first boundary, and is not there       *)
(* without one.                                                             *)
FileIsContent(content) ==
  LET body == FirstLineOfBody \o FileHead \o content \o Delimiter \o boundary \o <<"-", "-">>
      u == Uploaded(body)
  IN (\A i \in DOMAIN content : ~Occurs(Delimiter \o boundary, content, i)) =>
       u.filename /\ u.body = Kept(content)

DigestOf(text, low, high) ==
  BlocksOf(text \o Padding(1 + ((BLOCK - LENGTH - 1 - Len(text)) % BLOCK))
                \o <<LengthWord(low), LengthWord(high)>>)

(* 2^29 octets or more *)
IsLong(piece) == 8 * Len(piece) >= WORD

(* SHA-1 may count 2^32 bits too many for a long piece. *)
DigestCutFree(i, j) ==
  LET pieces == <<Before(input, i), SubSeq(input, i + 1, j), After(input, j)>>
      bits == 8 * Len(input)
  IN /\ md5_finish(FoldLeft(md5_append, DigestInit, pieces)) =
          DigestOf(input, bits % WORD, bits \div WORD)
     /\ \E extra \in {0, 1} :
          /\ extra = 1 => \E piece \in ToSet(pieces) : IsLong(piece)
          /\ SHA1_Final(FoldLeft(SHA1_Update, DigestInit, pieces)) =
               DigestOf(input, bits \div WORD + extra, bits % WORD)

(* What is read in pieces is read as a whole: wherever a multipart body is  *)
(* cut, between the characters of a line end or of a boundary, in a name or *)
(* in a value, the callbacks get the same texts in the same order           *)
(* (multipartparser.c:223), and a file is the content of its part but for   *)
(* line ends with two hyphens; wherever the input of a digest is cut, in or *)
(* at the end of a block, the same blocks and the same padding and length   *)
(* are hashed (wstk-md5.c:289), but that SHA-1 miscounts updates of 2^29    *)
(* octets or more (wstk-sha1.c:191).                                        *)
ChunksAgree ==
  /\ part = "multipart" =>
       /\ \A parser \in Opened, k \in Cuts : MultipartCutFree(parser, k)
       /\ FileIsContent(input)
  /\ part = "digest" => \A i, j \in Cuts : i <= j => DigestCutFree(i, j)
=============================================================================
