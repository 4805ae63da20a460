----------------------------- MODULE WstkCodecs -----------------------------
(***************************************************************************)
(* What the library encodes and decodes again: websocket frames             *)
(* (wstk-websock.c), base64 (wstk-base64.c), escaped text (wstk-escape.c)   *)
(* and URIs (wstk-uri.c).                                                   *)
(***************************************************************************)
EXTENDS WstkInput, WstkRegex

CONSTANTS CodecMax   \* how long the texts get

-----------------------------------------------------------------------------
(* Websocket frames.  An octet is what is written into it: the header's     *)
(* bits, a digit of a length, or, in a key and in a payload, the set of     *)
(* what was combined by exclusive or.  Lengths are scaled down: a digit is  *)
(* 0 or 1, so that 1 and 3 stand for 125 and 0xffff.                        *)
(***************************************************************************)
Direct == 1   \* the longest payload whose length fits into the second octet
Short == 3    \* the longest with two octets for its length
Len16 == 2    \* in the second octet, for 126 and 127
Len64 == 3

Digits(len, n) == [i \in 1..n |-> (len \div 2^(n - i)) % 2]
Number(digits) == FoldLeft(LAMBDA v, d : 2 * v + d, 0, digits)

Second(mask, len) == [mask |-> mask, len |-> len]
Xor(x, y) == (x \ y) \cup (y \ x)
MaskKey == [i \in 1..4 |-> {<<"key", i>>}]

LengthField(mask, len) ==
  IF len > Short THEN <<Second(mask, Len64)>> \o Digits(len, 8)
  ELSE IF len > Direct THEN <<Second(mask, Len16)>> \o Digits(len, 2)
  ELSE <<Second(mask, len)>>

(* written over the memory behind pos; the payload behind it is masked      *)
wstk_websock_encode(memory, pos, opcode, mask, len) ==
  LET header == <<opcode>> \o LengthField(mask, len) \o IF mask THEN MaskKey ELSE <<>>
      at == pos + Len(header)
  IN [i \in DOMAIN memory |->
        IF i > pos /\ i <= at THEN header[i - pos]
        ELSE IF mask /\ i > at /\ i <= at + len THEN Xor(memory[i], MaskKey[((i - at - 1) % 4) + 1])
        ELSE memory[i]]

(* room for the longest header, the payload, then the header so that it     *)
(* ends where the payload begins                                            *)
wstk_websock_vsend(opcode, server, payload) ==
  LET hsz == IF server THEN 10 ELSE 14
      len == Len(payload)
      start == IF len > Short THEN 0 ELSE IF len > Direct THEN 6 ELSE 8
      memory == [i \in 1..hsz |-> {}] \o payload
  IN SubSeq(wstk_websock_encode(memory, start, opcode, ~server, len), start + 1, hsz + len)

Arrived(status, payload) == [status |-> status, payload |-> payload]

UnmaskedFromZero(octets, len) ==
  [i \in 1..len |-> Xor(octets[4 + i], octets[(i % 4) + 1])]

(* the payload behind its key *)
Unmasked(octets, len) ==
  [i \in 1..len |-> Xor(octets[4 + i], octets[((i - 1) % 4) + 1])]

wstk_websock_decode(octets) ==
  LET second == octets[2]
      width == CASE second.len = Len16 -> 2 [] second.len = Len64 -> 8 [] OTHER -> 0
      len == IF width = 0 THEN second.len ELSE Number(SubSeq(octets, 3, 2 + width))
      rest == SubSeq(octets, 3 + width, Len(octets))
  IN IF \/ Len(octets) < 2 \/ Len(octets) < 2 + width
        \/ Len(rest) < len + (IF second.mask THEN 4 ELSE 0)
     THEN Arrived("NODATA", <<>>)
     ELSE Arrived("SUCCESS", IF second.mask THEN Unmasked(rest, len) ELSE SubSeq(rest, 1, len))

-----------------------------------------------------------------------------
(* Base64.  A character is its value of 6 bits, or Pad, the "=".            *)
(***************************************************************************)
Pad == 64
Octet(i, octets) == IF i <= Len(octets) THEN octets[i] ELSE 0

wstk_base64_encode(octets) ==
  FlattenSeq([g \in 1..((Len(octets) + 2) \div 3) |->
    LET i == 3 * g - 2
        v == 65536 * octets[i] + 256 * Octet(i + 1, octets) + Octet(i + 2, octets)
    IN << v \div 262144, (v \div 4096) % 64,
          IF i + 1 > Len(octets) THEN Pad ELSE (v \div 64) % 64,
          IF i + 2 > Len(octets) THEN Pad ELSE v % 64 >>])

(* Pad is a bit beyond the 24 of a group: shifted out of the word in the    *)
(* first two places, otherwise it leaves out an octet                       *)
b64val(c) == IF c = Pad THEN 0 ELSE c

wstk_base64_decode(chars) ==
  FlattenSeq([g \in 1..(Len(chars) \div 4) |->
    LET c == SubSeq(chars, 4 * g - 3, 4 * g)
        v == 262144 * b64val(c[1]) + 4096 * b64val(c[2]) + 64 * b64val(c[3]) + b64val(c[4])
    IN <<v \div 65536>>
       \o (IF c[3] = Pad THEN <<>> ELSE <<(v \div 256) % 256>>)
       \o (IF c[4] = Pad THEN <<>> ELSE <<v % 256>>)])

BASE64_ENC_SIZE(n) == 4 * ((n + 2) \div 3)
BASE64_DEC_SIZE(n) == 3 * (n \div 4)

-----------------------------------------------------------------------------
(* Escapes.  A character is its code, of two digits to the base 3: the      *)
(* digits are 0..2, "%" is 3, 4 and 5 are unreserved, the others reserved.  *)
(***************************************************************************)
Percent == 3
Unreserved == (0..2) \cup {4, 5}
wstk_ch_hex(c) == IF c \in 0..2 THEN c ELSE 0

wstk_escape(text) ==
  FlattenSeq([i \in DOMAIN text |->
    IF text[i] \in Unreserved THEN <<text[i]>> ELSE <<Percent, text[i] \div 3, text[i] % 3>>])

(* skip: how many characters belong to the escape before *)
UnescapeChar(text, u, i) ==
  IF u.status = "FALSE" THEN u
  ELSE IF u.skip > 0 THEN [u EXCEPT !.skip = @ - 1]
  ELSE IF text[i] # Percent THEN [u EXCEPT !.out = Append(@, text[i])]
  ELSE IF i + 2 <= Len(text)
       THEN [u EXCEPT !.skip = 2, !.out = Append(@, 3 * wstk_ch_hex(text[i + 1]) + wstk_ch_hex(text[i + 2]))]
       ELSE [u EXCEPT !.status = "FALSE"]

wstk_unescape(text) ==
  FoldLeft(LAMBDA u, i : UnescapeChar(text, u, i),
           [status |-> "SUCCESS", out |-> <<>>, skip |-> 0], [i \in DOMAIN text |-> i])

-----------------------------------------------------------------------------
(* URIs, as sequences of characters; "//" is one of them.  An IPv6 host is  *)
(* written with colons.                                                     *)
(***************************************************************************)
UriAlphabet == {"a", "9", ":", "//", "/", "@", "[", "]", "?"}
UriNot(S) == UriAlphabet \ S

Authority(uri) ==
  (IF uri.user = <<>> THEN <<>>
   ELSE uri.user \o (IF uri.password = <<>> THEN <<>> ELSE <<":">> \o uri.password) \o <<"@">>)
  \o (IF uri.af = "INET6" THEN <<"[">> \o uri.host \o <<"]">> ELSE uri.host)

wstk_uri_encode(uri) ==
  uri.scheme \o <<":", "//">> \o Authority(uri)
  \o (IF uri.port = <<>> THEN <<>> ELSE <<":">> \o uri.port) \o <<"/">>

uri_decode_hostport(text) ==
  LET n == Len(text)
      v6 == wstk_regex(text, <<Char("["), Class({"9", "a", ":"}, 1, n), Char("]"),
                               Class({":"}, 0, n), Class({"9"}, 0, n)>>)
      other == wstk_regex(text, <<Class(UriNot({":"}), 1, n), Class({":"}, 0, n), Class({"9"}, 0, n)>>)
  IN IF v6.status = "SUCCESS" THEN v6 ELSE other

wstk_uri_decode(text) ==
  LET n == Len(text)
      Scheme == <<Class(UriNot({":"}), 1, n), Char(":"), Char("//")>>
      User == <<Class(UriNot({"@", ":"}), 0, n), Class({":"}, 0, n), Class(UriNot({"@"}), 0, n), Char("@")>>
      Place == <<Class(UriNot({"?"}), 1, n), Class(UriNot({"?"}), 0, n), Class(UriAlphabet, 0, n)>>
      full == wstk_regex(text, Scheme \o User \o Place)
      bare == wstk_regex(text, Scheme \o Place)
      r == IF full.status = "SUCCESS" THEN full ELSE bare
      place == Part(text, r.found[IF full.status = "SUCCESS" THEN 5 ELSE 2])
      hp == uri_decode_hostport(place)
      host == Part(place, hp.found[1])
  IN [scheme |-> Part(text, r.found[1]),
      user |-> IF full.status = "SUCCESS" THEN Part(text, r.found[2]) ELSE <<>>,
      password |-> IF full.status = "SUCCESS" THEN Part(text, r.found[4]) ELSE <<>>,
      host |-> host,
      af |-> IF ":" \in ToSet(host) THEN "INET6" ELSE "INET",
      port |-> Part(place, hp.found[3])]

-----------------------------------------------------------------------------
FrameNext == Reads("frame", {{<<"data", d>>} : d \in {1, 2}}, CodecMax)
Base64Next == Reads("base64", {0, 3, 64, 171, 255}, CodecMax)
EscapeNext == Reads("escape", 0..8, CodecMax - 2)

Uris ==
  [scheme : {<<"a">>}, user : {<<>>, <<"a">>, <<"a", "9">>}, password : {<<>>, <<"9">>, <<"a", ":">>},
   host : {<<"a">>, <<"9", "a">>}, af : {"INET"}, port : {<<"9">>, <<"9", "9">>}]
  \cup
  [scheme : {<<"a">>}, user : {<<>>, <<"a">>}, password : {<<>>, <<"9">>},
   host : {<<":", "9">>, <<"a", ":", ":", "9">>}, af : {"INET6"}, port : {<<>>, <<"9">>}]

UriNext == part = "uri" /\ (\E uri \in Uris : input' = <<uri>>) /\ UNCHANGED part

(* A frame is the same on the other side, and known to be incomplete until  *)
(* its last octet is there.                                                 *)
FrameArrives(server) ==
  LET frame == wstk_websock_vsend("text", server, input) IN
  /\ wstk_websock_decode(frame) = Arrived("SUCCESS", input)
  /\ \A n \in 0..(Len(frame) - 1) : wstk_websock_decode(SubSeq(frame, 1, n)) = Arrived("NODATA", <<>>)

(* The decoded octets fit into what was allocated for them, also from a     *)
(* text that nobody encoded.                                                *)
Base64Inverts ==
  /\ wstk_base64_decode(wstk_base64_encode(input)) = input
  /\ Len(wstk_base64_encode(input)) = BASE64_ENC_SIZE(Len(input))
  /\ LET chars == [i \in DOMAIN input |-> IF input[i] > 63 THEN Pad ELSE input[i]] IN
     Len(wstk_base64_decode(chars)) <= BASE64_DEC_SIZE(Len(chars))

EscapeInverts ==
  LET escaped == wstk_escape(input)
      cut == SubSeq(escaped, 1, Len(escaped) - 1)
  IN /\ wstk_unescape(escaped).status = "SUCCESS" /\ wstk_unescape(escaped).out = input
     /\ ToSet(escaped) \subseteq Unreserved \cup {Percent}
     /\ input # <<>> /\ Last(input) \notin Unreserved => wstk_unescape(cut).status = "FALSE"

(* A password is only kept with a user; the slash that is always appended   *)
(* belongs to the host when there is no port, which is left out here.       *)
UriInverts(uri) ==
  wstk_uri_decode(wstk_uri_encode(uri)) =
    [uri EXCEPT !.password = IF uri.user = <<>> THEN <<>> ELSE @]

(* Decoding gives back what was encoded: frames of every length class, from *)
(* a server or masked from a client, and no part of a frame is taken for a  *)
(* frame (wstk-websock.c:60); base64 with every padding, within the buffer; *)
(* escaped text; URIs with their user, password, IPv6 host and port.        *)
CodecsInvert ==
  /\ part = "frame" => FrameArrives(TRUE) /\ FrameArrives(FALSE)
  /\ part = "base64" => Base64Inverts
  /\ part = "escape" => EscapeInverts
  /\ part = "uri" /\ input # <<>> => UriInverts(input[1])
=============================================================================
