------------------------------ MODULE WstkPeer ------------------------------
(***************************************************************************)
(* Who a peer is: socket addresses as text and back (wstk-net-util.c,      *)
(* wstk-net-sa.c, the conversion %J of wstk-fmt.c), and the login or token *)
(* that comes with a request (wstk_httpd_autheticate).  An IPv4 address is *)
(* four octets, an IPv6 address eight words; the words of 5 bits in which  *)
(* WstkText counts make a port one of 4 bits instead of 16.                *)
(***************************************************************************)
EXTENDS WstkText, WstkCodecs

CONSTANTS LoginMax   \* how long a login and its password get

PORT16 == 16
NotAnAddress == <<>>   \* no address

-----------------------------------------------------------------------------
(* IPv4: octets between dots                                               *)
(***************************************************************************)
xxx_inet_ntop4(octets) ==
  FlattenSeq([i \in 1..4 |-> (IF i = 1 THEN <<>> ELSE <<".">>) \o local_itoa(octets[i], 10)])

(* tmp is what has been read; ok ends with the first misfit *)
Pton4Digit(s, c) ==
  LET value == 10 * Last(s.tmp) + HexValue(c)
      octets == IF s.saw_digit THEN s.octets ELSE s.octets + 1
  IN [tmp |-> Append(Front(s.tmp), value), octets |-> octets, saw_digit |-> TRUE,
      ok |-> value <= 255 /\ octets <= 4]

Pton4Char(s, c) ==
  IF ~s.ok THEN s
  ELSE IF AllDigits(<<c>>, 10) THEN Pton4Digit(s, c)
  ELSE [s EXCEPT !.ok = c = "." /\ s.saw_digit /\ s.octets < 4, !.tmp = Append(@, 0), !.saw_digit = FALSE]

xxx_inet_pton4(src) ==
  LET s == FoldLeft(Pton4Char, [tmp |-> <<0>>, octets |-> 0, saw_digit |-> FALSE, ok |-> TRUE], src)
  IN IF s.ok /\ s.octets = 4 THEN s.tmp ELSE NotAnAddress

-----------------------------------------------------------------------------
(* IPv6: words between colons, the first of the longest runs of zeros       *)
(* written as two colons, the last two words as an IPv4 address when the    *)
(* others are zero or the prefix of a mapped one.                           *)
(***************************************************************************)
OctetsOf(word) == <<word \div 256, word % 256>>
WordsOf(octets) == <<256 * octets[1] + octets[2], 256 * octets[3] + octets[4]>>

ZeroRuns(words) ==
  {r \in (1..8) \X (2..8) : /\ r[1] + r[2] <= 9
                            /\ \A i \in r[1]..(r[1] + r[2] - 1) : words[i] = 0}

NoRun == <<0, 0>>
Best(words) ==
  LET runs == ZeroRuns(words) IN
  IF runs = {} THEN NoRun
  ELSE CHOOSE r \in runs : \A q \in runs : q[2] < r[2] \/ (q[2] = r[2] /\ r[1] <= q[1])

Encapsulated(words, best) == best[1] = 1 /\ (best[2] = 6 \/ (best[2] = 5 /\ words[6] = 65535))

Ntop6Word(words, best, i) ==
  IF i >= best[1] /\ i < best[1] + best[2] THEN IF i = best[1] THEN <<":">> ELSE <<>>
  ELSE (IF i = 1 THEN <<>> ELSE <<":">>)
       \o IF i < 7 \/ ~Encapsulated(words, best) THEN local_itoa(words[i], 16)
          ELSE xxx_inet_ntop4(OctetsOf(words[7]) \o OctetsOf(words[8]))

xxx_inet_ntop6(words) ==
  LET best == Best(words)
      last == IF Encapsulated(words, best) THEN 7 ELSE 8
  IN FlattenSeq([i \in 1..last |-> Ntop6Word(words, best, i)])
     \o IF best[1] > 0 /\ best[1] + best[2] = 9 THEN <<":">> ELSE <<>>

(* colonp: how many words come before the two colons; curtok: where the     *)
(* word that is being read begins                                           *)
Pton6Colon(s, i) ==
  IF s.saw_xdigit
    THEN [s EXCEPT !.curtok = i + 1, !.tp = Append(@, s.val), !.val = 0, !.saw_xdigit = FALSE,
                   !.state = IF Len(s.tp) < 8 THEN @ ELSE "invalid"]
    ELSE [s EXCEPT !.curtok = i + 1, !.colonp = Len(s.tp),
                   !.state = IF s.colonp = -1 THEN @ ELSE "invalid"]

Pton6Dot(src, s) ==
  LET octets == xxx_inet_pton4(SubSeq(src, s.curtok, Len(src))) IN
  IF Len(s.tp) <= 6 /\ octets # NotAnAddress
    THEN [s EXCEPT !.tp = @ \o WordsOf(octets), !.saw_xdigit = FALSE, !.state = "done"]
    ELSE [s EXCEPT !.state = "invalid"]

Pton6Char(src, s, i) ==
  IF s.state # "reading" THEN s
  ELSE IF AllDigits(<<src[i]>>, 16)
  THEN [s EXCEPT !.val = 16 * @ + HexValue(src[i]), !.saw_xdigit = TRUE,
                 !.state = IF 16 * s.val + HexValue(src[i]) > 65535 THEN "invalid" ELSE @]
  ELSE IF src[i] = ":" THEN Pton6Colon(s, i)
  ELSE IF src[i] = "." THEN Pton6Dot(src, s)
  ELSE [s EXCEPT !.state = "invalid"]

ExpandedAtEnd(tp, colonp) == tp \o Repeat(0, 8 - Len(tp))

(* the words behind the two colons are shifted to the end; where there is   *)
(* nothing to shift each octet is cleared after it was copied onto itself   *)
Expanded6(tp, colonp) ==
  SubSeq(tp, 1, colonp) \o Repeat(0, 8 - Len(tp))
  \o IF Len(tp) = 8 THEN Repeat(0, 8 - colonp) ELSE SubSeq(tp, colonp + 1, Len(tp))

xxx_inet_pton6(src) ==
  LET colon == CharAt(src, 1) = ":"
      from == IF colon THEN 2 ELSE 1
      s == FoldLeft(LAMBDA x, i : Pton6Char(src, x, i),
                    [tp |-> <<>>, colonp |-> -1, curtok |-> from, val |-> 0, saw_xdigit |-> FALSE, state |-> "reading"],
                    [k \in 1..(Len(src) - from + 1) |-> from + k - 1])
      tp == IF s.saw_xdigit THEN Append(s.tp, s.val) ELSE s.tp
  IN IF (colon /\ CharAt(src, 2) # ":") \/ s.state = "invalid" \/ Len(tp) > 8 THEN NotAnAddress
     ELSE IF s.colonp >= 0 THEN Expanded6(tp, s.colonp)
     ELSE IF Len(tp) = 8 THEN tp ELSE NotAnAddress

-----------------------------------------------------------------------------
(* Socket addresses                                                        *)
(***************************************************************************)
Inet(octets, port) == [family |-> "INET", addr |-> octets, port |-> port]
Inet6(words, port) == [family |-> "INET6", addr |-> words, port |-> port]
NoAddress == [family |-> "UNSPEC", addr |-> <<>>, port |-> 0]

Mapped(words) == SubSeq(words, 1, 6) = <<0, 0, 0, 0, 0, 65535>>

(* wstk_sa_set_str, with wstk_sa_inet_pton: what is no IPv4 address may be  *)
(* an IPv6 one, and this a mapped IPv4 one                                  *)
wstk_sa_set_str(addr, port) ==
  LET octets == xxx_inet_pton4(addr)
      words == xxx_inet_pton6(addr)
  IN IF octets # NotAnAddress THEN Inet(octets, port)
     ELSE IF words = NotAnAddress THEN NoAddress
     ELSE IF Mapped(words) THEN Inet(OctetsOf(words[7]) \o OctetsOf(words[8]), port)
     ELSE Inet6(words, port)

(* the buffer has 64 characters *)
wstk_sa_set_pl(addr, port) == wstk_sa_set_str(SubSeq(addr, 1, Min({63, Len(addr)})), port)

Position(text, c) == CHOOSE i \in DOMAIN text : text[i] = c /\ \A j \in 1..(i - 1) : text[j] # c

wstk_sa_decode(str) ==
  LET bracketed == str[1] = "[" /\ "]" \in ToSet(str)
      c == IF bracketed THEN Position(str, "]") + 1 ELSE Position(str, ":")
      addr == IF bracketed THEN SubSeq(str, 2, c - 2) ELSE SubSeq(str, 1, c - 1)
  IN IF str = <<>> THEN NoAddress
     ELSE IF ~bracketed /\ ":" \notin ToSet(str) THEN NoAddress
     ELSE IF Len(str) < c + 1 THEN NoAddress
     ELSE IF str[c] # ":" THEN NoAddress
     ELSE wstk_sa_set_pl(addr, wstk_pl_u32(SubSeq(str, c + 1, Len(str))) % PORT16)

wstk_sa_inet_ntop(sa) == IF sa.family = "INET" THEN xxx_inet_ntop4(sa.addr) ELSE xxx_inet_ntop6(sa.addr)

(* %J *)
PrintAddress(sa) ==
  (IF sa.family = "INET6" THEN <<"[">> \o wstk_sa_inet_ntop(sa) \o <<"]">> ELSE wstk_sa_inet_ntop(sa))
  \o <<":">> \o local_itoa(sa.port, 10)

wstk_sa_cmp(l, r) == l.family = r.family /\ l.addr = r.addr /\ l.port = r.port

-----------------------------------------------------------------------------
(* The authenticator's request.  An octet 58 is a colon; a header field is  *)
(* the word it begins with and the rest, none the word "none".              *)
(***************************************************************************)
ColonOctet == 58
Missing == <<>>
Field(word, rest) == [word |-> word, rest |-> rest]
NoField == Field("none", <<>>)

(* before the first colon, unless there is none, or nothing before it *)
BasicLogin(octets) ==
  LET colons == {i \in DOMAIN octets : octets[i] = ColonOctet} IN
  IF colons = {} \/ 1 \in colons THEN Missing
  ELSE <<SubSeq(octets, 1, Position(octets, ColonOctet) - 1),
         SubSeq(octets, Position(octets, ColonOctet) + 1, Len(octets))>>

(* session: X-SESSION-ID; protocol: Sec-WebSocket-Protocol, where a browser *)
(* puts what it cannot put elsewhere; either kind of it becomes a token     *)
wstk_httpd_autheticate(session, protocol, authorization) ==
  LET xtoken == IF protocol.word \in {"x-session", "x-token"} THEN protocol.rest ELSE Missing IN
  [session |-> session,
   token |-> IF authorization.word = "Bearer" /\ authorization.rest # <<>>
             THEN authorization.rest ELSE xtoken,
   login |-> IF authorization.word = "Basic" /\ authorization.rest # <<>>
             THEN BasicLogin(wstk_base64_decode(authorization.rest)) ELSE Missing]

-----------------------------------------------------------------------------
AddressNext == Reads("address", {0, 1, 65535}, 8)
LoginNext == Reads("login", {ColonOctet, 97, 255}, LoginMax)

(* the last words of an IPv6 address are an IPv4 address, too *)
V4Of(words) == OctetsOf(words[7]) \o OctetsOf(words[8])

Returns(sa) == wstk_sa_cmp(wstk_sa_decode(PrintAddress(sa)), sa)

(* A mapped address returns as the IPv4 address it stands for.  What has    *)
(* lost its port, or its colons, is no address.                             *)
AddressReturns(words, port) ==
  LET text == PrintAddress(Inet6(words, port))
      alone == wstk_sa_inet_ntop(Inet6(words, port))
  IN /\ IF Mapped(words) THEN wstk_sa_decode(text) = Inet(V4Of(words), port) ELSE Returns(Inet6(words, port))
     /\ Returns(Inet(V4Of(words), port))
     /\ Len(alone) <= 45
     /\ wstk_sa_decode(<<"[">> \o alone \o <<"]">>) = NoAddress
     /\ wstk_sa_decode(<<"[">> \o alone \o <<"]", ":">>) = NoAddress
     /\ xxx_inet_pton6(alone \o <<":", ":">>) \in {NotAnAddress, words}

(* A login has no colon; the password may have some, or be empty. *)
LoginReturns(login, password) ==
  LET octets == login \o <<ColonOctet>> \o password
      request == wstk_httpd_autheticate(Missing, NoField, Field("Basic", wstk_base64_encode(octets)))
  IN login # <<>> /\ ColonOctet \notin ToSet(login) => request.login = <<login, password>>

NoLogin(octets) ==
  wstk_httpd_autheticate(Missing, NoField, Field("Basic", wstk_base64_encode(octets))).login = Missing

PeerKept(text) ==
  /\ part = "address" /\ Len(text) = 8 => AddressReturns(text, 9) /\ AddressReturns(text, 15)
  /\ part = "login" =>
       /\ \A k \in 0..Len(text) : LoginReturns(SubSeq(text, 1, k), SubSeq(text, k + 1, Len(text)))
       /\ text # <<>> /\ (text[1] = ColonOctet \/ ColonOctet \notin ToSet(text)) => NoLogin(text)

(* A peer is known by what it is called: its address, printed into a log or *)
(* a configuration, is read as the same address, whatever zeros were left   *)
(* out of it, mapped ones as IPv4 (wstk-net-util.c:91, wstk-net-sa.c:222);  *)
(* its login and password arrive at the authenticator as they were encoded  *)
(* (wstk-httpd.c:1214).                                                     *)
PeersAreKnown == [][PeerKept(input')]_<<part, input>>
=============================================================================
