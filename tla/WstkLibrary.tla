---------------------------- MODULE WstkLibrary ----------------------------
(***************************************************************************)
(* The parts of the library that work on their own data, each exercised by *)
(* behaviours of its own.                                                  *)
(***************************************************************************)
EXTENDS WstkQueue, WstkList, WstkHashtable, WstkMbuf, WstkHttpMsg, WstkCodecs,
        WstkChunks, WstkPeer, WstkJsonPatch

Containers == {"queue", "list", "hash", "mbuf"}
Codecs == {"request", "head", "frame", "base64", "escape", "uri",
           "multipart", "digest", "json", "literal", "array", "patch",
           "words", "search", "hex", "number", "format", "address", "login"}

LibInit ==
  /\ part \in Containers \cup Codecs /\ input = <<>>
  /\ Init /\ ListInit /\ HashInit /\ MbufInit

Queue == part = "queue" /\ Next /\ UNCHANGED <<part, input, listVars, hashVars, mbufVars>>
List == part = "list" /\ ListNext /\ UNCHANGED <<part, input, vars, hashVars, mbufVars>>
Hashtable == part = "hash" /\ HashNext /\ UNCHANGED <<part, input, vars, listVars, mbufVars>>
Mbuf == part = "mbuf" /\ MbufNext /\ UNCHANGED <<part, input, vars, listVars, hashVars>>

Codec ==
  /\ RequestNext \/ HeadNext \/ FrameNext \/ Base64Next \/ EscapeNext \/ UriNext
     \/ MultipartNext \/ DigestNext \/ JsonNext \/ PatchNext
     \/ AddressNext \/ LoginNext
     \/ WordsNext \/ SearchNext \/ HexNext \/ NumberNext \/ FormatNext
  /\ UNCHANGED <<vars, listVars, hashVars, mbufVars>>

LibNext == Queue \/ List \/ Hashtable \/ Mbuf \/ Codec

libVars == <<part, input, vars, listVars, hashVars, mbufVars>>

(* the queue's consumers keep coming back, as in WstkQueue *)
LibSpec == LibInit /\ [][LibNext]_libVars /\ WF_libVars(Queue /\ wstk_queue_pop)

MCHash == [k \in Keys |-> CASE k = "k0" -> 0 [] k = "k2" -> 2 [] k = "k5" -> 5]
MCPrimes == <<2, 3, 5>>
=============================================================================
