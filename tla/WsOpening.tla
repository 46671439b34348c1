----------------------------- MODULE WsOpening ------------------------------
(***************************************************************************)
(* The opening handshake of a WebSocket (accept and connect of             *)
(* tpt-net-ws/src/stream.rs, handshake.rs) down to the bytes: heads and    *)
(* the frames right behind them arrive in reads of any length, are parsed  *)
(* by HttpHead and decoded by WsFrame, and permessage-deflate (deflate.rs) *)
(* keeps a compression context per direction, or none, as was negotiated.  *)
(*                                                                         *)
(* The client may be another implementation whose request is off by one    *)
(* byte; so may the server, which then negotiates other parameters.        *)
(* zlib is external: a compressed payload carries the number of messages   *)
(* in the context it was compressed with.  Messages here are single        *)
(* frames; WebSocket has fragments, control frames and the close.          *)
(***************************************************************************)
EXTENDS HttpHead, WsFrame

CONSTANTS Client, Server,
          Offers,      \* what our own clients say of extensions, if anything
          OtherRequests, \* requests of other clients, which go no further
          Replies,     \* what another server may answer to a deflate offer
          Messages,    \* messages: an opcode, Text or Pong, and a payload
          BadFrames,   \* for each end, frames of it that break the protocol
          Key,         \* the key of a client's mask
          Chunk,       \* most bytes one read returns, 8192 in the code
          MaxMsgs      \* bound on the messages of both ends

Ends == {Client, Server}
Peer(e) == IF e = Client THEN Server ELSE Client

\* Words of the handshake's heads.
GET        == Token + 2
Upgrade    == Token + 3
Connection == Token + 4
WebSocket  == Token + 5
SecKey     == Token + 6
SecVersion == Token + 7
SecAccept  == Token + 8
SecExt     == Token + 9
Thirteen   == Token + 10
Nonce      == Token + 11
Accepted   == Token + 12   \* accept_key(Nonce)
KeepAlive  == Token + 13
Deflate    == Token + 14
ServerNoContext == Token + 15
ClientNoContext == Token + 16
SmallWindow     == Token + 17
Compressed      == Token + 100
OurServer       == <<0>>


VARIABLES
  request,   \* what the client sent
  reply,     \* OurServer, or the extensions another server answers with
  stream,    \* bytes on their way to an end
  buf,       \* bytes read and not consumed
  stage,     \* "opening", "open", "refused", or "broken" once it was open
  parsed,    \* what an end makes of buf: a head while opening, else a frame
  deflate,   \* the Codec of an end
  sent, got, \* history: messages sent and handed out
  bad        \* history: the end has sent a bad frame

vars == <<request, reply, stream, buf, stage, parsed, deflate, sent, got, bad>>

-----------------------------------------------------------------------------
Header(name, value) == <<name, COLON, SP>> \o value \o CRLF

\* The host header, which no check reads, is left out.
RenderClientRequest(ext) ==
  <<GET, SP, SLASH, SP, HTTP11>> \o CRLF \o Header(Upgrade, <<WebSocket>>)
    \o Header(Connection, <<Upgrade>>) \o Header(SecKey, <<Nonce>>)
    \o Header(SecVersion, <<Thirteen>>)
    \o (IF ext = <<>> THEN <<>> ELSE Header(SecExt, ext)) \o CRLF

RenderAcceptResponse(accept, ext) ==
  <<HTTP11, SP, Status + 101, SP>> \o CRLF \o Header(Upgrade, <<WebSocket>>)
    \o Header(Connection, <<Upgrade>>) \o Header(SecAccept, accept)
    \o (IF ext = <<>> THEN <<>> ELSE Header(SecExt, ext)) \o CRLF

\* The elements of a comma-separated value, trimmed.
Elements(value) ==
  LET cuts   == {0, Len(value) + 1} \cup Occurrences(value, <<COMMA>>)
      next(i) == CHOOSE j \in cuts : j > i /\ \A k \in cuts : k > i => k >= j
  IN  {TrimOws(SubSeq(value, i + 1, next(i) - 1)) : i \in cuts \ {Len(value) + 1}}

\* validate_and_accept: a key has 16 bytes or more.  Of what a request gives
\* for one, only a value with the nonce in it is that long.
IsKey(key) == \E i \in DOMAIN key : key[i] = Nonce

\* accept: what the upgrade request must say.
IsUpgrade(h) ==
  /\ RequestMethod(h.first) = <<GET>>
  /\ Get(h.headers, Upgrade) = <<WebSocket>>
  /\ <<Upgrade>> \in Elements(Get(h.headers, Connection))
  /\ IsKey(Get(h.headers, SecKey))
  /\ Get(h.headers, SecVersion) = <<Thirteen>>

\* accept_key: a hash of the key, which only the key sent yields.
AcceptKey(key) == IF key = <<Nonce>> THEN <<Accepted>> ELSE Append(key, Accepted)

NoDeflate == [on |-> FALSE, reset_compressor |-> FALSE, reset_decompressor |-> FALSE,
              compressed |-> 0, decompressed |-> 0]

NewCodec(resetCompressor, resetDecompressor) ==
  [NoDeflate EXCEPT !.on = TRUE, !.reset_compressor = resetCompressor,
                    !.reset_decompressor = resetDecompressor]

\* The element of an extension header that names permessage-deflate.
DeflateElement(ext) ==
  LET named == {x \in Elements(ext) : x # <<>> /\ x[1] = Deflate}
  IN  IF named = {} THEN <<>> ELSE CHOOSE x \in named : TRUE

\* server_accept: decline, or commit to no context takeover both ways.
ServerAccept(offer) ==
  IF DeflateElement(offer) # <<>> THEN <<Deflate, ClientNoContext, ServerNoContext>> ELSE <<>>

\* Mutant: the two parameters are taken for each other.
ClientCodecSwapped(ext) ==
  LET params == DeflateElement(ext)
  IN  IF params = <<>> THEN NoDeflate
      ELSE NewCodec(Contains(params, ServerNoContext), Contains(params, ClientNoContext))

ClientCodec(ext) ==
  LET params == DeflateElement(ext)
  IN  IF params = <<>> THEN NoDeflate
      ELSE NewCodec(Contains(params, ClientNoContext), Contains(params, ServerNoContext))

\* A smaller window was never offered and is refused.
Refused(ext) == Contains(DeflateElement(ext), SmallWindow)

\* However much of f has arrived, it is decoded to no frame, but for one that is
\* marked as compressed and is nothing that zlib made.
NeverGood(f, masked) ==
  \A n \in 0..Len(f) :
    LET d == Decode(SubSeq(f, 1, n), masked)
    IN  d.kind = "frame" =>
          /\ d.frame.rsv1 /\ ~IsControl(d.frame.opcode)
          /\ d.frame.payload = <<>> \/ d.frame.payload[1] < Compressed

-----------------------------------------------------------------------------
OurRequests == {RenderClientRequest(ext) : ext \in Offers}
Requests    == OurRequests \cup OtherRequests

\* A header value as it is rendered: in one line, no white space around it.
IsValue(v) ==
  /\ v \in Seq(Nat) /\ \A i \in DOMAIN v : v[i] \notin {CR, LF}
  /\ v # <<>> => v[1] \notin {SP, HT} /\ v[Len(v)] \notin {SP, HT}

\* Where heads in the bytes end.
HeadEnds(bytes) == {i \in 4..Len(bytes) : SubSeq(bytes, i - 3, i) = HeaderDelim}

\* A client says nothing behind its request before it is answered; the limit
\* on heads leaves room for our own, and for a read behind an answer to them.
ASSUME HeadsAssumption ==
  /\ \A ext \in Offers \cup Replies : IsValue(ext)
  /\ \A ext \in Offers : Len(RenderClientRequest(ext)) <= MaxHead
  /\ \A ext \in Replies \cup {ServerAccept(<<Deflate>>)} :
       Len(RenderAcceptResponse(<<Accepted>>, ext)) + Chunk - 1 <= MaxHead
  /\ \A r \in OtherRequests : r \in Seq(Nat) /\ HeadEnds(r) \subseteq {Len(r)}

\* Another server names permessage-deflate once and keeps to what it says.
ASSUME RepliesAssumption ==
  \A ext \in Replies :
    /\ DeflateElement(ext) # <<>>
    /\ \A p \in {ClientNoContext, ServerNoContext} :
         Contains(ext, p) <=> Contains(DeflateElement(ext), p)

\* Payloads, with the tag of a compressed one, are within the limit; a bad
\* frame is not one that can be taken for a good one in any context.
ASSUME WsOpeningAssumption ==
  /\ Client # Server
  /\ Chunk \in Nat \ {0} /\ MaxMsgs \in 0..1000
  /\ Key \in Seq(0..255) /\ Len(Key) = KeyLen
  /\ Messages \subseteq Opcodes \X Seq(0..255)
  /\ \A m \in Messages : Len(m[2]) < MaxPayload
  /\ \A e \in Ends : \A f \in BadFrames[e] : f \in Seq(Nat) /\ NeverGood(f, e = Client)

Init ==
  /\ request \in Requests
  /\ reply \in {OurServer} \cup Replies /\ (request \in OurRequests \/ reply = OurServer)
  /\ stream = [e \in Ends |-> IF e = Server THEN request ELSE <<>>]
  /\ buf = [e \in Ends |-> <<>>]
  /\ stage = [e \in Ends |-> "opening"]
  /\ parsed = [e \in Ends |-> Incomplete]
  /\ deflate = [e \in Ends |-> NoDeflate]
  /\ sent = [e \in Ends |-> <<>>]
  /\ got = [e \in Ends |-> <<>>]
  /\ bad = [e \in Ends |-> FALSE]

\* The loops of read_request_head, read_response_head and recv_message parse
\* the buffer first and read only if that needs more.
Parse(e, stg, bytes) ==
  IF stg = "opening" THEN ParseHead(bytes, e = Client) ELSE Decode(bytes, e = Server)

Wanting(e) == stage[e] \in {"opening", "open"} /\ parsed[e] = Incomplete

\* fill, and the read of recv_message: some bytes, at most one chunk.
Fill(e) ==
  /\ Wanting(e)
  /\ \E n \in 1..Chunk :
       /\ n <= Len(stream[e])
       /\ buf' = [buf EXCEPT ![e] = @ \o SubSeq(stream[e], 1, n)]
       /\ stream' = [stream EXCEPT ![e] = SubSeq(@, n + 1, Len(@))]
       /\ parsed' = [parsed EXCEPT ![e] = Parse(e, stage[e], buf'[e])]
  /\ UNCHANGED <<request, reply, stage, deflate, sent, got, bad>>

\* What ends a connection: accept, connect or recv returns an error.
FailEnd(e) ==
  /\ stage' = [stage EXCEPT ![e] = IF @ = "open" THEN "broken" ELSE "refused"]
  /\ UNCHANGED <<request, reply, stream, buf, parsed, deflate, sent, got, bad>>

\* What was read behind the parsed head or frame stays in the buffer.
Consume(e) ==
  /\ buf' = [buf EXCEPT ![e] = SubSeq(@, parsed[e].consumed + 1, Len(@))]
  /\ parsed' = [parsed EXCEPT ![e] = Parse(e, stage'[e], buf'[e])]

Open(e, codec) ==
  /\ stage' = [stage EXCEPT ![e] = "open"]
  /\ Consume(e)
  /\ deflate' = [deflate EXCEPT ![e] = codec]
  /\ UNCHANGED <<request, reply, sent, got, bad>>

\* accept: check the request, answer 101, install the codec.  Another server
\* answers an offer as it likes and keeps to its answer.
Extensions(offer) == IF ServerAccept(offer) = <<>> \/ reply = OurServer THEN ServerAccept(offer) ELSE reply

ServerCodec(ext) ==
  IF ext = <<>> THEN NoDeflate
  ELSE NewCodec(Contains(ext, ServerNoContext), Contains(ext, ClientNoContext))

Accept ==
  LET h == parsed[Server]
  IN  /\ stage[Server] = "opening" /\ h # Incomplete
      /\ \/ /\ h.kind = "head" /\ IsUpgrade(h)
            /\ \E ext \in {Extensions(Get(h.headers, SecExt))} :
                 /\ Open(Server, ServerCodec(ext))
                 /\ stream' = [stream EXCEPT ![Client] =
                      @ \o RenderAcceptResponse(AcceptKey(Get(h.headers, SecKey)), ext)]
         \/ ~(h.kind = "head" /\ IsUpgrade(h)) /\ FailEnd(Server)

\* connect: check the status and the accept key, read the extensions.
IsSwitch(h) ==
  /\ h.first[3] = Status + 101
  /\ Get(h.headers, SecAccept) = AcceptKey(<<Nonce>>)
  /\ ~Refused(Get(h.headers, SecExt))

Connect ==
  LET h == parsed[Client]
  IN  /\ stage[Client] = "opening" /\ h # Incomplete
      /\ \/ /\ h.kind = "head" /\ IsSwitch(h)
            /\ Open(Client, ClientCodec(Get(h.headers, SecExt)))
            /\ UNCHANGED stream
         \/ ~(h.kind = "head" /\ IsSwitch(h)) /\ FailEnd(Client)

\* The server has refused: connect sees the connection close.
ConnectClosed ==
  /\ stage[Client] = "opening" /\ stage[Server] = "refused" /\ stream[Client] = <<>>
  /\ FailEnd(Client)

-----------------------------------------------------------------------------
\* compress: the context grows by the message, or is reset after it.
Compress(e) ==
  deflate' = [deflate EXCEPT
                ![e].compressed = IF deflate[e].reset_compressor THEN 0 ELSE @ + 1]

\* send: data is compressed if that was negotiated; a client masks.
SendMessage(e, opcode, payload) ==
  LET rsv1 == deflate[e].on /\ ~IsControl(opcode)
      body == IF rsv1 THEN <<Compressed + deflate[e].compressed>> \o payload ELSE payload
      key  == IF e = Client THEN Key ELSE <<>>
  IN  /\ stage[e] = "open" /\ ~bad[e] /\ Len(sent[Client]) + Len(sent[Server]) < MaxMsgs
      /\ request \in OurRequests
      /\ IsControl(opcode) => Len(payload) < Len16
      /\ stream' = [stream EXCEPT
                      ![Peer(e)] = @ \o Encode(WireFrame(TRUE, rsv1, opcode, body), key)]
      /\ sent' = [sent EXCEPT ![e] = Append(@, <<opcode, payload>>)]
      /\ IF rsv1 THEN Compress(e) ELSE UNCHANGED deflate
      /\ UNCHANGED <<request, reply, buf, stage, parsed, got, bad>>

\* Another implementation breaks the protocol, once.
SendBad(e) ==
  /\ stage[e] = "open" /\ bad = [x \in Ends |-> FALSE] /\ request \in OurRequests
  /\ \E f \in BadFrames[e] : stream' = [stream EXCEPT ![Peer(e)] = @ \o f]
  /\ bad' = [bad EXCEPT ![e] = TRUE]
  /\ UNCHANGED <<request, reply, buf, stage, parsed, deflate, sent, got>>

\* decompress: with another context than the compressor's the stream is
\* invalid.
Decompress(e, body) ==
  IF deflate[e].on /\ body # <<>> /\ body[1] = Compressed + deflate[e].decompressed
  THEN [ok |-> TRUE, payload |-> Tail(body)] ELSE [ok |-> FALSE, payload |-> <<>>]

\* recv: decode a frame, drain it, decompress the message.
IsCompressed(frame) == frame.rsv1 /\ ~IsControl(frame.opcode)

Plain(e, frame) ==
  IF IsCompressed(frame) THEN Decompress(e, frame.payload)
  ELSE [ok |-> ~frame.rsv1 \/ deflate[e].on, payload |-> frame.payload]

Receive(e) ==
  LET d == parsed[e]
      m == Plain(e, d.frame)
  IN  /\ stage[e] = "open" /\ d # More
      /\ \/ /\ d.kind = "frame" /\ m.ok
            /\ got' = [got EXCEPT ![e] = Append(@, <<d.frame.opcode, m.payload>>)]
            /\ stage' = stage /\ Consume(e)
            /\ deflate' = [deflate EXCEPT ![e].decompressed =
                 IF IsCompressed(d.frame) /\ ~deflate[e].reset_decompressor THEN @ + 1 ELSE @]
            /\ UNCHANGED <<request, reply, stream, sent, bad>>
         \/ ~(d.kind = "frame" /\ m.ok) /\ FailEnd(e)

Next ==
  \/ Accept \/ Connect \/ ConnectClosed
  \/ \E e \in Ends :
       \/ Fill(e) \/ Receive(e) \/ SendBad(e)
       \/ \E m \in Messages : SendMessage(e, m[1], m[2])

Spec == Init /\ [][Next]_vars

-----------------------------------------------------------------------------
\* Types; a codec that resets holds no context between messages.
TypeOK ==
  /\ stream \in [Ends -> Seq(Nat)] /\ buf \in [Ends -> Seq(Nat)]
  /\ stage \in [Ends -> {"opening", "open", "refused", "broken"}]
  /\ deflate \in [Ends -> [on : BOOLEAN, reset_compressor : BOOLEAN,
                           reset_decompressor : BOOLEAN,
                           compressed : 0..MaxMsgs, decompressed : 0..MaxMsgs]]
  /\ \A e \in Ends :
       /\ Len(sent[e]) <= MaxMsgs /\ bad[e] \in BOOLEAN
       /\ deflate[e].reset_compressor => deflate[e].compressed = 0
       /\ parsed[e].kind \in {"more", "error", IF stage[e] \in {"opening", "refused"} THEN "head" ELSE "frame"}

\* A head by itself, as if it had arrived in one read and nothing behind it.
Alone(bytes, isResponse) ==
  IF HeadEnds(bytes) = {} THEN Incomplete
  ELSE ParseHead(SubSeq(bytes, 1, CHOOSE i \in HeadEnds(bytes) : \A j \in HeadEnds(bytes) : i <= j),
                 isResponse)

\* Bytes in which no head ends, more than the limit.
Endless(bytes) == HeadEnds(bytes) = {} /\ Len(bytes) > MaxHead

\* How the bytes of a request are split into reads does not decide what it is:
\* a head that is not complete is not refused, unless it is folded or too long
\* already, and a complete one is what it is by itself.
HeadIndependentOfReads ==
  stage[Server] = "opening" /\ parsed[Server] # Incomplete =>
    \/ parsed[Server] = Alone(request, FALSE)
    \/ parsed[Server] = Malformed /\ (Folded(request) \/ Endless(request))

\* Our client and our server open a connection with each other, whatever the
\* reads and whatever frames follow the 101 at once; our client refuses
\* another server only for a window it did not offer.
OwnHandshakeOpens ==
  request \in OurRequests =>
    /\ stage[Server] # "refused"
    /\ stage[Client] = "refused" => Refused(reply)

\* Messages come out as they went in, whatever the reads, lengths, masks and
\* compression contexts, also those right behind the 101; and an open
\* connection breaks only if the peer breaks the protocol.
MessagesIntact ==
  /\ TypeOK
  /\ \A e \in Ends :
       /\ IsPrefix(got[e], sent[Peer(e)])
       /\ stage[e] = "broken" => bad[Peer(e)]

\* An end waits for bytes, and none are on their way.
Waiting(e) == Wanting(e) /\ stream[e] = <<>>

\* Nobody waits in an opening for what has arrived: accept waits for more only
\* if the head it was sent has no end, and connect only for accept.
OpeningEnds ==
  /\ stage[Server] = "opening" /\ Waiting(Server) => HeadEnds(request) = {}
  /\ stage[Client] = "opening" /\ Waiting(Client) => stage[Server] # "open"

\* recv waits for more only when it has handed out all that was sent.
AllDelivered ==
  \A e \in Ends :
    stage[e] = "open" /\ Waiting(e) => Len(got[e]) = Len(sent[Peer(e)])

\* No end waits for what has arrived, before or after the opening.
NobodyWaitsForArrived == OpeningEnds /\ AllDelivered
=============================================================================
