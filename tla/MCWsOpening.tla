----------------------------- MODULE MCWsOpening ----------------------------
(* Requests of our client, and every request that has one byte less or one *)
(* byte more than one of them; lengths in all three forms.                 *)
EXTENDS WsOpening

Bare == RenderClientRequest(<<>>)
Long  == RenderClientRequest(<<KeepAlive, COMMA, SP, KeepAlive, COMMA, SP, Deflate>>)

MCOffers == {<<>>, <<Deflate>>}
OneByteOff ==
  {RemoveAt(Bare, i) : i \in DOMAIN Bare}
    \cup {InsertAt(Bare, i, b) : i \in DOMAIN Bare, b \in {LF, SP, COLON, COMMA}}
MCOtherRequests == {Long} \cup {r \in OneByteOff : HeadEnds(r) \subseteq {Len(r)}}

MCReplies == {<<Deflate>>, <<Deflate, ServerNoContext>>, <<KeepAlive, COMMA, Deflate, ClientNoContext>>,
              <<Deflate, SmallWindow>>}
MCMessages == {<<Text, <<LF, SP>>>>, <<Text, <<1, 2, 3, 4>>>>, <<Pong, <<LF, SP>>>>}
MCKey == <<5, 7>>
MCBadFrames ==  \* opcode, reserved bit, long Pong, too long, RSV1, mask
  {<<131, 0>>, <<161, 0>>, <<138, 131, 1, 1>>, <<130, 4, 1, 1, 1>>}
MCBadFramesOf ==
  [e \in Ends |-> MCBadFrames \cup (IF e = Client THEN {<<129, 0>>, <<193, 129, 5, 7, 4>>}
                                    ELSE {<<129, 128, 5, 7>>, <<193, 1, 1>>})]
=============================================================================
