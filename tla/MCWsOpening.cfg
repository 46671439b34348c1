\* Payloads below 3 have a short length, of 3 a two-byte one, above it a long one.
CONSTANTS
  Client = Client
  Server = Server
  Offers <- MCOffers
  OtherRequests <- MCOtherRequests
  Replies <- MCReplies
  Messages <- MCMessages
  BadFrames <- MCBadFramesOf
  Key <- MCKey
  Chunk = 5
  MaxMsgs = 2
  MaxHead = 43
  Len16 = 3
  Radix = 2
  Wide = 3
  MaxPayload = 5
  KeyLen = 2
SPECIFICATION Spec
INVARIANTS HeadIndependentOfReads OwnHandshakeOpens MessagesIntact NobodyWaitsForArrived
CHECK_DEADLOCK FALSE
