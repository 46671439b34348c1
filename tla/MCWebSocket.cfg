\* The server sends one message; the client sends one, in one frame or two, and
\* one Ping or bad frame.  The client keeps the connection alive and may drop a
\* pending call; the server may fall silent, and leave the transport full.  It
\* is full with two frames of up to six that the client writes.
CONSTANTS
  Client = Client
  Server = Server
  Talkers = {Server}
  Fragmenting = {Client}
  Faulty = {Client}
  Pinging = {Client}
  KeepAlive = {Client}
  Cancelling = {Client}
  Silent = {Server}
  Room = 2
  MaxMsgs = 1
  MaxExtra = 1
SPECIFICATION FairSpec
INVARIANTS MessagesConserved MessagesWhole ClosedWithOneClose
PROPERTY CallsReturn
CHECK_DEADLOCK FALSE
