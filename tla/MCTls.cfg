\* Writes of three units over a transport that holds two, so that both ends can be
\* left with unsent ciphertext; the client may cancel a call or time out.
CONSTANTS
  Client = Client
  Server = Server
  Certs = {pinned, unknown}
  Pins = {pinned}
  Trusted = {}
  WriteSizes = {3}
  Limit = 3
  Capacity = 2
  MaxData = 3
  Cancelling = {Client}
SPECIFICATION FairSpec
INVARIANTS PlaintextConserved CleanEofIsComplete
PROPERTIES HandshakeReturns WrittenIsRead
CHECK_DEADLOCK FALSE
