\* The client's message fills the transport to a server that reads nothing.
CONSTANTS
  Client = Client
  Server = Server
  Talkers = {Client}
  Fragmenting = {}
  Faulty = {}
  Pinging = {}
  KeepAlive = {Client}
  Cancelling = {}
  Silent = {Server}
  Room = 1
  MaxMsgs = 1
  MaxExtra = 0
SPECIFICATION FairSpec
PROPERTY DeadPeerNoticed
CHECK_DEADLOCK FALSE
