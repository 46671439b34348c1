\* The keepalive of the server Pings a client that is between two fragments.
CONSTANTS
  Client = Client
  Server = Server
  Talkers = {}
  Fragmenting = {Client}
  Faulty = {}
  Pinging = {}
  KeepAlive = {Server}
  Cancelling = {}
  Silent = {}
  Room = 2
  MaxMsgs = 1
  MaxExtra = 0
SPECIFICATION Spec
INVARIANT MessagesConserved
CHECK_DEADLOCK FALSE
