\* A write of three units into a TLS connection that buffers two.
CONSTANTS
  Client = Client
  Server = Server
  Certs = {pinned, unknown}
  Pins = {pinned}
  Trusted = {}
  WriteSizes = {3}
  Limit = 2
  Capacity = 2
  MaxData = 3
  Cancelling = {Client}
SPECIFICATION Spec
INVARIANT PlaintextConserved
CHECK_DEADLOCK FALSE
