\* Two tasks share a pool of two hosts, one of them somebody else's; or a
\* foreign client pipelines requests.
CONSTANTS
  A = A
  B = B
  t1 = t1
  t2 = t2
  Tasks = {t1, t2}
  Authorities = {A, B}
  Foreign = {B}
  Requests <- MCRequests
  Responses <- MCResponses
  ForeignRequests <- MCForeignRequests
  ForeignResponses <- MCForeignResponses
  BodyLimits = {1, 2}
  MaxPooledBody = 1
  MaxIdlePerHost = 1
  MaxRedirects = 1
  MaxConns = 2
  MaxMessages = 2
SPECIFICATION FairSpec
INVARIANTS RequestsInStep ResponseIsForRequest PooledInStep
PROPERTIES RequestReturns ServerReturnsAfterClient
CHECK_DEADLOCK FALSE
