\* The second task asks for the close of its connection.
CONSTANTS
  A = A
  B = B
  t1 = t1
  t2 = t2
  Tasks = {t1, t2}
  Authorities = {A, B}
  Foreign = {B}
  Requests <- MCRequests
  Responses <- MCResponses
  ForeignRequests <- MCForeignRequests
  ForeignResponses <- MCForeignResponses
  BodyLimits = {1, 2}
  MaxPooledBody = 1
  MaxIdlePerHost = 1
  MaxRedirects = 1
  MaxConns = 2
  MaxMessages = 2
SPECIFICATION Spec
PROPERTY KeptIfNeitherCloses
CHECK_DEADLOCK FALSE
