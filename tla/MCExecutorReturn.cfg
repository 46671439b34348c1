\* block_on returns with a task in the queue.
CONSTANTS
  Tasks = {t1, t2}
  Main = Main
  t2 = t2
  Threads = {a}
  Exec = Exec
  Reentrant <- MCReentrant
  MaxNest = 1
SPECIFICATION Spec
PROPERTY QueuedDroppedOnReturn
