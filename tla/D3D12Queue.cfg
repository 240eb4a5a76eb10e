\* Two threads, two queues, two fences that start at 2, and are lowered and raised.
SPECIFICATION FairSpec
CONSTANTS
  Threads = {t1, t2}
  Queues = {q1, q2}
  Fences = {f1, f2}
  InitialValues = {2}
  Values = {1, 2}
  MaxWork = 2
  MaxEntered = 5
PROPERTIES
  WaitOrders
  CallsReturn
CHECK_DEADLOCK FALSE
