CONSTANTS
  r1 = r1  r2 = r2  none = none  nopod = nopod
  Items = {i1, i2}
  Consumers = {u1, u2}
  Pods = {p1}
  MaxPods = 1
  MaxCrashes = 3
  Env = {"create", "delete", "list", "net", "crash", "idle", "deadline"}
SPECIFICATION MCSpec
INVARIANTS
  QueueInv
  NoLostSignal
  DrainIsFinal
PROPERTIES
  FifoSpec
  QueueLive
  PodsSettle
  RequestsServed
CHECK_DEADLOCK FALSE
