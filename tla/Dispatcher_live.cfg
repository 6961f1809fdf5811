CONSTANTS
  r1 = r1  r2 = r2  r3 = r3  p1 = p1  p2 = p2  a = a 
  Req = {r1}
  Pods = {p1, p2}
  Pages = {a}
  PageOf <- AllOnA
  Reports <- NothingLoaded
  Cap = 1
  Target = 1
  MaxPods = 1
  Env = {"expire", "overdue", "lost", "idle", "create", "deadline", "slow", "late", "vanish"}
  NoReq = NoReq
  NoPod = NoPod
SPECIFICATION FairSpec
INVARIANTS
  TypeOK
PROPERTIES
  RequestsAnswered
  SlotsReclaimed
  PodsResolved
