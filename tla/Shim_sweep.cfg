CONSTANTS
  a = a b = b a1 = a1 a2 = a2 b1 = b1 r1 = r1 r2 = r2 r3 = r3
  Pages = {a, b}
  Deployments = {a1, a2, b1}
  PageOf <- PageMap
  Requests = {r1, r2, r3}
  Wants <- ThreeWants
  Instances = {i1, i2, i3}
  CacheMax = 1
  Env = {}
  Sweeper = Sweeper
  None = None
SPECIFICATION Spec
SYMMETRY InstanceSymmetry
CHECK_DEADLOCK FALSE
INVARIANT
  NoMissingDeployment
