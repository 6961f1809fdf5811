CONSTANTS
  Pods = {p1}
  MaxPods = 1
  MaxCrashes = 1
  Env = {}
SPECIFICATION LifeSpec
PROPERTIES
  ConnectedPodsKept
