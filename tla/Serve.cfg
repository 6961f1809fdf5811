CONSTANTS
  pa = pa  pb = pb  a1 = a1  a2 = a2  b1 = b1  r1 = r1  r2 = r2
  Pages = {pa, pb}
  Deployments = {a1, a2, b1}
  PageOf <- PageMap
  Requests = {r1, r2}
  Wants <- RivalWants
  Instances = {i1, i2, i3}
  CacheMax = 0
  Env = {"load", "launch", "drain"}
  Sweeper = Sweeper
  None = None
  Hashes = {"h1"}
  Size <- TheSizes
  MaxBytes = 1
  Openers = {r1, r2}
  MaxTemps = 0
  CacheEnv = {"storage", "disk"}
  MaxStaticRedirects = 1
  MaxDynamicRedirects = 1
  MaxHeaderRules = 1
  MaxRouteRules = 1
  RHosts = {"www"}
  NoPage = NoPage
  Infos <- TheInfos
  Manifests <- TheManifests
  Handlers = {r1, r2}
  Asks <- TheAsks
  AsksOf <- TheAsksOf
  ManifestMax = 1
  MaxChanges = 1
  RouterEnv = {"rpc", "timeout", "gone"}
  Proxied = {r1}
  LogsOf <- NoLogs
  MaxPosts <- OnePost
  ChanSize = 1
  BatchSize = 2
  NoEntry = NoEntry
  NoBatch = NoBatch
  UsageEnv = {"dial", "send", "break", "sink", "stop"}
  MaxLogs = 1
  MaxLogBytes = 1
  Marker = Marker
  MaxAccess = 3
  AccessBuffer = 2
  AccessBatch = 2
  AccessEnv = {"dial", "break", "sink", "close"}
  Runtimes = {j1, j2}
  Ports = {1, 2}
  NoRuntime = NoRuntime
  DropUid = TRUE
  WorkerdEnv = {"deaf", "slow", "stop"}
SPECIFICATION MCSpec
CHECK_DEADLOCK FALSE
PROPERTIES
  ShimLive
  RouterLive
  LogsDrain
  ReplacedIsGone
