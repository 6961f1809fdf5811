CONSTANTS
  t1 = t1  t2 = t2  p1 = p1  p2 = p2  d1 = d1  d2 = d2  shop = shop  label2 = label2
  s1 = s1  s2 = s2  c1 = c1  c2 = c2  c3 = c3
  None = None
  Bad = "bad"
  Tenants = {t1, t2}
  Pages = {p1, p2}
  Deps = {d1, d2}
  Hosts = {shop, label2}
  LabelOf <- HostLabels
  Secrets = {s1, s2}
  Calls = {c1, c2, c3}
  Menu <- TheMenu
  WiredSets <- TheWired
  Seed = d1
  SeedPage = p1
  SeedTenant = t1
  SeedBuild <- SiteBuild
  Env = {"provider", "storage", "crash"}
  MaxExtracted = 2
  Entries <- TheEntries
  MaxEntries = 3
  MaxStaticRedirects = 2
  MaxDynamicRedirects = 1
  MaxHeaderRules = 1
  MaxRouteRules = 2
  StaticSets <- TheStatics
  Urls <- TheUrls
  RedirectLines <- TheRedirects
  HeaderLines <- TheHeaders
  RoutesDocs <- TheRoutes
  MaxLines = 2
  MaxHops = 3
  SiteHost = "site"
  h1 = h1  h2 = h2  h3 = h3  g1 = g1  g2 = g2
  Hashes = {h1, h2, h3}
  Size <- TheSizes
  MaxBytes = 2
  Openers = {g1, g2}
  MaxTemps = 1
  CacheEnv = {"storage", "disk", "crash"}
  RHosts = {"www"}
  NoPage = NoPage
  Infos <- ThePages
  Manifests <- TheManifests
  Handlers = {g1}
  Asks <- TheAsks
  AsksOf <- TheAsksOf
  ManifestMax = 1
  MaxChanges = 1
  RouterEnv = {"rpc", "object", "gone", "timeout", "worker"}
  Downloads <- TheDownloads
  HubUploads <- TheHubUploads
  FileSize <- TheFileSizes
  HubMaxBytes = 1
  Callers = {c1, c2}
  Fetches <- TheFetches
  HubNone = HubNone
  HubEnv = {"cancel", "crash", "upload"}
  Proxied = {g1, g2}
  LogsOf <- TheLogs
  MaxPosts <- ThePosts
  ChanSize = 1
  BatchSize = 2
  NoEntry = NoEntry
  NoBatch = NoBatch
  UsageEnv = {"dial", "send", "break", "sink", "stop"}
  MaxLogs = 2
  MaxLogBytes = 2
  Marker = Marker
  MaxAccess = 6
  AccessBuffer = 3
  AccessBatch = 2
  AccessEnv = {"dial", "break", "sink", "close"}
  Runtimes = {j1, j2}
  Ports = {1, 2}
  NoRuntime = NoRuntime
  DropUid = TRUE
  WorkerdEnv = {"os", "eperm", "taken", "crash", "cancel", "deaf", "slow", "stop"}
  Strays = {c1, c2, c3}
  Interval = 2
  MaxClock = 4
  LoadSets <- TheLoadSets
  ModuleNames <- TheModules
  IndexJs <- TheIndex
  Unreadable = Unreadable
  DefaultCompatDate = "2024"
  NoConfig = NoConfig
  BadBundle = BadBundle
SPECIFICATION EdgeSpec
CHECK_DEADLOCK FALSE
INVARIANTS
  EdgeTypeOK
  ServedIsWhole
  ProvidersSound
  BundleExact
  SiteSound
  CacheSound
  StaticLoggedOnce
  HubSound
  UsageSound
  AccessAccounted
  DirOutlivesProcess
  RuntimesOwned
  ReadyIsOwn
  PageSeesItsOwn
  WarningsSound
PROPERTIES
  UndisturbedWriteIsLocal
  HandedOutIsThere
