------------------------------- MODULE MCEdge -------------------------------
(***************************************************************************)
(* Model-checking instance of what has no liveness of its own: the content *)
(* of a site (MCContent), the static cache on its own, the router over it, *)
(* the bundle cache of the hub, the two logs, the workerd processes, their *)
(* configuration and the unknown-host warnings.  They share nothing here:  *)
(* side says which one a behaviour is about.                               *)
(***************************************************************************)
EXTENDS MCContent, Router, DiskCaches, UsageLog, AccessLog, Workerd,
        WorkerdConfig, HostWarnings

CONSTANTS h1, h2, h3, g1, g2

VARIABLE side

TheSizes == h1 :> 1 @@ h2 :> 1 @@ h3 :> 3

Page(dep) == [tenant |-> "t", page |-> "p", dep |-> dep]
ThePages == {Page(d1), Page(d2)}
Api == <<Seg("api", 0), Splat>>
TheManifests ==
  d1 :> [static |-> (<<Index>> :> h1), redirects |-> <<>>, headers |-> <<>>,
         routes |-> NoRoutes, worker |-> FALSE] @@
  d2 :> [static |-> (<<Index>> :> h3), redirects |-> <<>>, headers |-> <<>>,
         routes |-> [NoRoutes EXCEPT !.absent = FALSE, !.include = <<[glob |-> Api]>>],
         worker |-> TRUE]
Ask(path) == [host |-> "www", path |-> path, method |-> "GET", inm |-> [star |-> FALSE, tags |-> {}]]
TheAsks ==
  {Ask(<<Empty>>), Ask(<<Seg("api", 0), Seg("x", 0)>>),
   [Ask(<<Index>>) EXCEPT !.method = "POST"],
   [Ask(<<Empty>>) EXCEPT !.inm.tags = {[weak |-> TRUE, hash |-> h1]}]}
TheAsksOf == g1 :> TheAsks

D(t, d, f) == [tenant |-> t, page |-> "p", dep |-> d, file |-> f, token |-> t,
               etag |-> HubNone, valid |-> TRUE]
Bundle1 == D("t1", d1, "bundle")
Bundle2 == D("t2", d2, "bundle")
Good == {Bundle1, D("t1", d1, "manifest"), Bundle2}
\* A deployment of t2 under the path of t1: no object has this name.
Elsewhere == D("t1", d2, "bundle")
TheHubUploads == {StorageKey(d) : d \in Good}
TheDownloads ==
  Good \cup {Elsewhere, [Bundle1 EXCEPT !.token = "t2"], [Bundle1 EXCEPT !.token = HubNone],
             [Bundle1 EXCEPT !.etag = d1], [Bundle1 EXCEPT !.valid = FALSE]}
TheFetches == c1 :> TheDownloads \ {Bundle2} @@ c2 :> {Bundle1, Bundle2}
TheFileSizes == [k \in CacheKeys |-> IF k.dep = d2 THEN 3 ELSE 1]

TheLogs == g1 :> <<1, 2, 1>> @@ g2 :> <<3>>
ThePosts == g1 :> 1 @@ g2 :> 0

File1 == [stem |-> "a", ext |-> "wasm"]
File2 == [stem |-> "b", ext |-> "txt"]
File3 == [stem |-> "c", ext |-> "bin"]
TheIndex == [stem |-> "index", ext |-> "js"]
TheModules == <<File1, File2, File3, TheIndex>>
LoadedPage(page, env, date) ==
  [page : {page}, env : {<<>>, env}, secret : {<<>>, "K" :> "s", "L" :> "s"},
   modules : {Unreadable, {}, {TheIndex}, {File1, TheIndex}, {File2, File3}},
   date : {"", date}, flags : {{}, {"nodejs_compat"}}]
TheLoadSets ==
  LET one == LoadedPage("p", "K" :> "e", "2025")
      two == LoadedPage("q", "L" :> "f", "")
  IN {<<>>} \cup {<<x>> : x \in one} \cup {<<x, y>> : x \in one, y \in two}

-----------------------------------------------------------------------------
Is(x) == side = x
logVars == <<usageVars, accessVars>>
aside == <<workerdVars, configVars, warningVars>>
edgeVars == <<routerVars, cacheVars, hubVars, logVars, aside>>

EdgeInit ==
  /\ side \in {"content", "cache", "router", "hub", "usage", "access", "workerd",
              "config", "warnings"}
  /\ Is("content") \/ (~Is("content") /\ part = "tar")
  /\ MCInit
  /\ RouterInit /\ (~Is("router") => table = [h \in RHosts |-> Page(d1)])
  /\ HubInit /\ (~Is("hub") => hubOn)
  /\ UsageInit /\ (~Is("usage") => toHub)
  /\ AccessInit /\ (~Is("access") => viaHub)
  /\ WorkerdInit /\ WarningInit
  /\ IF Is("config") THEN ConfigInit ELSE loadSet = <<>> /\ config = NoConfig

SideNext ==
  \/ Is("cache") /\ CacheNext /\ UNCHANGED <<routerVars, hubVars, logVars, aside>>
  \/ Is("router") /\ RouterNext /\ UNCHANGED <<hubVars, logVars, aside>>
  \/ Is("hub") /\ HubNext /\ UNCHANGED <<routerVars, cacheVars, logVars, aside>>
  \/ Is("usage") /\ UsageNext /\ UNCHANGED <<routerVars, cacheVars, hubVars, accessVars, aside>>
  \/ Is("access") /\ AccessNext /\ UNCHANGED <<routerVars, cacheVars, hubVars, usageVars, aside>>
  \/ Is("workerd") /\ WorkerdNext /\ UNCHANGED <<routerVars, cacheVars, hubVars, logVars, configVars, warningVars>>
  \/ Is("warnings") /\ WarningNext /\ UNCHANGED <<routerVars, cacheVars, hubVars, logVars, workerdVars, configVars>>
  \/ Is("config") /\ ConfigNext /\ UNCHANGED <<routerVars, cacheVars, hubVars, logVars, workerdVars, warningVars>>
EdgeNext ==
  /\ UNCHANGED side
  /\ \/ Is("content") /\ MCNext /\ UNCHANGED edgeVars
     \/ SideNext /\ UNCHANGED contentVars
EdgeSpec == EdgeInit /\ [][EdgeNext]_<<side, contentVars, edgeVars>>

(* The types of the state each part keeps, with the bounds the code sets   *)
(* on its caches, channels and buffers; the state of the others stands.    *)
EdgeTypeOK ==
  /\ TypeOK
  /\ side \in {"cache", "router"} => CacheTypeOK
  /\ Is("router") => RouterTypeOK
  /\ Is("hub") => HubTypeOK
  /\ Is("usage") => UsageTypeOK
  /\ Is("access") => AccessTypeOK
  /\ Is("workerd") => WorkerdTypeOK
  /\ Is("warnings") => WarningTypeOK
=============================================================================
