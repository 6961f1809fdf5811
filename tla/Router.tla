------------------------------- MODULE Router -------------------------------
(***************************************************************************)
(* The router (pkg/router): handlers that resolve a host to a page through *)
(* a cache with a time to live, load the manifest of its deployment        *)
(* through an LRU cache, and answer from the static pipeline, reading      *)
(* files through StaticCache, or through a worker slot leased from the     *)
(* controller.  Each step ends at a call to another process, to storage or *)
(* to a cache.  The controller is external: a table from hosts to pages    *)
(* that deployments and domain changes alter at any time.                  *)
(***************************************************************************)
EXTENDS StaticCache, Pipeline

CONSTANTS
  RHosts,        \* host names
  Infos,         \* the pages a host may stand for: [tenant, page, dep]
  NoPage,
  Manifests,     \* deployment -> [static, redirects, headers, routes, worker]
  Handlers,      \* the openers that serve requests here
  Asks,          \* the requests: [host, path, method, inm]
  AsksOf,        \* those a handler may get
  ManifestMax,   \* the entries of the manifest cache
  MaxChanges,    \* bound on the changes of the table
  RouterEnv      \* what may happen: "rpc", "object", "gone", "timeout", "worker"

(* Requests are for known hosts, handlers are openers, every page has a    *)
(* deployment, and its rules are those the parser let through.             *)
ASSUME RouterAssumption ==
  /\ Asks # {} /\ \A a \in Asks : a.host \in RHosts
  /\ Handlers \subseteq Openers /\ \A r \in Handlers : AsksOf[r] \subseteq Asks
  /\ NoPage \notin Infos /\ \A info \in Infos : info.dep \in DOMAIN Manifests
  /\ \A d \in DOMAIN Manifests : /\ Len(Manifests[d].redirects) \in Nat
                                 /\ \A i \in 1..Len(Manifests[d].redirects) :
                                      Manifests[d].redirects[i].status \in ValidRedirectStatus

VARIABLES
  table,      \* the controller's view: host -> Infos or NoPage
  changes,
  resolved,   \* resolveCache: host -> Infos or NoPage
  manifests,  \* manifestCache: deployments, most recently used first
  req,        \* the handlers
  slot        \* the worker slot a handler has been granted: free, held, lost
routerVars == <<table, changes, resolved, manifests, req, slot>>

NewReq(ask) == [at |-> "idle", ask |-> ask, page |-> NoPage, status |-> 0, hash |-> NoPage,
                route |-> "none", logged |-> 0]
IdleReq == NewReq(CHOOSE a \in Asks : TRUE)

RouterTypeOK ==
  /\ table \in [RHosts -> Infos \cup {NoPage}] /\ resolved \in [RHosts -> Infos \cup {NoPage}]
  /\ changes \in 0..MaxChanges
  /\ manifests \in Seq(DOMAIN Manifests) /\ Len(manifests) <= ManifestMax
  /\ slot \in [Openers -> {"free", "held", "lost"}]
  /\ \A r \in Openers :
       /\ req[r].at \in {"idle", "resolve", "rpc", "store", "manifest", "object", "static",
                         "body", "opening", "acquire", "recv", "proxy", "release", "answered"}
       /\ req[r].ask \in Asks /\ req[r].page \in Infos \cup {NoPage} /\ req[r].logged \in 0..1

RouterInit ==
  /\ table \in [RHosts -> Infos]
  /\ changes = 0
  /\ resolved = [h \in RHosts |-> NoPage]
  /\ manifests = <<>>
  /\ req = [r \in Openers |-> IdleReq]
  /\ slot = [r \in Openers |-> "free"]
  /\ CacheInit

InReq(r, where) == req[r].at = where
Set(r, new) == req' = [req EXCEPT ![r] = new]
To(r, where) == Set(r, [req[r] EXCEPT !.at = where])
Respond(r, status, log) ==
  Set(r, [req[r] EXCEPT !.at = "answered", !.status = status, !.logged = @ + log])
Host(r) == req[r].ask.host
Dep(r) == req[r].page.dep
Manifest(r) == Manifests[Dep(r)]

(* The decisions of the pipeline depend on the manifest and the request    *)
(* alone: tables over the instance's deployments and requests.             *)
Decisions ==
  [d \in DOMAIN Manifests |-> [ask \in Asks |->
     LET m == Manifests[d]
     IN [toWorker |-> ToWorker(m.worker, m.routes, ask.path),
         answer |-> ServeStatic(m.static, m, ask.path)]]]
Decision(r) == Decisions[Dep(r)][req[r].ask]

Accept(r, ask) ==
  /\ InReq(r, "idle")
  /\ Set(r, [NewReq(ask) EXCEPT !.at = "resolve"])
  /\ UNCHANGED <<table, changes, resolved, manifests, slot, cacheVars>>

(* resolve: an entry that has not expired, or a call to the controller.    *)
ResolveCached(r) ==
  /\ InReq(r, "resolve")
  /\ IF resolved[Host(r)] # NoPage
       THEN Set(r, [req[r] EXCEPT !.at = "manifest", !.page = resolved[Host(r)]])
       ELSE To(r, "rpc")
  /\ UNCHANGED <<table, changes, resolved, manifests, slot, cacheVars>>

CallResolve(r) ==
  LET info == table[Host(r)]
  IN /\ InReq(r, "rpc")
     /\ \/ info # NoPage /\ Set(r, [req[r] EXCEPT !.at = "store", !.page = info])
        \/ info = NoPage /\ Respond(r, 404, 0)
        \/ "rpc" \in RouterEnv /\ Respond(r, 502, 0)
     /\ UNCHANGED <<table, changes, resolved, manifests, slot, cacheVars>>

(* The answer enters the cache when this handler gets to it, whatever      *)
(* another handler has stored meanwhile.                                   *)
StorePage(r) ==
  /\ InReq(r, "store")
  /\ resolved' = [resolved EXCEPT ![Host(r)] = req[r].page]
  /\ To(r, "manifest")
  /\ UNCHANGED <<table, changes, manifests, slot, cacheVars>>

\* Mutant of Expire: get does not look at the expiry.
ExpireNever(h) ==
  /\ resolved[h] # NoPage /\ resolved[h] \notin Infos
  /\ resolved' = [resolved EXCEPT ![h] = NoPage]
  /\ UNCHANGED <<table, changes, manifests, req, slot, cacheVars>>

(* The time to live of an entry is over.                                   *)
Expire(h) ==
  /\ resolved[h] # NoPage
  /\ resolved' = [resolved EXCEPT ![h] = NoPage]
  /\ UNCHANGED <<table, changes, manifests, req, slot, cacheVars>>

(* ServeHTTP, once it has the manifest: worker or static pipeline.         *)
Dispatch(r) ==
  \E worker \in {Decision(r).toWorker} :
    Set(r, [req[r] EXCEPT !.at = IF worker THEN "acquire" ELSE "static",
                          !.route = IF worker THEN "dynamic" ELSE "static"])

(* loadManifest: deployments are immutable, an entry never goes stale.     *)
ManifestCached(r) ==
  /\ InReq(r, "manifest")
  /\ IF Contains(manifests, Dep(r))
       THEN manifests' = ToFront(manifests, Dep(r)) /\ Dispatch(r)
       ELSE To(r, "object") /\ UNCHANGED manifests
  /\ UNCHANGED <<table, changes, resolved, slot, cacheVars>>

\* Mutant of ManifestAdd: nothing is evicted.
ManifestAddOnly(d) == ToFront(manifests, d)

ManifestAdd(d) ==
  LET l == ToFront(manifests, d)
  IN IF Len(l) > ManifestMax THEN SubSeq(l, 1, ManifestMax) ELSE l

FetchManifest(r) ==
  /\ InReq(r, "object")
  /\ \/ manifests' = ManifestAdd(Dep(r)) /\ Dispatch(r)
     \/ /\ "object" \in RouterEnv
        /\ \E status \in {404, 502} : Respond(r, status, 0)
        /\ UNCHANGED manifests
  /\ UNCHANGED <<table, changes, resolved, slot, cacheVars>>

(* serveStatic and serveFile up to the body, every answer logged.          *)
StaticAnswer(r) ==
  /\ InReq(r, "static")
  /\ \E a \in {Decision(r).answer} :
     LET hash == Manifest(r).static[a.key]
     IN \/ req[r].ask.method \notin {"GET", "HEAD"} /\ Respond(r, 405, 1)
        \/ /\ req[r].ask.method \in {"GET", "HEAD"}
           /\ \/ a.kind # "file" /\ Respond(r, a.status, 1)
              \/ a.kind = "file" /\ NotModified(req[r].ask.inm, hash) /\ Respond(r, 304, 1)
              \/ a.kind = "file" /\ ~NotModified(req[r].ask.inm, hash)
                   /\ Set(r, [req[r] EXCEPT !.at = "body", !.status = a.status, !.hash = hash])
  /\ UNCHANGED <<table, changes, resolved, manifests, slot, cacheVars>>

(* openBody: the steps of StaticCache.                                     *)
OpenBody(r) ==
  /\ InReq(r, "body")
  /\ Get(r, req[r].hash)
  /\ To(r, "opening")
  /\ UNCHANGED <<table, changes, resolved, manifests, slot>>

BodyStep(r) ==
  /\ InReq(r, "opening")
  /\ OpenStep(r)
  /\ UNCHANGED routerVars

\* Mutant of BodyDone: a failed open is recorded too.
BodyDoneLogged(r) ==
  /\ InReq(r, "opening")
  /\ Done(r)
  /\ Respond(r, IF OpAt(r, "served") THEN req[r].status ELSE 502, 1)
  /\ UNCHANGED <<table, changes, resolved, manifests, slot>>

(* A file that could not be opened is a 502, and leaves no access record.  *)
BodyDone(r) ==
  /\ InReq(r, "opening")
  /\ Done(r)
  /\ IF OpAt(r, "served") THEN Respond(r, req[r].status, 1) ELSE Respond(r, 502, 0)
  /\ UNCHANGED <<table, changes, resolved, manifests, slot>>

(* serveDynamic: AcquireSlot and the events of its stream; a queued event  *)
(* changes nothing here.  The slots are external: one for each handler.    *)
AcquireSlot(r) ==
  /\ InReq(r, "acquire")
  /\ To(r, "recv") \/ ("rpc" \in RouterEnv /\ Respond(r, 502, 0))
  /\ UNCHANGED <<table, changes, resolved, manifests, slot, cacheVars>>

(* The handler gets the grant, a timeout, or no event: then the controller *)
(* may have sent a grant that nobody receives.                             *)
Recv(r) ==
  /\ InReq(r, "recv")
  /\ \/ slot[r] = "free" /\ To(r, "proxy") /\ slot' = [slot EXCEPT ![r] = "held"]
     \/ "timeout" \in RouterEnv /\ Respond(r, 429, 0) /\ UNCHANGED slot
     \/ /\ \/ "rpc" \in RouterEnv /\ Respond(r, 502, 0)
           \/ "gone" \in RouterEnv /\ Respond(r, 0, 0)
        /\ \/ UNCHANGED slot
           \/ slot[r] = "free" /\ slot' = [slot EXCEPT ![r] = "lost"]
  /\ UNCHANGED <<table, changes, resolved, manifests, cacheVars>>

\* Mutant of Proxy: the answer ends the request, the slot stays taken.
ProxyKeepsSlot(r) ==
  /\ InReq(r, "proxy")
  /\ Respond(r, 200, 0)
  /\ UNCHANGED <<table, changes, resolved, manifests, slot, cacheVars>>

(* proxyToWorker returns: the answer of the worker, or 502 for an endpoint *)
(* that does not parse, a worker that cannot be reached, a client that     *)
(* left before there was an answer.                                        *)
Proxy(r) ==
  /\ InReq(r, "proxy")
  /\ \E status \in {200} \cup (IF "worker" \in RouterEnv THEN {502} ELSE {}) :
       Set(r, [req[r] EXCEPT !.at = "release", !.status = status])
  /\ UNCHANGED <<table, changes, resolved, manifests, slot, cacheVars>>

(* proxyToWorker does not return: the reverse proxy of the library panics  *)
(* with ErrAbortHandler when it cannot copy the rest of the body, because  *)
(* the client or the worker is gone, and the server ends the handler.      *)
ProxyAborts(r) ==
  /\ InReq(r, "proxy") /\ RouterEnv \cap {"worker", "gone"} # {}
  /\ Respond(r, 200, 0)
  /\ slot' = [slot EXCEPT ![r] = "lost"]
  /\ UNCHANGED <<table, changes, resolved, manifests, cacheVars>>

ReleaseSlot(r) ==
  /\ InReq(r, "release")
  /\ \E kept \in {"free"} \cup (IF "rpc" \in RouterEnv THEN {"lost"} ELSE {}) :
       slot' = [slot EXCEPT ![r] = kept]
  /\ To(r, "answered")
  /\ UNCHANGED <<table, changes, resolved, manifests, cacheVars>>

(* The controller's maintenance takes a slot back that was never released. *)
Reclaim(r) ==
  /\ slot[r] = "lost"
  /\ slot' = [slot EXCEPT ![r] = "free"]
  /\ UNCHANGED <<table, changes, resolved, manifests, req, cacheVars>>

EndRequest(r) ==
  /\ InReq(r, "answered")
  /\ Set(r, IdleReq)
  /\ UNCHANGED <<table, changes, resolved, manifests, slot, cacheVars>>

(* A deployment is activated, a domain moves, a page goes.                 *)
Change(h, info) ==
  /\ changes < MaxChanges
  /\ table[h] # info
  /\ table' = [table EXCEPT ![h] = info]
  /\ changes' = changes + 1
  /\ UNCHANGED <<resolved, manifests, req, slot, cacheVars>>

RouterRestart ==
  /\ Restart
  /\ resolved' = [h \in RHosts |-> NoPage]
  /\ manifests' = <<>>
  /\ req' = [r \in Openers |-> IdleReq]
  /\ slot' = [r \in Openers |-> IF slot[r] = "held" THEN "lost" ELSE slot[r]]
  /\ UNCHANGED <<table, changes>>

HandlerStep(r) ==
  \/ ResolveCached(r) \/ CallResolve(r) \/ StorePage(r) \/ ManifestCached(r) \/ FetchManifest(r)
  \/ StaticAnswer(r) \/ OpenBody(r) \/ BodyStep(r) \/ BodyDone(r)
  \/ AcquireSlot(r) \/ Recv(r) \/ Proxy(r) \/ ProxyAborts(r) \/ ReleaseSlot(r) \/ EndRequest(r)

RouterNext ==
  \/ \E r \in Handlers : (\E ask \in AsksOf[r] : Accept(r, ask)) \/ HandlerStep(r) \/ Reclaim(r)
  \/ \E h \in RHosts : Expire(h) \/ \E info \in Infos \cup {NoPage} : Change(h, info)
  \/ RouterRestart

RouterSpec == RouterInit /\ [][RouterNext]_<<routerVars, cacheVars>>

(* Handlers run: every call to the controller, to storage or to a worker   *)
(* returns (the router waits with the client's context and its server's    *)
(* timeouts), entries of the resolve cache expire, and the controller      *)
(* takes slots back (Dispatcher!SlotsReclaimed).                           *)
RouterFairness ==
  /\ \A r \in Handlers : /\ WF_<<routerVars, cacheVars>>(HandlerStep(r))
                         /\ WF_<<routerVars, cacheVars>>(Reclaim(r))
  /\ \A h \in RHosts : WF_<<routerVars, cacheVars>>(Expire(h))

-----------------------------------------------------------------------------
(* What the router remembers of a host becomes what the controller says:   *)
(* a stale answer stored late is gone once its time to live is over, and   *)
(* none comes back (resolve and resolveCache).                             *)
CacheConverges == <>[](\A h \in RHosts : resolved[h] \in {NoPage, table[h]})

(* Every request ends, whatever the cache, storage, controller and worker  *)
(* answer, and a slot that was granted is given back.                      *)
RequestsEnd == \A r \in Handlers : InReq(r, "resolve") ~> InReq(r, "idle")
SlotsReturn == \A r \in Handlers : slot[r] = "held" ~> slot[r] = "free"

(* What the router owes in the end: every request over, every granted slot *)
(* returned, every stale answer forgotten.                                 *)
RouterLive == RequestsEnd /\ SlotsReturn /\ CacheConverges

(* "a client disconnect does not skip the release RPC" (the comment on the *)
(* ReleaseSlot call in serveDynamic): a slot the handler holds is left to  *)
(* the controller's watchdog only when the call itself has failed.         *)
ReleaseNotSkipped ==
  [][\A r \in Handlers : slot[r] = "held" /\ slot'[r] = "lost" => InReq(r, "release")]_slot

(* The access log that is billed has one record for each answer of the     *)
(* static pipeline, and none for a request that did not get one.           *)
StaticLoggedOnce ==
  \A r \in Openers : InReq(r, "answered") =>
    req[r].logged = IF req[r].route = "static" /\ req[r].status # 502 THEN 1 ELSE 0
=============================================================================
