# DuruPages: a TLA+ model

DuruPages is a self-hosted Cloudflare-Pages-like platform. A **router** takes
HTTP requests; static files are answered from caches, a request for a page's
worker asks the **controller** for a slot (`AcquireSlot`, a gRPC stream). The
controller keeps one pool of worker pods per tenant, grants slots as leases,
queues requests when every pod is full, creates and deletes pods. In each pod a
**shim** loads bundles from the **hub**, runs them in workerd and proxies the
request. The **admin API** stores deployments, and usage events flow from shims
and routers to the hub.

This directory holds TLA+ modules for the parts that keep state or decide what a
client sees, TLC configurations for small instances, and TLAPS proofs for the
invariants that matter most. `PROJECT.json` is the index: which definition
models which lines, which run checks which property, the mutants that show each
property can fail, the hazards the properties are aimed at.

    tlc -config Dispatcher_grant.cfg MCDispatcher
    tlapm DispatcherProofs.tla

## Inventory

| component | state | operations | hard behaviour |
|---|---|---|---|
| controller dispatcher (`pkg/controller/dispatcher.go`) | `tenant.pods` with phase and `inFlight`, `pendingPlacement`, `slotFreed`, `waiters`, `leases` | AcquireSlot, ReleaseSlot, the dispatch goroutine, maybeScaleUp, Register, Heartbeat, deletePod | timeout against hand-over, coalesced wakeups, two locks (`t.mu`, `leaseMu`) for one slot, deletions in the middle of a grant |
| controller maintenance (`reconcile.go`) | snapshots of one pass | reconcile at start-up, scaleDownOnce, leaseWatchdog | decisions on stale snapshots, restart, failed API calls |
| scaler (`pkg/scaler/defaultscaler`) | none | DesiredPods, SelectScaleDown | rounding, the ceiling |
| queue (`pkg/queue/inmemory`) | FIFO slice, entry states, a condition variable | Enqueue, Dequeue, Cancel, Depth, Position; watcher and waker goroutines | Signal waking the wrong sleeper, cancel against dequeue |
| shim loader (`pkg/shim/loader.go`, `evict.go`, `proxy.go`) | `active`, `deployments`, `loading`, `current`, in-flight counts | serveProxy, ensureLoaded, load, swap, sweep | single flight over two deployments, blue-green swap, LRU sweep beside it |
| runtime (`pkg/runtime/workerdruntime`) | a directory, a port and a process per instance | Launch, WaitReady, Drain, Close, generateConfig | ports that are not reserved, half-failed launches, two closers, a process that does not listen to signals |
| shim session (`pkg/shim/controller.go`) | JWT, draining flag, failure window | register, heartbeatSession, self-termination | controller restart, lost answers |
| usage pipeline (`emitter.go`, `collector.go`, `hub/logservice.go`, `router/log.go`) | bounded buffers, trace correlator, streams | emit, flush, Ingest, janitor | drop counts, lost batches, late traces, shutdown |
| hub cache (`pkg/hub/cache.go`, `http.go`) | disk index, in-flight downloads | handleBundle, getOrLoad, evict | a shared download with one caller's context, eviction before open, restart |
| router (`pkg/router`) | resolve, manifest and static caches, a lease per dynamic request | ServeHTTP, serveStatic, serveDynamic | stale answers, single flight, byte budget, every way out of a handler |
| admin API, providers (`pkg/adminapi`, `pkg/provider`) | pages, deployments, domains, secrets, the active pointer, objects in storage | deploy, activate, upsert, delete, secrets, domains | read-modify-write over two calls, a failure between storage and database |
| bundle tooling (`pkg/bundle`) | the extraction budget | untar, Scan, Upload | paths that leave the directory, limits at their edge |
| pages rules (`pkg/pagesspec`, `pkg/assets`) | none | match, redirects, headers, routes, resolve | precedence of rules, redirects that feed each other |
| storage clients, TLS, JWT, Kubernetes objects, CLI, chart, native patch | none, or a library's | I/O, formats, wiring | not modelled |

What makes them correct: a slot is counted exactly once and comes back exactly
once; a request is answered, and never keeps a slot it was not told of; a tenant
never has more pods than its ceiling; the queue is a FIFO from which a cancelled
item disappears; the runtime that serves is the one the load set describes, no
runtime process is lost, and a page sees its own files and secrets; every pod is
owned by a controller or stops; an active deployment can be served; a cache holds
what its index says and within its budget; every usage event is delivered, counted
as dropped or lost with a batch, and in order; every page of a site has a URL that
ends at it.

## Modules

Control side:

* **`Dispatcher`** models the controller's pool for one tenant. One action is one
  critical section (`t.mu`, `leaseMu`, the waiter's mutex, the queue's lock) or one
  call that can be overtaken. `pc[r]` is where the AcquireSlot handler of request
  `r` is, `stage[r]` its slot (`reserved`, `leased`, `freeing`), `on[r]` the pod,
  `dpc`/`ditem` the dispatch goroutine, `phase`/`inFlight`/`loaded` the pool,
  `kube` the cluster, `deleting` the deletePod calls under way, `mpc` and the `m…`
  variables the maintenance pass with its snapshots. The constant `Env` names what
  may go wrong (`Events`): an instance switches failures on, and the proofs hold for
  every `Env`. Time is not counted: a timeout, a deadline or an idle period may pass
  whenever its event is in `Env`. Merged into one step: building the grant and
  sending it; `takeWaiter` and `pendingPlacement = true`; releasing and signalling;
  Pods.Delete, dropping the leases and signalling. A pod name is used once.
* **`Scaler`** has the default scaler's two functions and the pod choice of `tryReserve`
  as operators that `Dispatcher` calls.
* **`MemQueue`** models the in-memory queue at the level of its mutex and condition
  variable, with the watcher goroutine of each Enqueue and the waker of each
  Dequeue. `FifoQueue` is the contract of `pkg/queue`; `MemQueue` implements it
  (`FifoSpec`, checked and proved). `Dispatcher` uses the queue through that
  contract: a sequence, taken from the front, from which cancelled items drop out.
* **`PodLifecycle`** models pods across controller crashes: reconcile and a
  coarser maintenance pass on one side, the shim's registration and heartbeat
  sessions on the other. `ctl = "starting"` is the time when gRPC is served and
  reconcile has not run.

The worker pod:

* **`Shim`** models the request path: `active`, the stored deployments in LRU order
  (`lru`, with `fresh` for those used less than MinIdle ago), the single flight per
  page, the swap under `swapMu`, the instance each request was given and its
  in-flight count, and the sweep. Bundles have size 1; files on disk and lease
  checks are left out; an instance name is used again when nobody knows it.
* **`Workerd`** opens what `Shim` calls launching, draining and closing: per instance
  a record with the stage of its swap, its port, directory and process, and per
  caller of Close where that call is. Processes are external: one binds its port
  or finds it taken, exits by itself, on SIGTERM, or when killed. The readiness
  probe is answered by whoever listens on the port.
* **`WorkerdConfig`** is generateConfig as a function from a load set to a record of
  services, with the entry worker's lookup and the links to the bundles.
* **`UsageLog`** is the way of a usage event: the handler, the correlator that waits
  for the trace, the emitter's channel and batch, the Ingest stream, the hub.
  **`AccessLog`** is the router's ring buffer and its flusher. Both use **`LogService`**,
  the hub's processBatch with the caps on log lines.

The edge:

* **`PagesRules`** has the parsers and matchers of `_redirects`, `_headers` and
  `_routes.json`; paths are sequences of segments, a segment is a name with a number of
  `.html` suffixes. **`Assets`** is asset resolution on the same paths, **`Pipeline`**
  the order in which the router applies rules, resolution and headers. **`Site`** puts
  them together: files are written, published if the parsers accept them, and a
  client follows the redirects it gets.
* **`SeqOps`** has the two operators on sequences without repetition that the indexes
  and the module lists share; **`LruIndex`** is the recency list with its byte count and eviction, as both disk caches
  of the data plane use it. **`StaticCache`** is the router's file cache with its single
  flight; a step ends where the code gives up a lock or touches the disk. **`Router`** extends it with ServeHTTP from the
  host to the answer: the resolve and manifest caches, the static pipeline (through
  `Pipeline`), and the lease of a dynamic request.
* **`HostWarnings`** is the limiter of the unknown-host warning, one atomic operation
  a step.
* **`HubCache`** is the hub's download endpoint over its disk cache. **`DiskCaches`** puts
  it beside `StaticCache` and states what both promise to the holder of a path.

Content:

* **`Provider`** has the tables of the in-memory and the Postgres provider as operators
  on a record, **`Bundle`** extraction and Scan, **`Extract`** the entry-by-entry
  extraction of an archive, **`Deploy`** the calls of the admin API and of `duru
  deploy`, each split where it calls the provider or storage.

The theorems are in `DispatcherProofs`, `ControlProofs` (queue and pods), `ShimProofs`
(shim and usage log), `WorkerdProofs`, `CacheProofs`, `EdgeProofs` (router, sites, access
log, warnings) and `DeployProofs` (deploys and archives), with the facts about sequences and numbers in `SeqLemmas`. `MCDispatcher`, `MCControl`, `MCShim`, `MCServe`,
`MCSite`, `MCContent` and `MCEdge` give constants and symmetry sets for TLC. Three of
them (`MCControl`, `MCServe`, `MCEdge`) are sums: a variable that never changes says which part a behaviour is about, the others stand still. The
parts share nothing there; a sum checks several components in one run and says
nothing about their interplay. Components that do interact are composed in their
modules: `Router` over `StaticCache` and `Pipeline`, `Deploy` over `Provider` and
`Bundle`, `UsageLog` and `AccessLog` over `LogService`, `Dispatcher` over `Scaler` and
the queue's contract.

Definitions whose comment begins with "Mutant" are wrong variants of the
definition that follows; `PROJECT.json` names the property each one breaks.

## Runs

| run | instance | shows |
|---|---|---|
| `dispatcher_grant` | 3 requests, 1 pod, 1 slot; timeouts, cancelled streams (1.1 M states) | a timed-out request holds no slot (`TimeoutHoldsNoSlot`), the dispatcher never sleeps beside a usable slot and a queued request can still be reached (`WaitersReached`) |
| `dispatcher_pool` | 2 requests, 2 pods, ceiling 1; crashes, unknown pages, failing specs and signing, lost routers, idle scale-down, overdue leases, a failing List, no late Registers (1.4 M) | `PodCeiling`, `CapRespected`, `SlotAccounting` |
| `dispatcher_live` | 1 request, 2 pods, fair; failing and slow creations, deadlines, late Registers, pods that vanish, lost routers, timeouts (75 k) | every call is answered, every slot is reclaimed, creating pods and orphans are resolved (`PodsResolved`) |
| `control` | sum: the queue with 2 items and 2 consumers; 1 pod with 3 controller crashes; 2 requests on 1 pod that registers | `QueueInv`, `NoLostSignal`, the refinement `FifoSpec`, cancelled items leave and Dequeues return (`QueueLive`); `DrainIsFinal`, and no worker, stray pod or dead entry is left behind (`PodsSettle`); `RequestsServed` although one token stands for many wakeups |
| `shim` | 3 requests for 3 deployments of 2 pages, 2 instances; every failure: fetches, launches, slow loads, drains that time out, the ordered drain (2.3 M) | `LoadsSerial`, `CurrentServesActive`, `InstancesOwned` |
| `serve` | sum, fair: the shim with 3 instances, failing fetches and launches; 2 workerd instances; the router with 2 handlers and a page that changes; the two logs (46 k) | every request is answered and every replaced instance is closed (`ShimLive`), its process and directory go (`ReplacedIsGone`), router handlers end, stale answers are forgotten, slots return (`RouterLive`), events settle, correlator entries and buffers drain (`LogsDrain`) |
| `data_plane` | sum: API calls by 3 callers on both providers; archives of up to 3 entries; sites of up to 3 of 9 files under 17 URLs with up to 2 rule lines; caches, router, hub, logs, workerd, configuration, warnings with their faults (0.3 M) | the safety of each part, below |
| `dispatcher_leak`, `shim_sweep`, `lifecycle_restart`, `rewrite`, `release` | violations | next section |

A property of a run is often the conjunction of named parts, each stated and
explained where it is defined (`WaitersReached` is `NoLostWakeup` and `WaiterReachable`,
and so on). The inductive invariant
`SlotInv` of the proofs was checked with TLC on the instance of `dispatcher_pool`, and
with deadlines and late Registers of which none adopts a pod unsettled (see Proofs),
`WorkerdInv` on three instances of workerd, `ShimInv` on the instance of `shim`, `CacheInv`
on three openers (0.6 M states), `HubInv` on three callers (1.4 M), `UsageInv` on three
requests with a channel of one and batches of two (1.8 M), and `WholeInv` of the
deploys on three callers (97 k).

What `data_plane` shows, part by part.

* *Deploys* (`ServedIsWhole`, `ProvidersSound`, `UndisturbedWriteIsLocal`): a recorded deployment has all its objects (`RecordedIsWhole`); what is
  active can be served as long as nobody wrote over it (`ActiveIsServable`); tables
  refer to rows that exist (`ReferencesHold`); both providers answer alike
  (`ProvidersAgree`, with the differences listed below excepted); a write that
  nobody interrupts changes its own fields only (`UndisturbedWriteIsLocal`).
* *Archives* (`BundleExact`): what is accepted is exactly what stays inside the directory and the
  budget (`ExtractionExact`), and Scan puts each file in exactly one place
  (`ScanPartitions`).
* *Sites* (`SiteSound`): accepted rules can be evaluated (`AcceptedRulesEvaluate`), redirects of
  pretty URLs end, after two more than the name asked for has suffixes at the most
  (`PrettyUrlsEnd`), an HTML page asked for by its file name is reached
  (`PagesReachable`), a miss shows the nearest 404 page (`ErrorPageIsNearest`).
* *Router* (`CacheSound`, `HandedOutIsThere`, `WarningsSound`): the index of the static cache names files that exist, its byte count and
  budget are right over crashes (`IndexedOnDisk`, `BudgetHeld`), one leader per flight
  (`OneLeader`), a path Put returned lives unless a later Put evicted it
  (`PutPathLive`), one access record per static answer (`StaticLoggedOnce`);
  unknown-host warnings are spaced (by the times their handlers read, not by the
  moments the lines are written) and lose no count (`WarningsSpaced`,
  `SuppressedConserved`).
* *Hub* (`HubSound`, `HandedOutIsThere`): a download gets a stored object of the
  deployment and file it asked for, under whatever tenant and page it asked
  (`DeploymentIsRequested`), and that of its page if storage has one and ids are unique
  there (`StoredBundleServed`; see *Caches* below for the rest), misses share
  one load (`LoadsCollapse`), eviction never turns into an error
  (`EvictionNeverRefuses`), the index is sound (`HubIndexSound`).
* *Logs* (`UsageSound`): every event is somewhere or accounted for (`EventsAccounted`,
  `AccessAccounted`, `DropCountConserved`), in order (`SinkInOrder`), with its trace if
  the trace came in time (`TraceNotMissed`), cut visibly (`LogsCutVisibly`).
* *Runtime*: no directory goes before its process (`DirOutlivesProcess`), no process
  or directory is lost (`RuntimesOwned`), the process that answered the probe is the
  new one (`ReadyIsOwn`; of the instances of this shim, since another program that takes
  the port is modelled as a failed bind and never answers the probe), a page sees its
  own files, bindings and assets (`PageSeesItsOwn`).

Why the bounds are enough. The races of the grant path are between one timeout,
one newcomer and one dispatcher, so three requests on one slot show each pair
with a third party present; two pods are needed for a replacement beside its
predecessor. With two consumers the queue has a right and a wrong sleeper for a
Signal. The shim needs two deployments of one page (single flight, superseding)
and a second page (shrinking the load set, sweep); two instances are the old and
the new one, the third of `serve` lets a swap start while the second drains; for `Workerd` two are enough, since a third can only
be launched when the second is over (three were explored once, 2.7 M states). In
PodLifecycle pods meet only in the ceiling, and all its properties speak of one
pod; the crash bound allows a crash before, in and after adoption. Two API callers
race over any two calls, the third deletes the page in between. The caches hold
one or two entries out of three, one of them larger than the budget, so that
eviction, protection and re-adding all happen. The logs have buffers smaller than
what is sent. Paths have up to three segments, one more than the deepest file.
`CHECK_DEADLOCK FALSE` stands where finite sets of requests, items or events run out.

### Where the code disagrees with its own text

* **`dispatcher_leak`.** When sending QUEUED fails, AcquireSlot returns without
  settling its waiter; a dispatcher that already took it leases a slot to nobody.
  The comment on `waiter` says a reserved slot is never leaked. The lease watchdog
  gets it back (`SlotsReclaimed`), by deleting the pod.
* **`shim_sweep`.** The sweep trims `s.active` outside `swapMu`; a swap that is
  launching then publishes its older copy, which names a deployment that is gone.
  From then on every load of every page in the pod fails with "deployment missing",
  until that page is requested with another deployment. The comment on `swap` says
  loads and evictions do not race.
* **`lifecycle_restart`.** A shim registers once. After a controller restart its
  heartbeats reach the new controller, but only Register makes a pod ready, so the
  healthy pod is deleted at the end of the adoption window, against the comment on
  `reconcile`. `DrainIsFinal` says what a repair has to watch: a shim that
  registers again while it drains would become ready and refuse every request
  (this is the mutant `ConnectRegisters`).
* **`rewrite`.** A `200` rule to an existing `.html` file is answered with a redirect to
  the pretty URL of the file, not in place; with `/* /index.html 200` the redirected
  request meets the same rule, without end.
* **`release`.** A response body that cannot be copied to the end makes the reverse
  proxy panic, which skips ReleaseSlot; the slot waits for the lease watchdog.

Observations without a run of their own:

* *Dispatcher.* Between Dequeue and `pendingPlacement = true` a newcomer can take the
  fast path ahead of the dequeued waiter; with `"deadline"`, a pod that registers after its entry was
  removed comes on top of the ceiling; Dequeue can return an item whose context is
  already done, which `queue.go:13-14` excludes and the dispatcher tolerates.
  deletePod removes the entry under `t.mu`, and deletes the pod and drops its leases by
  name after it has unlocked. A Register repeated in between (the shim retries one
  whose answer was lost) adopts the pod with `inFlight = 0` while a lease of the old
  entry is outstanding: the counter is then below the number of leases, against the
  comment on `inFlight`, and `tryReserve` may go over the cap. `AdoptsUnsettled` names
  this step. With `"deadline"` and `"late"` in `Env`, one request, one pod and one slot,
  TLC refutes `SlotAccounting` in nine steps: the maintenance pass picks the creating
  pod, which registers then; the request gets a lease on it; deletePod removes the
  entry; the repeated Register adopts the pod.
* *Admin API.* updateSecrets and upsertPage write back the `ActiveDeploymentID` they
  read, so they revert an activation that came in between (`handlers.go:130-134`,
  `secrets.go:273-281`), and can bring a deleted page back. A second upload with a
  known deployment id overwrites its objects before the duplicate is refused, while
  `manifestcache.go:13-15` and `hub/http.go:176` rely on immutable deployments. An
  explicit `activeDeploymentId` is not checked; a page moved to another tenant leaves
  its deployment under the old tenant's keys. Objects are never deleted.
* *Providers.* The two differ in taking over another page's domain, in the order in
  which hosts are resolved, in the tenant a page must have, in whether deployment ids
  are unique per page or globally, and in SetCustomDomains of a missing page with no
  domains. GetPage, ListPages and ResolvePage of Postgres are two queries without a
  transaction; the model takes them together, so that a page read with the domains of
  another moment does not occur in it. An empty file after a full extraction budget is refused with 413.
* *Logs.* `hub/logservice.go:53-58` speaks of at-least-once delivery because producers
  retry; neither of them does. Without a hub, the caps on log lines do not apply.
* *Caches.* "Put always returns a live path" (`staticcache`) ends with the next Put that
  evicts it, before the handler has opened the file. Temporary files of a crash stay.
  The key of the router's manifest cache, like that of the hub's, leaves tenant and page
  out, storage's does not. A path that names no stored object is answered 404 by the hub
  until the cache has an entry for its deployment id, and with the object of the page
  that has the deployment afterwards, also with unique ids; `DeploymentIsRequested`
  and `StoredBundleServed` are what holds for every request.
* *Router.* A grant that is on its way while the client leaves is left to the watchdog.
* *Sites.* A page called `.html`, `..html` or `...html` cannot be reached: it is sent to
  its pretty URL (`/`, `/.`, `/..`), which is a directory or escapes the root. A file
  `a.html.html` is sent to `/a.html` first, so that redirects end but not after one.
* *Shim.* `env.ASSETS` is answered from `s.active`: a request still running on a draining
  instance gets the files of the new deployment. A workerd that crashes while it is
  current is not replaced until the next load or sweep swaps it. A page variable
  named `ASSETS` yields two bindings of that name.

### Hazards no property covers

Besides those in `PROJECT.json`: the sweep removes the files of an evicted deployment
after it has released the lock, while a reload may be writing the same directory
(`evict.go:79`), and launches on the context of Run, so that a workerd that neither
answers nor exits keeps `swapMu` for good (`evict.go:85`); gRPC is served before
reconcile has run, so that old pods come on top of the ceiling (`main.go:460` of the
controller); a stream that opens and is then refused resets the failure window of a
shim each time (`shim/controller.go:49`); a line of output beyond 1 MiB ends the copying
and workerd blocks in its next write (`runtime.go:352`); the directory of an upload is
left behind by a controller that dies (`adminapi/deploy.go:208`).

## Fairness

Goroutines that can run do run (`WF` on handlers, the dispatch loop, deletions,
the ticker's passes, flushers, `Close`). Strong fairness is used for what the code
repeats until it works, or what a periodic pass meets again and again: the
watchdog sees an overdue lease, a pass sees a pod past its deadline, Pods.List and
Pods.Delete succeed from time to time, Go's mutex hands `swapMu` to a starving
waiter. Timers fire: the expiry of a resolve entry, the janitor's age, the drain's
minute, killGrace. A process that got SIGKILL exits; one that got SIGTERM need not.
Never assumed, except in the `"serving"` part of `control`: that a router releases,
that a pod registers. `Shim` assumes that a launch ends; for requests their context
ends it, for the sweep's own swap the code has no limit.
`UsageLog` assumes that the hub acknowledges a batch or the stream breaks; the
emitter has no deadline of its own. `Router` assumes that every RPC returns, with an
answer or an error; the router's ReleaseSlot runs on a context without a deadline, so
that for this call the assumption is about the connection and the controller, and a
call that hangs would hold its handler. In `PodLifecycle` nothing makes a
controller that is down start again.

## Proofs

* **Slots** (`DispatcherProofs`). `SlotAccounting` (the counter of a tracked pod is
  the number of reservations and leases on it) is not inductive. `SlotInv` adds
  who may hold a slot at which point (`SlotOwner`: the handler, the dispatcher or a
  lease, and on which kind of pod), that a pod not yet created has no holders
  (`FreshPods`), and that a departed pod's holders are detached (`Departed`).
  `SlotInvariant` proves `Spec /\ [][~AdoptsUnsettled]_vars => []SlotInv` with one lemma per
  group of actions and conjunct, cardinalities through `FiniteSetTheorems`;
  `SlotAccountingHolds` and `CapRespectedHolds` follow, on the same condition. It excludes
  one step only: a Register that creates an entry for a pod whose earlier entry still has
  leases or whose deletePod has not returned. The code does not exclude it, and
  the condition cannot be dropped (*Dispatcher* under the observations). There is no assumption
  on `Env`: deadlines, repeated Registers and Registers of forgotten pods are covered.
  `SlotInvariantWithoutLate` shows that with `"late" \notin Env` the step is impossible, and
  has no condition. `TypeCorrect` needs neither.
* **The hand-over** (`DispatcherProofs`). `TimeoutHoldsNoSlot` and `WaitersReached` hold in
  every environment. Both need `HandshakeInv`: until a waiter is settled, and after it has
  timed out, a slot reserved for it is in the dispatcher's hands (`SlotCarried`); a
  waiter in the FIFO is still in `c.waiters`, and while its context lives it is in the
  FIFO, in the dispatcher's hands or settled (`Findable`); what the dispatcher knows of
  the request it carries (`Carrier`). The second adds `WakeInv`: a dispatcher that is
  blocked without a token has no free pod at all.
* **The ceiling** (`DispatcherProofs`). `PodCeiling` needs `CreationCounted` (a pod on its
  way up is in the pool) and the arithmetic of the scaler. Assumption `CreationsWork`:
  no failed or slow creations or deletions, deadlines or late Registers; with them
  the code goes beyond the ceiling (see the observations).
* **Queue** (`ControlProofs`). `QueueInvariant`: the slice holds exactly the queued
  entries, each once, and an entry settles once. `NoLostSignalHolds`: as long as a
  Dequeue sleeps there are as many callers awake as items. `FifoRefinement`: every
  step of `MemQueue` is a step of `FifoQueue` or a stutter, from the positions of
  elements in the slice (`SeqLemmas`).
* **Draining** (`ControlProofs`). `DrainIsFinalHolds`, by the invariant that a
  draining shim is past its registration and that shims run in live pods only.
* **Shim** (`ShimProofs`). `LoadsSerial`, `CurrentServesActive` and `InstancesOwned`,
  whatever fails. `ShimInv` joins them with who holds `swapMu` and what the new
  instance runs (`SwapInv`), whose load a page is in (`LoadInv`), which instance a
  request on its way was given (`UsingInv`), and `InFlightExact`: the count a drain
  waits for is the number of requests being forwarded to the instance (a theorem of
  its own). Assumption: finitely many requests. That `lru` stays a sequence of
  deployments is left to TLC; no other part depends on it.
* **Runtime** (`WorkerdProofs`). `DirOutlivesProcess`, `ReadyIsOwn` and `RuntimesOwned`,
  whatever the operating system, workerd and the callers of Close do (no assumption
  on `WorkerdEnv`). None is inductive; `WorkerdInv` adds what an instance has at
  which point of its launch (`StageInv`: no process before the directory exists, a
  closed done channel means no process), who may close it when (`CloseInv`: a Close
  that returned leaves either a signalled process with a caller still waiting for
  it, or nothing), that every live instance but the current one has its drainer
  (`ServingInv`), and that at most one swap is under way and owns every process that
  does not listen yet (`AloneInv`). The last is what makes the unreserved port
  harmless: nobody but the new process can come to listen on it.
* **Configuration** (`WorkerdProofs`). `PageSeesItsOwn`, for any load set: what the entry
  worker finds for a page is the service with that page's modules, bindings and assets
  (`OwnService`), and the modules are exactly the page's files, index.js first, from what
  `Without` leaves of a sequence (`ModulesFound`). Assumption: no page twice in a load set
  (it is a map in the shim), module names in one order (`ConfigAssumption`).
* **Disk caches** (`CacheProofs`). First the index: what `ToFront`, `Without`, `BytesAfter`
  and `Kept` do to the entries and bytes of any sequence. They are recursive
  functions; `SeqLemmas` gets by without the library's induction theorems with an
  induction stated for sets (`SetInduction`, from the well-foundedness of `<`), which
  yields that the equations of a sum or a selection have a solution. Then
  `CacheSound`, by `CacheInv`: flights and their leaders (`FlightsLed`), the file a leader
  writes is outside the index until it adds it (`NewIsOutside`), an index that gave
  out a path is not empty (`FoundIsInside`), index, disk and bytes agree (`IndexInv`).
  `HubSound`, by `HubInv`: `LoadsLed`, `FilesOwn` (a file holds a stored object of the
  deployment and file in its key), `RepliesOwn`, `HubIndexInv`. Both action properties follow and make
  `HandedOutIsThere`. Assumptions: sizes are numbers, handlers are finitely many
  (`CacheAssumption`, `OpenersFinite`), and one id and file have one size
  (`HubAssumption`). Nothing is assumed of what clients ask for, nor that ids are unique:
  the part that needs it, `StoredBundleServed`, says so (`IdsUnique`). Postgres keeps ids
  unique (a primary key), the in-memory provider only within a page (see the observations).
* **Warnings** (`EdgeProofs`). `WarningsSound` counts silent requests and spaces warnings.
  `ClaimsSpaced` is the strengthening: times are spaced from the moment a handler's
  swap claims them, not from when its line is written, and the claims are ordered
  by `hostLast`.
* **Access log** (`EdgeProofs`). `AccessAccounted` puts every event in one place and all
  places in one order. `AccessInv` adds, place by place (`Placed`), that what is recorded
  comes before what is sent, that before the goroutine's batch and that before the
  buffer; that the goroutine holds a batch only while it ships; and that in pod-log mode
  nothing is under way. What `Flat` makes of the batches on a stream comes from the
  same induction as above (`FlatEnds`). Assumption: a buffer of at least one event
  (`AccessAssumption`). No assumption on `AccessEnv`: dials, streams and sinks may fail,
  the logger may close, at any step.
* **Usage log** (`ShimProofs`). `UsageSound` is about three things that hold together.
  *Places*: `Placed` puts the sink, the stream, the batch being built and the channel in
  one line in the order of emission, and gives the event of each finished request to
  exactly one of them, the lost events or the refused ones; what an action does to it
  is a fact about two sequences joined into one (`Joins`), proved once per kind of move.
  `LoopInv` says which place is empty when: as long as the process lives there is nothing
  on the stream unless the emitter waits for its answer. *Drops*: only the first event of
  a batch that was sent carries a count (`Queued`, `BatchTells`), and the counts of all
  places and the counter add up (`DropsEven`, with `Told` as a sum from the same
  induction as above). *Traces*: a handler that waits has an entry, in the map or, after
  the janitor swept it, in its hands (`HandlerInv`). That logs are cut visibly follows
  from what `capLogs` returns for any logs (`CapLogs`). Assumptions: finitely many
  requests, batches of at least one event, sizes that are numbers, none of which is
  the marker (`UsageAssumption`, `CapsAssumption`). No assumption on `UsageEnv`.
* **Which requests are recorded** (`EdgeProofs`). `StaticLoggedOnce` speaks of answered
  requests only; `LogInv` says of every request where it can be on which route, that
  nothing is recorded before the answer, and that a file is opened with a status other
  than the 502 of a failed open. The last rests on what the pipeline can answer for any
  site (`ServedStatus`: a status the parser of `_redirects` accepts, or 404).
  Assumption: requests are for known hosts, pages have a manifest and its rules were
  parsed (`RouterAssumption`). The static cache is left free: any file may fail to open.
* **Sites** (`EdgeProofs`). `SiteSound` is about what four recursions return: normalizing a
  path, looking for an error page, and parsing two files. Each is a function, and its
  equations have a solution by the induction for sets (`NormalExists`, `NearestFound`,
  `WithoutCounts`, `HeadersParse`); what normalizing leaves is names, with a slash behind
  them or not (`Normalized`), and what is such a path already stays as it is
  (`CleanKept`). That redirects end needs a measure, not an invariant on its own:
  `RedirectsLeft` gives each path the redirects it may still take, no more than two and
  its suffixes (`LeftTyped`), and each redirect of Resolve makes it smaller
  (`RedirectsDecrease`). `SiteInv` adds it to the redirects followed so far
  (`FollowsPretty`). The bound needs that no directory of a site is also a file: a pretty
  URL may lead from a file to its directory, whose own suffixes would come on top.
  Assumption: files are those of a tree, with names a file can have, and what a client
  asks for is a path (`SiteAssumption`); the limits of the parsers are numbers
  (`LimitsAssumption`). None on the rules, on `_routes.json` or on the worker. With
  `_redirects` a client may be sent in circles, by rules that say so: of such a site the
  theorem states that its rules can be used, not that redirects end.

* **Deploys** (`DeployProofs`). `DeployInv` says of every call that it carries what its
  place in its handler needs (`ReadyAt`: an upload has its build and tenant, a write its
  row, and that row comes from the page the call has seen) and of the database what
  the operations of each provider keep (`Rooted`). From it `ProvidersSound`: the
  references hold, and the two providers give the same answer to every operation but
  those listed above as different; and `UndisturbedWriteIsLocal`, the action property
  that a write of a page nobody changed since it was read changes only what its
  request names. `ServedIsWhole` needs a second invariant over the first, `WholeInv`: which
  objects a call has stored at which point of its upload (`PutBy`), that what is stored
  under a key came from an upload of that deployment (`StoredFrom`), that a recorded
  deployment is whole under a tenant its page was named with (`WholeAt`), and that the
  rows in the table and in the hands of calls name such a tenant and a whole deployment
  (`RowSound`, `CallSound`). The last is what the read-modify-write of a page needs: a stale
  row reverts an activation, but only to a deployment that was whole when the row was
  read, and nothing deletes objects. Assumptions: finitely many calls (`FiniteCalls`), well-formed values
  in requests (`RequestTypes`, `SeedTypes`; malformed ones are refused before they are
  used), the value for "omitted" is none of them (`NoneIsNoValue`), and no static asset's hash
  is the name of the manifest or of the worker bundle (`BuildTypes`). None on failures,
  crashes, the mode of the tools or the provider. Archives and builds are not opened here:
  these theorems hold whatever `Untar` and `Scan` return.
* **Archives** (`DeployProofs`). `BundleExact` is about what `Untar` and `Scan` return.
  `ExtractInv` follows the loop entry by entry: while there is no error, the budget left
  and the bytes copied are the cap together (`Budget`), the files are those the entries
  name with the content of the last one (`Exact`, over `LastIs` and `ArchiveGrows`), and the
  tree is one a disk can hold (`Nested`: no path is a file and a directory, everything
  is in its directory). The recursion over segments and entries is a function, so that
  it yields to the induction for sets of `SeqLemmas` (`FoldExists`): from it, that
  path.Clean adds no segment (`CleanProperties`) and that what is not refused stays inside
  the directory (`CleanInside`). `Nested` is what Scan needs: it survives the choice of the
  build root (`RootNested`), a file `_worker.js` has nothing below it, and as many modules
  are deployed as there are files in the directory of that name (`WorkerComplete`).
  Assumption: entries are well formed and a path is split at its slashes
  (`EntriesAssumption`).

All theorems hold for every finite set of requests, pods, items, consumers and
handlers and every value of the other constants allowed by the named assumptions.

Only model-checked: all liveness properties (fairness and ENABLED are outside the
prover); and the conjunction `EdgeTypeOK` of an instance, of which the parts about the admin API, the usage log, the access log and
workerd are theorems.

## Plan

1. The files of a deployment on the shim's disk beside the sweep, and the assets
   endpoint that reads them.
2. Dispatcher and router in one module, with the gRPC stream between them, instead of
   the environment each now has of the other.

## Not modelled

Lease and JWT cryptography, TLS, the Kubernetes objects themselves, the SQL of the
Postgres provider, object store clients, the redaction of secrets in log text, the
quoting of workerd's configuration, logging, the CLI beyond `deploy`, generated
protobuf code, the conformance suites (`queuetest`, `providertest`, `storagetest`) and
the chart: either no state of their own, or calls into a library. The copying of
workerd's output, the files of a deployment on the shim's disk (an eviction
removes them outside the lock) and the assets endpoint are left out as well.
