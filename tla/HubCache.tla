------------------------------ MODULE HubCache ------------------------------
(***************************************************************************)
(* The bundle download API of the hub and its disk cache (pkg/hub/http.go  *)
(* and cache.go).  A download is for one file (the bundle or the manifest) *)
(* of one deployment; the cache knows it by deployment and file, storage   *)
(* by tenant and page as well.  Each step ends where the code releases the *)
(* lock of the cache, reads storage or opens a file.                       *)
(***************************************************************************)
EXTENDS LruIndex, FiniteSets

CONSTANTS
  Downloads,     \* the requests: tenant, page, dep, file, token, etag, valid
  HubUploads,    \* the objects that uploads may put into storage
  FileSize,      \* the bytes of a file of a deployment: [dep, file] -> Nat
  HubMaxBytes,   \* the budget of the cache
  Callers,
  Fetches,       \* the requests each caller may send
  HubNone,
  HubEnv         \* what may happen: "cancel", "storage", "crash", "upload"

VARIABLES
  stored,      \* the storage keys that have an object
  hubOn,       \* whether a cache is configured
  hubDisk,     \* cache key -> storage key of the bytes in its file, or HubNone
  hubLru,      \* the index, most recently used first
  hubBytes,
  inflight,    \* the cache keys being loaded
  hubCall      \* the callers
hubVars == <<stored, hubOn, hubDisk, hubLru, hubBytes, inflight, hubCall>>

StorageKey(d) == [tenant |-> d.tenant, page |-> d.page, dep |-> d.dep, file |-> d.file]
\* Mutant of CacheKey: the file is left out.
CacheKeyOfDeployment(d) == [dep |-> d.dep, file |-> "bundle"]

CacheKey(d) == [dep |-> d.dep, file |-> d.file]
CacheKeys == {CacheKey(d) : d \in Downloads}
HubObjects == {StorageKey(d) : d \in Downloads}

(* A client may ask for a deployment under any tenant and page: nothing is *)
(* assumed of that, nor that ids are unique in storage (IdsUnique says it  *)
(* where it is needed).  One id and file have one size.                    *)
ASSUME HubAssumption ==
  /\ Downloads # {}
  /\ HubUploads \subseteq HubObjects
  /\ FileSize \in [CacheKeys -> Nat] /\ HubMaxBytes \in Nat
  /\ HubNone \notin HubObjects
  /\ \A c \in Callers : Fetches[c] \subseteq Downloads

CallKey(c) == CacheKey(hubCall[c].d)
CallAt(c, where) == hubCall[c].at = where
Move(c, where) == hubCall' = [hubCall EXCEPT ![c].at = where]
Reply(c, status, body) ==
  hubCall' = [hubCall EXCEPT ![c].at = "replied", ![c].status = status, ![c].body = body]

(* ctx is the context of the request: live until its client hangs up.      *)
NewCall(d, at, status) == [at |-> at, d |-> d, ctx |-> "live", status |-> status, body |-> HubNone]
IdleCall == NewCall(CHOOSE d \in Downloads : TRUE, "idle", 0)
HubLive(c) == hubCall[c].ctx = "live"

HubTypeOK ==
  /\ stored \subseteq HubObjects /\ hubOn \in BOOLEAN
  /\ hubDisk \in [CacheKeys -> HubObjects \cup {HubNone}]
  /\ hubLru \in Seq(CacheKeys) /\ hubBytes \in Int
  /\ inflight \subseteq CacheKeys
  /\ hubCall \in [Callers -> [d : Downloads, ctx : {"live", "cancelled"}, body : HubObjects \cup {HubNone},
       status : {0, 200, 304, 400, 401, 403, 404, 500},
       at : {"idle", "lookup", "wait", "load", "loaded", "missing", "broken", "open",
             "direct", "replied"}]]

HubInit ==
  /\ stored = {}
  /\ hubOn \in BOOLEAN
  /\ hubDisk = [k \in CacheKeys |-> HubNone]
  /\ hubLru = <<>> /\ hubBytes = 0 /\ inflight = {}
  /\ hubCall = [c \in Callers |-> IdleCall]

(* A download has valid identifiers or not, a token for one tenant or none *)
(* that verifies, and an entity tag, "*" for any.                          *)
invalidParam(d) == ~d.valid
authenticate(d) == d.token # HubNone
ifNoneMatchMatches(d) == d.etag \in {"*", d.dep}

(* handleBundle: the path, the token and its tenant, the validator.        *)
Download(c, d) ==
  /\ CallAt(c, "idle")
  /\ LET new(at, status) == hubCall' = [hubCall EXCEPT ![c] = NewCall(d, at, status)]
     IN CASE invalidParam(d) -> new("replied", 400)
          [] ~invalidParam(d) /\ ~authenticate(d) -> new("replied", 401)
          [] ~invalidParam(d) /\ authenticate(d) /\ d.token # d.tenant -> new("replied", 403)
          [] ~invalidParam(d) /\ authenticate(d) /\ d.token = d.tenant /\ ifNoneMatchMatches(d) -> new("replied", 304)
          [] OTHER -> new(IF hubOn THEN "lookup" ELSE "direct", 0)
  /\ UNCHANGED <<stored, hubOn, hubDisk, hubLru, hubBytes, inflight>>

\* Mutant of GetOrLoad: everybody loads.
GetOrLoadAlone(c) ==
  /\ CallAt(c, "lookup")
  /\ IF CallKey(c) \in RangeOf(hubLru)
       THEN hubLru' = ToFront(hubLru, CallKey(c)) /\ Move(c, "open") /\ UNCHANGED inflight
       ELSE inflight' = inflight \cup {CallKey(c)} /\ Move(c, "load") /\ UNCHANGED hubLru
  /\ UNCHANGED <<stored, hubOn, hubDisk, hubBytes>>

(* getOrLoad: a hit, a load to wait for, or a load to do.                  *)
GetOrLoad(c) ==
  /\ CallAt(c, "lookup")
  /\ \/ CallKey(c) \in RangeOf(hubLru) /\ hubLru' = ToFront(hubLru, CallKey(c))
          /\ Move(c, "open") /\ UNCHANGED inflight
     \/ CallKey(c) \notin RangeOf(hubLru) /\ CallKey(c) \in inflight
          /\ Move(c, "wait") /\ UNCHANGED <<hubLru, inflight>>
     \/ CallKey(c) \notin RangeOf(hubLru) /\ CallKey(c) \notin inflight
          /\ inflight' = inflight \cup {CallKey(c)} /\ Move(c, "load") /\ UNCHANGED hubLru
  /\ UNCHANGED <<stored, hubOn, hubDisk, hubBytes>>

(* fetch with the context of this caller: the file is in place, or nothing *)
(* is.                                                                     *)
FetchObject(c) ==
  /\ CallAt(c, "load")
  /\ \/ /\ StorageKey(hubCall[c].d) \in stored /\ HubLive(c)
        /\ hubDisk' = [hubDisk EXCEPT ![CallKey(c)] = StorageKey(hubCall[c].d)]
        /\ Move(c, "loaded")
     \/ /\ StorageKey(hubCall[c].d) \notin stored /\ HubLive(c)
        /\ Move(c, "missing") /\ UNCHANGED hubDisk
     \/ /\ ~HubLive(c) \/ "storage" \in HubEnv
        /\ Move(c, "broken") /\ UNCHANGED hubDisk
  /\ UNCHANGED <<stored, hubOn, hubLru, hubBytes, inflight>>

\* Mutant of HubKept: the entry just inserted always stays.
HubKeptNewest(l, bytes) ==
  CHOOSE n \in 1..Len(l) :
    /\ bytes - BytesAfter(FileSize, l, n) <= HubMaxBytes \/ n = 1
    /\ \A m \in (n + 1)..Len(l) : bytes - BytesAfter(FileSize, l, m) > HubMaxBytes

(* evictLocked protects nothing.                                           *)
HubKept(l, bytes) == Kept(FileSize, HubMaxBytes, l, bytes, {})

(* insertLocked: the entry just inserted may go as well.                   *)
InsertLocked(k) ==
  IF k \in RangeOf(hubLru) THEN UNCHANGED <<hubLru, hubBytes, hubDisk>>
  ELSE LET l == <<k>> \o hubLru
           bytes == hubBytes + FileSize[k]
           n == HubKept(l, bytes)
           out == RangeOf(SubSeq(l, n + 1, Len(l)))
       IN /\ hubLru' = SubSeq(l, 1, n)
          /\ hubBytes' = bytes - BytesAfter(FileSize, l, n)
          /\ hubDisk' = [x \in CacheKeys |-> IF x \in out THEN HubNone ELSE hubDisk[x]]

(* The loader hands its result to everyone waiting for the key.            *)
AfterLoad(x, c) ==
  IF x = c \/ (CallAt(x, "wait") /\ CallKey(x) = CallKey(c))
    THEN CASE CallAt(c, "loaded")  -> [hubCall[x] EXCEPT !.at = "open"]
           [] CallAt(c, "missing") -> [hubCall[x] EXCEPT !.at = "replied", !.status = 404]
           [] CallAt(c, "broken")  -> [hubCall[x] EXCEPT !.at = "replied", !.status = 500]
    ELSE hubCall[x]

LoadDone(c) ==
  /\ hubCall[c].at \in {"loaded", "missing", "broken"}
  /\ inflight' = inflight \ {CallKey(c)}
  /\ IF CallAt(c, "loaded") THEN InsertLocked(CallKey(c)) ELSE UNCHANGED <<hubLru, hubBytes, hubDisk>>
  /\ hubCall' = [x \in Callers |-> AfterLoad(x, c)]
  /\ UNCHANGED <<stored, hubOn>>

\* Mutant of OpenCached: an evicted file is an error.
OpenCachedOrFail(c) ==
  /\ CallAt(c, "open")
  /\ IF hubDisk[CallKey(c)] # HubNone THEN Reply(c, 200, hubDisk[CallKey(c)])
                                     ELSE Reply(c, 500, HubNone)
  /\ UNCHANGED <<stored, hubOn, hubDisk, hubLru, hubBytes, inflight>>

(* serveCached: the file, or a direct stream when it has been evicted.     *)
OpenCached(c) ==
  /\ CallAt(c, "open")
  /\ IF hubDisk[CallKey(c)] # HubNone THEN Reply(c, 200, hubDisk[CallKey(c)]) ELSE Move(c, "direct")
  /\ UNCHANGED <<stored, hubOn, hubDisk, hubLru, hubBytes, inflight>>

ServeDirect(c) ==
  LET k == StorageKey(hubCall[c].d)
  IN /\ CallAt(c, "direct")
     /\ \/ k \in stored /\ Reply(c, 200, k)
        \/ k \notin stored /\ Reply(c, 404, HubNone)
        \/ (~HubLive(c) \/ "storage" \in HubEnv) /\ Reply(c, 500, HubNone)
     /\ UNCHANGED <<stored, hubOn, hubDisk, hubLru, hubBytes, inflight>>

HangUp(c) ==
  /\ "cancel" \in HubEnv
  /\ hubCall[c].at \notin {"idle", "replied"} /\ HubLive(c)
  /\ hubCall' = [hubCall EXCEPT ![c].ctx = "cancelled"]
  /\ UNCHANGED <<stored, hubOn, hubDisk, hubLru, hubBytes, inflight>>

NextCall(c) ==
  /\ CallAt(c, "replied")
  /\ hubCall' = [hubCall EXCEPT ![c] = IdleCall]
  /\ UNCHANGED <<stored, hubOn, hubDisk, hubLru, hubBytes, inflight>>

Upload(k) ==
  /\ "upload" \in HubEnv /\ k \in HubUploads \ stored
  /\ stored' = stored \cup {k}
  /\ UNCHANGED <<hubOn, hubDisk, hubLru, hubBytes, inflight, hubCall>>

(* newDiskCache starts from an empty index over whatever files are there.  *)
HubRestart ==
  /\ "crash" \in HubEnv
  /\ hubLru' = <<>> /\ hubBytes' = 0 /\ inflight' = {}
  /\ hubCall' = [c \in Callers |-> IdleCall]
  /\ UNCHANGED <<stored, hubOn, hubDisk>>

CallStep(c) ==
  GetOrLoad(c) \/ FetchObject(c) \/ LoadDone(c) \/ OpenCached(c) \/ ServeDirect(c)

HubNext ==
  \/ \E c \in Callers :
       (\E d \in Fetches[c] : Download(c, d)) \/ CallStep(c) \/ HangUp(c) \/ NextCall(c)
  \/ \E k \in HubObjects : Upload(k)
  \/ HubRestart

HubSpec == HubInit /\ [][HubNext]_hubVars

-----------------------------------------------------------------------------
(* A download that is answered with bytes gets an object that has been     *)
(* stored, of the deployment and file it asked for, whether they come from *)
(* the cache, from the load of another caller, from a file an earlier      *)
(* process left behind, or directly (serveCached, getOrLoad, serveDirect). *)
DeploymentIsRequested ==
  \A c \in Callers : hubCall[c].status = 200 =>
    LET body == hubCall[c].body
    IN  body \in stored /\ body.dep = hubCall[c].d.dep /\ body.file = hubCall[c].d.file

(* Storage holds the files of a deployment under one tenant and page.      *)
IdsUnique == \A j, k \in stored : j.dep = k.dep => j.tenant = k.tenant /\ j.page = k.page

(* While that is so, a request that names the page of a stored deployment  *)
(* gets the object of that page: the cache key, which leaves tenant and    *)
(* page out (handleBundle, serveCached), does no harm to such a request.   *)
StoredBundleServed ==
  IdsUnique => \A c \in Callers :
    hubCall[c].status = 200 /\ StorageKey(hubCall[c].d) \in stored
      => hubCall[c].body = StorageKey(hubCall[c].d)

(* One load per key, and a caller that waits has a loader: getOrLoad.      *)
LoadsCollapse ==
  /\ \A k \in inflight :
       Cardinality({c \in Callers : hubCall[c].at \in {"load", "loaded", "missing", "broken"}
                                    /\ CallKey(c) = k}) = 1
  /\ \A c \in Callers : CallAt(c, "wait") => CallKey(c) \in inflight

(* Every indexed file is on disk, the index is within its budget and the   *)
(* byte count is exact.                                                    *)
HubIndexSound ==
  /\ \A k \in RangeOf(hubLru) : hubDisk[k] # HubNone
  /\ hubBytes = BytesAfter(FileSize, hubLru, 0) /\ hubBytes <= HubMaxBytes
  /\ \A i, j \in DOMAIN hubLru : hubLru[i] = hubLru[j] => i = j

(* The download cache gives every caller the deployment it asked for, from *)
(* one load per key, through an index that is right about the disk.        *)
HubSound == DeploymentIsRequested /\ StoredBundleServed /\ LoadsCollapse /\ HubIndexSound

(* An evicted or oversized bundle is still delivered: a caller that is     *)
(* still there and whose file is in storage is refused with 404 or 500     *)
(* only for a load that failed before it could read, never because the     *)
(* cache dropped the file (serveCached falls back to a direct stream).     *)
EvictionNeverRefuses ==
  [][\A c \in Callers :
       /\ CallAt(c, "open") \/ CallAt(c, "direct")
       /\ HubLive(c) /\ "storage" \notin HubEnv
       /\ StorageKey(hubCall[c].d) \in stored
       /\ hubCall'[c].status # hubCall[c].status
       => hubCall'[c].status = 200]_hubVars
=============================================================================
