----------------------------- MODULE StaticCache -----------------------------
(***************************************************************************)
(* The static file cache of the router (pkg/router/staticcache) and the    *)
(* handlers that read a file through it (openBody in pkg/router).  An      *)
(* opener is a handler: it looks its hash up, or fetches the object from   *)
(* storage and puts it, and then opens the file.  Each step ends where the *)
(* code releases a lock or touches the disk.  The file of a hash holds the *)
(* bytes of that hash and nothing else: the bytes are not modelled.        *)
(***************************************************************************)
EXTENDS LruIndex, FiniteSets

CONSTANTS
  Hashes,      \* content hashes
  Size,        \* the bytes of each
  MaxBytes,    \* the budget of the cache
  Openers,     \* handlers
  MaxTemps,    \* bound: no restart with more temporary files than this
  CacheEnv     \* what may go wrong: "storage", "disk", "crash"

ASSUME CacheAssumption ==
  /\ Hashes # {}
  /\ Size \in [Hashes -> Nat]
  /\ MaxBytes \in Nat
  /\ MaxTemps \in Nat
ASSUME OpenersFinite == IsFiniteSet(Openers)

VARIABLES
  disk,        \* the files, oldest first
  temps,       \* the number of temporary files
  ll,          \* the index, most recently used first
  curBytes,
  flight,      \* the singleflight map, and the result of a flight that is over
  op           \* the openers
cacheVars == <<disk, temps, ll, curBytes, flight, op>>

OpAt(g, where) == op[g].at = where
OpTo(g, where) == op' = [op EXCEPT ![g].at = where]

IdleOp == [at |-> "idle", h |-> CHOOSE h \in Hashes : TRUE]

CacheTypeOK ==
  /\ disk \in Seq(Hashes) /\ ll \in Seq(Hashes)
  /\ temps \in Nat /\ curBytes \in Int
  /\ flight \in [Hashes -> {"none", "run", "ok", "err"}]
  /\ op \in [Openers -> [h : Hashes,
       at : {"idle", "open", "fetch", "put", "join", "wait", "recheck", "copy", "add",
             "ok", "err", "unmapOk", "unmapErr", "reopen", "served", "failed"}]]

\* Mutant of EvictLocked: the files go, their entries stay.
EvictFilesOnly(l, bytes, files, protect) ==
  LET n == Kept(Size, MaxBytes, l, bytes, protect)
  IN /\ ll' = l
     /\ curBytes' = bytes - BytesAfter(Size, l, n)
     /\ disk' = Without(files, RangeOf(SubSeq(l, n + 1, Len(l))))

(* evictLocked and removeLocked: the entries go, and their files.          *)
EvictLocked(l, bytes, files, protect) ==
  LET n == Kept(Size, MaxBytes, l, bytes, protect)
  IN /\ ll' = SubSeq(l, 1, n)
     /\ curBytes' = bytes - BytesAfter(Size, l, n)
     /\ disk' = Without(files, RangeOf(SubSeq(l, n + 1, Len(l))))

CacheInit ==
  /\ disk = <<>> /\ ll = <<>>
  /\ temps = 0 /\ curBytes = 0
  /\ flight = [h \in Hashes |-> "none"]
  /\ op = [g \in Openers |-> IdleOp]

(* Get: a hit is marked most recently used.                                *)
Get(g, h) ==
  /\ OpAt(g, "idle")
  /\ IF h \in RangeOf(ll)
       THEN ll' = ToFront(ll, h) /\ op' = [op EXCEPT ![g] = [at |-> "open", h |-> h]]
       ELSE op' = [op EXCEPT ![g] = [at |-> "fetch", h |-> h]] /\ UNCHANGED ll
  /\ UNCHANGED <<disk, temps, curBytes, flight>>

(* os.Open after a hit; a file that vanished is fetched again.             *)
OpenHit(g) ==
  /\ OpAt(g, "open")
  /\ OpTo(g, IF op[g].h \in RangeOf(disk) THEN "served" ELSE "fetch")
  /\ UNCHANGED <<disk, temps, ll, curBytes, flight>>

FetchStatic(g) ==
  /\ OpAt(g, "fetch")
  /\ OpTo(g, "put") \/ ("storage" \in CacheEnv /\ OpTo(g, "failed"))
  /\ UNCHANGED <<disk, temps, ll, curBytes, flight>>

(* Put, before the flight: the hash may be there by now.                   *)
PutCheck(g) ==
  /\ OpAt(g, "put")
  /\ IF op[g].h \in RangeOf(ll)
       THEN ll' = ToFront(ll, op[g].h) /\ OpTo(g, "reopen")
       ELSE OpTo(g, "join") /\ UNCHANGED ll
  /\ UNCHANGED <<disk, temps, curBytes, flight>>

\* Mutant of Join: a flight that is over does not count.
JoinRunning(g) ==
  LET f == flight[op[g].h]
  IN /\ OpAt(g, "join")
     /\ IF f = "run" THEN OpTo(g, "wait") /\ UNCHANGED flight
                     ELSE OpTo(g, "recheck") /\ flight' = [flight EXCEPT ![op[g].h] = "run"]
     /\ UNCHANGED <<disk, temps, ll, curBytes>>

(* singleflight.Do: lead, wait, or find a flight that is over and not yet  *)
(* out of the map.                                                         *)
Join(g) ==
  LET f == flight[op[g].h]
  IN /\ OpAt(g, "join")
     /\ \/ f = "none" /\ OpTo(g, "recheck") /\ flight' = [flight EXCEPT ![op[g].h] = "run"]
        \/ f = "run" /\ OpTo(g, "wait") /\ UNCHANGED flight
        \/ f = "ok" /\ OpTo(g, "reopen") /\ UNCHANGED flight
        \/ f = "err" /\ OpTo(g, "failed") /\ UNCHANGED flight
     /\ UNCHANGED <<disk, temps, ll, curBytes>>

(* The leader looks again, or opens a temporary file.                      *)
Recheck(g) ==
  /\ OpAt(g, "recheck")
  /\ \/ /\ op[g].h \in RangeOf(ll)
        /\ ll' = ToFront(ll, op[g].h)
        /\ OpTo(g, "ok") /\ UNCHANGED temps
     \/ /\ op[g].h \notin RangeOf(ll)
        /\ \/ OpTo(g, "copy") /\ temps' = temps + 1
           \/ "disk" \in CacheEnv /\ OpTo(g, "err") /\ UNCHANGED temps
        /\ UNCHANGED ll
  /\ UNCHANGED <<disk, curBytes, flight>>

(* putSlow: the copy and the rename, or the removal of the temporary file. *)
CopyRename(g) ==
  /\ OpAt(g, "copy")
  /\ temps' = temps - 1
  /\ \/ disk' = Append(Without(disk, {op[g].h}), op[g].h) /\ OpTo(g, "add")
     \/ CacheEnv \cap {"storage", "disk"} # {} /\ OpTo(g, "err") /\ UNCHANGED disk
  /\ UNCHANGED <<ll, curBytes, flight>>

\* Mutant of AddEvict: the new entry is not protected.
AddEvictAny(g) ==
  LET h == op[g].h
  IN /\ OpAt(g, "add")
     /\ EvictLocked(ToFront(ll, h),
                    IF h \in RangeOf(ll) THEN curBytes ELSE curBytes + Size[h], disk, {})
     /\ OpTo(g, "ok")
     /\ UNCHANGED <<temps, flight>>

(* putSlow: addLocked and evictLocked.                                     *)
AddEvict(g) ==
  LET h == op[g].h
  IN /\ OpAt(g, "add")
     /\ EvictLocked(ToFront(ll, h),
                    IF h \in RangeOf(ll) THEN curBytes ELSE curBytes + Size[h], disk, {h})
     /\ OpTo(g, "ok")
     /\ UNCHANGED <<temps, flight>>

\* Mutant of Land: nobody is woken.
LandAlone(g) ==
  LET good == OpAt(g, "ok")
  IN /\ op[g].at \in {"ok", "err"}
     /\ flight' = [flight EXCEPT ![op[g].h] = IF good THEN "ok" ELSE "err"]
     /\ OpTo(g, IF good THEN "unmapOk" ELSE "unmapErr")
     /\ UNCHANGED <<disk, temps, ll, curBytes>>

(* The flight is over: its waiters go on with its result, the leader still *)
(* has to take it out of the map.                                          *)
Land(g) ==
  LET h == op[g].h
      good == OpAt(g, "ok")
  IN /\ op[g].at \in {"ok", "err"}
     /\ flight' = [flight EXCEPT ![h] = IF good THEN "ok" ELSE "err"]
     /\ op' = [x \in Openers |->
          CASE x = g -> [op[x] EXCEPT !.at = IF good THEN "unmapOk" ELSE "unmapErr"]
            [] x # g /\ OpAt(x, "wait") /\ op[x].h = h ->
                 [op[x] EXCEPT !.at = IF good THEN "reopen" ELSE "failed"]
            [] OTHER -> op[x]]
     /\ UNCHANGED <<disk, temps, ll, curBytes>>

Unmap(g) ==
  /\ op[g].at \in {"unmapOk", "unmapErr"}
  /\ flight' = [flight EXCEPT ![op[g].h] = "none"]
  /\ OpTo(g, IF OpAt(g, "unmapOk") THEN "reopen" ELSE "failed")
  /\ UNCHANGED <<disk, temps, ll, curBytes>>

(* os.Open of the path Put returned.                                       *)
OpenPut(g) ==
  /\ OpAt(g, "reopen")
  /\ OpTo(g, IF op[g].h \in RangeOf(disk) THEN "served" ELSE "failed")
  /\ UNCHANGED <<disk, temps, ll, curBytes, flight>>

Done(g) ==
  /\ op[g].at \in {"served", "failed"}
  /\ op' = [op EXCEPT ![g] = IdleOp]
  /\ UNCHANGED <<disk, temps, ll, curBytes, flight>>

\* Mutant of Restart: the bytes of the files found are not counted.
RestartUncounted ==
  /\ "crash" \in CacheEnv
  /\ temps <= MaxTemps
  /\ op' = [g \in Openers |-> IdleOp]
  /\ flight' = [h \in Hashes |-> "none"]
  /\ LET scan == [i \in DOMAIN disk |-> disk[Len(disk) - i + 1]]
     IN EvictLocked(scan, 0, disk, {})
  /\ UNCHANGED temps

(* The router dies and comes back: New scans the directory, oldest file    *)
(* first.  Temporary files have no hash name and stay where they are.      *)
Restart ==
  /\ "crash" \in CacheEnv
  /\ temps <= MaxTemps
  /\ op' = [g \in Openers |-> IdleOp]
  /\ flight' = [h \in Hashes |-> "none"]
  /\ LET scan == [i \in DOMAIN disk |-> disk[Len(disk) - i + 1]]
     IN EvictLocked(scan, BytesAfter(Size, scan, 0), disk, {})
  /\ UNCHANGED temps

OpenStep(g) ==
  \/ OpenHit(g) \/ FetchStatic(g) \/ PutCheck(g) \/ Join(g) \/ Recheck(g) \/ CopyRename(g)
  \/ AddEvict(g) \/ Land(g) \/ Unmap(g) \/ OpenPut(g)

CacheNext ==
  \/ \E g \in Openers : (\E h \in Hashes : Get(g, h)) \/ OpenStep(g) \/ Done(g)
  \/ Restart

CacheSpec == CacheInit /\ [][CacheNext]_cacheVars

-----------------------------------------------------------------------------
(* The index never promises a file that is not there: Get and Put answer   *)
(* with a path the disk had when they looked.                              *)
IndexedOnDisk == RangeOf(ll) \subseteq RangeOf(disk)

(* A hash has one leader at a time, from the entry in the flight map to    *)
(* its removal, and whoever waits has a leader that is still running.      *)
Leading(g) == op[g].at \in {"recheck", "copy", "add", "ok", "err", "unmapOk", "unmapErr"}

OneLeader ==
  /\ \A g, x \in Openers : Leading(g) /\ Leading(x) /\ op[g].h = op[x].h => g = x
  /\ \A g \in Openers : OpAt(g, "wait") =>
       \E x \in Openers : Leading(x) /\ op[x].h = op[g].h /\ flight[op[g].h] = "run"

(* The files are those of the index and those about to enter it, the byte  *)
(* count is that of the index, and the index is over budget only when one  *)
(* file alone is.                                                          *)
BudgetHeld ==
  /\ \A h \in RangeOf(disk) : h \in RangeOf(ll) \/ \E g \in Openers : OpAt(g, "add") /\ op[g].h = h
  /\ curBytes = BytesAfter(Size, ll, 0)
  /\ \A i, j \in DOMAIN ll : ll[i] = ll[j] => i = j
  /\ curBytes <= MaxBytes \/ Len(ll) = 1

(* The path Put returns is live, even when its file alone is over budget:  *)
(* openBody finds it gone only if a rival has put another file since.      *)
PutPathLive ==
  [][\A g \in Openers : OpAt(g, "reopen") /\ op'[g].at = "failed" =>
       Len(ll) > 0 /\ op[g].h \notin RangeOf(ll)]_cacheVars

(* The index, the files and the flights of the cache agree at every moment *)
(* of concurrent misses, evictions and a restart.                          *)
CacheSound == IndexedOnDisk /\ OneLeader /\ BudgetHeld
=============================================================================
