----------------------------- MODULE Dispatcher -----------------------------
(***************************************************************************)
(* The slot dispatcher of the DuruPages controller for one tenant:         *)
(* AcquireSlot / ReleaseSlot (pkg/controller/dispatcher.go), the tenant's  *)
(* dispatch goroutine, Register and Heartbeat of the worker pods, and the  *)
(* periodic maintenance pass (pkg/controller/reconcile.go).                *)
(*                                                                         *)
(* One action is one critical section (t.mu, leaseMu, w.mu or the queue's  *)
(* mutex) together with the thread-local code up to the next one.  A       *)
(* request of Req is one AcquireSlot call and the slot it may be given; a  *)
(* member of Pods is one pod name, names being random and never reused.    *)
(***************************************************************************)
EXTENDS Integers, Sequences, FiniteSets, Functions, SequencesExt, Scaler

CONSTANTS
  Req,      \* AcquireSlot calls
  Pods,     \* pod names the controller may draw (bounds pod creation)
  Pages,    \* pages of the tenant
  PageOf,   \* the page each request asks for
  Reports,  \* the sets of loaded pages a heartbeat may report
  Cap,      \* Defaults.MaxConcurrencyPerPod
  Target,   \* Defaults.TargetConcurrencyPerPod
  MaxPods,  \* the tenant's pod ceiling (resolveMaxPods)
  Env,      \* what the environment may do in this instance, a subset of Events
  NoReq,    \* "no request"
  NoPod     \* "no pod"

Events == {"expire",    \* a queue timeout passes
           "overdue",   \* a lease outlives its deadline and grace
           "idle",      \* a pod stays idle for longer than IdleTTL
           "gone",      \* the router's stream is cancelled
           "lost",      \* a router never releases its lease
           "nopage",    \* Provider.GetPage fails
           "sign",      \* signing a lease fails
           "spec",      \* buildPodSpec fails
           "create",    \* Pods.Create fails
           "delete",    \* Pods.Delete fails
           "list",      \* Pods.List fails
           "crash",     \* a pod's container exits (PodFailed)
           "vanish",    \* a pod disappears from the cluster
           "deadline",  \* a pod has not registered by its deadline
           "slow",      \* Pods.Create or a maintenance pass outlasts the drift grace
           "late"}      \* a Register is repeated, or races deletePod

ASSUME ReqAssumption  == IsFiniteSet(Req) /\ NoReq \notin Req
ASSUME PodsAssumption == IsFiniteSet(Pods) /\ NoPod \notin Pods
ASSUME PageAssumption == PageOf \in [Req -> Pages] /\ Reports \subseteq SUBSET Pages
ASSUME SizeAssumption == Cap \in Nat \ {0} /\ Target \in Nat /\ MaxPods \in Nat
ASSUME EnvAssumption  == Env \subseteq Events

VARIABLES
  \* the tenant: pool, pendingPlacement, slotFreed
  phase,      \* pod -> phase of its entry in t.pods, "none" without one
  inFlight,   \* pod -> the entry's inFlight
  loaded,     \* pod -> pages its last heartbeat reported
  pending,    \* t.pendingPlacement
  slotFreed,  \* the buffered (1) signal channel holds a token
  \* the cluster
  kube,       \* pod -> what the cluster has under that name
  \* requests, their waiters and their leases
  pc,         \* request -> where its AcquireSlot handler is, or its outcome
  ctx,        \* request -> "live", "expired" (queue timeout), "gone" (stream cancelled),
              \*            "done" (the handler has returned: defer cancel())
  queue,      \* the tenant's FIFO
  waiters,    \* requests in c.waiters
  settled,    \* request -> waiter.settled
  delivered,  \* request -> waiter.result holds a lease
  stage,      \* request -> "none", "reserved" (tryReserve done), "leased" (in c.leases),
              \*            "freeing" (removed from c.leases, pod not yet decremented)
  on,         \* request -> pod of the reservation or lease
  detached,   \* reservations whose pod object has left the pool
  \* the dispatch goroutine
  dpc, ditem,
  \* deletePod calls and the maintenance pass
  reaps,      \* pods a heartbeat has spawned a deletePod for
  deleting,   \* <<pod, caller>>: entry removed, Pods.Delete and the rest to come
  mpc, mcur, mdead, mok, mlisted, mfailed, morphans, mdrain, mdel

poolVars  == <<phase, inFlight, loaded, detached>>
slotVars  == <<stage, on>>
waitVars  == <<waiters, settled, delivered>>
dispVars  == <<pending, dpc, ditem>>
maintVars == <<mpc, mcur, mdead, mok, mlisted, mfailed, morphans, mdrain, mdel>>
delVars   == <<reaps, deleting>>
vars == <<poolVars, slotFreed, kube, pc, ctx, queue, waitVars, slotVars,
          dispVars, delVars, maintVars>>

-----------------------------------------------------------------------------
(* The pool. *)

Tracked       == {p \in Pods : phase[p] # "none"}
InPhase(f)    == {p \in Pods : phase[p] = f}
Depth         == Len(queue)

\* The sum of inFlight over the ready pods, as the number of slots in use.
ReadyInFlight == Cardinality(UNION {{p} \X (1..inFlight[p]) : p \in InPhase("ready")})

\* Mutant of FreePods: one slot too many.
FreePodsOffByOne == {p \in InPhase("ready") : inFlight[p] <= Cap}

\* Pods with a free slot, and the ones tryReserve may pick for a page.
FreePods   == {p \in InPhase("ready") : inFlight[p] < Cap}
Best(page) == BestPods(FreePods, {p \in Pods : page \in loaded[p]}, inFlight)

\* tryReserve succeeding for request r with pod p.
Reserve(r, p) ==
  /\ p \in Best(PageOf[r])
  /\ inFlight' = [inFlight EXCEPT ![p] = @ + 1]
  /\ stage' = [stage EXCEPT ![r] = "reserved"]
  /\ on' = [on EXCEPT ![r] = p]

\* Mutant of ReleaseSlotOf: no floor.
ReleaseSlotNoFloor(p) == inFlight' = [inFlight EXCEPT ![p] = @ - 1]

\* releaseSlot: never below zero.
ReleaseSlotOf(p) == inFlight' = [inFlight EXCEPT ![p] = IF @ > 0 THEN @ - 1 ELSE 0]

\* The entries of S leave t.pods; reservations made on them keep the object.
Untrack(S) ==
  /\ phase'    = [p \in Pods |-> IF p \in S THEN "none" ELSE phase[p]]
  /\ inFlight' = [p \in Pods |-> IF p \in S THEN 0 ELSE inFlight[p]]
  /\ loaded'   = [p \in Pods |-> IF p \in S THEN {} ELSE loaded[p]]
  /\ detached' = detached \cup {r \in Req : stage[r] = "reserved" /\ on[r] \in S}

\* deletePod up to its unlock: nothing happens when the entry is already gone.
StartDelete(p, caller) ==
  /\ Untrack({p})
  /\ deleting' = IF phase[p] = "none" THEN deleting ELSE deleting \cup {<<p, caller>>}

\* Request r occupies no slot any more.
DropSlot(r) ==
  /\ stage' = [stage EXCEPT ![r] = "none"]
  /\ on' = [on EXCEPT ![r] = NoPod]

\* Mutant of UndoReservation: the failed lease keeps its slot.
UndoForgetsSlot(r) ==
  /\ "sign" \in Env
  /\ DropSlot(r)
  /\ detached' = detached \ {r}
  /\ slotFreed' = TRUE
  /\ UNCHANGED inFlight

\* Signing failed: releaseSlot(p) on the reserved object, then signalSlot.
UndoReservation(r) ==
  /\ "sign" \in Env
  /\ DropSlot(r)
  /\ detached' = detached \ {r}
  /\ IF r \in detached THEN UNCHANGED inFlight ELSE ReleaseSlotOf(on[r])
  /\ slotFreed' = TRUE

\* buildLease recording the lease under the pod's name.
RecordLease(r) ==
  /\ stage' = [stage EXCEPT ![r] = "leased"]
  /\ detached' = detached \ {r}

-----------------------------------------------------------------------------
Init ==
  /\ phase     = [p \in Pods |-> "none"]
  /\ inFlight  = [p \in Pods |-> 0]
  /\ loaded    = [p \in Pods |-> {}]
  /\ kube      = [p \in Pods |-> "none"]
  /\ pending   = FALSE
  /\ slotFreed = FALSE
  /\ pc        = [r \in Req |-> "new"]
  /\ ctx       = [r \in Req |-> "live"]
  /\ queue     = <<>>
  /\ waiters   = {}
  /\ settled   = [r \in Req |-> FALSE]
  /\ delivered = [r \in Req |-> FALSE]
  /\ stage     = [r \in Req |-> "none"]
  /\ on        = [r \in Req |-> NoPod]
  /\ detached  = {}
  /\ dpc = "dequeue" /\ ditem = NoReq
  /\ reaps = {} /\ deleting = {}
  /\ mpc = "scan" /\ mcur = <<NoReq, NoPod>> /\ mdead = {} /\ mok = FALSE
  /\ mlisted = {} /\ mfailed = {} /\ morphans = {} /\ mdrain = {} /\ mdel = {}

-----------------------------------------------------------------------------
(* AcquireSlot. *)

\* Mutant of Shortfall: pods still being created are not counted.
ShortfallIgnoresCreating ==
  LET desired == AtMost(DesiredPods(ReadyInFlight, Depth, Target, MaxPods), AtLeast(MaxPods, 1))
  IN  AtLeast(desired - Cardinality(InPhase("ready")), 0)

\* How many pods maybeScaleUp is short of: desired minus (ready + creating).
Shortfall ==
  LET desired   == AtMost(DesiredPods(ReadyInFlight, Depth, Target, MaxPods), AtLeast(MaxPods, 1))
      effective == Cardinality(InPhase("ready") \cup InPhase("creating"))
  IN  AtLeast(desired - effective, 0)

\* The sets of new entries maybeScaleUp may add: the shortfall, fewer when
\* building a spec fails (or when the bound on pod names is reached).
NewPods ==
  LET fresh == {p \in Pods : kube[p] = "none"}
      want  == AtMost(Shortfall, Cardinality(fresh))
  IN  {S \in SUBSET fresh : IF "spec" \in Env THEN Cardinality(S) <= want ELSE Cardinality(S) = want}

\* The handler returns: its ctx is cancelled, its waiter unregistered.
Return(r, outcome) ==
  /\ pc' = [pc EXCEPT ![r] = outcome]
  /\ ctx' = [ctx EXCEPT ![r] = "done"]
  /\ waiters' = waiters \ {r}

\* GetPage, then maybeScaleUp: the creating entries are added under t.mu and
\* one goroutine per entry starts its Pods.Create.
AcquireSlot(r) ==
  /\ pc[r] = "new"
  /\ \E new \in NewPods :
       /\ phase' = [p \in Pods |-> IF p \in new THEN "creating" ELSE phase[p]]
       /\ kube'  = [p \in Pods |-> IF p \in new THEN "creating" ELSE kube[p]]
  /\ pc' = [pc EXCEPT ![r] = "admit"]
  /\ UNCHANGED <<inFlight, loaded, detached, slotFreed, ctx, queue, waitVars, slotVars,
                 dispVars, delVars, maintVars>>

\* Provider.GetPage fails: NotFound, nothing else happens.
PageNotFound(r) ==
  /\ "nopage" \in Env
  /\ pc[r] = "new"
  /\ Return(r, "notfound")
  /\ UNCHANGED <<poolVars, slotFreed, kube, queue, settled, delivered, slotVars,
                 dispVars, delVars, maintVars>>

\* The condition of the immediate-assignment fast path.
FastPathOpen == Depth = 0 /\ ~pending

AdmitFast(r) ==
  /\ pc[r] = "admit"
  /\ FastPathOpen
  /\ \E p \in Pods : Reserve(r, p)
  /\ pc' = [pc EXCEPT ![r] = "build"]
  /\ UNCHANGED <<phase, loaded, detached, slotFreed, kube, ctx, queue, waitVars,
                 dispVars, delVars, maintVars>>

AdmitSlow(r) ==
  /\ pc[r] = "admit"
  /\ ~FastPathOpen \/ Best(PageOf[r]) = {}
  /\ pc' = [pc EXCEPT ![r] = "enqueue"]
  /\ UNCHANGED <<poolVars, slotFreed, kube, ctx, queue, waitVars, slotVars,
                 dispVars, delVars, maintVars>>

\* stream.Send(granted) reaches the router unless its stream is cancelled.
SentGrant(r) == IF ctx[r] = "gone" THEN "lost" ELSE "granted"

FastLease(r) ==
  /\ pc[r] = "build"
  /\ RecordLease(r)
  /\ Return(r, SentGrant(r))
  /\ UNCHANGED <<phase, inFlight, loaded, slotFreed, kube, queue, settled, delivered, on,
                 dispVars, delVars, maintVars>>

FastLeaseFails(r) ==
  /\ pc[r] = "build"
  /\ UndoReservation(r)
  /\ Return(r, "error")
  /\ UNCHANGED <<phase, loaded, kube, queue, settled, delivered,
                 dispVars, delVars, maintVars>>

\* registerWaiter and Queue.Enqueue.
Enqueue(r) ==
  /\ pc[r] = "enqueue"
  /\ ctx[r] = "live"
  /\ queue' = Append(queue, r)
  /\ waiters' = waiters \cup {r}
  /\ pc' = [pc EXCEPT ![r] = "position"]
  /\ UNCHANGED <<poolVars, slotFreed, kube, ctx, settled, delivered, slotVars,
                 dispVars, delVars, maintVars>>

\* Queue.Enqueue refuses an expired context: TIMEOUT, waiter unregistered.
EnqueueExpired(r) ==
  /\ pc[r] = "enqueue"
  /\ ctx[r] # "live"
  /\ Return(r, "timeout")
  /\ UNCHANGED <<poolVars, slotFreed, kube, queue, settled, delivered, slotVars,
                 dispVars, delVars, maintVars>>

\* ticket.Position: QUEUED is announced when the item is still queued.
Position(r) ==
  /\ pc[r] = "position"
  /\ pc' = [pc EXCEPT ![r] = IF r \in ToSet(queue) THEN "announce" ELSE "wait"]
  /\ UNCHANGED <<poolVars, slotFreed, kube, ctx, queue, waitVars, slotVars,
                 dispVars, delVars, maintVars>>

\* stream.Send(queued).  When it fails the handler returns at once: the waiter
\* is unregistered but not settled.
Announce(r) ==
  /\ pc[r] = "announce"
  /\ IF ctx[r] = "gone"
       THEN Return(r, "broken")
       ELSE pc' = [pc EXCEPT ![r] = "wait"] /\ UNCHANGED <<ctx, waiters>>
  /\ UNCHANGED <<poolVars, slotFreed, kube, queue, settled, delivered, slotVars,
                 dispVars, delVars, maintVars>>

\* The select receives the lease; also the branch where ctx is done but the
\* dispatcher has settled the waiter first.
ReceiveGrant(r) ==
  /\ pc[r] = "wait"
  /\ delivered[r]
  /\ delivered' = [delivered EXCEPT ![r] = FALSE]
  /\ Return(r, SentGrant(r))
  /\ UNCHANGED <<poolVars, slotFreed, kube, queue, settled, slotVars,
                 dispVars, delVars, maintVars>>

\* ctx is done and the waiter is not settled: it settles itself, TIMEOUT.
WaitExpired(r) ==
  /\ pc[r] = "wait"
  /\ ctx[r] # "live"
  /\ ~settled[r]
  /\ settled' = [settled EXCEPT ![r] = TRUE]
  /\ Return(r, "timeout")
  /\ UNCHANGED <<poolVars, slotFreed, kube, queue, delivered, slotVars,
                 dispVars, delVars, maintVars>>

InHandler(r) == pc[r] \in {"admit", "build", "enqueue", "position", "announce", "wait"}

\* The queue timeout of the request passes.
QueueTimeout(r) ==
  /\ "expire" \in Env
  /\ InHandler(r)
  /\ ctx[r] = "live"
  /\ ctx' = [ctx EXCEPT ![r] = "expired"]
  /\ UNCHANGED <<poolVars, slotFreed, kube, pc, queue, waitVars, slotVars,
                 dispVars, delVars, maintVars>>

\* The router cancels its stream.
RouterGone(r) ==
  /\ "gone" \in Env
  /\ InHandler(r)
  /\ ctx[r] # "gone"
  /\ ctx' = [ctx EXCEPT ![r] = "gone"]
  /\ UNCHANGED <<poolVars, slotFreed, kube, pc, queue, waitVars, slotVars,
                 dispVars, delVars, maintVars>>

\* Mutant of QueueCancel: the front item is removed instead of the caller's.
CancelFront(r) ==
  /\ ctx[r] # "live"
  /\ r \in ToSet(queue)
  /\ queue' = Tail(queue)
  /\ UNCHANGED <<poolVars, slotFreed, kube, pc, ctx, waitVars, slotVars,
                 dispVars, delVars, maintVars>>

\* Enqueue's watcher goroutine removes a still-queued item whose ctx is done.
QueueCancel(r) ==
  /\ ctx[r] # "live"
  /\ \E i \in DOMAIN queue : queue[i] = r /\ queue' = RemoveAt(queue, i)
  /\ UNCHANGED <<poolVars, slotFreed, kube, pc, ctx, waitVars, slotVars,
                 dispVars, delVars, maintVars>>

-----------------------------------------------------------------------------
(* ReleaseSlot and releaseLease. *)

\* Mutant of TakeLease: an unknown lease is released all the same.
TakeUnknownLease(r) == stage' = [stage EXCEPT ![r] = "freeing"]

\* The first critical section of releaseLease: the lease leaves c.leases.
\* An unknown lease makes the call a no-op.
TakeLease(r) == stage' = IF stage[r] = "leased" THEN [stage EXCEPT ![r] = "freeing"] ELSE stage

\* The router is done with the worker and calls ReleaseSlot.
ReleaseSlot(r) ==
  /\ pc[r] = "granted"
  /\ TakeLease(r)
  /\ pc' = [pc EXCEPT ![r] = "released"]
  /\ UNCHANGED <<poolVars, slotFreed, kube, ctx, queue, waitVars, on,
                 dispVars, delVars, maintVars>>

\* The router dies or its ReleaseSlot never arrives.
RouterLost(r) ==
  /\ "lost" \in Env
  /\ pc[r] = "granted"
  /\ pc' = [pc EXCEPT ![r] = "lost"]
  /\ UNCHANGED <<poolVars, slotFreed, kube, ctx, queue, waitVars, slotVars,
                 dispVars, delVars, maintVars>>

\* Mutant of FreeSlot: the slot is freed without signalSlot.
FreeSlotSilently(r) ==
  /\ stage[r] = "freeing"
  /\ DropSlot(r)
  /\ IF on[r] \in Tracked THEN ReleaseSlotOf(on[r]) ELSE UNCHANGED inFlight
  /\ UNCHANGED <<phase, loaded, detached, slotFreed, kube, pc, ctx, queue, waitVars,
                 dispVars, delVars, maintVars>>

\* The second critical section: the pod, if still tracked, is decremented,
\* and slotFreed is signalled.  Run by whoever took the lease.
FreeSlot(r) ==
  /\ stage[r] = "freeing"
  /\ DropSlot(r)
  /\ IF on[r] \in Tracked THEN ReleaseSlotOf(on[r]) ELSE UNCHANGED inFlight
  /\ slotFreed' = TRUE
  /\ UNCHANGED <<phase, loaded, detached, kube, pc, ctx, queue, waitVars,
                 dispVars, delVars, maintVars>>

-----------------------------------------------------------------------------
(* The tenant's dispatch goroutine. *)

\* Queue.Dequeue returns the oldest item.  A rollback is finished first.
DispatchDequeue ==
  /\ \/ dpc = "dequeue"
     \/ dpc = "free" /\ stage[ditem] # "freeing"
  /\ queue # <<>>
  /\ ditem' = Head(queue)
  /\ queue' = Tail(queue)
  /\ dpc' = "take"
  /\ UNCHANGED <<poolVars, slotFreed, kube, pc, ctx, waitVars, slotVars, pending,
                 delVars, maintVars>>

\* takeWaiter, and pendingPlacement = true when there is one.
DispatchTake ==
  /\ dpc = "take"
  /\ waiters' = waiters \ {ditem}
  /\ IF ditem \in waiters
       THEN pending' = TRUE /\ dpc' = "reserve" /\ UNCHANGED ditem
       ELSE dpc' = "dequeue" /\ ditem' = NoReq /\ UNCHANGED pending
  /\ UNCHANGED <<poolVars, slotFreed, kube, pc, ctx, queue, settled, delivered, slotVars,
                 delVars, maintVars>>

DispatchReserve ==
  /\ dpc = "reserve"
  /\ \E p \in Pods : Reserve(ditem, p)
  /\ dpc' = "unmark"
  /\ UNCHANGED <<phase, loaded, detached, slotFreed, kube, pc, ctx, queue, waitVars,
                 pending, ditem, delVars, maintVars>>

\* tryReserve finds nothing: the goroutine sleeps in reserveBlocking's select.
DispatchBlock ==
  /\ dpc = "reserve"
  /\ Best(PageOf[ditem]) = {}
  /\ dpc' = "blocked"
  /\ UNCHANGED <<poolVars, slotFreed, kube, pc, ctx, queue, waitVars, slotVars,
                 pending, ditem, delVars, maintVars>>

DispatchWake ==
  /\ dpc = "blocked"
  /\ slotFreed
  /\ slotFreed' = FALSE
  /\ dpc' = "reserve"
  /\ UNCHANGED <<poolVars, kube, pc, ctx, queue, waitVars, slotVars,
                 pending, ditem, delVars, maintVars>>

\* The waiter's ctx is done: reserveBlocking returns nil.
DispatchGiveUp ==
  /\ dpc = "blocked"
  /\ ctx[ditem] # "live"
  /\ dpc' = "unmark"
  /\ UNCHANGED <<poolVars, slotFreed, kube, pc, ctx, queue, waitVars, slotVars,
                 pending, ditem, delVars, maintVars>>

\* pendingPlacement = false; without a pod the loop starts over.
DispatchUnmark ==
  /\ dpc = "unmark"
  /\ pending' = FALSE
  /\ IF stage[ditem] = "reserved"
       THEN dpc' = "build" /\ UNCHANGED ditem
       ELSE dpc' = "dequeue" /\ ditem' = NoReq
  /\ UNCHANGED <<poolVars, slotFreed, kube, pc, ctx, queue, waitVars, slotVars,
                 delVars, maintVars>>

DispatchLease ==
  /\ dpc = "build"
  /\ RecordLease(ditem)
  /\ dpc' = "deliver"
  /\ UNCHANGED <<phase, inFlight, loaded, slotFreed, kube, pc, ctx, queue, waitVars, on,
                 pending, ditem, delVars, maintVars>>

\* buildLease fails: the slot goes back, the waiter is left to time out.
DispatchLeaseFails ==
  /\ dpc = "build"
  /\ UndoReservation(ditem)
  /\ dpc' = "dequeue" /\ ditem' = NoReq
  /\ UNCHANGED <<phase, loaded, kube, pc, ctx, queue, waitVars,
                 pending, delVars, maintVars>>

\* Mutants of Deliver: w.settled is not looked at; it is set, but the lease is
\* not sent.
DeliverUnchecked ==
  /\ dpc = "deliver"
  /\ settled' = [settled EXCEPT ![ditem] = TRUE]
  /\ delivered' = [delivered EXCEPT ![ditem] = TRUE]
  /\ dpc' = "dequeue" /\ ditem' = NoReq
  /\ UNCHANGED <<poolVars, slotFreed, kube, pc, ctx, queue, waiters, slotVars,
                 pending, delVars, maintVars>>
DeliverSettlesOnly ==
  /\ dpc = "deliver"
  /\ IF settled[ditem]
       THEN dpc' = "rollback" /\ UNCHANGED <<settled, ditem>>
       ELSE /\ settled' = [settled EXCEPT ![ditem] = TRUE]
            /\ dpc' = "dequeue" /\ ditem' = NoReq
  /\ UNCHANGED <<poolVars, slotFreed, kube, pc, ctx, queue, waiters, delivered, slotVars,
                 pending, delVars, maintVars>>

\* deliver: hand over the lease unless the waiter has settled.
Deliver ==
  /\ dpc = "deliver"
  /\ IF settled[ditem]
       THEN dpc' = "rollback" /\ UNCHANGED <<settled, delivered, ditem>>
       ELSE /\ settled' = [settled EXCEPT ![ditem] = TRUE]
            /\ delivered' = [delivered EXCEPT ![ditem] = TRUE]
            /\ dpc' = "dequeue" /\ ditem' = NoReq
  /\ UNCHANGED <<poolVars, slotFreed, kube, pc, ctx, queue, waiters, slotVars,
                 pending, delVars, maintVars>>

\* forceReleaseLease of a lease nobody will receive.
Rollback ==
  /\ dpc = "rollback"
  /\ TakeLease(ditem)
  /\ IF stage[ditem] = "leased"
       THEN dpc' = "free" /\ UNCHANGED ditem
       ELSE dpc' = "dequeue" /\ ditem' = NoReq
  /\ UNCHANGED <<poolVars, slotFreed, kube, pc, ctx, queue, waitVars, on,
                 pending, delVars, maintVars>>

-----------------------------------------------------------------------------
(* Worker pods: creation, Register, Heartbeat, deletion. *)

\* The goroutine of maybeScaleUp: Pods.Create succeeds.
CreateDone(p) ==
  /\ kube[p] = "creating"
  /\ kube' = [kube EXCEPT ![p] = "live"]
  /\ UNCHANGED <<poolVars, slotFreed, pc, ctx, queue, waitVars, slotVars,
                 dispVars, delVars, maintVars>>

\* Pods.Create returns an error, the pod created or not: the entry is removed.
CreateFails(p) ==
  /\ "create" \in Env
  /\ kube[p] = "creating"
  /\ \E k \in {"live", "gone"} : kube' = [kube EXCEPT ![p] = k]
  /\ Untrack({p})
  /\ UNCHANGED <<slotFreed, pc, ctx, queue, waitVars, slotVars,
                 dispVars, delVars, maintVars>>

\* Mutant of Register: a pod becomes ready without signalSlot.
RegisterSilently(p) ==
  /\ \/ kube[p] = "live" /\ \A d \in deleting : d[1] # p
     \/ kube[p] \in {"live", "up"} /\ "late" \in Env
  /\ kube' = [kube EXCEPT ![p] = "up"]
  /\ phase' = [phase EXCEPT ![p] = "ready"]
  /\ UNCHANGED <<inFlight, loaded, detached, slotFreed, pc, ctx, queue, waitVars, slotVars,
                 dispVars, delVars, maintVars>>

\* Register: the entry, created here for an unknown pod (adoption), is ready.
Register(p) ==
  /\ \/ kube[p] = "live" /\ \A d \in deleting : d[1] # p
     \/ kube[p] \in {"live", "up"} /\ "late" \in Env
  /\ kube' = [kube EXCEPT ![p] = "up"]
  /\ phase' = [phase EXCEPT ![p] = "ready"]
  /\ slotFreed' = TRUE
  /\ UNCHANGED <<inFlight, loaded, detached, pc, ctx, queue, waitVars, slotVars,
                 dispVars, delVars, maintVars>>

\* One Heartbeat message: loaded pages; an idle draining pod is deleted.
Heartbeat(p) ==
  /\ kube[p] = "up"
  /\ p \in Tracked
  /\ \E pages \in Reports : loaded' = [loaded EXCEPT ![p] = pages]
  /\ reaps' = IF phase[p] = "draining" /\ inFlight[p] = 0 THEN reaps \cup {p} ELSE reaps
  /\ UNCHANGED <<phase, inFlight, detached, slotFreed, kube, pc, ctx, queue, waitVars, slotVars,
                 dispVars, deleting, maintVars>>

\* The deletePod goroutine a heartbeat has spawned.
Reap(p) ==
  /\ p \in reaps
  /\ reaps' = reaps \ {p}
  /\ StartDelete(p, "heartbeat")
  /\ UNCHANGED <<slotFreed, kube, pc, ctx, queue, waitVars, slotVars,
                 dispVars, maintVars>>

Deletable == {"live", "up", "failed"}

\* The lease of r is in c.leases under the name of pod p.
LeasedOn(r, p) == stage[r] = "leased" /\ on[r] = p

\* The rest of deletePod: Pods.Delete, whose error is ignored,
\* dropLeasesForPod and signalSlot.
FinishDelete(d) ==
  /\ deleting' = deleting \ {d}
  /\ \/ kube' = [kube EXCEPT ![d[1]] = IF @ \in Deletable THEN "gone" ELSE @]
     \/ "delete" \in Env /\ UNCHANGED kube
  /\ stage' = [r \in Req |-> IF LeasedOn(r, d[1]) THEN "none" ELSE stage[r]]
  /\ on'    = [r \in Req |-> IF LeasedOn(r, d[1]) THEN NoPod ELSE on[r]]
  /\ slotFreed' = TRUE
  /\ UNCHANGED <<poolVars, pc, ctx, queue, waitVars, dispVars, reaps, maintVars>>

\* The container of a worker pod exits: PodFailed, which is terminal.
PodCrash(p) ==
  /\ "crash" \in Env
  /\ kube[p] \in {"live", "up"}
  /\ kube' = [kube EXCEPT ![p] = "failed"]
  /\ UNCHANGED <<poolVars, slotFreed, pc, ctx, queue, waitVars, slotVars,
                 dispVars, delVars, maintVars>>

\* A pod disappears without the controller deleting it.
PodVanish(p) ==
  /\ "vanish" \in Env
  /\ kube[p] \in Deletable
  /\ kube' = [kube EXCEPT ![p] = "gone"]
  /\ UNCHANGED <<poolVars, slotFreed, pc, ctx, queue, waitVars, slotVars,
                 dispVars, delVars, maintVars>>

-----------------------------------------------------------------------------
(* scaleDownOnce: watchdog, list, pool pass, drains, deletions, drift. *)

\* The pass waits for the deletePod it has called.
DeleteReturned == \A d \in deleting : d[2] # "maintenance"

\* Mutant of WatchdogScan: leases on pods that have left the pool are skipped.
WatchdogScanTracked(dead) ==
  /\ "overdue" \in Env
  /\ mpc = "scan"
  /\ dead # {} /\ dead \subseteq {r \in Req : stage[r] = "leased" /\ on[r] \in Tracked}
  /\ mdead' = {<<r, on[r]>> : r \in dead}
  /\ mpc' = "kill"
  /\ UNCHANGED <<poolVars, slotFreed, kube, pc, ctx, queue, waitVars, slotVars,
                 dispVars, delVars, mcur, mok, mlisted, mfailed, morphans, mdrain, mdel>>

\* leaseWatchdog collects the leases past deadline + grace, with their pods.
\* Any lease may be: a pass happens whenever enough time has gone by.
WatchdogScan(dead) ==
  /\ "overdue" \in Env
  /\ mpc = "scan"
  /\ dead # {} /\ dead \subseteq {r \in Req : stage[r] = "leased"}
  /\ mdead' = {<<r, on[r]>> : r \in dead}
  /\ mpc' = "kill"
  /\ UNCHANGED <<poolVars, slotFreed, kube, pc, ctx, queue, waitVars, slotVars,
                 dispVars, delVars, mcur, mok, mlisted, mfailed, morphans, mdrain, mdel>>

\* releaseLease of one expired lease; its result is ignored.
WatchdogRelease(d) ==
  /\ mpc = "kill"
  /\ DeleteReturned
  /\ TakeLease(d[1])
  /\ mdead' = mdead \ {d}
  /\ mcur' = d
  /\ mpc' = IF stage[d[1]] = "leased" THEN "free" ELSE "suspect"
  /\ UNCHANGED <<poolVars, slotFreed, kube, pc, ctx, queue, waitVars, on,
                 dispVars, delVars, mok, mlisted, mfailed, morphans, mdrain, mdel>>

\* Then its pod is marked draining and deleted.
WatchdogDelete ==
  /\ \/ mpc = "suspect"
     \/ mpc = "free" /\ stage[mcur[1]] # "freeing"
  /\ StartDelete(mcur[2], "maintenance")
  /\ mcur' = <<NoReq, NoPod>>
  /\ mpc' = IF mdead = {} THEN "list" ELSE "kill"
  /\ UNCHANGED <<slotFreed, kube, pc, ctx, queue, waitVars, slotVars, dispVars, reaps,
                 mdead, mok, mlisted, mfailed, morphans, mdrain, mdel>>

\* Mutant of ListPods: pods that have not registered are left out of the list.
ListRegisteredPods ==
  /\ mpc \in {"scan", "list"}
  /\ DeleteReturned
  /\ mok' = TRUE
  /\ mlisted' = {p \in Pods : kube[p] \in {"up", "failed"}}
  /\ mfailed' = {p \in Pods : kube[p] = "failed"}
  /\ mpc' = "pool"
  /\ UNCHANGED <<poolVars, slotFreed, kube, pc, ctx, queue, waitVars, slotVars,
                 dispVars, delVars, mcur, mdead, morphans, mdrain, mdel>>

\* Pods.List.  A pass whose watchdog finds nothing starts here.
ListPods ==
  /\ mpc \in {"scan", "list"}
  /\ DeleteReturned
  /\ \/ /\ mok' = TRUE
        /\ mlisted' = {p \in Pods : kube[p] \in Deletable}
        /\ mfailed' = {p \in Pods : kube[p] = "failed"}
     \/ /\ "list" \in Env
        /\ mok' = FALSE /\ mlisted' = {} /\ mfailed' = {}
  /\ mpc' = "pool"
  /\ UNCHANGED <<poolVars, slotFreed, kube, pc, ctx, queue, waitVars, slotVars,
                 dispVars, delVars, mcur, mdead, morphans, mdrain, mdel>>

\* Mutant of MayBeOverdue: no registration deadline.
OverdueDrainsOnly == InPhase("draining")

\* Pods whose registration or drain deadline may have passed.
MayBeOverdue == InPhase("draining") \cup (IF "deadline" \in Env THEN InPhase("creating") ELSE {})

\* The ready pods that may have been idle for longer than IdleTTL.
IdlePods == IF "idle" \in Env THEN {p \in InPhase("ready") : inFlight[p] = 0} ELSE {}

\* The pass over t.pods under t.mu: the pods to delete and the listed names
\* nobody tracks; and the scaler's answer on that snapshot.
PoolPass(overdue, drain) ==
  /\ mpc = "pool"
  /\ overdue \subseteq MayBeOverdue
  /\ drain \in SelectScaleDown(InPhase("ready"), IdlePods, ReadyInFlight, Depth)
  /\ mdel' = (mfailed \cap Tracked) \cup {p \in InPhase("draining") : inFlight[p] = 0} \cup overdue
  /\ morphans' = mlisted \ Tracked
  /\ mdrain' = drain
  /\ mfailed' = {}
  /\ mpc' = "apply"
  /\ UNCHANGED <<poolVars, slotFreed, kube, pc, ctx, queue, waitVars, slotVars,
                 dispVars, delVars, mcur, mdead, mok, mlisted>>

\* The scaler's picks are marked draining one by one, if still ready.
DrainPod(p) ==
  /\ mpc = "apply"
  /\ p \in mdrain
  /\ mdrain' = mdrain \ {p}
  /\ phase' = IF phase[p] = "ready" THEN [phase EXCEPT ![p] = "draining"] ELSE phase
  /\ UNCHANGED <<inFlight, loaded, detached, slotFreed, kube, pc, ctx, queue, waitVars, slotVars,
                 dispVars, delVars, mpc, mcur, mdead, mok, mlisted, mfailed, morphans, mdel>>

\* Then toDelete, one deletePod after the other.
DeletePod(p) ==
  /\ mpc = "apply"
  /\ mdrain = {}
  /\ DeleteReturned
  /\ p \in mdel
  /\ mdel' = mdel \ {p}
  /\ StartDelete(p, "maintenance")
  /\ UNCHANGED <<slotFreed, kube, pc, ctx, queue, waitVars, slotVars, dispVars, reaps,
                 mpc, mcur, mdead, mok, mlisted, mfailed, morphans, mdrain>>

\* Entries that may be older than twice the heartbeat interval although the
\* list did not show their pod: the pod has vanished, or creating it (or the
\* pass since the list) took longer than that grace.
Forgettable == {p \in Tracked : kube[p] = "gone" \/ "slow" \in Env}

\* Drift: listed pods the pool did not know are deleted as orphans; entries
\* missing from the list and old enough are forgotten, their leases kept and
\* nobody signalled.  Without a list the pass ends before this.  (The grace for
\* orphans right after start-up is in PodLifecycle, with the reconcile.)
Drift(old) ==
  /\ mpc = "apply"
  /\ mdrain = {} /\ mdel = {}
  /\ DeleteReturned
  /\ old \subseteq (IF mok THEN Forgettable \ mlisted ELSE {})
  /\ \/ kube' = [p \in Pods |-> IF p \in morphans /\ kube[p] \in Deletable THEN "gone" ELSE kube[p]]
     \/ "delete" \in Env /\ UNCHANGED kube
  /\ Untrack(old)
  /\ mpc' = "scan"
  /\ mok' = FALSE /\ mlisted' = {} /\ morphans' = {}
  /\ UNCHANGED <<slotFreed, pc, ctx, queue, waitVars, slotVars,
                 dispVars, delVars, mcur, mdead, mfailed, mdrain, mdel>>

-----------------------------------------------------------------------------
Arrive(r) == AcquireSlot(r) \/ PageNotFound(r)

Handler(r) ==
  \/ AdmitFast(r) \/ AdmitSlow(r) \/ FastLease(r) \/ FastLeaseFails(r)
  \/ Enqueue(r) \/ EnqueueExpired(r) \/ Position(r) \/ Announce(r) \/ ReceiveGrant(r) \/ WaitExpired(r)

Router(r) == RouterGone(r) \/ ReleaseSlot(r) \/ RouterLost(r)

Dispatch ==
  \/ DispatchDequeue \/ DispatchTake \/ DispatchReserve \/ DispatchBlock
  \/ DispatchWake \/ DispatchGiveUp \/ DispatchUnmark
  \/ DispatchLease \/ DispatchLeaseFails \/ Deliver \/ Rollback

Worker(p) ==
  \/ CreateDone(p) \/ CreateFails(p) \/ Register(p) \/ Heartbeat(p) \/ Reap(p)
  \/ PodCrash(p) \/ PodVanish(p)

Maintenance ==
  \/ \E dead \in SUBSET Req : WatchdogScan(dead)
  \/ \E d \in mdead : WatchdogRelease(d)
  \/ WatchdogDelete
  \/ ListPods
  \/ \E overdue, drain \in SUBSET Pods : PoolPass(overdue, drain)
  \/ \E p \in Pods : DrainPod(p) \/ DeletePod(p)
  \/ \E old \in SUBSET Pods : Drift(old)

Next ==
  \/ \E r \in Req : Arrive(r) \/ Handler(r) \/ Router(r) \/ QueueTimeout(r) \/ QueueCancel(r) \/ FreeSlot(r)
  \/ Dispatch
  \/ \E p \in Pods : Worker(p)
  \/ \E d \in deleting : FinishDelete(d)
  \/ Maintenance

Spec == Init /\ [][Next]_vars

(* Goroutines that can run do run, timers fire, and the maintenance ticker *)
(* keeps ticking.  Deadlines are the strong part: a pass happens again and *)
(* again, so a lease (a pod) that stays long enough is found overdue.      *)
Fairness ==
  /\ \A r \in Req :
       /\ WF_vars(Handler(r)) /\ WF_vars(QueueTimeout(r))
       /\ WF_vars(QueueCancel(r)) /\ WF_vars(FreeSlot(r))
       /\ SF_vars(\E dead \in SUBSET Req : r \in dead /\ WatchdogScan(dead))
  /\ WF_vars(Dispatch)
  /\ \A p \in Pods :
       /\ WF_vars(CreateDone(p) \/ CreateFails(p)) /\ WF_vars(Reap(p))
       /\ SF_vars(\E overdue, drain \in SUBSET Pods :
                             p \in overdue /\ PoolPass(overdue, drain))
  /\ \A d \in Pods \X {"heartbeat", "maintenance"} :
       WF_vars(d \in deleting /\ FinishDelete(d))
  /\ WF_vars(Maintenance)

FairSpec == Spec /\ Fairness

(* Well-behaved clients on top of that: a pod that comes up registers, a   *)
(* router that got a lease releases it.                                    *)
ClientsFair ==
  /\ \A p \in Pods : WF_vars(Register(p))
  /\ \A r \in Req : WF_vars(ReleaseSlot(r))

ServingSpec == FairSpec /\ ClientsFair

-----------------------------------------------------------------------------
TypeOK ==
  /\ phase \in [Pods -> {"none", "creating", "ready", "draining"}]
  /\ inFlight \in [Pods -> Nat]
  /\ loaded \in [Pods -> SUBSET Pages]
  /\ kube \in [Pods -> {"none", "creating", "live", "up", "failed", "gone"}]
  /\ pending \in BOOLEAN /\ slotFreed \in BOOLEAN
  /\ pc \in [Req -> {"new", "notfound", "admit", "build", "enqueue", "position", "announce", "wait",
                     "granted", "released", "lost", "timeout", "broken", "error"}]
  /\ ctx \in [Req -> {"live", "expired", "gone", "done"}]
  /\ queue \in Seq(Req)
  /\ waiters \subseteq Req /\ detached \subseteq Req
  /\ settled \in [Req -> BOOLEAN] /\ delivered \in [Req -> BOOLEAN]
  /\ stage \in [Req -> {"none", "reserved", "leased", "freeing"}]
  /\ on \in [Req -> Pods \cup {NoPod}]
  /\ dpc \in {"dequeue", "take", "reserve", "blocked", "unmark", "build", "deliver", "rollback", "free"}
  /\ ditem \in Req \cup {NoReq}
  /\ reaps \subseteq Pods
  /\ deleting \subseteq Pods \X {"heartbeat", "maintenance"}
  /\ mpc \in {"scan", "kill", "free", "suspect", "list", "pool", "apply"}
  /\ mcur \in (Req \X Pods) \cup {<<NoReq, NoPod>>} /\ mdead \subseteq Req \X Pods
  /\ mok \in BOOLEAN
  /\ mlisted \subseteq Pods /\ mfailed \subseteq Pods /\ morphans \subseteq Pods
  /\ mdrain \subseteq Pods /\ mdel \subseteq Pods

\* The requests whose reservation or lease occupies a slot of p's entry.
Holders(p) == {r \in Req : stage[r] # "none" /\ on[r] = p /\ r \notin detached}

(* The slot count of a tracked pod is exactly the number of reservations   *)
(* and leases outstanding on it, through grants, rollbacks, releases racing *)
(* the watchdog, and deletions ("inFlight is the number of outstanding     *)
(* leases", pod).  It fails when a Register adopts a pod whose deletePod   *)
(* has not returned (AdoptsUnsettled).                                     *)
SlotAccounting == \A p \in Tracked : inFlight[p] = Cardinality(Holders(p))

(* No pod is ever leased beyond MaxConcurrencyPerPod (tryReserve's hard    *)
(* cap), counted over the leases themselves rather than over the counter,  *)
(* unless a pod is adopted unsettled.                                      *)
CapRespected == \A p \in Tracked : Cardinality(Holders(p)) <= Cap

(* A Register that creates an entry for a pod while leases of its earlier  *)
(* entry are outstanding or its deletePod has not returned.  The entry     *)
(* starts at inFlight = 0, and the leases of the earlier one are released  *)
(* against it, or dropped by pod name and not counted down.                *)
AdoptsUnsettled ==
  \E p \in Pods \ Tracked :
    /\ Register(p)
    /\ (\E r \in Req : on[r] = p) \/ (\E d \in deleting : d[1] = p)

(* Why SlotAccounting holds, as an inductive invariant, unless a pod is    *)
(* adopted unsettled.                                                      *)
(* - SlotOwner: who may hold a reservation, by where handler and dispatcher *)
(*   are; a request is in one place only.                                  *)
(* - FreshPods: before it registers a pod has had no lease, so making it   *)
(*   ready with inFlight = 0 is right.                                     *)
(* - Departed: an entry that left the pool is not re-created while leases  *)
(*   or reservations of the old entry are still to be dropped.             *)
SlotOwner ==
  /\ \A r \in Req : stage[r] = "none" <=> on[r] = NoPod
  /\ \A r \in Req : pc[r] \in {"new", "notfound", "admit", "enqueue"} => stage[r] = "none"
  /\ \A r \in Req : pc[r] = "build" => stage[r] = "reserved"
  /\ \A r \in Req : pc[r] \in {"new", "notfound", "admit", "enqueue", "build"} =>
       r \notin ToSet(queue) /\ ditem # r
  /\ \A i \in DOMAIN queue : stage[queue[i]] = "none" /\ queue[i] # ditem
  /\ \A i, j \in DOMAIN queue : queue[i] = queue[j] => i = j
  /\ dpc # "dequeue" => ditem \in Req
  /\ dpc \in {"take", "reserve", "blocked"} => stage[ditem] = "none"
  /\ dpc = "unmark" => stage[ditem] \in {"none", "reserved"}
  /\ dpc = "build" => stage[ditem] = "reserved"
  /\ mpc \in {"free", "suspect"} => mcur \in Req \X Pods

FreshPods ==
  \A p \in Pods :
    /\ kube[p] = "none" => phase[p] = "none"
    /\ kube[p] \in {"creating", "live"} => phase[p] \in {"none", "creating"}
    /\ kube[p] \in {"none", "creating", "live"} \/ phase[p] = "creating" => \A r \in Req : on[r] # p
    /\ phase[p] = "none" => inFlight[p] = 0

Departed ==
  /\ \A r \in detached : stage[r] = "reserved" /\ phase[on[r]] = "none"
  /\ \A d \in deleting : phase[d[1]] = "none" /\ kube[d[1]] # "none"

SlotInv ==
  /\ TypeOK /\ SlotOwner /\ FreshPods /\ Departed
  /\ SlotAccounting /\ \A p \in Pods : inFlight[p] <= Cap

(* The settle handshake: a request answered TIMEOUT keeps no slot, except  *)
(* while the dispatcher is still carrying it to the rollback (deliver) or  *)
(* somebody is in the middle of freeing it.                                *)
TimeoutHoldsNoSlot ==
  \A r \in Req : pc[r] = "timeout" /\ stage[r] \in {"reserved", "leased"} =>
    ditem = r /\ dpc \in {"unmark", "build", "deliver", "rollback"}

(* No lost wakeup: while the dispatcher sleeps although a slot is free for *)
(* its waiter, the coalescing slotFreed channel holds a token.             *)
NoLostWakeup == dpc = "blocked" /\ Best(PageOf[ditem]) # {} => slotFreed

(* A queued request whose handler waits is in exactly one place: in the    *)
(* FIFO, in the dispatcher's hands, or settled; so it can still be served. *)
WaiterReachable ==
  \A r \in Req : pc[r] = "wait" /\ ctx[r] = "live" /\ "sign" \notin Env =>
    settled[r] \/ r \in ToSet(queue) \/ ditem = r

(* A waiter is where the dispatcher finds it, and the dispatcher is awake  *)
(* when there is a slot for it.                                            *)
WaitersReached == NoLostWakeup /\ WaiterReachable

(* Ready and creating pods stay within the tenant's ceiling                *)
(* (ARCHITECTURE.md 6.4: MaxConcurrency is the tenant's maximum number of  *)
(* pods).                                                                  *)
PodCeiling == Cardinality(InPhase("ready") \cup InPhase("creating")) <= AtLeast(MaxPods, 1)

(* Why the settle handshake works, as an inductive invariant.              *)
(* - SlotCarried: until a waiter is settled, and after it has timed out,   *)
(*   a slot reserved for it is in the dispatcher's hands.                  *)
(* - Findable: a waiter in the FIFO is still in c.waiters, so takeWaiter   *)
(*   finds it; while its ctx lives it is in the FIFO, in the dispatcher's  *)
(*   hands or settled.                                                     *)
(* - Carrier: what the dispatcher knows of the request it carries.         *)
Waiting == {"position", "announce", "wait"}

SlotCarried ==
  \A r \in Req :
    /\ pc[r] = "timeout" \/ (pc[r] \in Waiting /\ ~settled[r]) =>
         (stage[r] \in {"reserved", "leased"} => ditem = r /\ dpc \in {"unmark", "build", "deliver", "rollback"})
    /\ pc[r] = "timeout" /\ (r \in ToSet(queue) \/ ditem = r) => settled[r]

Findable ==
  \A r \in Req : pc[r] \in Waiting =>
    /\ r \in ToSet(queue) \/ (ditem = r /\ dpc = "take") => r \in waiters
    /\ ctx[r] = "live" /\ "sign" \notin Env => settled[r] \/ r \in ToSet(queue) \/ ditem = r

Carrier ==
  /\ dpc = "dequeue" => ditem = NoReq
  /\ dpc \in {"deliver", "rollback"} => stage[ditem] # "reserved"
  /\ dpc \in {"rollback", "free"} => settled[ditem]
  /\ dpc = "free" => stage[ditem] \in {"none", "freeing"}
  /\ dpc = "unmark" /\ stage[ditem] = "none" => ctx[ditem] # "live"

HandshakeInv == SlotCarried /\ Findable /\ Carrier

(* Why no wakeup is lost: without a token there is nothing to wake up for. *)
WakeInv == dpc = "blocked" /\ ~slotFreed => FreePods = {}

(* Why the ceiling holds when creations and deletions work: a pod on its   *)
(* way up is counted, because nothing deletes the entry of a pod that has  *)
(* not registered, and so Register adds none.                              *)
Registered == {p \in Pods : kube[p] \in {"up", "failed", "gone"}}

CreationCounted ==
  /\ \A p \in Pods : kube[p] \in {"creating", "live"} => phase[p] = "creating"
  /\ reaps \cup mfailed \cup mdel \subseteq Registered
  /\ \A d \in mdead : d[2] \in Registered
  /\ mpc \in {"free", "suspect"} => mcur[2] \in Registered

(* "A reserved slot is never leaked" (waiter): a slot outstanding belongs  *)
(* to a handler that still runs, to the dispatcher, to a router that got   *)
(* the grant, or to somebody freeing it.                                   *)
NoSlotLeaked ==
  \A r \in Req : stage[r] \in {"reserved", "leased"} =>
    InHandler(r) \/ ditem = r \/ pc[r] \in {"granted", "released", "lost"}

(* Every AcquireSlot call is answered: granted, TIMEOUT or an error; no    *)
(* handler waits for ever (its select against the dispatcher's deliver).   *)
RequestsAnswered == \A r \in Req : InHandler(r) ~> ~InHandler(r)

(* Every reserved or leased slot is given back, by the router, by the      *)
(* dispatcher's rollback, by the deletion of the pod, or by the lease      *)
(* watchdog when nobody else does (leaseWatchdog).                         *)
SlotsReclaimed == \A r \in Req : stage[r] # "none" ~> stage[r] = "none"

(* A pod that never registers does not stay in the pool, where it would    *)
(* count toward the ceiling for ever (scaleDownOnce, adoptDeadline).       *)
CreatingResolved == \A p \in Pods : phase[p] = "creating" ~> phase[p] # "creating"

(* No orphan worker is left behind: a pod running without an entry is      *)
(* deleted or adopted (scaleDownOnce's drift pass), whatever failed before *)
(* (Pods.Create reporting an error, deletePod racing the creation).        *)
OrphansResolved ==
  \A p \in Pods : kube[p] \in Deletable /\ phase[p] = "none" ~> kube[p] = "gone" \/ phase[p] # "none"

(* No pod stays between the pool and the cluster for ever.                 *)
PodsResolved == CreatingResolved /\ OrphansResolved

(* As long as pods register and routers release, every request is granted  *)
(* a slot: the coalesced slotFreed signal starves no waiter.               *)
RequestsServed == \A r \in Req : InHandler(r) ~> pc[r] = "granted"
=============================================================================
