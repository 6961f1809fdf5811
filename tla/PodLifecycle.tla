---------------------------- MODULE PodLifecycle ----------------------------
(***************************************************************************)
(* The life of a tenant's worker pods across controller restarts: the      *)
(* start-up reconcile and the maintenance pass of the controller           *)
(* (pkg/controller/reconcile.go) against the controller session of the     *)
(* shim (pkg/shim/controller.go), which registers once and then keeps a    *)
(* heartbeat stream.                                                       *)
(*                                                                         *)
(* Dispatcher has the slots, the leases and the fine interleavings of one  *)
(* controller run; here a deletion is one step, and whether a draining pod *)
(* still has work is left open.                                            *)
(***************************************************************************)
EXTENDS Integers, FiniteSets

CONSTANTS
  Pods,
  MaxPods,      \* the tenant's pod ceiling
  MaxCrashes,   \* bound: how often the controller crashes
  Env           \* what may go wrong, a subset of Events

Events == {"create",    \* Pods.Create fails
           "delete",    \* Pods.Delete fails
           "list",      \* Pods.List fails
           "net",       \* a Register call fails or loses its answer, a stream breaks
           "crash",     \* a worker's container exits
           "idle",      \* the scaler drains ready pods
           "deadline"}  \* a new pod does not register before its deadline

MaxTries == 3   \* attempts of register

VARIABLES
  ctl,      \* "down"; "starting": gRPC is served, reconcile has not run; "up"
  window,   \* less than 2 * HeartbeatInterval have passed since reconcile
  entry,    \* pod -> its phase in tenant.pods, "none" without an entry
  seeded,   \* pod -> pod.seeded
  mpc,      \* where the maintenance pass is: "idle" or "drift"
  listed,   \* the pods it has listed
  known,    \* the pods it has found in the pools
  kube,     \* pod -> "absent", "live", "failed" or "gone" in the cluster
  shim,     \* pod -> "off", "register", "connect" or "session"
  tries,    \* pod -> Register calls that have failed
  failing,  \* pod -> firstFail is set
  drains,   \* pod -> Shim.draining
  crashes

ctlVars == <<ctl, window, entry, seeded, crashes>>
passVars == <<mpc, listed, known>>
shimVars == <<shim, tries, failing, drains>>
lifeVars == <<ctlVars, passVars, kube, shimVars>>

Serving == ctl \in {"starting", "up"}
Tracked == {p \in Pods : entry[p] # "none"}
InPhase(ph) == {p \in Pods : entry[p] = ph}
Existing == {p \in Pods : kube[p] \in {"live", "failed"}}

LifeInit ==
  /\ ctl = "starting" /\ window = FALSE /\ crashes = 0
  /\ entry = [p \in Pods |-> "none"] /\ seeded = [p \in Pods |-> FALSE]
  /\ mpc = "idle" /\ listed = {} /\ known = {}
  /\ kube = [p \in Pods |-> "absent"]
  /\ shim = [p \in Pods |-> "off"] /\ tries = [p \in Pods |-> 0]
  /\ failing = [p \in Pods |-> FALSE] /\ drains = [p \in Pods |-> FALSE]

\* The containers of S stop; what is left of their pods is state.
Stop(S, state) ==
  /\ kube' = [p \in Pods |-> IF p \in S THEN state ELSE kube[p]]
  /\ shim' = [p \in Pods |-> IF p \in S THEN "off" ELSE shim[p]]
  /\ tries' = [p \in Pods |-> IF p \in S THEN 0 ELSE tries[p]]
  /\ failing' = [p \in Pods |-> failing[p] /\ p \notin S]
  /\ drains' = [p \in Pods |-> drains[p] /\ p \notin S]

\* Pods.Delete for each pod of S; errors are ignored.
Delete(S) ==
  \E ok \in (IF "delete" \in Env THEN SUBSET S ELSE {S}) : Stop(ok \cap Existing, "gone")

\* The entries of S leave the pool.
Forget(S) ==
  /\ entry' = [p \in Pods |-> IF p \in S THEN "none" ELSE entry[p]]
  /\ seeded' = [p \in Pods |-> seeded[p] /\ p \notin S]

-----------------------------------------------------------------------------
(* The controller process. *)

\* It stops; its memory is lost and every heartbeat stream breaks.
CtlCrash ==
  /\ crashes < MaxCrashes
  /\ Serving
  /\ ctl' = "down" /\ window' = FALSE /\ crashes' = crashes + 1
  /\ Forget(Pods)
  /\ mpc' = "idle" /\ listed' = {} /\ known' = {}
  /\ shim' = [p \in Pods |-> IF shim[p] = "session" THEN "connect" ELSE shim[p]]
  /\ failing' = [p \in Pods |-> failing[p] \/ shim[p] = "session"]
  /\ UNCHANGED <<kube, tries, drains>>

CtlStart ==
  /\ ctl = "down"
  /\ ctl' = "starting"
  /\ UNCHANGED <<window, entry, seeded, crashes, passVars, kube, shimVars>>

\* reconcile: pods of an earlier run get an entry, failed ones are deleted.
Reconcile ==
  /\ ctl = "starting"
  /\ ctl' = "up" /\ window' = TRUE
  /\ LET adopt == {p \in Pods : kube[p] = "live"} \ Tracked IN
       /\ entry' = [p \in Pods |-> IF p \in adopt THEN "creating" ELSE entry[p]]
       /\ seeded' = [p \in Pods |-> seeded[p] \/ p \in adopt]
  /\ Delete({p \in Pods : kube[p] = "failed"})
  /\ UNCHANGED <<crashes, passVars>>

ReconcileListFails ==
  /\ "list" \in Env
  /\ ctl = "starting"
  /\ ctl' = "up" /\ window' = TRUE
  /\ UNCHANGED <<entry, seeded, crashes, passVars, kube, shimVars>>

\* The adoption window and the orphan grace (the same length) end.
WindowEnds ==
  /\ window
  /\ window' = FALSE
  /\ UNCHANGED <<ctl, entry, seeded, crashes, passVars, kube, shimVars>>

\* maybeScaleUp on behalf of a request: one new pod under the ceiling.
ScaleUp(p) ==
  /\ Serving
  /\ kube[p] = "absent" /\ entry[p] = "none"
  /\ Cardinality(InPhase("ready") \cup InPhase("creating")) < MaxPods
  /\ entry' = [entry EXCEPT ![p] = "creating"]
  /\ UNCHANGED <<ctl, window, seeded, crashes, passVars, kube, shimVars>>

\* Pods.Create returns, and the shim starts in the new pod.
CreateDone(p) ==
  /\ entry[p] = "creating" /\ kube[p] = "absent"
  /\ kube' = [kube EXCEPT ![p] = "live"]
  /\ shim' = [shim EXCEPT ![p] = "register"]
  /\ UNCHANGED <<ctlVars, passVars, tries, failing, drains>>

CreateFails(p) ==
  /\ "create" \in Env
  /\ entry[p] = "creating" /\ kube[p] = "absent"
  /\ Forget({p})
  /\ UNCHANGED <<ctl, window, crashes, passVars, kube, shimVars>>

-----------------------------------------------------------------------------
(* scaleDownOnce. *)

\* Mutant: only pods that have not registered yet are looked up.
FailedCreating(list) == {p \in list : kube[p] = "failed" /\ entry[p] = "creating"}

\* The listed pods whose container has exited.
Failed(list) == {p \in list : kube[p] = "failed"}

\* Creating pods past their deadline: the window for seeded ones, the
\* registration timeout for new ones.
MayBeLate == {p \in InPhase("creating") : IF seeded[p] THEN ~window ELSE "deadline" \in Env}

\* What the scaler may choose.
MayDrain == IF "idle" \in Env THEN InPhase("ready") ELSE {}

\* What a pass may list.
Lists == {Existing} \cup (IF "list" \in Env THEN {{}} ELSE {})

\* The list is taken, the pools are examined: ready pods start to drain;
\* failed, late and drained pods are deleted.
PoolPass(list, late, drain) ==
  /\ ctl = "up" /\ mpc = "idle"
  /\ LET dead == (Failed(list) \cap Tracked) \cup late \cup {p \in MayBeLate : seeded[p]} IN
       /\ Delete(dead)
       /\ seeded' = [p \in Pods |-> seeded[p] /\ p \notin dead]
       /\ entry' = [p \in Pods |-> IF p \in dead THEN "none"
                                   ELSE IF p \in drain THEN "draining" ELSE entry[p]]
  /\ known' = Tracked /\ listed' = list
  /\ mpc' = IF list = Existing THEN "drift" ELSE "idle"
  /\ UNCHANGED <<ctl, window, crashes>>

\* Entries whose pod is not in the list.
Vanished == {p \in Tracked \ listed : kube[p] = "gone"}

\* Mutant: only the entries are corrected.
DriftForgetsOnly(old) ==
  /\ mpc = "drift"
  /\ Forget(old)
  /\ mpc' = "idle" /\ listed' = {} /\ known' = {}
  /\ UNCHANGED <<ctl, window, crashes, kube, shimVars>>

\* Listed pods that had no entry are deleted, old entries without a listed
\* pod are forgotten.
Drift(old) ==
  /\ mpc = "drift"
  /\ IF window THEN UNCHANGED <<kube, shimVars>> ELSE Delete(listed \ known)
  /\ Forget(old)
  /\ mpc' = "idle" /\ listed' = {} /\ known' = {}
  /\ UNCHANGED <<ctl, window, crashes>>

-----------------------------------------------------------------------------
(* The shim's controller session. *)

\* Register at the controller: any pod becomes ready, known or not.
Ready(p) ==
  /\ entry' = [entry EXCEPT ![p] = "ready"]
  /\ seeded' = [seeded EXCEPT ![p] = FALSE]

Register(p) ==
  /\ shim[p] = "register" /\ Serving
  /\ Ready(p)
  /\ shim' = [shim EXCEPT ![p] = "connect"]
  /\ UNCHANGED <<ctl, window, crashes, passVars, kube, tries, failing, drains>>

\* Mutant: one attempt too many.
TryOnceMore(p) ==
  /\ tries' = [tries EXCEPT ![p] = @ + 1]
  /\ shim' = [shim EXCEPT ![p] = IF tries[p] = MaxTries THEN "connect" ELSE "register"]

\* An attempt fails; after the last one the shim goes on without.
TryAgain(p) ==
  /\ tries' = [tries EXCEPT ![p] = @ + 1]
  /\ shim' = [shim EXCEPT ![p] = IF tries[p] + 1 = MaxTries THEN "connect" ELSE "register"]

RegisterFails(p) ==
  /\ shim[p] = "register" /\ (~Serving \/ "net" \in Env)
  /\ TryAgain(p)
  /\ UNCHANGED <<ctlVars, passVars, kube, failing, drains>>

\* The controller has registered the pod, the answer is lost.
RegisterUnanswered(p) ==
  /\ "net" \in Env
  /\ shim[p] = "register" /\ Serving
  /\ Ready(p) /\ TryAgain(p)
  /\ UNCHANGED <<ctl, window, crashes, passVars, kube, failing, drains>>

\* Mutant: every new session registers the pod again.
ConnectRegisters(p) ==
  /\ shim[p] = "connect" /\ Serving
  /\ Ready(p)
  /\ shim' = [shim EXCEPT ![p] = "session"]
  /\ failing' = [failing EXCEPT ![p] = FALSE]
  /\ UNCHANGED <<ctl, window, crashes, passVars, kube, tries, drains>>

\* heartbeatSession opens the stream and sends: the failure window starts over.
Connect(p) ==
  /\ shim[p] = "connect" /\ Serving
  /\ shim' = [shim EXCEPT ![p] = "session"]
  /\ failing' = [failing EXCEPT ![p] = FALSE]
  /\ UNCHANGED <<ctlVars, passVars, kube, tries, drains>>

\* Mutant: the failure window starts over with every attempt.
ConnectRestartsWindow(p) ==
  /\ shim[p] = "connect" /\ ~Serving
  /\ failing' = [failing EXCEPT ![p] = FALSE]
  /\ UNCHANGED <<ctlVars, passVars, kube, shim, tries, drains>>

\* The stream cannot be opened.
ConnectFails(p) ==
  /\ shim[p] = "connect" /\ ~Serving
  /\ failing' = [failing EXCEPT ![p] = TRUE]
  /\ UNCHANGED <<ctlVars, passVars, kube, shim, tries, drains>>

\* It has failed for heartbeatFailWindow: the shim terminates, the pod fails.
SelfTerminate(p) ==
  /\ shim[p] = "connect" /\ ~Serving /\ failing[p]
  /\ Stop({p}, "failed")
  /\ UNCHANGED <<ctlVars, passVars>>

StreamBreaks(p) ==
  /\ "net" \in Env
  /\ shim[p] = "session"
  /\ shim' = [shim EXCEPT ![p] = "connect"]
  /\ failing' = [failing EXCEPT ![p] = TRUE]
  /\ UNCHANGED <<ctlVars, passVars, kube, tries, drains>>

\* A heartbeat of a pod that drains: the shim learns of it, and if the pod has
\* no work left it is deleted.
DrainHeartbeat(p) ==
  /\ shim[p] = "session" /\ entry[p] = "draining"
  /\ \/ /\ ~drains[p]
        /\ drains' = [drains EXCEPT ![p] = TRUE]
        /\ UNCHANGED <<entry, seeded, kube, shim, tries, failing>>
     \/ Forget({p}) /\ Delete({p})
  /\ UNCHANGED <<ctl, window, crashes, passVars>>

\* The container of a worker exits with an error.
PodCrash(p) ==
  /\ "crash" \in Env
  /\ kube[p] = "live"
  /\ Stop({p}, "failed")
  /\ UNCHANGED <<ctlVars, passVars>>

-----------------------------------------------------------------------------
Session(p) ==
  \/ Register(p) \/ RegisterFails(p) \/ RegisterUnanswered(p)
  \/ Connect(p) \/ ConnectFails(p) \/ SelfTerminate(p) \/ StreamBreaks(p) \/ DrainHeartbeat(p)

Pass ==
  \/ \E list \in Lists, late \in SUBSET (MayBeLate \cup InPhase("draining")), drain \in SUBSET MayDrain :
       PoolPass(list, late, drain)
  \/ \E old \in SUBSET Vanished : Drift(old)

LifeNext ==
  \/ CtlCrash \/ CtlStart \/ Reconcile \/ ReconcileListFails \/ WindowEnds
  \/ \E p \in Pods : ScaleUp(p) \/ CreateDone(p) \/ CreateFails(p) \/ Session(p) \/ PodCrash(p)
  \/ Pass

LifeSpec == LifeInit /\ [][LifeNext]_lifeVars

(* A started controller reconciles and runs its ticker, and from time to     *)
(* time Pods.List and Pods.Delete work; time passes; a shim keeps trying, and *)
(* five minutes of failures come to an end.  Nothing makes a controller that *)
(* is down start again, and no pod has to be created.                        *)
LifeFairness ==
  /\ WF_lifeVars(Reconcile \/ ReconcileListFails) /\ WF_lifeVars(WindowEnds)
  /\ WF_lifeVars(Pass) /\ SF_lifeVars(PoolPass(Existing, {}, {}))
  /\ \A p \in Pods :
       /\ WF_lifeVars(Register(p) \/ RegisterFails(p) \/ Connect(p) \/ ConnectFails(p)
                              \/ SelfTerminate(p))
       /\ SF_lifeVars(Drift(Vanished)
                    /\ (p \in listed \ known /\ ~window => kube'[p] = "gone"))

LifeFairSpec == LifeSpec /\ LifeFairness

-----------------------------------------------------------------------------
LifeTypeOK ==
  /\ ctl \in {"down", "starting", "up"} /\ window \in BOOLEAN /\ crashes \in 0..MaxCrashes
  /\ entry \in [Pods -> {"none", "creating", "ready", "draining"}]
  /\ seeded \in [Pods -> BOOLEAN]
  /\ mpc \in {"idle", "drift"} /\ listed \subseteq Pods /\ known \subseteq Pods
  /\ kube \in [Pods -> {"absent", "live", "failed", "gone"}]
  /\ shim \in [Pods -> {"off", "register", "connect", "session"}]
  /\ tries \in [Pods -> 0..MaxTries]
  /\ failing \in [Pods -> BOOLEAN] /\ drains \in [Pods -> BOOLEAN]

(* Draining is final: a pod whose shim has been told to drain, and answers   *)
(* every request with 503 from then on, never counts as ready again, not     *)
(* even for a controller that has restarted and forgotten that it drained it.*)
DrainIsFinal == \A p \in Pods : drains[p] => entry[p] # "ready"

(* "no orphan pod lingers when the controller is gone" (shim/controller.go,  *)
(* runController): if the controller never comes back, every worker stops,   *)
(* registered or not.                                                        *)
NoStrayWorkers == <>[](ctl = "down") => \A p \in Pods : <>[](kube[p] # "live")

(* A running controller deals with every pod it has no entry for (one of a   *)
(* failed list at start-up, of a failed Pods.Delete, of an earlier run): it  *)
(* is adopted or deleted.                                                    *)
StraysResolved ==
  \A p \in Pods :
    p \in Existing /\ entry[p] = "none" ~> p \notin Existing \/ entry[p] # "none" \/ ~Serving

(* The entry of a pod that has failed or is gone does not stay in the pool,  *)
(* where it would be given slots or count against the ceiling.               *)
DeadEntriesForgotten ==
  \A p \in Pods :
    entry[p] # "none" /\ kube[p] \in {"failed", "gone"} ~> entry[p] = "none"

(* Pods, entries and controllers that come and go leave nothing behind.      *)
PodsSettle == NoStrayWorkers /\ StraysResolved /\ DeadEntriesForgotten

(* reconcile: "keeps adopting pods a previous controller created"            *)
(* (reconcile.go:15-16), and maybeScaleUp: "they are already running and     *)
(* only need to re-register" (dispatcher.go).  So a healthy pod of the       *)
(* previous run whose shim is connected to the new one is not deleted as     *)
(* unadopted.  It is: the shim registers once in its life, and a heartbeat   *)
(* does not make a pod ready.                                                *)
ConnectedPodsKept ==
  [][\A p \in Pods : seeded[p] /\ shim[p] = "session" /\ entry'[p] = "none" => ctl' = "down"]_lifeVars
=============================================================================
