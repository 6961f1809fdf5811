------------------------------ MODULE MCControl ------------------------------
(***************************************************************************)
(* What the control plane must eventually do, on instances small enough    *)
(* for liveness: the in-memory queue, the life of a pod across controller  *)
(* crashes, and the dispatcher where nothing fails and clients release     *)
(* their slots.  They share nothing here: part says which one a behaviour  *)
(* is about.                                                               *)
(***************************************************************************)
EXTENDS MemQueue, PodLifecycle

CONSTANTS r1, r2, none, nopod

VARIABLES
  part,
  \* Dispatcher
  phase, inFlight, loaded, pending, slotFreed, poolKube, pc, callCtx, queue, waiters, settled,
  delivered, stage, on, detached, dpc, ditem, reaps, deleting, poolPass, mcur, mdead, mok,
  mlisted, mfailed, morphans, mdrain, mdel

-----------------------------------------------------------------------------
OnePage == [r \in {r1, r2} |-> "page"]
Calm == INSTANCE Dispatcher WITH
          Req <- {r1, r2}, Pods <- {"w1"}, Pages <- {"page"}, PageOf <- OnePage,
          Reports <- {{}}, Cap <- 1, Target <- 1, MaxPods <- 1, Env <- {},
          NoReq <- none, NoPod <- nopod, ctx <- callCtx, kube <- poolKube, mpc <- poolPass

-----------------------------------------------------------------------------
Is(p) == part = p
pool == <<phase, inFlight, loaded, pending, slotFreed, poolKube, pc, callCtx, queue, waiters,
          settled, delivered, stage, on, detached, dpc, ditem, reaps, deleting, poolPass, mcur,
          mdead, mok, mlisted, mfailed, morphans, mdrain, mdel>>

MCInit == part \in {"queue", "pods", "serving"} /\ Init /\ LifeInit /\ Calm!Init
MCNext ==
  /\ UNCHANGED part
  /\ \/ Is("queue") /\ Next /\ UNCHANGED <<lifeVars, pool>>
     \/ Is("pods") /\ LifeNext /\ UNCHANGED <<vars, pool>>
     \/ Is("serving") /\ Calm!Next /\ UNCHANGED <<vars, lifeVars>>

(* The fairness of MemQueue, PodLifecycle and Dispatcher, each while its   *)
(* own part moves.  No deadline passes in the serving part, so the strong  *)
(* fairness of Dispatcher says nothing there.                              *)
QueueFair ==
  /\ \A i \in Items : WF_vars(Is("queue") /\ WatcherCancels(i))
  /\ \A c \in Consumers : /\ WF_vars(Is("queue") /\ Dequeue(c))
                          /\ WF_vars(Is("queue") /\ WakerBroadcasts(c, "current"))
PodsFair ==
  /\ WF_lifeVars(Is("pods") /\ (Reconcile \/ ReconcileListFails))
  /\ WF_lifeVars(Is("pods") /\ WindowEnds)
  /\ WF_lifeVars(Is("pods") /\ Pass)
  /\ SF_lifeVars(Is("pods") /\ PoolPass(Existing, {}, {}))
  /\ \A p \in Pods :
       /\ WF_lifeVars(Is("pods") /\ (Register(p) \/ RegisterFails(p) \/ Connect(p)
                                      \/ ConnectFails(p) \/ SelfTerminate(p)))
       /\ SF_lifeVars(Is("pods") /\ Drift(Vanished)
                        /\ (p \in listed \ known /\ ~window => kube'[p] = "gone"))
ServingFair ==
  /\ \A r \in {r1, r2} : /\ WF_pool(Is("serving") /\ Calm!Handler(r))
                         /\ WF_pool(Is("serving") /\ Calm!FreeSlot(r))
                         /\ WF_pool(Is("serving") /\ Calm!ReleaseSlot(r))
  /\ WF_pool(Is("serving") /\ (Calm!CreateDone("w1") \/ Calm!CreateFails("w1")))
  /\ WF_pool(Is("serving") /\ Calm!Register("w1"))
  /\ WF_pool(Is("serving") /\ Calm!Dispatch)
  /\ WF_pool(Is("serving") /\ Calm!Maintenance)

MCSpec ==
  MCInit /\ [][MCNext]_<<part, vars, lifeVars, pool>> /\ QueueFair /\ PodsFair /\ ServingFair

-----------------------------------------------------------------------------
(* With clients that release their slots, and nothing that fails, every    *)
(* AcquireSlot call is granted one (the dispatcher's coalesced wakeups).   *)
RequestsServed == Calm!RequestsServed
=============================================================================
