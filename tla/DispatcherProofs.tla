-------------------------- MODULE DispatcherProofs --------------------------
(***************************************************************************)
(* Proofs about Dispatcher, for every number of requests, pods and slots   *)
(* per pod: type correctness; the slot counters of the pool count exactly  *)
(* the outstanding reservations and leases; the settle handshake loses no  *)
(* waiter and no slot; no wakeup is lost; the pod ceiling holds.           *)
(***************************************************************************)
EXTENDS Dispatcher, SeqLemmas, FiniteSetTheorems, WellFoundedInduction, TLAPS

(* maybeScaleUp only adds names the cluster has never seen. *)
LEMMA NewPodsAreFresh ==
  ASSUME NEW new \in NewPods
  PROVE  new \subseteq Pods /\ \A p \in new : kube[p] = "none"
BY DEF NewPods

(* tryReserve picks a ready pod below the cap. *)
LEMMA BestIsFree ==
  ASSUME NEW page, NEW p \in Best(page)
  PROVE  p \in Pods /\ phase[p] = "ready" /\ inFlight[p] < Cap
BY DEF Best, BestPods, FreePods, InPhase

(* releaseSlot keeps the counters natural numbers. *)
LEMMA ReleaseSlotOfType ==
  ASSUME inFlight \in [Pods -> Nat], NEW p \in Pods, ReleaseSlotOf(p)
  PROVE  inFlight' \in [Pods -> Nat]
BY DEF ReleaseSlotOf

(* Pods.Delete, and any other change of one pod in the cluster. *)
LEMMA KubeUpdateType ==
  ASSUME NEW K, kube \in [Pods -> K], NEW p \in Pods, NEW k \in K
  PROVE  [kube EXCEPT ![p] = k] \in [Pods -> K]
OBVIOUS

(* Every step keeps the types. *)
LEMMA TypeStep ==
  ASSUME TypeOK, SlotOwner, [Next]_vars
  PROVE  TypeOK'
<1> USE ReqAssumption, PodsAssumption, PageAssumption DEF TypeOK
<1>0. CASE UNCHANGED vars
  BY <1>0 DEF vars, poolVars, slotVars, waitVars, dispVars, maintVars, delVars
<1>1. ASSUME NEW r \in Req, AcquireSlot(r) PROVE TypeOK'
  BY <1>1, NewPodsAreFresh DEF AcquireSlot, poolVars, slotVars, waitVars, dispVars, maintVars, delVars
<1>2. ASSUME NEW r \in Req, PageNotFound(r) PROVE TypeOK'
  BY <1>2 DEF PageNotFound, Return, poolVars, slotVars, waitVars, dispVars, maintVars, delVars
<1>3. ASSUME NEW r \in Req, AdmitFast(r) PROVE TypeOK'
  BY <1>3 DEF AdmitFast, Reserve, poolVars, slotVars, waitVars, dispVars, maintVars, delVars
<1>4. ASSUME NEW r \in Req, AdmitSlow(r) PROVE TypeOK'
  BY <1>4 DEF AdmitSlow, poolVars, slotVars, waitVars, dispVars, maintVars, delVars
<1>5. ASSUME NEW r \in Req, FastLease(r) PROVE TypeOK'
  BY <1>5 DEF FastLease, RecordLease, Return, SentGrant, poolVars, slotVars, waitVars, dispVars, maintVars, delVars
<1>6. ASSUME NEW r \in Req, FastLeaseFails(r) PROVE TypeOK'
  <2>1. inFlight' = inFlight \/ ReleaseSlotOf(on[r])
    BY <1>6 DEF FastLeaseFails, UndoReservation
  <2>2. inFlight' \in [Pods -> Nat]
    BY <1>6, <2>1, ReleaseSlotOfType DEF FastLeaseFails, SlotOwner
  <2>3. on' \in [Req -> Pods \cup {NoPod}] /\ stage' \in [Req -> {"none", "reserved", "leased", "freeing"}]
    BY <1>6 DEF FastLeaseFails, UndoReservation, DropSlot
  <2> QED
    BY <1>6, <2>2, <2>3, ZenonT(30) DEF FastLeaseFails, UndoReservation, Return, poolVars, slotVars, waitVars, dispVars, maintVars, delVars
<1>7. ASSUME NEW r \in Req, Enqueue(r) PROVE TypeOK'
  BY <1>7 DEF Enqueue, poolVars, slotVars, waitVars, dispVars, maintVars, delVars
<1>8. ASSUME NEW r \in Req, EnqueueExpired(r) PROVE TypeOK'
  BY <1>8 DEF EnqueueExpired, Return, poolVars, slotVars, waitVars, dispVars, maintVars, delVars
<1>9. ASSUME NEW r \in Req, Position(r) PROVE TypeOK'
  BY <1>9 DEF Position, poolVars, slotVars, waitVars, dispVars, maintVars, delVars
<1>10. ASSUME NEW r \in Req, Announce(r) PROVE TypeOK'
  <2>1. waiters' \subseteq Req
    BY <1>10 DEF Announce, Return
  <2>2. ctx' = ctx \/ ctx' = [ctx EXCEPT ![r] = "done"]
    BY <1>10 DEF Announce, Return
  <2>3. pc' = [pc EXCEPT ![r] = "broken"] \/ pc' = [pc EXCEPT ![r] = "wait"]
    BY <1>10 DEF Announce, Return
  <2>4. ctx' \in [Req -> {"live", "expired", "gone", "done"}]
    BY <2>2
  <2>5. pc' \in [Req -> {"new", "notfound", "admit", "build", "enqueue", "position", "announce", "wait",
                         "granted", "released", "lost", "timeout", "broken", "error"}]
    BY <2>3
  <2> QED
    BY <1>10, <2>1, <2>4, <2>5 DEF Announce, poolVars, slotVars, waitVars, dispVars, maintVars, delVars
<1>11. ASSUME NEW r \in Req, ReceiveGrant(r) PROVE TypeOK'
  BY <1>11 DEF ReceiveGrant, Return, SentGrant, poolVars, slotVars, waitVars, dispVars, maintVars, delVars
<1>12. ASSUME NEW r \in Req, WaitExpired(r) PROVE TypeOK'
  BY <1>12 DEF WaitExpired, Return, poolVars, slotVars, waitVars, dispVars, maintVars, delVars
<1>13. ASSUME NEW r \in Req, RouterGone(r) PROVE TypeOK'
  BY <1>13 DEF RouterGone, poolVars, slotVars, waitVars, dispVars, maintVars, delVars
<1>14. ASSUME NEW r \in Req, ReleaseSlot(r) PROVE TypeOK'
  BY <1>14 DEF ReleaseSlot, TakeLease, poolVars, slotVars, waitVars, dispVars, maintVars, delVars
<1>15. ASSUME NEW r \in Req, RouterLost(r) PROVE TypeOK'
  BY <1>15 DEF RouterLost, poolVars, slotVars, waitVars, dispVars, maintVars, delVars
<1>16. ASSUME NEW r \in Req, QueueTimeout(r) PROVE TypeOK'
  BY <1>16 DEF QueueTimeout, poolVars, slotVars, waitVars, dispVars, maintVars, delVars
<1>17. ASSUME NEW r \in Req, QueueCancel(r) PROVE TypeOK'
  BY <1>17, RemoveAtProperties DEF QueueCancel, poolVars, slotVars, waitVars, dispVars, maintVars, delVars
<1>18. ASSUME NEW r \in Req, FreeSlot(r) PROVE TypeOK'
  BY <1>18 DEF FreeSlot, DropSlot, ReleaseSlotOf, poolVars, slotVars, waitVars, dispVars, maintVars, delVars
<1>19. ASSUME DispatchDequeue PROVE TypeOK'
  BY <1>19 DEF DispatchDequeue, poolVars, slotVars, waitVars, dispVars, maintVars, delVars
<1>20. ASSUME DispatchTake PROVE TypeOK'
  <2>1. CASE ditem \in waiters
    BY <1>20, <2>1 DEF DispatchTake, poolVars, slotVars, waitVars, dispVars, maintVars, delVars
  <2>2. CASE ditem \notin waiters
    BY <1>20, <2>2 DEF DispatchTake, poolVars, slotVars, waitVars, dispVars, maintVars, delVars
  <2> QED
    BY <2>1, <2>2
<1>21. ASSUME DispatchReserve PROVE TypeOK'
  BY <1>21 DEF DispatchReserve, Reserve, poolVars, slotVars, waitVars, dispVars, maintVars, delVars, SlotOwner, Best, BestPods, FreePods
<1>22. ASSUME DispatchBlock PROVE TypeOK'
  BY <1>22 DEF DispatchBlock, poolVars, slotVars, waitVars, dispVars, maintVars, delVars
<1>23. ASSUME DispatchWake PROVE TypeOK'
  BY <1>23 DEF DispatchWake, poolVars, slotVars, waitVars, dispVars, maintVars, delVars
<1>24. ASSUME DispatchGiveUp PROVE TypeOK'
  BY <1>24 DEF DispatchGiveUp, poolVars, slotVars, waitVars, dispVars, maintVars, delVars
<1>25. ASSUME DispatchUnmark PROVE TypeOK'
  BY <1>25 DEF DispatchUnmark, poolVars, slotVars, waitVars, dispVars, maintVars, delVars
<1>26. ASSUME DispatchLease PROVE TypeOK'
  BY <1>26 DEF DispatchLease, RecordLease, poolVars, slotVars, waitVars, dispVars, maintVars, delVars
<1>27. ASSUME DispatchLeaseFails PROVE TypeOK'
  <2>1. inFlight' = inFlight \/ ReleaseSlotOf(on[ditem])
    BY <1>27 DEF DispatchLeaseFails, UndoReservation
  <2>2. on' \in [Req -> Pods \cup {NoPod}] /\ stage' \in [Req -> {"none", "reserved", "leased", "freeing"}]
    BY <1>27 DEF DispatchLeaseFails, UndoReservation, DropSlot
  <2>3. inFlight' \in [Pods -> Nat]
    BY <1>27, <2>1, ReleaseSlotOfType DEF DispatchLeaseFails, SlotOwner
  <2> QED
    BY <1>27, <2>2, <2>3 DEF DispatchLeaseFails, UndoReservation, poolVars, slotVars, waitVars, dispVars, maintVars, delVars
<1>28. ASSUME Deliver PROVE TypeOK'
  BY <1>28, ZenonT(30) DEF Deliver, poolVars, slotVars, waitVars, dispVars, maintVars, delVars
<1>29. ASSUME Rollback PROVE TypeOK'
  BY <1>29 DEF Rollback, TakeLease, poolVars, slotVars, waitVars, dispVars, maintVars, delVars
<1>30. ASSUME NEW p \in Pods, CreateDone(p) PROVE TypeOK'
  BY <1>30 DEF CreateDone, poolVars, slotVars, waitVars, dispVars, maintVars, delVars
<1>31. ASSUME NEW p \in Pods, CreateFails(p) PROVE TypeOK'
  BY <1>31 DEF CreateFails, Untrack, poolVars, slotVars, waitVars, dispVars, maintVars, delVars
<1>32. ASSUME NEW p \in Pods, Register(p) PROVE TypeOK'
  BY <1>32 DEF Register, poolVars, slotVars, waitVars, dispVars, maintVars, delVars
<1>33. ASSUME NEW p \in Pods, Heartbeat(p) PROVE TypeOK'
  BY <1>33 DEF Heartbeat, poolVars, slotVars, waitVars, dispVars, maintVars, delVars
<1>34. ASSUME NEW p \in Pods, Reap(p) PROVE TypeOK'
  BY <1>34 DEF Reap, StartDelete, Untrack, poolVars, slotVars, waitVars, dispVars, maintVars, delVars
<1>35. ASSUME NEW p \in Pods, PodCrash(p) PROVE TypeOK'
  BY <1>35 DEF PodCrash, poolVars, slotVars, waitVars, dispVars, maintVars, delVars
<1>36. ASSUME NEW p \in Pods, PodVanish(p) PROVE TypeOK'
  BY <1>36 DEF PodVanish, poolVars, slotVars, waitVars, dispVars, maintVars, delVars
<1>37. ASSUME NEW d \in deleting, FinishDelete(d) PROVE TypeOK'
  <2>1. kube' \in [Pods -> {"none", "creating", "live", "up", "failed", "gone"}]
    <3>1. \/ kube' = kube
          \/ kube' = [kube EXCEPT ![d[1]] = IF @ \in Deletable THEN "gone" ELSE @]
      BY <1>37 DEF FinishDelete
    <3>2. d[1] \in Pods
      OBVIOUS
    <3> DEFINE k == IF kube[d[1]] \in Deletable THEN "gone" ELSE kube[d[1]]
    <3>3. k \in {"none", "creating", "live", "up", "failed", "gone"}
      BY <3>2
    <3>4. kube' = kube \/ kube' = [kube EXCEPT ![d[1]] = k]
      BY <3>1
    <3> HIDE DEF k
    <3>5. kube \in [Pods -> {"none", "creating", "live", "up", "failed", "gone"}]
      OBVIOUS
    <3> QED
      BY ONLY <3>2, <3>3, <3>4, <3>5, KubeUpdateType
  <2>2. stage' \in [Req -> {"none", "reserved", "leased", "freeing"}] /\ on' \in [Req -> Pods \cup {NoPod}]
    BY <1>37 DEF FinishDelete
  <2> QED
    BY <1>37, <2>1, <2>2 DEF FinishDelete, poolVars, slotVars, waitVars, dispVars, maintVars, delVars
<1>38. ASSUME NEW dead \in SUBSET Req, WatchdogScan(dead) PROVE TypeOK'
  BY <1>38 DEF WatchdogScan, poolVars, slotVars, waitVars, dispVars, maintVars, delVars, SlotOwner
<1>39. ASSUME NEW d \in mdead, WatchdogRelease(d) PROVE TypeOK'
  BY <1>39 DEF WatchdogRelease, TakeLease, poolVars, slotVars, waitVars, dispVars, maintVars, delVars
<1>40. ASSUME WatchdogDelete PROVE TypeOK'
  BY <1>40 DEF WatchdogDelete, StartDelete, Untrack, poolVars, slotVars, waitVars, dispVars, maintVars, delVars, SlotOwner
<1>41. ASSUME ListPods PROVE TypeOK'
  BY <1>41 DEF ListPods, poolVars, slotVars, waitVars, dispVars, maintVars, delVars
<1>42. ASSUME NEW overdue \in SUBSET Pods, NEW drain \in SUBSET Pods, PoolPass(overdue, drain) PROVE TypeOK'
  BY <1>42 DEF PoolPass, Tracked, InPhase, poolVars, slotVars, waitVars, dispVars, maintVars, delVars
<1>43. ASSUME NEW p \in Pods, DrainPod(p) PROVE TypeOK'
  BY <1>43 DEF DrainPod, poolVars, slotVars, waitVars, dispVars, maintVars, delVars
<1>44. ASSUME NEW p \in Pods, DeletePod(p) PROVE TypeOK'
  BY <1>44 DEF DeletePod, StartDelete, Untrack, poolVars, slotVars, waitVars, dispVars, maintVars, delVars
<1>45. ASSUME NEW old \in SUBSET Pods, Drift(old) PROVE TypeOK'
  <2>1. kube' \in [Pods -> {"none", "creating", "live", "up", "failed", "gone"}]
    BY <1>45 DEF Drift
  <2>2. /\ phase' \in [Pods -> {"none", "creating", "ready", "draining"}]
        /\ inFlight' \in [Pods -> Nat] /\ loaded' \in [Pods -> SUBSET Pages]
        /\ detached' \subseteq Req
    BY <1>45 DEF Drift, Untrack
  <2> QED
    BY <1>45, <2>1, <2>2 DEF Drift, poolVars, slotVars, waitVars, dispVars, maintVars, delVars
<1> QED
  BY <1>0, <1>1, <1>2, <1>3, <1>4, <1>5, <1>6, <1>7, <1>8, <1>9, <1>10, <1>11, <1>12, <1>13, <1>14, <1>15, <1>16, <1>17, <1>18, <1>19, <1>20, <1>21, <1>22, <1>23, <1>24, <1>25, <1>26, <1>27, <1>28, <1>29, <1>30, <1>31, <1>32, <1>33, <1>34, <1>35, <1>36, <1>37, <1>38, <1>39, <1>40, <1>41, <1>42, <1>43, <1>44, <1>45
  DEF Next, Arrive, Handler, Router, Dispatch, Worker, Maintenance

(* Every step keeps each request in one place. *)
LEMMA OwnerStep ==
  ASSUME TypeOK, SlotOwner, TypeOK', [Next]_vars
  PROVE  SlotOwner'
<1> USE ReqAssumption, PodsAssumption DEF TypeOK, SlotOwner, ToSet
<1>0. CASE UNCHANGED vars
  BY <1>0 DEF vars, poolVars, slotVars, waitVars, dispVars, maintVars, delVars
<1>1. ASSUME NEW r \in Req, AcquireSlot(r) PROVE SlotOwner'
  BY <1>1 DEF AcquireSlot, poolVars, slotVars, waitVars, dispVars, maintVars, delVars
<1>2. ASSUME NEW r \in Req, PageNotFound(r) PROVE SlotOwner'
  BY <1>2 DEF PageNotFound, Return, poolVars, slotVars, waitVars, dispVars, maintVars, delVars
<1>3. ASSUME NEW r \in Req, AdmitFast(r) PROVE SlotOwner'
  BY <1>3 DEF AdmitFast, Reserve, poolVars, slotVars, waitVars, dispVars, maintVars, delVars
<1>4. ASSUME NEW r \in Req, AdmitSlow(r) PROVE SlotOwner'
  BY <1>4 DEF AdmitSlow, poolVars, slotVars, waitVars, dispVars, maintVars, delVars
<1>5. ASSUME NEW r \in Req, FastLease(r) PROVE SlotOwner'
  BY <1>5 DEF FastLease, RecordLease, Return, SentGrant, poolVars, slotVars, waitVars, dispVars, maintVars, delVars
<1>6. ASSUME NEW r \in Req, FastLeaseFails(r) PROVE SlotOwner'
  BY <1>6 DEF FastLeaseFails, UndoReservation, DropSlot, ReleaseSlotOf, Return, poolVars, slotVars, waitVars, dispVars, maintVars, delVars
<1>7. ASSUME NEW r \in Req, Enqueue(r) PROVE SlotOwner'
  BY <1>7 DEF Enqueue, poolVars, slotVars, waitVars, dispVars, maintVars, delVars
<1>8. ASSUME NEW r \in Req, EnqueueExpired(r) PROVE SlotOwner'
  BY <1>8 DEF EnqueueExpired, Return, poolVars, slotVars, waitVars, dispVars, maintVars, delVars
<1>9. ASSUME NEW r \in Req, Position(r) PROVE SlotOwner'
  BY <1>9 DEF Position, poolVars, slotVars, waitVars, dispVars, maintVars, delVars
<1>10. ASSUME NEW r \in Req, Announce(r) PROVE SlotOwner'
  <2>1. pc[r] = "announce" /\ (pc' = [pc EXCEPT ![r] = "broken"] \/ pc' = [pc EXCEPT ![r] = "wait"])
    BY <1>10 DEF Announce, Return
  <2>2. UNCHANGED <<stage, on, queue, dpc, ditem, mpc, mcur>>
    BY <1>10 DEF Announce, poolVars, slotVars, waitVars, dispVars, maintVars, delVars
  <2>3. \A q \in Req : pc'[q] \in {"new", "notfound", "admit", "enqueue", "build"} => pc'[q] = pc[q]
    BY <2>1
  <2> QED
    BY <2>2, <2>3
<1>11. ASSUME NEW r \in Req, ReceiveGrant(r) PROVE SlotOwner'
  BY <1>11 DEF ReceiveGrant, Return, SentGrant, poolVars, slotVars, waitVars, dispVars, maintVars, delVars
<1>12. ASSUME NEW r \in Req, WaitExpired(r) PROVE SlotOwner'
  BY <1>12 DEF WaitExpired, Return, poolVars, slotVars, waitVars, dispVars, maintVars, delVars
<1>13. ASSUME NEW r \in Req, RouterGone(r) PROVE SlotOwner'
  BY <1>13 DEF RouterGone, poolVars, slotVars, waitVars, dispVars, maintVars, delVars
<1>14. ASSUME NEW r \in Req, ReleaseSlot(r) PROVE SlotOwner'
  BY <1>14 DEF ReleaseSlot, TakeLease, poolVars, slotVars, waitVars, dispVars, maintVars, delVars
<1>15. ASSUME NEW r \in Req, RouterLost(r) PROVE SlotOwner'
  BY <1>15 DEF RouterLost, poolVars, slotVars, waitVars, dispVars, maintVars, delVars
<1>16. ASSUME NEW r \in Req, QueueTimeout(r) PROVE SlotOwner'
  BY <1>16 DEF QueueTimeout, poolVars, slotVars, waitVars, dispVars, maintVars, delVars
<1>17. ASSUME NEW r \in Req, QueueCancel(r) PROVE SlotOwner'
  <2>1. PICK i \in 1..Len(queue) : queue' = RemoveAt(queue, i)
    BY <1>17 DEF QueueCancel
  <2>2. \A j \in DOMAIN queue' : \E k \in DOMAIN queue : queue'[j] = queue[k]
    BY <2>1, RemoveAtElements
  <2>3. \A j, k \in DOMAIN queue' : queue'[j] = queue'[k] => j = k
    <3>1. \A j, k \in DOMAIN queue : queue[j] = queue[k] => j = k
      OBVIOUS
    <3>2. queue \in Seq(Req)
      OBVIOUS
    <3> HIDE DEF SlotOwner, TypeOK, ToSet
    <3> QED
      BY <2>1, <3>1, <3>2, RemoveAtElements
  <2> QED
    BY <1>17, <2>2, <2>3 DEF QueueCancel, poolVars, slotVars, waitVars, dispVars, maintVars, delVars
<1>18. ASSUME NEW r \in Req, FreeSlot(r) PROVE SlotOwner'
  BY <1>18 DEF FreeSlot, DropSlot, ReleaseSlotOf, poolVars, slotVars, waitVars, dispVars, maintVars, delVars
<1>19. ASSUME DispatchDequeue PROVE SlotOwner'
  BY <1>19 DEF DispatchDequeue, poolVars, slotVars, waitVars, dispVars, maintVars, delVars
<1>20. ASSUME DispatchTake PROVE SlotOwner'
  BY <1>20 DEF DispatchTake, poolVars, slotVars, waitVars, dispVars, maintVars, delVars
<1>21. ASSUME DispatchReserve PROVE SlotOwner'
  BY <1>21 DEF DispatchReserve, Reserve, poolVars, slotVars, waitVars, dispVars, maintVars, delVars
<1>22. ASSUME DispatchBlock PROVE SlotOwner'
  BY <1>22 DEF DispatchBlock, poolVars, slotVars, waitVars, dispVars, maintVars, delVars
<1>23. ASSUME DispatchWake PROVE SlotOwner'
  BY <1>23 DEF DispatchWake, poolVars, slotVars, waitVars, dispVars, maintVars, delVars
<1>24. ASSUME DispatchGiveUp PROVE SlotOwner'
  BY <1>24 DEF DispatchGiveUp, poolVars, slotVars, waitVars, dispVars, maintVars, delVars
<1>25. ASSUME DispatchUnmark PROVE SlotOwner'
  BY <1>25 DEF DispatchUnmark, poolVars, slotVars, waitVars, dispVars, maintVars, delVars
<1>26. ASSUME DispatchLease PROVE SlotOwner'
  BY <1>26 DEF DispatchLease, RecordLease, poolVars, slotVars, waitVars, dispVars, maintVars, delVars
<1>27. ASSUME DispatchLeaseFails PROVE SlotOwner'
  BY <1>27 DEF DispatchLeaseFails, UndoReservation, DropSlot, ReleaseSlotOf, poolVars, slotVars, waitVars, dispVars, maintVars, delVars
<1>28. ASSUME Deliver PROVE SlotOwner'
  BY <1>28 DEF Deliver, poolVars, slotVars, waitVars, dispVars, maintVars, delVars
<1>29. ASSUME Rollback PROVE SlotOwner'
  BY <1>29 DEF Rollback, TakeLease, poolVars, slotVars, waitVars, dispVars, maintVars, delVars
<1>30. ASSUME NEW p \in Pods, CreateDone(p) PROVE SlotOwner'
  BY <1>30 DEF CreateDone, poolVars, slotVars, waitVars, dispVars, maintVars, delVars
<1>31. ASSUME NEW p \in Pods, CreateFails(p) PROVE SlotOwner'
  BY <1>31 DEF CreateFails, Untrack, poolVars, slotVars, waitVars, dispVars, maintVars, delVars
<1>32. ASSUME NEW p \in Pods, Register(p) PROVE SlotOwner'
  BY <1>32 DEF Register, poolVars, slotVars, waitVars, dispVars, maintVars, delVars
<1>33. ASSUME NEW p \in Pods, Heartbeat(p) PROVE SlotOwner'
  BY <1>33 DEF Heartbeat, poolVars, slotVars, waitVars, dispVars, maintVars, delVars
<1>34. ASSUME NEW p \in Pods, Reap(p) PROVE SlotOwner'
  BY <1>34 DEF Reap, StartDelete, Untrack, poolVars, slotVars, waitVars, dispVars, maintVars, delVars
<1>35. ASSUME NEW p \in Pods, PodCrash(p) PROVE SlotOwner'
  BY <1>35 DEF PodCrash, poolVars, slotVars, waitVars, dispVars, maintVars, delVars
<1>36. ASSUME NEW p \in Pods, PodVanish(p) PROVE SlotOwner'
  BY <1>36 DEF PodVanish, poolVars, slotVars, waitVars, dispVars, maintVars, delVars
<1>37. ASSUME NEW d \in deleting, FinishDelete(d) PROVE SlotOwner'
  BY <1>37 DEF FinishDelete, LeasedOn, poolVars, slotVars, waitVars, dispVars, maintVars, delVars
<1>38. ASSUME NEW dead \in SUBSET Req, WatchdogScan(dead) PROVE SlotOwner'
  BY <1>38 DEF WatchdogScan, poolVars, slotVars, waitVars, dispVars, maintVars, delVars
<1>39. ASSUME NEW d \in mdead, WatchdogRelease(d) PROVE SlotOwner'
  BY <1>39 DEF WatchdogRelease, TakeLease, poolVars, slotVars, waitVars, dispVars, maintVars, delVars
<1>40. ASSUME WatchdogDelete PROVE SlotOwner'
  BY <1>40 DEF WatchdogDelete, StartDelete, Untrack, poolVars, slotVars, waitVars, dispVars, maintVars, delVars
<1>41. ASSUME ListPods PROVE SlotOwner'
  BY <1>41 DEF ListPods, poolVars, slotVars, waitVars, dispVars, maintVars, delVars
<1>42. ASSUME NEW overdue \in SUBSET Pods, NEW drain \in SUBSET Pods, PoolPass(overdue, drain) PROVE SlotOwner'
  BY <1>42 DEF PoolPass, poolVars, slotVars, waitVars, dispVars, maintVars, delVars
<1>43. ASSUME NEW p \in Pods, DrainPod(p) PROVE SlotOwner'
  BY <1>43 DEF DrainPod, poolVars, slotVars, waitVars, dispVars, maintVars, delVars
<1>44. ASSUME NEW p \in Pods, DeletePod(p) PROVE SlotOwner'
  BY <1>44 DEF DeletePod, StartDelete, Untrack, poolVars, slotVars, waitVars, dispVars, maintVars, delVars
<1>45. ASSUME NEW old \in SUBSET Pods, Drift(old) PROVE SlotOwner'
  BY <1>45 DEF Drift, Untrack, poolVars, slotVars, waitVars, dispVars, maintVars, delVars
<1> QED
  BY <1>0, <1>1, <1>2, <1>3, <1>4, <1>5, <1>6, <1>7, <1>8, <1>9, <1>10, <1>11, <1>12, <1>13, <1>14, <1>15, <1>16, <1>17, <1>18, <1>19, <1>20, <1>21, <1>22, <1>23, <1>24, <1>25, <1>26, <1>27, <1>28, <1>29, <1>30, <1>31, <1>32, <1>33, <1>34, <1>35, <1>36, <1>37, <1>38, <1>39, <1>40, <1>41, <1>42, <1>43, <1>44, <1>45
  DEF Next, Arrive, Handler, Router, Dispatch, Worker, Maintenance

(* Every step keeps pods that have not registered free of leases. *)
LEMMA FreshStep ==
  ASSUME SlotInv, TypeOK', [Next /\ ~AdoptsUnsettled]_vars
  PROVE  FreshPods'
<1> USE ReqAssumption, PodsAssumption DEF SlotInv, TypeOK, FreshPods
<1>0. CASE UNCHANGED vars
  BY <1>0 DEF vars, poolVars, slotVars, waitVars, dispVars, maintVars, delVars
<1>1. ASSUME NEW r \in Req, AcquireSlot(r) PROVE FreshPods'
  BY <1>1, NewPodsAreFresh DEF AcquireSlot, poolVars, slotVars, waitVars, dispVars, maintVars, delVars
<1>2. ASSUME NEW r \in Req, PageNotFound(r) PROVE FreshPods'
  BY <1>2 DEF PageNotFound, Return, poolVars, slotVars, waitVars, dispVars, maintVars, delVars
<1>3. ASSUME NEW r \in Req, AdmitFast(r) PROVE FreshPods'
  BY <1>3, BestIsFree DEF AdmitFast, Reserve, poolVars, slotVars, waitVars, dispVars, maintVars, delVars
<1>4. ASSUME NEW r \in Req, AdmitSlow(r) PROVE FreshPods'
  BY <1>4 DEF AdmitSlow, poolVars, slotVars, waitVars, dispVars, maintVars, delVars
<1>5. ASSUME NEW r \in Req, FastLease(r) PROVE FreshPods'
  BY <1>5 DEF FastLease, RecordLease, Return, SentGrant, poolVars, slotVars, waitVars, dispVars, maintVars, delVars
<1>6. ASSUME NEW r \in Req, FastLeaseFails(r) PROVE FreshPods'
  BY <1>6 DEF FastLeaseFails, UndoReservation, DropSlot, ReleaseSlotOf, Return, poolVars, slotVars, waitVars, dispVars, maintVars, delVars
<1>7. ASSUME NEW r \in Req, Enqueue(r) PROVE FreshPods'
  BY <1>7 DEF Enqueue, poolVars, slotVars, waitVars, dispVars, maintVars, delVars
<1>8. ASSUME NEW r \in Req, EnqueueExpired(r) PROVE FreshPods'
  BY <1>8 DEF EnqueueExpired, Return, poolVars, slotVars, waitVars, dispVars, maintVars, delVars
<1>9. ASSUME NEW r \in Req, Position(r) PROVE FreshPods'
  BY <1>9 DEF Position, poolVars, slotVars, waitVars, dispVars, maintVars, delVars
<1>10. ASSUME NEW r \in Req, Announce(r) PROVE FreshPods'
  BY <1>10 DEF Announce, Return, poolVars, slotVars, waitVars, dispVars, maintVars, delVars
<1>11. ASSUME NEW r \in Req, ReceiveGrant(r) PROVE FreshPods'
  BY <1>11 DEF ReceiveGrant, Return, SentGrant, poolVars, slotVars, waitVars, dispVars, maintVars, delVars
<1>12. ASSUME NEW r \in Req, WaitExpired(r) PROVE FreshPods'
  BY <1>12 DEF WaitExpired, Return, poolVars, slotVars, waitVars, dispVars, maintVars, delVars
<1>13. ASSUME NEW r \in Req, RouterGone(r) PROVE FreshPods'
  BY <1>13 DEF RouterGone, poolVars, slotVars, waitVars, dispVars, maintVars, delVars
<1>14. ASSUME NEW r \in Req, ReleaseSlot(r) PROVE FreshPods'
  BY <1>14 DEF ReleaseSlot, TakeLease, poolVars, slotVars, waitVars, dispVars, maintVars, delVars
<1>15. ASSUME NEW r \in Req, RouterLost(r) PROVE FreshPods'
  BY <1>15 DEF RouterLost, poolVars, slotVars, waitVars, dispVars, maintVars, delVars
<1>16. ASSUME NEW r \in Req, QueueTimeout(r) PROVE FreshPods'
  BY <1>16 DEF QueueTimeout, poolVars, slotVars, waitVars, dispVars, maintVars, delVars
<1>17. ASSUME NEW r \in Req, QueueCancel(r) PROVE FreshPods'
  BY <1>17 DEF QueueCancel, poolVars, slotVars, waitVars, dispVars, maintVars, delVars
<1>18. ASSUME NEW r \in Req, FreeSlot(r) PROVE FreshPods'
  BY <1>18 DEF FreeSlot, DropSlot, ReleaseSlotOf, Tracked, poolVars, slotVars, waitVars, dispVars, maintVars, delVars
<1>19. ASSUME DispatchDequeue PROVE FreshPods'
  BY <1>19 DEF DispatchDequeue, poolVars, slotVars, waitVars, dispVars, maintVars, delVars
<1>20. ASSUME DispatchTake PROVE FreshPods'
  BY <1>20 DEF DispatchTake, poolVars, slotVars, waitVars, dispVars, maintVars, delVars
<1>21. ASSUME DispatchReserve PROVE FreshPods'
  BY <1>21, BestIsFree DEF DispatchReserve, Reserve, SlotOwner, poolVars, slotVars, waitVars, dispVars, maintVars, delVars
<1>22. ASSUME DispatchBlock PROVE FreshPods'
  BY <1>22 DEF DispatchBlock, poolVars, slotVars, waitVars, dispVars, maintVars, delVars
<1>23. ASSUME DispatchWake PROVE FreshPods'
  BY <1>23 DEF DispatchWake, poolVars, slotVars, waitVars, dispVars, maintVars, delVars
<1>24. ASSUME DispatchGiveUp PROVE FreshPods'
  BY <1>24 DEF DispatchGiveUp, poolVars, slotVars, waitVars, dispVars, maintVars, delVars
<1>25. ASSUME DispatchUnmark PROVE FreshPods'
  BY <1>25 DEF DispatchUnmark, poolVars, slotVars, waitVars, dispVars, maintVars, delVars
<1>26. ASSUME DispatchLease PROVE FreshPods'
  BY <1>26 DEF DispatchLease, RecordLease, poolVars, slotVars, waitVars, dispVars, maintVars, delVars
<1>27. ASSUME DispatchLeaseFails PROVE FreshPods'
  BY <1>27 DEF DispatchLeaseFails, UndoReservation, DropSlot, ReleaseSlotOf, SlotOwner, poolVars, slotVars, waitVars, dispVars, maintVars, delVars
<1>28. ASSUME Deliver PROVE FreshPods'
  BY <1>28 DEF Deliver, poolVars, slotVars, waitVars, dispVars, maintVars, delVars
<1>29. ASSUME Rollback PROVE FreshPods'
  BY <1>29 DEF Rollback, TakeLease, poolVars, slotVars, waitVars, dispVars, maintVars, delVars
<1>30. ASSUME NEW p \in Pods, CreateDone(p) PROVE FreshPods'
  BY <1>30 DEF CreateDone, poolVars, slotVars, waitVars, dispVars, maintVars, delVars
<1>31. ASSUME NEW p \in Pods, CreateFails(p) PROVE FreshPods'
  BY <1>31 DEF CreateFails, Untrack, poolVars, slotVars, waitVars, dispVars, maintVars, delVars
<1>32. ASSUME NEW p \in Pods, Register(p) PROVE FreshPods'
  BY <1>32 DEF Register, poolVars, slotVars, waitVars, dispVars, maintVars, delVars
<1>33. ASSUME NEW p \in Pods, Heartbeat(p) PROVE FreshPods'
  BY <1>33 DEF Heartbeat, poolVars, slotVars, waitVars, dispVars, maintVars, delVars
<1>34. ASSUME NEW p \in Pods, Reap(p) PROVE FreshPods'
  BY <1>34 DEF Reap, StartDelete, Untrack, poolVars, slotVars, waitVars, dispVars, maintVars, delVars
<1>35. ASSUME NEW p \in Pods, PodCrash(p) PROVE FreshPods'
  BY <1>35 DEF PodCrash, poolVars, slotVars, waitVars, dispVars, maintVars, delVars
<1>36. ASSUME NEW p \in Pods, PodVanish(p) PROVE FreshPods'
  BY <1>36 DEF PodVanish, Deletable, poolVars, slotVars, waitVars, dispVars, maintVars, delVars
<1>37. ASSUME NEW d \in deleting, FinishDelete(d) PROVE FreshPods'
  BY <1>37 DEF FinishDelete, LeasedOn, Deletable, poolVars, slotVars, waitVars, dispVars, maintVars, delVars
<1>38. ASSUME NEW dead \in SUBSET Req, WatchdogScan(dead) PROVE FreshPods'
  BY <1>38 DEF WatchdogScan, poolVars, slotVars, waitVars, dispVars, maintVars, delVars
<1>39. ASSUME NEW d \in mdead, WatchdogRelease(d) PROVE FreshPods'
  BY <1>39 DEF WatchdogRelease, TakeLease, poolVars, slotVars, waitVars, dispVars, maintVars, delVars
<1>40. ASSUME WatchdogDelete PROVE FreshPods'
  BY <1>40 DEF WatchdogDelete, StartDelete, Untrack, poolVars, slotVars, waitVars, dispVars, maintVars, delVars
<1>41. ASSUME ListPods PROVE FreshPods'
  BY <1>41 DEF ListPods, poolVars, slotVars, waitVars, dispVars, maintVars, delVars
<1>42. ASSUME NEW overdue \in SUBSET Pods, NEW drain \in SUBSET Pods, PoolPass(overdue, drain) PROVE FreshPods'
  BY <1>42 DEF PoolPass, poolVars, slotVars, waitVars, dispVars, maintVars, delVars
<1>43. ASSUME NEW p \in Pods, DrainPod(p) PROVE FreshPods'
  BY <1>43 DEF DrainPod, poolVars, slotVars, waitVars, dispVars, maintVars, delVars
<1>44. ASSUME NEW p \in Pods, DeletePod(p) PROVE FreshPods'
  BY <1>44 DEF DeletePod, StartDelete, Untrack, poolVars, slotVars, waitVars, dispVars, maintVars, delVars
<1>45. ASSUME NEW old \in SUBSET Pods, Drift(old) PROVE FreshPods'
  BY <1>45 DEF Drift, Untrack, Deletable, poolVars, slotVars, waitVars, dispVars, maintVars, delVars
<1> QED
  BY <1>0, <1>1, <1>2, <1>3, <1>4, <1>5, <1>6, <1>7, <1>8, <1>9, <1>10, <1>11, <1>12, <1>13, <1>14, <1>15, <1>16, <1>17, <1>18, <1>19, <1>20, <1>21, <1>22, <1>23, <1>24, <1>25, <1>26, <1>27, <1>28, <1>29, <1>30, <1>31, <1>32, <1>33, <1>34, <1>35, <1>36, <1>37, <1>38, <1>39, <1>40, <1>41, <1>42, <1>43, <1>44, <1>45
  DEF Next, Arrive, Handler, Router, Dispatch, Worker, Maintenance

(* Every step keeps departed entries apart from the pool. *)
LEMMA DepartedStep ==
  ASSUME SlotInv, TypeOK', [Next /\ ~AdoptsUnsettled]_vars
  PROVE  Departed'
<1> USE ReqAssumption, PodsAssumption DEF SlotInv, TypeOK, Departed
<1>r. ASSUME NEW p \in Pods, Register(p), p \notin Tracked
      PROVE  (\A r \in Req : on[r] # p) /\ \A d \in deleting : d[1] # p
  <2>1. ~AdoptsUnsettled
    <3>1. CASE UNCHANGED vars
      BY <1>r, <3>1 DEF Register, Tracked, vars, poolVars
    <3> QED
      BY <3>1
  <2> QED
    BY <1>r, <2>1 DEF AdoptsUnsettled
<1>0. CASE UNCHANGED vars
  BY <1>0 DEF vars, poolVars, slotVars, waitVars, dispVars, maintVars, delVars
<1>1. ASSUME NEW r \in Req, AcquireSlot(r) PROVE Departed'
  BY <1>1, NewPodsAreFresh DEF AcquireSlot, FreshPods, SlotOwner, poolVars, slotVars, waitVars, dispVars, maintVars, delVars
<1>2. ASSUME NEW r \in Req, PageNotFound(r) PROVE Departed'
  BY <1>2 DEF PageNotFound, Return, poolVars, slotVars, waitVars, dispVars, maintVars, delVars
<1>3. ASSUME NEW r \in Req, AdmitFast(r) PROVE Departed'
  BY <1>3, BestIsFree DEF AdmitFast, Reserve, SlotOwner, poolVars, slotVars, waitVars, dispVars, maintVars, delVars
<1>4. ASSUME NEW r \in Req, AdmitSlow(r) PROVE Departed'
  BY <1>4 DEF AdmitSlow, poolVars, slotVars, waitVars, dispVars, maintVars, delVars
<1>5. ASSUME NEW r \in Req, FastLease(r) PROVE Departed'
  BY <1>5 DEF FastLease, RecordLease, Return, SentGrant, SlotOwner, poolVars, slotVars, waitVars, dispVars, maintVars, delVars
<1>6. ASSUME NEW r \in Req, FastLeaseFails(r) PROVE Departed'
  BY <1>6 DEF FastLeaseFails, UndoReservation, DropSlot, ReleaseSlotOf, Return, poolVars, slotVars, waitVars, dispVars, maintVars, delVars
<1>7. ASSUME NEW r \in Req, Enqueue(r) PROVE Departed'
  BY <1>7 DEF Enqueue, poolVars, slotVars, waitVars, dispVars, maintVars, delVars
<1>8. ASSUME NEW r \in Req, EnqueueExpired(r) PROVE Departed'
  BY <1>8 DEF EnqueueExpired, Return, poolVars, slotVars, waitVars, dispVars, maintVars, delVars
<1>9. ASSUME NEW r \in Req, Position(r) PROVE Departed'
  BY <1>9 DEF Position, poolVars, slotVars, waitVars, dispVars, maintVars, delVars
<1>10. ASSUME NEW r \in Req, Announce(r) PROVE Departed'
  BY <1>10 DEF Announce, Return, poolVars, slotVars, waitVars, dispVars, maintVars, delVars
<1>11. ASSUME NEW r \in Req, ReceiveGrant(r) PROVE Departed'
  BY <1>11 DEF ReceiveGrant, Return, SentGrant, poolVars, slotVars, waitVars, dispVars, maintVars, delVars
<1>12. ASSUME NEW r \in Req, WaitExpired(r) PROVE Departed'
  BY <1>12 DEF WaitExpired, Return, poolVars, slotVars, waitVars, dispVars, maintVars, delVars
<1>13. ASSUME NEW r \in Req, RouterGone(r) PROVE Departed'
  BY <1>13 DEF RouterGone, poolVars, slotVars, waitVars, dispVars, maintVars, delVars
<1>14. ASSUME NEW r \in Req, ReleaseSlot(r) PROVE Departed'
  BY <1>14 DEF ReleaseSlot, TakeLease, poolVars, slotVars, waitVars, dispVars, maintVars, delVars
<1>15. ASSUME NEW r \in Req, RouterLost(r) PROVE Departed'
  BY <1>15 DEF RouterLost, poolVars, slotVars, waitVars, dispVars, maintVars, delVars
<1>16. ASSUME NEW r \in Req, QueueTimeout(r) PROVE Departed'
  BY <1>16 DEF QueueTimeout, poolVars, slotVars, waitVars, dispVars, maintVars, delVars
<1>17. ASSUME NEW r \in Req, QueueCancel(r) PROVE Departed'
  BY <1>17 DEF QueueCancel, poolVars, slotVars, waitVars, dispVars, maintVars, delVars
<1>18. ASSUME NEW r \in Req, FreeSlot(r) PROVE Departed'
  BY <1>18 DEF FreeSlot, DropSlot, ReleaseSlotOf, poolVars, slotVars, waitVars, dispVars, maintVars, delVars
<1>19. ASSUME DispatchDequeue PROVE Departed'
  BY <1>19 DEF DispatchDequeue, poolVars, slotVars, waitVars, dispVars, maintVars, delVars
<1>20. ASSUME DispatchTake PROVE Departed'
  BY <1>20 DEF DispatchTake, poolVars, slotVars, waitVars, dispVars, maintVars, delVars
<1>21. ASSUME DispatchReserve PROVE Departed'
  BY <1>21, BestIsFree DEF DispatchReserve, Reserve, SlotOwner, poolVars, slotVars, waitVars, dispVars, maintVars, delVars
<1>22. ASSUME DispatchBlock PROVE Departed'
  BY <1>22 DEF DispatchBlock, poolVars, slotVars, waitVars, dispVars, maintVars, delVars
<1>23. ASSUME DispatchWake PROVE Departed'
  BY <1>23 DEF DispatchWake, poolVars, slotVars, waitVars, dispVars, maintVars, delVars
<1>24. ASSUME DispatchGiveUp PROVE Departed'
  BY <1>24 DEF DispatchGiveUp, poolVars, slotVars, waitVars, dispVars, maintVars, delVars
<1>25. ASSUME DispatchUnmark PROVE Departed'
  BY <1>25 DEF DispatchUnmark, poolVars, slotVars, waitVars, dispVars, maintVars, delVars
<1>26. ASSUME DispatchLease PROVE Departed'
  BY <1>26 DEF DispatchLease, RecordLease, SlotOwner, poolVars, slotVars, waitVars, dispVars, maintVars, delVars
<1>27. ASSUME DispatchLeaseFails PROVE Departed'
  BY <1>27 DEF DispatchLeaseFails, UndoReservation, DropSlot, ReleaseSlotOf, poolVars, slotVars, waitVars, dispVars, maintVars, delVars
<1>28. ASSUME Deliver PROVE Departed'
  BY <1>28 DEF Deliver, poolVars, slotVars, waitVars, dispVars, maintVars, delVars
<1>29. ASSUME Rollback PROVE Departed'
  BY <1>29 DEF Rollback, TakeLease, poolVars, slotVars, waitVars, dispVars, maintVars, delVars
<1>30. ASSUME NEW p \in Pods, CreateDone(p) PROVE Departed'
  BY <1>30 DEF CreateDone, poolVars, slotVars, waitVars, dispVars, maintVars, delVars
<1>31. ASSUME NEW p \in Pods, CreateFails(p) PROVE Departed'
  BY <1>31 DEF CreateFails, Untrack, SlotOwner, poolVars, slotVars, waitVars, dispVars, maintVars, delVars
<1>32. ASSUME NEW p \in Pods, Register(p) PROVE Departed'
  <2>1. phase' = [phase EXCEPT ![p] = "ready"] /\ UNCHANGED <<detached, stage, on, deleting>>
    BY <1>32 DEF Register, slotVars, delVars
  <2>2. \A q \in Pods : kube[q] # "none" => kube'[q] # "none"
    BY <1>32 DEF Register
  <2>3. \A r \in detached : on[r] # p
    BY <1>32, <1>r DEF Tracked
  <2>4. \A d \in deleting : d[1] # p
    BY <1>32, <1>r DEF Tracked
  <2>5. \A r \in detached : on[r] \in Pods
    BY DEF SlotOwner
  <2> QED
    BY <2>1, <2>2, <2>3, <2>4, <2>5
<1>33. ASSUME NEW p \in Pods, Heartbeat(p) PROVE Departed'
  BY <1>33 DEF Heartbeat, poolVars, slotVars, waitVars, dispVars, maintVars, delVars
<1>34. ASSUME NEW p \in Pods, Reap(p) PROVE Departed'
  BY <1>34 DEF Reap, StartDelete, Untrack, FreshPods, SlotOwner, poolVars, slotVars, waitVars, dispVars, maintVars, delVars
<1>35. ASSUME NEW p \in Pods, PodCrash(p) PROVE Departed'
  BY <1>35 DEF PodCrash, poolVars, slotVars, waitVars, dispVars, maintVars, delVars
<1>36. ASSUME NEW p \in Pods, PodVanish(p) PROVE Departed'
  BY <1>36 DEF PodVanish, poolVars, slotVars, waitVars, dispVars, maintVars, delVars
<1>37. ASSUME NEW d \in deleting, FinishDelete(d) PROVE Departed'
  BY <1>37 DEF FinishDelete, LeasedOn, Deletable, poolVars, slotVars, waitVars, dispVars, maintVars, delVars
<1>38. ASSUME NEW dead \in SUBSET Req, WatchdogScan(dead) PROVE Departed'
  BY <1>38 DEF WatchdogScan, poolVars, slotVars, waitVars, dispVars, maintVars, delVars
<1>39. ASSUME NEW d \in mdead, WatchdogRelease(d) PROVE Departed'
  BY <1>39 DEF WatchdogRelease, TakeLease, poolVars, slotVars, waitVars, dispVars, maintVars, delVars
<1>40. ASSUME WatchdogDelete PROVE Departed'
  BY <1>40 DEF WatchdogDelete, StartDelete, Untrack, FreshPods, SlotOwner, poolVars, slotVars, waitVars, dispVars, maintVars, delVars
<1>41. ASSUME ListPods PROVE Departed'
  BY <1>41 DEF ListPods, poolVars, slotVars, waitVars, dispVars, maintVars, delVars
<1>42. ASSUME NEW overdue \in SUBSET Pods, NEW drain \in SUBSET Pods, PoolPass(overdue, drain) PROVE Departed'
  BY <1>42 DEF PoolPass, poolVars, slotVars, waitVars, dispVars, maintVars, delVars
<1>43. ASSUME NEW p \in Pods, DrainPod(p) PROVE Departed'
  BY <1>43 DEF DrainPod, poolVars, slotVars, waitVars, dispVars, maintVars, delVars
<1>44. ASSUME NEW p \in Pods, DeletePod(p) PROVE Departed'
  BY <1>44 DEF DeletePod, StartDelete, Untrack, FreshPods, SlotOwner, poolVars, slotVars, waitVars, dispVars, maintVars, delVars
<1>45. ASSUME NEW old \in SUBSET Pods, Drift(old) PROVE Departed'
  BY <1>45 DEF Drift, Untrack, Deletable, SlotOwner, poolVars, slotVars, waitVars, dispVars, maintVars, delVars
<1> QED
  BY <1>0, <1>1, <1>2, <1>3, <1>4, <1>5, <1>6, <1>7, <1>8, <1>9, <1>10, <1>11, <1>12, <1>13, <1>14, <1>15, <1>16, <1>17, <1>18, <1>19, <1>20, <1>21, <1>22, <1>23, <1>24, <1>25, <1>26, <1>27, <1>28, <1>29, <1>30, <1>31, <1>32, <1>33, <1>34, <1>35, <1>36, <1>37, <1>38, <1>39, <1>40, <1>41, <1>42, <1>43, <1>44, <1>45
  DEF Next, Arrive, Handler, Router, Dispatch, Worker, Maintenance

Counted == SlotAccounting /\ \A p \in Pods : inFlight[p] <= Cap

(* A pod has finitely many holders. *)
LEMMA HoldersFinite ==
  ASSUME NEW p
  PROVE  IsFiniteSet(Holders(p)) /\ Cardinality(Holders(p)) \in Nat
BY ReqAssumption, FS_Subset, FS_CardinalityType DEF Holders

(* tryReserve: one more holder, one more slot counted, within the cap. *)
LEMMA ReserveCounted ==
  ASSUME SlotInv, NEW r \in Req, NEW p \in Pods, stage[r] = "none",
         Reserve(r, p), UNCHANGED <<phase, detached>>
  PROVE  Counted'
<1> USE DEF SlotInv, TypeOK
<1>1. phase[p] = "ready" /\ inFlight[p] < Cap
  BY BestIsFree DEF Reserve
<1>2. r \notin detached /\ r \notin Holders(p)
  BY DEF Departed, Holders
<1>3. Holders(p)' = Holders(p) \cup {r}
  BY <1>2 DEF Holders, Reserve
<1>4. \A q \in Pods : q # p => Holders(q)' = Holders(q)
  BY DEF Holders, Reserve, SlotOwner
<1>5. Cardinality(Holders(p)') = Cardinality(Holders(p)) + 1
  BY <1>2, <1>3, HoldersFinite, FS_AddElement, ZenonT(30)
<1>6. inFlight' = [inFlight EXCEPT ![p] = @ + 1]
  BY DEF Reserve
<1>7. inFlight[p] = Cardinality(Holders(p))
  BY <1>1 DEF SlotAccounting, Tracked
<1>8. \A q \in Tracked' : inFlight'[q] = Cardinality(Holders(q)')
  BY <1>4, <1>5, <1>6, <1>7 DEF SlotAccounting, Tracked
<1> QED
  BY <1>1, <1>6, <1>8, SizeAssumption DEF Counted, SlotAccounting

(* A reservation becoming a lease, or a lease being taken out of the table, *)
(* changes no count.                                                        *)
LEMMA SameHoldersCounted ==
  ASSUME SlotInv, UNCHANGED <<phase, inFlight, on>>,
         \A q \in Req : stage'[q] = "none" <=> stage[q] = "none",
         \A q \in Req : (q \in detached') # (q \in detached) => phase[on[q]] = "none"
  PROVE  Counted'
<1>1. \A p \in Tracked : Holders(p)' = Holders(p)
  BY DEF Holders, Tracked, SlotInv, TypeOK
<1> QED
  BY <1>1 DEF Counted, SlotInv, SlotAccounting, Tracked

(* A holder leaving: releaseSlot on its pod. *)
LEMMA LeaveCounted ==
  ASSUME SlotInv, NEW r \in Req, stage[r] # "none", r \notin detached,
         DropSlot(r), ReleaseSlotOf(on[r]), detached' = detached, UNCHANGED phase
  PROVE  Counted'
<1> USE DEF SlotInv, TypeOK
<1>0. PICK p \in Pods : p = on[r]
  BY DEF SlotOwner
<1>1. r \in Holders(p)
  BY <1>0 DEF Holders
<1>2. Holders(p)' = Holders(p) \ {r}
  BY PodsAssumption, <1>0 DEF Holders, DropSlot
<1>3. \A q \in Pods : q # p => Holders(q)' = Holders(q)
  BY PodsAssumption, <1>0 DEF Holders, DropSlot
<1>4. Cardinality(Holders(p)') = Cardinality(Holders(p)) - 1
  BY <1>1, <1>2, HoldersFinite, FS_RemoveElement
<1>5. Cardinality(Holders(p)) \in Nat /\ Cardinality(Holders(p)') \in Nat
  <2>1. IsFiniteSet(Holders(p) \ {r})
    BY HoldersFinite, FS_RemoveElement
  <2> QED
    BY <1>2, <2>1, HoldersFinite, FS_CardinalityType
<1>6. inFlight' = [inFlight EXCEPT ![p] = IF @ > 0 THEN @ - 1 ELSE 0]
  BY <1>0 DEF ReleaseSlotOf
<1>7. phase[p] # "none" => inFlight'[p] = Cardinality(Holders(p)')
  BY <1>1, <1>4, <1>5, <1>6 DEF SlotAccounting, Tracked
<1>8. \A q \in Pods : q # p => inFlight'[q] = inFlight[q]
  BY <1>1, <1>6
<1>9. SlotAccounting'
  BY <1>3, <1>7, <1>8 DEF SlotAccounting, Tracked
<1>10. \A q \in Pods : inFlight'[q] <= Cap
  BY <1>1, <1>6, SizeAssumption
<1> QED
  BY <1>9, <1>10 DEF Counted

(* Entries leaving the pool do not touch the counts of the others. *)
LEMMA UntrackCounted ==
  ASSUME SlotInv, NEW S, Untrack(S), UNCHANGED <<stage, on>>
  PROVE  Counted'
<1> USE DEF SlotInv, TypeOK
<1>1. \A p \in Tracked' : p \in Tracked /\ p \notin S
  BY DEF Tracked, Untrack
<1>2. \A p \in Tracked' : Holders(p)' = Holders(p)
  BY <1>1 DEF Holders, Untrack
<1>3. \A p \in Tracked' : inFlight'[p] = inFlight[p]
  BY <1>1 DEF Tracked, Untrack
<1>4. \A p \in Pods : inFlight'[p] <= Cap
  BY SizeAssumption DEF Untrack
<1> QED
  BY <1>1, <1>2, <1>3, <1>4 DEF Counted, SlotAccounting

(* A signing failure: the slot goes back to the reserved object.  *)
LEMMA UndoCounted ==
  ASSUME SlotInv, NEW r \in Req, stage[r] = "reserved", UndoReservation(r), UNCHANGED phase
  PROVE  Counted'
<1> USE DEF SlotInv, TypeOK
<1>1. CASE r \notin detached
  BY <1>1, LeaveCounted DEF UndoReservation
<1>2. CASE r \in detached
  <2>1. \A p \in Tracked : Holders(p)' = Holders(p)
    BY <1>2, PodsAssumption DEF Holders, UndoReservation, DropSlot, Departed, Tracked
  <2> QED
    BY <1>2, <2>1 DEF Counted, SlotAccounting, Tracked, UndoReservation
<1> QED
  BY <1>1, <1>2

(* Every step keeps the slot counters exact. *)
LEMMA CountedStep ==
  ASSUME SlotInv, TypeOK', [Next /\ ~AdoptsUnsettled]_vars
  PROVE  Counted'
<1> USE ReqAssumption, PodsAssumption DEF SlotInv, TypeOK
<1>f. ASSUME UNCHANGED <<phase, inFlight, stage, on, detached>> PROVE Counted'
  <2>1. \A p \in Pods : Holders(p)' = Holders(p)
    BY <1>f DEF Holders
  <2> QED
    BY <1>f, <2>1 DEF Counted, SlotAccounting, Tracked
<1>r. ASSUME NEW p \in Pods, Register(p), p \notin Tracked
      PROVE  (\A r \in Req : on[r] # p) /\ \A d \in deleting : d[1] # p
  <2>1. ~AdoptsUnsettled
    <3>1. CASE UNCHANGED vars
      BY <1>r, <3>1 DEF Register, Tracked, vars, poolVars
    <3> QED
      BY <3>1
  <2> QED
    BY <1>r, <2>1 DEF AdoptsUnsettled
<1>0. CASE UNCHANGED vars
  BY <1>0, <1>f DEF vars, poolVars, slotVars
<1>1. ASSUME NEW r \in Req, AcquireSlot(r) PROVE Counted'
  <2>1. PICK new \in NewPods : phase' = [p \in Pods |-> IF p \in new THEN "creating" ELSE phase[p]]
    BY <1>1 DEF AcquireSlot
  <2>2. UNCHANGED <<inFlight, stage, on, detached>>
    BY <1>1 DEF AcquireSlot, slotVars
  <2>3. \A p \in new : p \in Pods /\ inFlight[p] = 0 /\ Holders(p) = {}
    BY NewPodsAreFresh DEF FreshPods, Holders
  <2>4. \A p \in Pods : Holders(p)' = Holders(p)
    BY <2>2 DEF Holders
  <2>5. \A p \in Tracked' : p \in Tracked \/ p \in new
    BY <2>1 DEF Tracked
  <2> QED
    <3>1. \A p \in new : inFlight[p] = Cardinality(Holders(p))
      BY <2>3, FS_EmptySet
    <3>2. \A p \in Tracked' : p \in Pods /\ inFlight[p] = Cardinality(Holders(p))
      BY <2>3, <2>5, <3>1 DEF SlotAccounting, Tracked
    <3> QED
      BY <2>2, <2>4, <3>2 DEF Counted, SlotAccounting
<1>2. ASSUME NEW r \in Req, PageNotFound(r) PROVE Counted'
  BY <1>2, <1>f DEF PageNotFound, poolVars, slotVars
<1>3. ASSUME NEW r \in Req, AdmitFast(r) PROVE Counted'
  BY <1>3, ReserveCounted DEF AdmitFast, SlotOwner
<1>4. ASSUME NEW r \in Req, AdmitSlow(r) PROVE Counted'
  BY <1>4, <1>f DEF AdmitSlow, poolVars, slotVars
<1>5. ASSUME NEW r \in Req, FastLease(r) PROVE Counted'
  <2>1. stage[r] = "reserved"
    BY <1>5 DEF FastLease, SlotOwner
  <2> QED
    BY <1>5, <2>1, SameHoldersCounted DEF FastLease, RecordLease, Departed
<1>6. ASSUME NEW r \in Req, FastLeaseFails(r) PROVE Counted'
  BY <1>6, UndoCounted DEF FastLeaseFails, SlotOwner
<1>7. ASSUME NEW r \in Req, Enqueue(r) PROVE Counted'
  BY <1>7, <1>f DEF Enqueue, poolVars, slotVars
<1>8. ASSUME NEW r \in Req, EnqueueExpired(r) PROVE Counted'
  BY <1>8, <1>f DEF EnqueueExpired, poolVars, slotVars
<1>9. ASSUME NEW r \in Req, Position(r) PROVE Counted'
  BY <1>9, <1>f DEF Position, poolVars, slotVars
<1>10. ASSUME NEW r \in Req, Announce(r) PROVE Counted'
  BY <1>10, <1>f DEF Announce, poolVars, slotVars
<1>11. ASSUME NEW r \in Req, ReceiveGrant(r) PROVE Counted'
  BY <1>11, <1>f DEF ReceiveGrant, poolVars, slotVars
<1>12. ASSUME NEW r \in Req, WaitExpired(r) PROVE Counted'
  BY <1>12, <1>f DEF WaitExpired, poolVars, slotVars
<1>13. ASSUME NEW r \in Req, RouterGone(r) PROVE Counted'
  BY <1>13, <1>f DEF RouterGone, poolVars, slotVars
<1>14. ASSUME NEW r \in Req, ReleaseSlot(r) PROVE Counted'
  BY <1>14, SameHoldersCounted DEF ReleaseSlot, TakeLease, poolVars
<1>15. ASSUME NEW r \in Req, RouterLost(r) PROVE Counted'
  BY <1>15, <1>f DEF RouterLost, poolVars, slotVars
<1>16. ASSUME NEW r \in Req, QueueTimeout(r) PROVE Counted'
  BY <1>16, <1>f DEF QueueTimeout, poolVars, slotVars
<1>17. ASSUME NEW r \in Req, QueueCancel(r) PROVE Counted'
  BY <1>17, <1>f DEF QueueCancel, poolVars, slotVars
<1>18. ASSUME NEW r \in Req, FreeSlot(r) PROVE Counted'
  <2>1. r \notin detached /\ stage[r] # "none" /\ DropSlot(r) /\ UNCHANGED <<phase, detached>>
    BY <1>18 DEF FreeSlot, Departed
  <2>2. CASE on[r] \in Tracked
    BY <1>18, <2>1, <2>2, LeaveCounted DEF FreeSlot
  <2>3. CASE on[r] \notin Tracked
    <3>1. inFlight' = inFlight
      BY <1>18, <2>3 DEF FreeSlot
    <3>2. \A p \in Tracked : Holders(p)' = Holders(p)
      BY <2>1, <2>3 DEF Holders, DropSlot, Tracked
    <3> QED
      BY <2>1, <3>1, <3>2 DEF Counted, SlotAccounting, Tracked
  <2> QED
    BY <2>2, <2>3
<1>19. ASSUME DispatchDequeue PROVE Counted'
  BY <1>19, <1>f DEF DispatchDequeue, poolVars, slotVars
<1>20. ASSUME DispatchTake PROVE Counted'
  BY <1>20, <1>f DEF DispatchTake, poolVars, slotVars
<1>21. ASSUME DispatchReserve PROVE Counted'
  BY <1>21, ReserveCounted DEF DispatchReserve, SlotOwner
<1>22. ASSUME DispatchBlock PROVE Counted'
  BY <1>22, <1>f DEF DispatchBlock, poolVars, slotVars
<1>23. ASSUME DispatchWake PROVE Counted'
  BY <1>23, <1>f DEF DispatchWake, poolVars, slotVars
<1>24. ASSUME DispatchGiveUp PROVE Counted'
  BY <1>24, <1>f DEF DispatchGiveUp, poolVars, slotVars
<1>25. ASSUME DispatchUnmark PROVE Counted'
  BY <1>25, <1>f DEF DispatchUnmark, poolVars, slotVars
<1>26. ASSUME DispatchLease PROVE Counted'
  <2>1. ditem \in Req /\ stage[ditem] = "reserved"
    BY <1>26 DEF DispatchLease, SlotOwner
  <2> QED
    BY <1>26, <2>1, SameHoldersCounted DEF DispatchLease, RecordLease, Departed
<1>27. ASSUME DispatchLeaseFails PROVE Counted'
  BY <1>27, UndoCounted DEF DispatchLeaseFails, SlotOwner
<1>28. ASSUME Deliver PROVE Counted'
  BY <1>28, <1>f DEF Deliver, poolVars, slotVars
<1>29. ASSUME Rollback PROVE Counted'
  BY <1>29, SameHoldersCounted DEF Rollback, TakeLease, poolVars
<1>30. ASSUME NEW p \in Pods, CreateDone(p) PROVE Counted'
  BY <1>30, <1>f DEF CreateDone, poolVars, slotVars
<1>31. ASSUME NEW p \in Pods, CreateFails(p) PROVE Counted'
  BY <1>31, UntrackCounted DEF CreateFails, slotVars
<1>32. ASSUME NEW p \in Pods, Register(p) PROVE Counted'
  <2>1. inFlight[p] = Cardinality(Holders(p))
    <3>1. CASE p \in Tracked
      BY <3>1 DEF SlotAccounting
    <3>2. CASE p \notin Tracked
      <4>1. \A r \in Req : on[r] # p
        BY <1>32, <1>r, <3>2
      <4>2. Holders(p) = {}
        BY <4>1 DEF Holders
      <4>3. inFlight[p] = 0
        BY <3>2 DEF FreshPods, Tracked
      <4> QED
        BY <4>2, <4>3, FS_EmptySet
    <3> QED
      BY <3>1, <3>2
  <2>2. \A q \in Pods : Holders(q)' = Holders(q)
    BY <1>32 DEF Register, Holders, slotVars
  <2>3. UNCHANGED inFlight /\ \A q \in Tracked' : q \in Tracked \/ q = p
    BY <1>32 DEF Register, Tracked
  <2> QED
    BY <2>1, <2>2, <2>3 DEF Counted, SlotAccounting, Tracked
<1>33. ASSUME NEW p \in Pods, Heartbeat(p) PROVE Counted'
  BY <1>33, <1>f DEF Heartbeat, poolVars, slotVars
<1>34. ASSUME NEW p \in Pods, Reap(p) PROVE Counted'
  BY <1>34, UntrackCounted DEF Reap, StartDelete, slotVars
<1>35. ASSUME NEW p \in Pods, PodCrash(p) PROVE Counted'
  BY <1>35, <1>f DEF PodCrash, poolVars, slotVars
<1>36. ASSUME NEW p \in Pods, PodVanish(p) PROVE Counted'
  BY <1>36, <1>f DEF PodVanish, poolVars, slotVars
<1>37. ASSUME NEW d \in deleting, FinishDelete(d) PROVE Counted'
  <2>1. d[1] \notin Tracked
    BY DEF Departed, Tracked
  <2>2. \A p \in Tracked : Holders(p)' = Holders(p)
    BY <1>37, <2>1, PodsAssumption DEF FinishDelete, LeasedOn, Holders, Tracked, poolVars
  <2> QED
    BY <1>37, <2>2 DEF FinishDelete, Counted, SlotAccounting, Tracked, poolVars
<1>38. ASSUME NEW dead \in SUBSET Req, WatchdogScan(dead) PROVE Counted'
  BY <1>38, <1>f DEF WatchdogScan, poolVars, slotVars
<1>39. ASSUME NEW d \in mdead, WatchdogRelease(d) PROVE Counted'
  BY <1>39, SameHoldersCounted DEF WatchdogRelease, TakeLease, poolVars
<1>40. ASSUME WatchdogDelete PROVE Counted'
  BY <1>40, UntrackCounted DEF WatchdogDelete, StartDelete, slotVars
<1>41. ASSUME ListPods PROVE Counted'
  BY <1>41, <1>f DEF ListPods, poolVars, slotVars
<1>42. ASSUME NEW overdue \in SUBSET Pods, NEW drain \in SUBSET Pods, PoolPass(overdue, drain) PROVE Counted'
  BY <1>42, <1>f DEF PoolPass, poolVars, slotVars
<1>43. ASSUME NEW p \in Pods, DrainPod(p) PROVE Counted'
  <2>1. \A q \in Pods : Holders(q)' = Holders(q)
    BY <1>43 DEF DrainPod, Holders, slotVars
  <2>2. UNCHANGED inFlight /\ Tracked' \subseteq Tracked
    BY <1>43 DEF DrainPod, Tracked
  <2> QED
    BY <2>1, <2>2 DEF Counted, SlotAccounting, Tracked
<1>44. ASSUME NEW p \in Pods, DeletePod(p) PROVE Counted'
  BY <1>44, UntrackCounted DEF DeletePod, StartDelete, slotVars
<1>45. ASSUME NEW old \in SUBSET Pods, Drift(old) PROVE Counted'
  BY <1>45, UntrackCounted DEF Drift, slotVars
<1> QED
  BY <1>0, <1>1, <1>2, <1>3, <1>4, <1>5, <1>6, <1>7, <1>8, <1>9, <1>10, <1>11, <1>12, <1>13, <1>14, <1>15, <1>16, <1>17, <1>18, <1>19, <1>20, <1>21, <1>22, <1>23, <1>24, <1>25, <1>26, <1>27, <1>28, <1>29, <1>30, <1>31, <1>32, <1>33, <1>34, <1>35, <1>36, <1>37, <1>38, <1>39, <1>40, <1>41, <1>42, <1>43, <1>44, <1>45
  DEF Next, Arrive, Handler, Router, Dispatch, Worker, Maintenance


(* The invariant holds initially. *)
LEMMA SlotInvInit == Init => SlotInv
<1> SUFFICES ASSUME Init PROVE SlotInv
  OBVIOUS
<1> USE ReqAssumption, PodsAssumption, SizeAssumption DEF Init
<1>1. TypeOK
  <2>1. queue \in Seq(Req) /\ mcur \in (Req \X Pods) \cup {<<NoReq, NoPod>>}
    OBVIOUS
  <2>2. /\ inFlight \in [Pods -> Nat] /\ loaded \in [Pods -> SUBSET Pages]
        /\ settled \in [Req -> BOOLEAN] /\ delivered \in [Req -> BOOLEAN]
    OBVIOUS
  <2>3. deleting \subseteq Pods \X {"heartbeat", "maintenance"} /\ mdead \subseteq Req \X Pods
    OBVIOUS
  <2> QED
    BY <2>1, <2>2, <2>3 DEF TypeOK
<1>2. SlotOwner /\ FreshPods /\ Departed
  BY DEF SlotOwner, FreshPods, Departed, ToSet
<1>3. SlotAccounting /\ \A p \in Pods : inFlight[p] <= Cap
  BY DEF SlotAccounting, Tracked
<1> QED
  BY <1>1, <1>2, <1>3 DEF SlotInv

(* SlotInv is inductive as long as no Register adopts a pod unsettled.     *)
LEMMA SlotInvStep == SlotInv /\ [Next /\ ~AdoptsUnsettled]_vars => SlotInv'
<1> SUFFICES ASSUME SlotInv, [Next /\ ~AdoptsUnsettled]_vars PROVE SlotInv'
  OBVIOUS
<1>0. [Next]_vars
  OBVIOUS
<1>1. TypeOK'
  BY <1>0, TypeStep DEF SlotInv
<1>2. SlotOwner'
  BY <1>0, <1>1, OwnerStep DEF SlotInv
<1>3. FreshPods'
  BY <1>1, FreshStep
<1>4. Departed'
  BY <1>1, DepartedStep
<1>5. Counted'
  BY <1>1, CountedStep
<1> QED
  BY <1>1, <1>2, <1>3, <1>4, <1>5 DEF SlotInv, Counted

(* In any environment, a behaviour in which no Register adopts a pod       *)
(* unsettled keeps SlotInv: repeated Registers of pods in the pool, and    *)
(* Registers of forgotten pods that have no lease left, are covered.       *)
THEOREM SlotInvariant == Spec /\ [][~AdoptsUnsettled]_vars => []SlotInv
<1>1. [Next]_vars /\ [~AdoptsUnsettled]_vars => [Next /\ ~AdoptsUnsettled]_vars
  OBVIOUS
<1> QED
  BY <1>1, SlotInvStep, SlotInvInit, PTL DEF Spec

(* Where no Register is repeated or races deletePod, none adopts a pod     *)
(* unsettled: a pod that has not registered has no lease.                  *)
LEMMA SettledWithoutLate ==
  ASSUME "late" \notin Env, SlotInv
  PROVE  ~AdoptsUnsettled
BY DEF AdoptsUnsettled, Register, SlotInv, FreshPods

(* So SlotInv holds in every such environment.                             *)
THEOREM SlotInvariantWithoutLate ==
  ASSUME "late" \notin Env
  PROVE  Spec => []SlotInv
<1>1. SlotInv /\ [Next]_vars => SlotInv'
  BY SlotInvStep, SettledWithoutLate
<1> QED
  BY <1>1, SlotInvInit, PTL DEF Spec

(* Type correctness of the dispatcher, whatever the environment does. *)
THEOREM TypeCorrect == Spec => []TypeOK
<1>1. Init => TypeOK /\ SlotOwner
  BY SlotInvInit DEF SlotInv
<1>2. TypeOK /\ SlotOwner /\ [Next]_vars => TypeOK' /\ SlotOwner'
  BY TypeStep, OwnerStep
<1> QED
  BY <1>1, <1>2, PTL DEF Spec

(* In every behaviour without such an adoption, the slot count of every    *)
(* tracked pod is the number of reservations and leases on it, for any     *)
(* number of requests, pods and slots per pod (pod.inFlight through        *)
(* tryReserve, releaseSlot, releaseLease, the watchdog and deletePod).     *)
(* The condition cannot be dropped: with deadlines and late Registers in   *)
(* Env, TLC finds the count below the leases after nine steps (README).    *)
THEOREM SlotAccountingHolds == Spec /\ [][~AdoptsUnsettled]_vars => []SlotAccounting
<1>1. SlotInv => SlotAccounting
  BY DEF SlotInv
<1> QED
  BY <1>1, SlotInvariant, PTL

(* Nor is any pod leased beyond its hard cap (tryReserve), in every        *)
(* behaviour in which no Register adopts a pod whose earlier entry still   *)
(* has leases or is being deleted.                                         *)
THEOREM CapRespectedHolds == Spec /\ [][~AdoptsUnsettled]_vars => []CapRespected
<1>1. SlotInv => CapRespected
  BY DEF SlotInv, SlotAccounting, CapRespected, Tracked
<1> QED
  BY <1>1, SlotInvariant, PTL

-----------------------------------------------------------------------------
(* The settle handshake between AcquireSlot and the dispatch goroutine. *)

(* registerWaiter and Queue.Enqueue add one request to the FIFO. *)
LEMMA EnqueueContents ==
  ASSUME TypeOK, NEW r \in Req, Enqueue(r)
  PROVE  ToSet(queue') = ToSet(queue) \cup {r}
<1>1. queue \in Seq(Req) /\ queue' = Append(queue, r)
  BY DEF TypeOK, Enqueue
<1>2. /\ DOMAIN queue = 1..Len(queue) /\ DOMAIN queue' = 1..(Len(queue) + 1) /\ Len(queue) \in Nat
      /\ \A i \in 1..Len(queue) : queue'[i] = queue[i]
      /\ queue'[Len(queue) + 1] = r
  BY <1>1
<1>3. ToSet(queue) \cup {r} \subseteq ToSet(queue')
  BY <1>2 DEF ToSet
<1>4. ToSet(queue') \subseteq ToSet(queue) \cup {r}
  BY <1>2 DEF ToSet
<1> QED
  BY <1>3, <1>4

(* The watcher goroutine removes its own request and no other. *)
LEMMA CancelContents ==
  ASSUME TypeOK, SlotOwner, NEW r \in Req, QueueCancel(r)
  PROVE  ToSet(queue') = ToSet(queue) \ {r}
<1>1. PICK i \in 1..Len(queue) : queue[i] = r /\ queue' = RemoveAt(queue, i)
  BY DEF QueueCancel, TypeOK
<1>2. queue \in Seq(Req) /\ DOMAIN queue = 1..Len(queue)
  BY DEF TypeOK
<1>3. \A j, k \in DOMAIN queue : queue[j] = queue[k] => j = k
  BY DEF SlotOwner
<1>4. \A j \in DOMAIN queue' : \E k \in DOMAIN queue : queue'[j] = queue[k]
  BY <1>1, <1>2, RemoveAtElements
<1>5. \A k \in DOMAIN queue : k # i => \E j \in DOMAIN queue' : queue'[j] = queue[k]
  BY <1>1, <1>2, RemoveAtKeeps
<1>6. \A j \in DOMAIN queue' : queue'[j] # queue[i]
  BY <1>1, <1>2, <1>3, RemoveAtKeeps
<1>7. ToSet(queue') \subseteq ToSet(queue) \ {r}
  BY <1>1, <1>4, <1>6 DEF ToSet
<1>8. ToSet(queue) \ {r} \subseteq ToSet(queue')
  BY <1>1, <1>5 DEF ToSet
<1> QED
  BY <1>7, <1>8

(* Queue.Dequeue moves one request from the FIFO to the dispatcher. *)
LEMMA DequeueContents ==
  ASSUME TypeOK, DispatchDequeue
  PROVE  ditem' \in Req /\ ToSet(queue) = ToSet(queue') \cup {ditem'}
<1>1. queue \in Seq(Req) /\ queue # <<>> /\ queue' = Tail(queue) /\ ditem' = Head(queue)
  BY DEF TypeOK, DispatchDequeue
<1>2. /\ 1 \in DOMAIN queue /\ Head(queue) = queue[1] /\ Head(queue) \in Req
      /\ \A j \in DOMAIN Tail(queue) : j + 1 \in DOMAIN queue /\ Tail(queue)[j] = queue[j + 1]
      /\ \A k \in DOMAIN queue : k # 1 => k - 1 \in DOMAIN Tail(queue) /\ Tail(queue)[k - 1] = queue[k]
  BY <1>1, TailElements
<1>3. ToSet(queue) \subseteq ToSet(queue') \cup {ditem'}
  <2>1. ASSUME NEW k \in DOMAIN queue, k # 1 PROVE queue[k] \in ToSet(queue')
    <3>1. k - 1 \in DOMAIN queue' /\ queue'[k - 1] = queue[k]
      BY <1>1, <1>2, <2>1
    <3> QED
      BY <3>1 DEF ToSet
  <2> QED
    BY <1>1, <1>2, <2>1 DEF ToSet
<1>4. ditem' \in ToSet(queue)
  BY <1>1, <1>2 DEF ToSet
<1>5. ToSet(queue') \subseteq ToSet(queue)
  BY <1>1, <1>2 DEF ToSet
<1> QED
  BY <1>1, <1>2, <1>3, <1>4, <1>5

(* Every step keeps a slot for an unsettled or timed-out waiter with the    *)
(* dispatcher.                                                             *)
LEMMA SlotCarriedStep ==
  ASSUME TypeOK, SlotOwner, HandshakeInv, TypeOK', SlotOwner', [Next]_vars
  PROVE  SlotCarried'
<1> USE ReqAssumption, PodsAssumption DEF TypeOK, SlotOwner, ToSet, Waiting, HandshakeInv, SlotCarried, Findable, Carrier
<1>f. ASSUME UNCHANGED <<pc, ctx, queue, waiters, settled, stage, dpc, ditem>> PROVE SlotCarried'
  BY <1>f
<1>0. CASE UNCHANGED vars
  BY <1>0, <1>f DEF vars, poolVars, slotVars, waitVars, dispVars, maintVars, delVars
<1>1. ASSUME NEW r \in Req, AcquireSlot(r) PROVE SlotCarried'
  BY <1>1 DEF AcquireSlot, poolVars, slotVars, waitVars, dispVars, maintVars, delVars
<1>2. ASSUME NEW r \in Req, PageNotFound(r) PROVE SlotCarried'
  BY <1>2 DEF PageNotFound, Return, poolVars, slotVars, waitVars, dispVars, maintVars, delVars
<1>3. ASSUME NEW r \in Req, AdmitFast(r) PROVE SlotCarried'
  BY <1>3 DEF AdmitFast, Reserve, poolVars, slotVars, waitVars, dispVars, maintVars, delVars
<1>4. ASSUME NEW r \in Req, AdmitSlow(r) PROVE SlotCarried'
  BY <1>4 DEF AdmitSlow, poolVars, slotVars, waitVars, dispVars, maintVars, delVars
<1>5. ASSUME NEW r \in Req, FastLease(r) PROVE SlotCarried'
  BY <1>5 DEF FastLease, RecordLease, Return, SentGrant, poolVars, slotVars, waitVars, dispVars, maintVars, delVars
<1>6. ASSUME NEW r \in Req, FastLeaseFails(r) PROVE SlotCarried'
  BY <1>6 DEF FastLeaseFails, UndoReservation, DropSlot, Return, poolVars, slotVars, waitVars, dispVars, maintVars, delVars
<1>7. ASSUME NEW r \in Req, Enqueue(r) PROVE SlotCarried'
  BY <1>7 DEF Enqueue, poolVars, slotVars, waitVars, dispVars, maintVars, delVars
<1>8. ASSUME NEW r \in Req, EnqueueExpired(r) PROVE SlotCarried'
  BY <1>8 DEF EnqueueExpired, Return, poolVars, slotVars, waitVars, dispVars, maintVars, delVars
<1>9. ASSUME NEW r \in Req, Position(r) PROVE SlotCarried'
  BY <1>9 DEF Position, poolVars, slotVars, waitVars, dispVars, maintVars, delVars
<1>10. ASSUME NEW r \in Req, Announce(r) PROVE SlotCarried'
  BY <1>10 DEF Announce, Return, poolVars, slotVars, waitVars, dispVars, maintVars, delVars
<1>11. ASSUME NEW r \in Req, ReceiveGrant(r) PROVE SlotCarried'
  BY <1>11 DEF ReceiveGrant, Return, SentGrant, poolVars, slotVars, waitVars, dispVars, maintVars, delVars
<1>12. ASSUME NEW r \in Req, WaitExpired(r) PROVE SlotCarried'
  BY <1>12 DEF WaitExpired, Return, poolVars, slotVars, waitVars, dispVars, maintVars, delVars
<1>13. ASSUME NEW r \in Req, RouterGone(r) PROVE SlotCarried'
  BY <1>13 DEF RouterGone, InHandler, poolVars, slotVars, waitVars, dispVars, maintVars, delVars
<1>14. ASSUME NEW r \in Req, ReleaseSlot(r) PROVE SlotCarried'
  BY <1>14 DEF ReleaseSlot, TakeLease, poolVars, slotVars, waitVars, dispVars, maintVars, delVars
<1>15. ASSUME NEW r \in Req, RouterLost(r) PROVE SlotCarried'
  BY <1>15 DEF RouterLost, poolVars, slotVars, waitVars, dispVars, maintVars, delVars
<1>16. ASSUME NEW r \in Req, QueueTimeout(r) PROVE SlotCarried'
  BY <1>16 DEF QueueTimeout, InHandler, poolVars, slotVars, waitVars, dispVars, maintVars, delVars
<1>17. ASSUME NEW r \in Req, QueueCancel(r) PROVE SlotCarried'
  <2>1. ToSet(queue') = ToSet(queue) \ {r}
    BY <1>17, CancelContents
  <2>2. ctx[r] # "live" /\ UNCHANGED <<pc, ctx, waiters, settled, stage, dpc, ditem>>
    BY <1>17 DEF QueueCancel, poolVars, slotVars, waitVars, dispVars, maintVars, delVars
  <2> HIDE DEF ToSet
  <2> QED
    BY <2>1, <2>2
<1>18. ASSUME NEW r \in Req, FreeSlot(r) PROVE SlotCarried'
  BY <1>18 DEF FreeSlot, DropSlot, poolVars, slotVars, waitVars, dispVars, maintVars, delVars
<1>19. ASSUME DispatchDequeue PROVE SlotCarried'
  BY <1>19 DEF DispatchDequeue, poolVars, slotVars, waitVars, dispVars, maintVars, delVars
<1>20. ASSUME DispatchTake PROVE SlotCarried'
  BY <1>20 DEF DispatchTake, poolVars, slotVars, waitVars, dispVars, maintVars, delVars
<1>21. ASSUME DispatchReserve PROVE SlotCarried'
  BY <1>21 DEF DispatchReserve, Reserve, poolVars, slotVars, waitVars, dispVars, maintVars, delVars
<1>22. ASSUME DispatchBlock PROVE SlotCarried'
  BY <1>22 DEF DispatchBlock, poolVars, slotVars, waitVars, dispVars, maintVars, delVars
<1>23. ASSUME DispatchWake PROVE SlotCarried'
  BY <1>23 DEF DispatchWake, poolVars, slotVars, waitVars, dispVars, maintVars, delVars
<1>24. ASSUME DispatchGiveUp PROVE SlotCarried'
  BY <1>24 DEF DispatchGiveUp, poolVars, slotVars, waitVars, dispVars, maintVars, delVars
<1>25. ASSUME DispatchUnmark PROVE SlotCarried'
  BY <1>25 DEF DispatchUnmark, poolVars, slotVars, waitVars, dispVars, maintVars, delVars
<1>26. ASSUME DispatchLease PROVE SlotCarried'
  BY <1>26 DEF DispatchLease, RecordLease, poolVars, slotVars, waitVars, dispVars, maintVars, delVars
<1>27. ASSUME DispatchLeaseFails PROVE SlotCarried'
  BY <1>27 DEF DispatchLeaseFails, UndoReservation, DropSlot, poolVars, slotVars, waitVars, dispVars, maintVars, delVars
<1>28. ASSUME Deliver PROVE SlotCarried'
  BY <1>28 DEF Deliver, poolVars, slotVars, waitVars, dispVars, maintVars, delVars
<1>29. ASSUME Rollback PROVE SlotCarried'
  BY <1>29 DEF Rollback, TakeLease, poolVars, slotVars, waitVars, dispVars, maintVars, delVars
<1>30. ASSUME NEW d \in deleting, FinishDelete(d) PROVE SlotCarried'
  BY <1>30 DEF FinishDelete, LeasedOn, poolVars, slotVars, waitVars, dispVars, maintVars, delVars
<1>31. ASSUME NEW d \in mdead, WatchdogRelease(d) PROVE SlotCarried'
  BY <1>31 DEF WatchdogRelease, TakeLease, poolVars, slotVars, waitVars, dispVars, maintVars, delVars
<1>32. ASSUME NEW p \in Pods, CreateDone(p) PROVE SlotCarried'
  BY <1>32, <1>f DEF CreateDone, poolVars, slotVars, waitVars, dispVars, maintVars, delVars
<1>33. ASSUME NEW p \in Pods, CreateFails(p) PROVE SlotCarried'
  BY <1>33, <1>f DEF CreateFails, poolVars, slotVars, waitVars, dispVars, maintVars, delVars
<1>34. ASSUME NEW p \in Pods, Register(p) PROVE SlotCarried'
  BY <1>34, <1>f DEF Register, poolVars, slotVars, waitVars, dispVars, maintVars, delVars
<1>35. ASSUME NEW p \in Pods, Heartbeat(p) PROVE SlotCarried'
  BY <1>35, <1>f DEF Heartbeat, poolVars, slotVars, waitVars, dispVars, maintVars, delVars
<1>36. ASSUME NEW p \in Pods, Reap(p) PROVE SlotCarried'
  BY <1>36, <1>f DEF Reap, poolVars, slotVars, waitVars, dispVars, maintVars, delVars
<1>37. ASSUME NEW p \in Pods, PodCrash(p) PROVE SlotCarried'
  BY <1>37, <1>f DEF PodCrash, poolVars, slotVars, waitVars, dispVars, maintVars, delVars
<1>38. ASSUME NEW p \in Pods, PodVanish(p) PROVE SlotCarried'
  BY <1>38, <1>f DEF PodVanish, poolVars, slotVars, waitVars, dispVars, maintVars, delVars
<1>39. ASSUME NEW dead \in SUBSET Req, WatchdogScan(dead) PROVE SlotCarried'
  BY <1>39, <1>f DEF WatchdogScan, poolVars, slotVars, waitVars, dispVars, maintVars, delVars
<1>40. ASSUME WatchdogDelete PROVE SlotCarried'
  BY <1>40, <1>f DEF WatchdogDelete, poolVars, slotVars, waitVars, dispVars, maintVars, delVars
<1>41. ASSUME ListPods PROVE SlotCarried'
  BY <1>41, <1>f DEF ListPods, poolVars, slotVars, waitVars, dispVars, maintVars, delVars
<1>42. ASSUME NEW overdue \in SUBSET Pods, NEW drain \in SUBSET Pods, PoolPass(overdue, drain) PROVE SlotCarried'
  BY <1>42, <1>f DEF PoolPass, poolVars, slotVars, waitVars, dispVars, maintVars, delVars
<1>43. ASSUME NEW p \in Pods, DrainPod(p) PROVE SlotCarried'
  BY <1>43, <1>f DEF DrainPod, poolVars, slotVars, waitVars, dispVars, maintVars, delVars
<1>44. ASSUME NEW p \in Pods, DeletePod(p) PROVE SlotCarried'
  BY <1>44, <1>f DEF DeletePod, poolVars, slotVars, waitVars, dispVars, maintVars, delVars
<1>45. ASSUME NEW old \in SUBSET Pods, Drift(old) PROVE SlotCarried'
  BY <1>45, <1>f DEF Drift, poolVars, slotVars, waitVars, dispVars, maintVars, delVars
<1> QED
  BY <1>0, <1>1, <1>2, <1>3, <1>4, <1>5, <1>6, <1>7, <1>8, <1>9, <1>10, <1>11, <1>12, <1>13, <1>14, <1>15, <1>16, <1>17, <1>18, <1>19, <1>20, <1>21, <1>22, <1>23, <1>24, <1>25, <1>26, <1>27, <1>28, <1>29, <1>30, <1>31, <1>32, <1>33, <1>34, <1>35, <1>36, <1>37, <1>38, <1>39, <1>40, <1>41, <1>42, <1>43, <1>44, <1>45
  DEF Next, Arrive, Handler, Router, Dispatch, Worker, Maintenance

(* Every step keeps a waiter where takeWaiter and the dispatcher find it. *)
LEMMA FindableStep ==
  ASSUME TypeOK, SlotOwner, HandshakeInv, TypeOK', SlotOwner', [Next]_vars
  PROVE  Findable'
<1> USE ReqAssumption, PodsAssumption DEF TypeOK, SlotOwner, ToSet, Waiting, HandshakeInv, Findable, Carrier
<1>f. ASSUME UNCHANGED <<pc, ctx, queue, waiters, settled, stage, dpc, ditem>> PROVE Findable'
  BY <1>f
<1>0. CASE UNCHANGED vars
  BY <1>0, <1>f DEF vars, poolVars, slotVars, waitVars, dispVars, maintVars, delVars
<1>1. ASSUME NEW r \in Req, AcquireSlot(r) PROVE Findable'
  BY <1>1 DEF AcquireSlot, poolVars, slotVars, waitVars, dispVars, maintVars, delVars
<1>2. ASSUME NEW r \in Req, PageNotFound(r) PROVE Findable'
  BY <1>2 DEF PageNotFound, Return, poolVars, slotVars, waitVars, dispVars, maintVars, delVars
<1>3. ASSUME NEW r \in Req, AdmitFast(r) PROVE Findable'
  BY <1>3 DEF AdmitFast, Reserve, poolVars, slotVars, waitVars, dispVars, maintVars, delVars
<1>4. ASSUME NEW r \in Req, AdmitSlow(r) PROVE Findable'
  BY <1>4 DEF AdmitSlow, poolVars, slotVars, waitVars, dispVars, maintVars, delVars
<1>5. ASSUME NEW r \in Req, FastLease(r) PROVE Findable'
  BY <1>5 DEF FastLease, RecordLease, Return, SentGrant, poolVars, slotVars, waitVars, dispVars, maintVars, delVars
<1>6. ASSUME NEW r \in Req, FastLeaseFails(r) PROVE Findable'
  BY <1>6 DEF FastLeaseFails, UndoReservation, DropSlot, Return, poolVars, slotVars, waitVars, dispVars, maintVars, delVars
<1>7. ASSUME NEW r \in Req, Enqueue(r) PROVE Findable'
  <2>1. ToSet(queue') = ToSet(queue) \cup {r}
    BY <1>7, EnqueueContents
  <2>2. /\ waiters' = waiters \cup {r} /\ pc' = [pc EXCEPT ![r] = "position"]
        /\ UNCHANGED <<ctx, settled, stage, dpc, ditem>>
    BY <1>7 DEF Enqueue, poolVars, slotVars, waitVars, dispVars, maintVars, delVars
  <2> HIDE DEF ToSet
  <2> QED
    BY <2>1, <2>2
<1>8. ASSUME NEW r \in Req, EnqueueExpired(r) PROVE Findable'
  BY <1>8 DEF EnqueueExpired, Return, poolVars, slotVars, waitVars, dispVars, maintVars, delVars
<1>9. ASSUME NEW r \in Req, Position(r) PROVE Findable'
  BY <1>9 DEF Position, poolVars, slotVars, waitVars, dispVars, maintVars, delVars
<1>10. ASSUME NEW r \in Req, Announce(r) PROVE Findable'
  BY <1>10 DEF Announce, Return, poolVars, slotVars, waitVars, dispVars, maintVars, delVars
<1>11. ASSUME NEW r \in Req, ReceiveGrant(r) PROVE Findable'
  BY <1>11 DEF ReceiveGrant, Return, SentGrant, poolVars, slotVars, waitVars, dispVars, maintVars, delVars
<1>12. ASSUME NEW r \in Req, WaitExpired(r) PROVE Findable'
  BY <1>12 DEF WaitExpired, Return, poolVars, slotVars, waitVars, dispVars, maintVars, delVars
<1>13. ASSUME NEW r \in Req, RouterGone(r) PROVE Findable'
  BY <1>13 DEF RouterGone, InHandler, poolVars, slotVars, waitVars, dispVars, maintVars, delVars
<1>14. ASSUME NEW r \in Req, ReleaseSlot(r) PROVE Findable'
  BY <1>14 DEF ReleaseSlot, TakeLease, poolVars, slotVars, waitVars, dispVars, maintVars, delVars
<1>15. ASSUME NEW r \in Req, RouterLost(r) PROVE Findable'
  BY <1>15 DEF RouterLost, poolVars, slotVars, waitVars, dispVars, maintVars, delVars
<1>16. ASSUME NEW r \in Req, QueueTimeout(r) PROVE Findable'
  BY <1>16 DEF QueueTimeout, InHandler, poolVars, slotVars, waitVars, dispVars, maintVars, delVars
<1>17. ASSUME NEW r \in Req, QueueCancel(r) PROVE Findable'
  <2>1. ToSet(queue') = ToSet(queue) \ {r}
    BY <1>17, CancelContents
  <2>2. ctx[r] # "live" /\ UNCHANGED <<pc, ctx, waiters, settled, stage, dpc, ditem>>
    BY <1>17 DEF QueueCancel, poolVars, slotVars, waitVars, dispVars, maintVars, delVars
  <2> HIDE DEF ToSet
  <2> QED
    BY <2>1, <2>2
<1>18. ASSUME NEW r \in Req, FreeSlot(r) PROVE Findable'
  BY <1>18 DEF FreeSlot, DropSlot, poolVars, slotVars, waitVars, dispVars, maintVars, delVars
<1>19. ASSUME DispatchDequeue PROVE Findable'
  <2>1. ditem' \in Req /\ ToSet(queue) = ToSet(queue') \cup {ditem'}
    BY <1>19, DequeueContents
  <2>2. /\ dpc' = "take" /\ (dpc = "dequeue" \/ dpc = "free")
        /\ UNCHANGED <<pc, ctx, waiters, settled, stage>>
    BY <1>19 DEF DispatchDequeue, poolVars, slotVars, waitVars, dispVars, maintVars, delVars
  <2> HIDE DEF ToSet
  <2> QED
    BY <2>1, <2>2
<1>20. ASSUME DispatchTake PROVE Findable'
  BY <1>20 DEF DispatchTake, poolVars, slotVars, waitVars, dispVars, maintVars, delVars
<1>21. ASSUME DispatchReserve PROVE Findable'
  BY <1>21 DEF DispatchReserve, Reserve, poolVars, slotVars, waitVars, dispVars, maintVars, delVars
<1>22. ASSUME DispatchBlock PROVE Findable'
  BY <1>22 DEF DispatchBlock, poolVars, slotVars, waitVars, dispVars, maintVars, delVars
<1>23. ASSUME DispatchWake PROVE Findable'
  BY <1>23 DEF DispatchWake, poolVars, slotVars, waitVars, dispVars, maintVars, delVars
<1>24. ASSUME DispatchGiveUp PROVE Findable'
  BY <1>24 DEF DispatchGiveUp, poolVars, slotVars, waitVars, dispVars, maintVars, delVars
<1>25. ASSUME DispatchUnmark PROVE Findable'
  BY <1>25 DEF DispatchUnmark, poolVars, slotVars, waitVars, dispVars, maintVars, delVars
<1>26. ASSUME DispatchLease PROVE Findable'
  BY <1>26 DEF DispatchLease, RecordLease, poolVars, slotVars, waitVars, dispVars, maintVars, delVars
<1>27. ASSUME DispatchLeaseFails PROVE Findable'
  BY <1>27 DEF DispatchLeaseFails, UndoReservation, DropSlot, poolVars, slotVars, waitVars, dispVars, maintVars, delVars
<1>28. ASSUME Deliver PROVE Findable'
  BY <1>28 DEF Deliver, poolVars, slotVars, waitVars, dispVars, maintVars, delVars
<1>29. ASSUME Rollback PROVE Findable'
  BY <1>29 DEF Rollback, TakeLease, poolVars, slotVars, waitVars, dispVars, maintVars, delVars
<1>30. ASSUME NEW d \in deleting, FinishDelete(d) PROVE Findable'
  BY <1>30 DEF FinishDelete, LeasedOn, poolVars, slotVars, waitVars, dispVars, maintVars, delVars
<1>31. ASSUME NEW d \in mdead, WatchdogRelease(d) PROVE Findable'
  BY <1>31 DEF WatchdogRelease, TakeLease, poolVars, slotVars, waitVars, dispVars, maintVars, delVars
<1>32. ASSUME NEW p \in Pods, CreateDone(p) PROVE Findable'
  BY <1>32, <1>f DEF CreateDone, poolVars, slotVars, waitVars, dispVars, maintVars, delVars
<1>33. ASSUME NEW p \in Pods, CreateFails(p) PROVE Findable'
  BY <1>33, <1>f DEF CreateFails, poolVars, slotVars, waitVars, dispVars, maintVars, delVars
<1>34. ASSUME NEW p \in Pods, Register(p) PROVE Findable'
  BY <1>34, <1>f DEF Register, poolVars, slotVars, waitVars, dispVars, maintVars, delVars
<1>35. ASSUME NEW p \in Pods, Heartbeat(p) PROVE Findable'
  BY <1>35, <1>f DEF Heartbeat, poolVars, slotVars, waitVars, dispVars, maintVars, delVars
<1>36. ASSUME NEW p \in Pods, Reap(p) PROVE Findable'
  BY <1>36, <1>f DEF Reap, poolVars, slotVars, waitVars, dispVars, maintVars, delVars
<1>37. ASSUME NEW p \in Pods, PodCrash(p) PROVE Findable'
  BY <1>37, <1>f DEF PodCrash, poolVars, slotVars, waitVars, dispVars, maintVars, delVars
<1>38. ASSUME NEW p \in Pods, PodVanish(p) PROVE Findable'
  BY <1>38, <1>f DEF PodVanish, poolVars, slotVars, waitVars, dispVars, maintVars, delVars
<1>39. ASSUME NEW dead \in SUBSET Req, WatchdogScan(dead) PROVE Findable'
  BY <1>39, <1>f DEF WatchdogScan, poolVars, slotVars, waitVars, dispVars, maintVars, delVars
<1>40. ASSUME WatchdogDelete PROVE Findable'
  BY <1>40, <1>f DEF WatchdogDelete, poolVars, slotVars, waitVars, dispVars, maintVars, delVars
<1>41. ASSUME ListPods PROVE Findable'
  BY <1>41, <1>f DEF ListPods, poolVars, slotVars, waitVars, dispVars, maintVars, delVars
<1>42. ASSUME NEW overdue \in SUBSET Pods, NEW drain \in SUBSET Pods, PoolPass(overdue, drain) PROVE Findable'
  BY <1>42, <1>f DEF PoolPass, poolVars, slotVars, waitVars, dispVars, maintVars, delVars
<1>43. ASSUME NEW p \in Pods, DrainPod(p) PROVE Findable'
  BY <1>43, <1>f DEF DrainPod, poolVars, slotVars, waitVars, dispVars, maintVars, delVars
<1>44. ASSUME NEW p \in Pods, DeletePod(p) PROVE Findable'
  BY <1>44, <1>f DEF DeletePod, poolVars, slotVars, waitVars, dispVars, maintVars, delVars
<1>45. ASSUME NEW old \in SUBSET Pods, Drift(old) PROVE Findable'
  BY <1>45, <1>f DEF Drift, poolVars, slotVars, waitVars, dispVars, maintVars, delVars
<1> QED
  BY <1>0, <1>1, <1>2, <1>3, <1>4, <1>5, <1>6, <1>7, <1>8, <1>9, <1>10, <1>11, <1>12, <1>13, <1>14, <1>15, <1>16, <1>17, <1>18, <1>19, <1>20, <1>21, <1>22, <1>23, <1>24, <1>25, <1>26, <1>27, <1>28, <1>29, <1>30, <1>31, <1>32, <1>33, <1>34, <1>35, <1>36, <1>37, <1>38, <1>39, <1>40, <1>41, <1>42, <1>43, <1>44, <1>45
  DEF Next, Arrive, Handler, Router, Dispatch, Worker, Maintenance

(* Every step keeps what the dispatcher knows of the request it carries. *)
LEMMA CarrierStep ==
  ASSUME TypeOK, SlotOwner, HandshakeInv, TypeOK', SlotOwner', [Next]_vars
  PROVE  Carrier'
<1> USE ReqAssumption, PodsAssumption DEF TypeOK, SlotOwner, ToSet, Waiting, HandshakeInv, Carrier
<1>f. ASSUME UNCHANGED <<pc, ctx, queue, waiters, settled, stage, dpc, ditem>> PROVE Carrier'
  BY <1>f
<1>0. CASE UNCHANGED vars
  BY <1>0, <1>f DEF vars, poolVars, slotVars, waitVars, dispVars, maintVars, delVars
<1>1. ASSUME NEW r \in Req, AcquireSlot(r) PROVE Carrier'
  BY <1>1 DEF AcquireSlot, poolVars, slotVars, waitVars, dispVars, maintVars, delVars
<1>2. ASSUME NEW r \in Req, PageNotFound(r) PROVE Carrier'
  BY <1>2 DEF PageNotFound, Return, poolVars, slotVars, waitVars, dispVars, maintVars, delVars
<1>3. ASSUME NEW r \in Req, AdmitFast(r) PROVE Carrier'
  BY <1>3 DEF AdmitFast, Reserve, poolVars, slotVars, waitVars, dispVars, maintVars, delVars
<1>4. ASSUME NEW r \in Req, AdmitSlow(r) PROVE Carrier'
  BY <1>4 DEF AdmitSlow, poolVars, slotVars, waitVars, dispVars, maintVars, delVars
<1>5. ASSUME NEW r \in Req, FastLease(r) PROVE Carrier'
  BY <1>5 DEF FastLease, RecordLease, Return, SentGrant, poolVars, slotVars, waitVars, dispVars, maintVars, delVars
<1>6. ASSUME NEW r \in Req, FastLeaseFails(r) PROVE Carrier'
  BY <1>6 DEF FastLeaseFails, UndoReservation, DropSlot, Return, poolVars, slotVars, waitVars, dispVars, maintVars, delVars
<1>7. ASSUME NEW r \in Req, Enqueue(r) PROVE Carrier'
  BY <1>7 DEF Enqueue, poolVars, slotVars, waitVars, dispVars, maintVars, delVars
<1>8. ASSUME NEW r \in Req, EnqueueExpired(r) PROVE Carrier'
  BY <1>8 DEF EnqueueExpired, Return, poolVars, slotVars, waitVars, dispVars, maintVars, delVars
<1>9. ASSUME NEW r \in Req, Position(r) PROVE Carrier'
  BY <1>9 DEF Position, poolVars, slotVars, waitVars, dispVars, maintVars, delVars
<1>10. ASSUME NEW r \in Req, Announce(r) PROVE Carrier'
  BY <1>10 DEF Announce, Return, poolVars, slotVars, waitVars, dispVars, maintVars, delVars
<1>11. ASSUME NEW r \in Req, ReceiveGrant(r) PROVE Carrier'
  BY <1>11 DEF ReceiveGrant, Return, SentGrant, poolVars, slotVars, waitVars, dispVars, maintVars, delVars
<1>12. ASSUME NEW r \in Req, WaitExpired(r) PROVE Carrier'
  BY <1>12 DEF WaitExpired, Return, poolVars, slotVars, waitVars, dispVars, maintVars, delVars
<1>13. ASSUME NEW r \in Req, RouterGone(r) PROVE Carrier'
  BY <1>13 DEF RouterGone, InHandler, poolVars, slotVars, waitVars, dispVars, maintVars, delVars
<1>14. ASSUME NEW r \in Req, ReleaseSlot(r) PROVE Carrier'
  BY <1>14 DEF ReleaseSlot, TakeLease, poolVars, slotVars, waitVars, dispVars, maintVars, delVars
<1>15. ASSUME NEW r \in Req, RouterLost(r) PROVE Carrier'
  BY <1>15 DEF RouterLost, poolVars, slotVars, waitVars, dispVars, maintVars, delVars
<1>16. ASSUME NEW r \in Req, QueueTimeout(r) PROVE Carrier'
  BY <1>16 DEF QueueTimeout, InHandler, poolVars, slotVars, waitVars, dispVars, maintVars, delVars
<1>17. ASSUME NEW r \in Req, QueueCancel(r) PROVE Carrier'
  BY <1>17 DEF QueueCancel, poolVars, slotVars, waitVars, dispVars, maintVars, delVars
<1>18. ASSUME NEW r \in Req, FreeSlot(r) PROVE Carrier'
  BY <1>18 DEF FreeSlot, DropSlot, poolVars, slotVars, waitVars, dispVars, maintVars, delVars
<1>19. ASSUME DispatchDequeue PROVE Carrier'
  BY <1>19 DEF DispatchDequeue, poolVars, slotVars, waitVars, dispVars, maintVars, delVars
<1>20. ASSUME DispatchTake PROVE Carrier'
  BY <1>20 DEF DispatchTake, poolVars, slotVars, waitVars, dispVars, maintVars, delVars
<1>21. ASSUME DispatchReserve PROVE Carrier'
  BY <1>21 DEF DispatchReserve, Reserve, poolVars, slotVars, waitVars, dispVars, maintVars, delVars
<1>22. ASSUME DispatchBlock PROVE Carrier'
  BY <1>22 DEF DispatchBlock, poolVars, slotVars, waitVars, dispVars, maintVars, delVars
<1>23. ASSUME DispatchWake PROVE Carrier'
  BY <1>23 DEF DispatchWake, poolVars, slotVars, waitVars, dispVars, maintVars, delVars
<1>24. ASSUME DispatchGiveUp PROVE Carrier'
  BY <1>24 DEF DispatchGiveUp, poolVars, slotVars, waitVars, dispVars, maintVars, delVars
<1>25. ASSUME DispatchUnmark PROVE Carrier'
  BY <1>25 DEF DispatchUnmark, poolVars, slotVars, waitVars, dispVars, maintVars, delVars
<1>26. ASSUME DispatchLease PROVE Carrier'
  BY <1>26 DEF DispatchLease, RecordLease, poolVars, slotVars, waitVars, dispVars, maintVars, delVars
<1>27. ASSUME DispatchLeaseFails PROVE Carrier'
  BY <1>27 DEF DispatchLeaseFails, UndoReservation, DropSlot, poolVars, slotVars, waitVars, dispVars, maintVars, delVars
<1>28. ASSUME Deliver PROVE Carrier'
  BY <1>28 DEF Deliver, poolVars, slotVars, waitVars, dispVars, maintVars, delVars
<1>29. ASSUME Rollback PROVE Carrier'
  BY <1>29 DEF Rollback, TakeLease, poolVars, slotVars, waitVars, dispVars, maintVars, delVars
<1>30. ASSUME NEW d \in deleting, FinishDelete(d) PROVE Carrier'
  BY <1>30 DEF FinishDelete, LeasedOn, poolVars, slotVars, waitVars, dispVars, maintVars, delVars
<1>31. ASSUME NEW d \in mdead, WatchdogRelease(d) PROVE Carrier'
  BY <1>31 DEF WatchdogRelease, TakeLease, poolVars, slotVars, waitVars, dispVars, maintVars, delVars
<1>32. ASSUME NEW p \in Pods, CreateDone(p) PROVE Carrier'
  BY <1>32, <1>f DEF CreateDone, poolVars, slotVars, waitVars, dispVars, maintVars, delVars
<1>33. ASSUME NEW p \in Pods, CreateFails(p) PROVE Carrier'
  BY <1>33, <1>f DEF CreateFails, poolVars, slotVars, waitVars, dispVars, maintVars, delVars
<1>34. ASSUME NEW p \in Pods, Register(p) PROVE Carrier'
  BY <1>34, <1>f DEF Register, poolVars, slotVars, waitVars, dispVars, maintVars, delVars
<1>35. ASSUME NEW p \in Pods, Heartbeat(p) PROVE Carrier'
  BY <1>35, <1>f DEF Heartbeat, poolVars, slotVars, waitVars, dispVars, maintVars, delVars
<1>36. ASSUME NEW p \in Pods, Reap(p) PROVE Carrier'
  BY <1>36, <1>f DEF Reap, poolVars, slotVars, waitVars, dispVars, maintVars, delVars
<1>37. ASSUME NEW p \in Pods, PodCrash(p) PROVE Carrier'
  BY <1>37, <1>f DEF PodCrash, poolVars, slotVars, waitVars, dispVars, maintVars, delVars
<1>38. ASSUME NEW p \in Pods, PodVanish(p) PROVE Carrier'
  BY <1>38, <1>f DEF PodVanish, poolVars, slotVars, waitVars, dispVars, maintVars, delVars
<1>39. ASSUME NEW dead \in SUBSET Req, WatchdogScan(dead) PROVE Carrier'
  BY <1>39, <1>f DEF WatchdogScan, poolVars, slotVars, waitVars, dispVars, maintVars, delVars
<1>40. ASSUME WatchdogDelete PROVE Carrier'
  BY <1>40, <1>f DEF WatchdogDelete, poolVars, slotVars, waitVars, dispVars, maintVars, delVars
<1>41. ASSUME ListPods PROVE Carrier'
  BY <1>41, <1>f DEF ListPods, poolVars, slotVars, waitVars, dispVars, maintVars, delVars
<1>42. ASSUME NEW overdue \in SUBSET Pods, NEW drain \in SUBSET Pods, PoolPass(overdue, drain) PROVE Carrier'
  BY <1>42, <1>f DEF PoolPass, poolVars, slotVars, waitVars, dispVars, maintVars, delVars
<1>43. ASSUME NEW p \in Pods, DrainPod(p) PROVE Carrier'
  BY <1>43, <1>f DEF DrainPod, poolVars, slotVars, waitVars, dispVars, maintVars, delVars
<1>44. ASSUME NEW p \in Pods, DeletePod(p) PROVE Carrier'
  BY <1>44, <1>f DEF DeletePod, poolVars, slotVars, waitVars, dispVars, maintVars, delVars
<1>45. ASSUME NEW old \in SUBSET Pods, Drift(old) PROVE Carrier'
  BY <1>45, <1>f DEF Drift, poolVars, slotVars, waitVars, dispVars, maintVars, delVars
<1> QED
  BY <1>0, <1>1, <1>2, <1>3, <1>4, <1>5, <1>6, <1>7, <1>8, <1>9, <1>10, <1>11, <1>12, <1>13, <1>14, <1>15, <1>16, <1>17, <1>18, <1>19, <1>20, <1>21, <1>22, <1>23, <1>24, <1>25, <1>26, <1>27, <1>28, <1>29, <1>30, <1>31, <1>32, <1>33, <1>34, <1>35, <1>36, <1>37, <1>38, <1>39, <1>40, <1>41, <1>42, <1>43, <1>44, <1>45
  DEF Next, Arrive, Handler, Router, Dispatch, Worker, Maintenance

(* The handshake invariant holds in every reachable state, whatever the    *)
(* environment does.                                                       *)
THEOREM HandshakeInvariant == Spec => [](TypeOK /\ SlotOwner /\ HandshakeInv)
<1>1. Init => TypeOK /\ SlotOwner /\ HandshakeInv
  <2> SUFFICES ASSUME Init PROVE HandshakeInv
    BY SlotInvInit DEF SlotInv
  <2> QED
    BY DEF Init, HandshakeInv, SlotCarried, Findable, Carrier, Waiting, ToSet
<1>2. TypeOK /\ SlotOwner /\ HandshakeInv /\ [Next]_vars => TypeOK' /\ SlotOwner' /\ HandshakeInv'
  <2> SUFFICES ASSUME TypeOK, SlotOwner, HandshakeInv, [Next]_vars
               PROVE  TypeOK' /\ SlotOwner' /\ HandshakeInv'
    OBVIOUS
  <2>1. TypeOK'
    BY TypeStep
  <2>2. SlotOwner'
    BY <2>1, OwnerStep
  <2>3. SlotCarried' /\ Findable' /\ Carrier'
    BY <2>1, <2>2, SlotCarriedStep, FindableStep, CarrierStep
  <2> QED
    BY <2>1, <2>2, <2>3 DEF HandshakeInv
<1> QED
  BY <1>1, <1>2, PTL DEF Spec

(* A request answered TIMEOUT keeps no slot, unless the dispatcher is still *)
(* carrying it to the rollback: the race of deliver against the waiter's    *)
(* own timeout, for any number of requests and whatever else happens.       *)
THEOREM TimeoutHoldsNoSlotHolds == Spec => []TimeoutHoldsNoSlot
<1>1. HandshakeInv => TimeoutHoldsNoSlot
  BY DEF HandshakeInv, SlotCarried, TimeoutHoldsNoSlot
<1> QED
  BY <1>1, HandshakeInvariant, PTL

-----------------------------------------------------------------------------
(* The coalescing slotFreed signal. *)

(* tryReserve finds nothing only when no ready pod is below the cap. *)
LEMMA BestExists ==
  ASSUME inFlight \in [Pods -> Nat], NEW page, Best(page) = {}
  PROVE  FreePods = {}
<1> SUFFICES ASSUME FreePods # {} PROVE FALSE
  OBVIOUS
<1> DEFINE hasPage == {p \in Pods : page \in loaded[p]}
           preferred == IF FreePods \cap hasPage # {} THEN FreePods \cap hasPage ELSE FreePods
<1>1. preferred # {} /\ preferred \subseteq Pods
  BY DEF FreePods, InPhase
<1>2. Best(page) = {p \in preferred : \A q \in preferred : inFlight[p] <= inFlight[q]}
  BY DEF Best, BestPods
<1> HIDE DEF preferred
<1>3. \E p \in preferred : \A q \in preferred : inFlight[p] <= inFlight[q]
  BY <1>1, LeastExists
<1> QED
  BY <1>2, <1>3

(* Every step that makes a slot available while the dispatcher sleeps also *)
(* leaves a token in slotFreed.                                            *)
LEMMA WakeStep ==
  ASSUME TypeOK, WakeInv, TypeOK', [Next]_vars
  PROVE  WakeInv'
<1> USE DEF TypeOK, WakeInv
<1>f. ASSUME FreePods' \subseteq FreePods, UNCHANGED <<dpc, slotFreed>> PROVE WakeInv'
  BY <1>f
<1>s. ASSUME UNCHANGED <<phase, inFlight, dpc, slotFreed>> PROVE WakeInv'
  BY <1>f, <1>s DEF FreePods, InPhase
<1>u. ASSUME NEW S, Untrack(S), UNCHANGED <<dpc, slotFreed>> PROVE WakeInv'
  <2>1. FreePods' \subseteq FreePods
    BY <1>u DEF Untrack, FreePods, InPhase
  <2> QED
    BY <1>f, <1>u, <2>1
<1>t. ASSUME slotFreed' PROVE WakeInv'
  BY <1>t
<1>a. ASSUME dpc' # "blocked" PROVE WakeInv'
  BY <1>a
<1>0. CASE UNCHANGED vars
  BY <1>0, <1>s DEF vars, poolVars, slotVars, waitVars, dispVars, maintVars, delVars
<1>1. ASSUME NEW r \in Req, AcquireSlot(r) PROVE WakeInv'
  <2>1. FreePods' \subseteq FreePods
    BY <1>1 DEF AcquireSlot, FreePods, InPhase
  <2> QED
    BY <1>1, <1>f, <2>1 DEF AcquireSlot, dispVars
<1>2. ASSUME NEW r \in Req, PageNotFound(r) PROVE WakeInv'
  BY <1>2, <1>s DEF PageNotFound, poolVars, slotVars, waitVars, dispVars, maintVars, delVars
<1>3. ASSUME NEW r \in Req, AdmitFast(r) PROVE WakeInv'
  <2>1. FreePods' \subseteq FreePods
    BY <1>3, SizeAssumption DEF AdmitFast, Reserve, FreePods, InPhase
  <2> QED
    BY <1>3, <1>f, <2>1 DEF AdmitFast, dispVars
<1>4. ASSUME NEW r \in Req, AdmitSlow(r) PROVE WakeInv'
  BY <1>4, <1>s DEF AdmitSlow, poolVars, slotVars, waitVars, dispVars, maintVars, delVars
<1>5. ASSUME NEW r \in Req, FastLease(r) PROVE WakeInv'
  BY <1>5, <1>s DEF FastLease, poolVars, slotVars, waitVars, dispVars, maintVars, delVars
<1>6. ASSUME NEW r \in Req, FastLeaseFails(r) PROVE WakeInv'
  BY <1>6, <1>t DEF FastLeaseFails, UndoReservation
<1>7. ASSUME NEW r \in Req, Enqueue(r) PROVE WakeInv'
  BY <1>7, <1>s DEF Enqueue, poolVars, slotVars, waitVars, dispVars, maintVars, delVars
<1>8. ASSUME NEW r \in Req, EnqueueExpired(r) PROVE WakeInv'
  BY <1>8, <1>s DEF EnqueueExpired, poolVars, slotVars, waitVars, dispVars, maintVars, delVars
<1>9. ASSUME NEW r \in Req, Position(r) PROVE WakeInv'
  BY <1>9, <1>s DEF Position, poolVars, slotVars, waitVars, dispVars, maintVars, delVars
<1>10. ASSUME NEW r \in Req, Announce(r) PROVE WakeInv'
  BY <1>10, <1>s DEF Announce, poolVars, slotVars, waitVars, dispVars, maintVars, delVars
<1>11. ASSUME NEW r \in Req, ReceiveGrant(r) PROVE WakeInv'
  BY <1>11, <1>s DEF ReceiveGrant, poolVars, slotVars, waitVars, dispVars, maintVars, delVars
<1>12. ASSUME NEW r \in Req, WaitExpired(r) PROVE WakeInv'
  BY <1>12, <1>s DEF WaitExpired, poolVars, slotVars, waitVars, dispVars, maintVars, delVars
<1>13. ASSUME NEW r \in Req, RouterGone(r) PROVE WakeInv'
  BY <1>13, <1>s DEF RouterGone, poolVars, slotVars, waitVars, dispVars, maintVars, delVars
<1>14. ASSUME NEW r \in Req, ReleaseSlot(r) PROVE WakeInv'
  BY <1>14, <1>s DEF ReleaseSlot, poolVars, slotVars, waitVars, dispVars, maintVars, delVars
<1>15. ASSUME NEW r \in Req, RouterLost(r) PROVE WakeInv'
  BY <1>15, <1>s DEF RouterLost, poolVars, slotVars, waitVars, dispVars, maintVars, delVars
<1>16. ASSUME NEW r \in Req, QueueTimeout(r) PROVE WakeInv'
  BY <1>16, <1>s DEF QueueTimeout, poolVars, slotVars, waitVars, dispVars, maintVars, delVars
<1>17. ASSUME NEW r \in Req, QueueCancel(r) PROVE WakeInv'
  BY <1>17, <1>s DEF QueueCancel, poolVars, slotVars, waitVars, dispVars, maintVars, delVars
<1>18. ASSUME NEW r \in Req, FreeSlot(r) PROVE WakeInv'
  BY <1>18, <1>t DEF FreeSlot
<1>19. ASSUME DispatchDequeue PROVE WakeInv'
  BY <1>19, <1>a DEF DispatchDequeue
<1>20. ASSUME DispatchTake PROVE WakeInv'
  BY <1>20, <1>a DEF DispatchTake
<1>21. ASSUME DispatchReserve PROVE WakeInv'
  BY <1>21, <1>a DEF DispatchReserve
<1>22. ASSUME DispatchBlock PROVE WakeInv'
  BY <1>22, BestExists, ZenonT(30) DEF DispatchBlock, FreePods, InPhase, poolVars
<1>23. ASSUME DispatchWake PROVE WakeInv'
  BY <1>23, <1>a DEF DispatchWake
<1>24. ASSUME DispatchGiveUp PROVE WakeInv'
  BY <1>24, <1>a DEF DispatchGiveUp
<1>25. ASSUME DispatchUnmark PROVE WakeInv'
  BY <1>25, <1>a DEF DispatchUnmark
<1>26. ASSUME DispatchLease PROVE WakeInv'
  BY <1>26, <1>a DEF DispatchLease
<1>27. ASSUME DispatchLeaseFails PROVE WakeInv'
  BY <1>27, <1>t DEF DispatchLeaseFails, UndoReservation
<1>28. ASSUME Deliver PROVE WakeInv'
  BY <1>28, <1>a DEF Deliver
<1>29. ASSUME Rollback PROVE WakeInv'
  BY <1>29, <1>a DEF Rollback
<1>30. ASSUME NEW p \in Pods, CreateDone(p) PROVE WakeInv'
  BY <1>30, <1>s DEF CreateDone, poolVars, slotVars, waitVars, dispVars, maintVars, delVars
<1>31. ASSUME NEW p \in Pods, CreateFails(p) PROVE WakeInv'
  BY <1>31, <1>u DEF CreateFails, dispVars
<1>32. ASSUME NEW p \in Pods, Register(p) PROVE WakeInv'
  BY <1>32, <1>t DEF Register
<1>33. ASSUME NEW p \in Pods, Heartbeat(p) PROVE WakeInv'
  BY <1>33, <1>s DEF Heartbeat, poolVars, slotVars, waitVars, dispVars, maintVars, delVars
<1>34. ASSUME NEW p \in Pods, Reap(p) PROVE WakeInv'
  BY <1>34, <1>u DEF Reap, StartDelete, dispVars
<1>35. ASSUME NEW p \in Pods, PodCrash(p) PROVE WakeInv'
  BY <1>35, <1>s DEF PodCrash, poolVars, slotVars, waitVars, dispVars, maintVars, delVars
<1>36. ASSUME NEW p \in Pods, PodVanish(p) PROVE WakeInv'
  BY <1>36, <1>s DEF PodVanish, poolVars, slotVars, waitVars, dispVars, maintVars, delVars
<1>37. ASSUME NEW d \in deleting, FinishDelete(d) PROVE WakeInv'
  BY <1>37, <1>t DEF FinishDelete
<1>38. ASSUME NEW dead \in SUBSET Req, WatchdogScan(dead) PROVE WakeInv'
  BY <1>38, <1>s DEF WatchdogScan, poolVars, slotVars, waitVars, dispVars, maintVars, delVars
<1>39. ASSUME NEW d \in mdead, WatchdogRelease(d) PROVE WakeInv'
  BY <1>39, <1>s DEF WatchdogRelease, poolVars, slotVars, waitVars, dispVars, maintVars, delVars
<1>40. ASSUME WatchdogDelete PROVE WakeInv'
  BY <1>40, <1>u DEF WatchdogDelete, StartDelete, dispVars
<1>41. ASSUME ListPods PROVE WakeInv'
  BY <1>41, <1>s DEF ListPods, poolVars, slotVars, waitVars, dispVars, maintVars, delVars
<1>42. ASSUME NEW overdue \in SUBSET Pods, NEW drain \in SUBSET Pods, PoolPass(overdue, drain) PROVE WakeInv'
  BY <1>42, <1>s DEF PoolPass, poolVars, slotVars, waitVars, dispVars, maintVars, delVars
<1>43. ASSUME NEW p \in Pods, DrainPod(p) PROVE WakeInv'
  <2>1. FreePods' \subseteq FreePods
    BY <1>43 DEF DrainPod, FreePods, InPhase
  <2> QED
    BY <1>43, <1>f, <2>1 DEF DrainPod, dispVars
<1>44. ASSUME NEW p \in Pods, DeletePod(p) PROVE WakeInv'
  BY <1>44, <1>u DEF DeletePod, StartDelete, dispVars
<1>45. ASSUME NEW old \in SUBSET Pods, Drift(old) PROVE WakeInv'
  BY <1>45, <1>u DEF Drift, dispVars
<1> QED
  BY <1>0, <1>1, <1>2, <1>3, <1>4, <1>5, <1>6, <1>7, <1>8, <1>9, <1>10, <1>11, <1>12, <1>13, <1>14, <1>15, <1>16, <1>17, <1>18, <1>19, <1>20, <1>21, <1>22, <1>23, <1>24, <1>25, <1>26, <1>27, <1>28, <1>29, <1>30, <1>31, <1>32, <1>33, <1>34, <1>35, <1>36, <1>37, <1>38, <1>39, <1>40, <1>41, <1>42, <1>43, <1>44, <1>45
  DEF Next, Arrive, Handler, Router, Dispatch, Worker, Maintenance

(* A handler that waits can still be served, and the dispatcher is not      *)
(* asleep without a token while a slot is free: reserveBlocking against     *)
(* Register, releaseLease, deletePod and the undo of a failed lease.        *)
THEOREM WaitersReachedHolds == Spec => []WaitersReached
<1>1. Init => WakeInv
  BY DEF Init, WakeInv
<1>2. TypeOK /\ WakeInv /\ TypeOK' /\ [Next]_vars => WakeInv'
  BY WakeStep
<1>3. Spec => []WakeInv
  BY <1>1, <1>2, TypeCorrect, PTL DEF Spec
<1>4. WakeInv => NoLostWakeup
  <2>1. \A page : Best(page) \subseteq FreePods
    BY DEF Best, BestPods
  <2> QED
    BY <2>1 DEF WakeInv, NoLostWakeup
<1>5. HandshakeInv => WaiterReachable
  BY DEF HandshakeInv, Findable, Waiting, WaiterReachable
<1>6. WakeInv /\ HandshakeInv => WaitersReached
  BY <1>4, <1>5 DEF WaitersReached
<1> QED
  BY <1>3, <1>6, HandshakeInvariant, PTL

-----------------------------------------------------------------------------
(* The tenant's pod ceiling. *)

(* Creating pods and deleting them works in time, and no Register is late. *)
CreationsWork == Env \cap {"create", "delete", "deadline", "slow", "late"} = {}

(* Every step keeps pods on their way up in the pool. *)
LEMMA CreationStep ==
  ASSUME SlotInv, CreationCounted, TypeOK', CreationsWork, [Next]_vars
  PROVE  CreationCounted'
<1> USE ReqAssumption, PodsAssumption DEF TypeOK, CreationCounted, Registered, SlotInv, FreshPods, CreationsWork
<1>f. ASSUME UNCHANGED <<phase, kube, reaps, mfailed, mdel, mdead, mpc, mcur>> PROVE CreationCounted'
  BY <1>f
<1>0. CASE UNCHANGED vars
  BY <1>0, <1>f DEF vars, poolVars, slotVars, waitVars, dispVars, maintVars, delVars
<1>1. ASSUME NEW r \in Req, AcquireSlot(r) PROVE CreationCounted'
  BY <1>1, NewPodsAreFresh DEF AcquireSlot, poolVars, slotVars, waitVars, dispVars, maintVars, delVars
<1>2. ASSUME NEW r \in Req, PageNotFound(r) PROVE CreationCounted'
  BY <1>2, <1>f DEF PageNotFound, poolVars, slotVars, waitVars, dispVars, maintVars, delVars
<1>3. ASSUME NEW r \in Req, AdmitFast(r) PROVE CreationCounted'
  BY <1>3, <1>f DEF AdmitFast, poolVars, slotVars, waitVars, dispVars, maintVars, delVars
<1>4. ASSUME NEW r \in Req, AdmitSlow(r) PROVE CreationCounted'
  BY <1>4, <1>f DEF AdmitSlow, poolVars, slotVars, waitVars, dispVars, maintVars, delVars
<1>5. ASSUME NEW r \in Req, FastLease(r) PROVE CreationCounted'
  BY <1>5, <1>f DEF FastLease, poolVars, slotVars, waitVars, dispVars, maintVars, delVars
<1>6. ASSUME NEW r \in Req, FastLeaseFails(r) PROVE CreationCounted'
  BY <1>6, <1>f DEF FastLeaseFails, poolVars, slotVars, waitVars, dispVars, maintVars, delVars
<1>7. ASSUME NEW r \in Req, Enqueue(r) PROVE CreationCounted'
  BY <1>7, <1>f DEF Enqueue, poolVars, slotVars, waitVars, dispVars, maintVars, delVars
<1>8. ASSUME NEW r \in Req, EnqueueExpired(r) PROVE CreationCounted'
  BY <1>8, <1>f DEF EnqueueExpired, poolVars, slotVars, waitVars, dispVars, maintVars, delVars
<1>9. ASSUME NEW r \in Req, Position(r) PROVE CreationCounted'
  BY <1>9, <1>f DEF Position, poolVars, slotVars, waitVars, dispVars, maintVars, delVars
<1>10. ASSUME NEW r \in Req, Announce(r) PROVE CreationCounted'
  BY <1>10, <1>f DEF Announce, poolVars, slotVars, waitVars, dispVars, maintVars, delVars
<1>11. ASSUME NEW r \in Req, ReceiveGrant(r) PROVE CreationCounted'
  BY <1>11, <1>f DEF ReceiveGrant, poolVars, slotVars, waitVars, dispVars, maintVars, delVars
<1>12. ASSUME NEW r \in Req, WaitExpired(r) PROVE CreationCounted'
  BY <1>12, <1>f DEF WaitExpired, poolVars, slotVars, waitVars, dispVars, maintVars, delVars
<1>13. ASSUME NEW r \in Req, RouterGone(r) PROVE CreationCounted'
  BY <1>13, <1>f DEF RouterGone, poolVars, slotVars, waitVars, dispVars, maintVars, delVars
<1>14. ASSUME NEW r \in Req, ReleaseSlot(r) PROVE CreationCounted'
  BY <1>14, <1>f DEF ReleaseSlot, poolVars, slotVars, waitVars, dispVars, maintVars, delVars
<1>15. ASSUME NEW r \in Req, RouterLost(r) PROVE CreationCounted'
  BY <1>15, <1>f DEF RouterLost, poolVars, slotVars, waitVars, dispVars, maintVars, delVars
<1>16. ASSUME NEW r \in Req, QueueTimeout(r) PROVE CreationCounted'
  BY <1>16, <1>f DEF QueueTimeout, poolVars, slotVars, waitVars, dispVars, maintVars, delVars
<1>17. ASSUME NEW r \in Req, QueueCancel(r) PROVE CreationCounted'
  BY <1>17, <1>f DEF QueueCancel, poolVars, slotVars, waitVars, dispVars, maintVars, delVars
<1>18. ASSUME NEW r \in Req, FreeSlot(r) PROVE CreationCounted'
  BY <1>18, <1>f DEF FreeSlot, poolVars, slotVars, waitVars, dispVars, maintVars, delVars
<1>19. ASSUME DispatchDequeue PROVE CreationCounted'
  BY <1>19, <1>f DEF DispatchDequeue, poolVars, slotVars, waitVars, dispVars, maintVars, delVars
<1>20. ASSUME DispatchTake PROVE CreationCounted'
  BY <1>20, <1>f DEF DispatchTake, poolVars, slotVars, waitVars, dispVars, maintVars, delVars
<1>21. ASSUME DispatchReserve PROVE CreationCounted'
  BY <1>21, <1>f DEF DispatchReserve, poolVars, slotVars, waitVars, dispVars, maintVars, delVars
<1>22. ASSUME DispatchBlock PROVE CreationCounted'
  BY <1>22, <1>f DEF DispatchBlock, poolVars, slotVars, waitVars, dispVars, maintVars, delVars
<1>23. ASSUME DispatchWake PROVE CreationCounted'
  BY <1>23, <1>f DEF DispatchWake, poolVars, slotVars, waitVars, dispVars, maintVars, delVars
<1>24. ASSUME DispatchGiveUp PROVE CreationCounted'
  BY <1>24, <1>f DEF DispatchGiveUp, poolVars, slotVars, waitVars, dispVars, maintVars, delVars
<1>25. ASSUME DispatchUnmark PROVE CreationCounted'
  BY <1>25, <1>f DEF DispatchUnmark, poolVars, slotVars, waitVars, dispVars, maintVars, delVars
<1>26. ASSUME DispatchLease PROVE CreationCounted'
  BY <1>26, <1>f DEF DispatchLease, poolVars, slotVars, waitVars, dispVars, maintVars, delVars
<1>27. ASSUME DispatchLeaseFails PROVE CreationCounted'
  BY <1>27, <1>f DEF DispatchLeaseFails, poolVars, slotVars, waitVars, dispVars, maintVars, delVars
<1>28. ASSUME Deliver PROVE CreationCounted'
  BY <1>28, <1>f DEF Deliver, poolVars, slotVars, waitVars, dispVars, maintVars, delVars
<1>29. ASSUME Rollback PROVE CreationCounted'
  BY <1>29, <1>f DEF Rollback, poolVars, slotVars, waitVars, dispVars, maintVars, delVars
<1>30. ASSUME NEW p \in Pods, CreateDone(p) PROVE CreationCounted'
  BY <1>30 DEF CreateDone, poolVars, slotVars, waitVars, dispVars, maintVars, delVars
<1>31. ASSUME NEW p \in Pods, CreateFails(p) PROVE CreationCounted'
  BY <1>31 DEF CreateFails, poolVars, slotVars, waitVars, dispVars, maintVars, delVars
<1>32. ASSUME NEW p \in Pods, Register(p) PROVE CreationCounted'
  BY <1>32 DEF Register, poolVars, slotVars, waitVars, dispVars, maintVars, delVars
<1>33. ASSUME NEW p \in Pods, Heartbeat(p) PROVE CreationCounted'
  BY <1>33 DEF Heartbeat, poolVars, slotVars, waitVars, dispVars, maintVars, delVars
<1>34. ASSUME NEW p \in Pods, Reap(p) PROVE CreationCounted'
  BY <1>34 DEF Reap, StartDelete, Untrack, poolVars, slotVars, waitVars, dispVars, maintVars, delVars
<1>35. ASSUME NEW p \in Pods, PodCrash(p) PROVE CreationCounted'
  BY <1>35 DEF PodCrash, poolVars, slotVars, waitVars, dispVars, maintVars, delVars
<1>36. ASSUME NEW p \in Pods, PodVanish(p) PROVE CreationCounted'
  BY <1>36 DEF PodVanish, Deletable, poolVars, slotVars, waitVars, dispVars, maintVars, delVars
<1>37. ASSUME NEW d \in deleting, FinishDelete(d) PROVE CreationCounted'
  <2>1. \A p \in Pods : kube'[p] = kube[p] \/ kube'[p] = "gone"
    BY <1>37 DEF FinishDelete
  <2>2. UNCHANGED <<phase, reaps, mfailed, mdel, mdead, mpc, mcur>>
    BY <1>37 DEF FinishDelete, poolVars, slotVars, waitVars, dispVars, maintVars, delVars
  <2> QED
    BY <2>1, <2>2
<1>38. ASSUME NEW dead \in SUBSET Req, WatchdogScan(dead) PROVE CreationCounted'
  BY <1>38 DEF WatchdogScan, SlotOwner, poolVars, slotVars, waitVars, dispVars, maintVars, delVars
<1>39. ASSUME NEW d \in mdead, WatchdogRelease(d) PROVE CreationCounted'
  BY <1>39 DEF WatchdogRelease, SlotOwner, poolVars, slotVars, waitVars, dispVars, maintVars, delVars
<1>40. ASSUME WatchdogDelete PROVE CreationCounted'
  BY <1>40 DEF WatchdogDelete, StartDelete, Untrack, poolVars, slotVars, waitVars, dispVars, maintVars, delVars
<1>41. ASSUME ListPods PROVE CreationCounted'
  BY <1>41 DEF ListPods, poolVars, slotVars, waitVars, dispVars, maintVars, delVars
<1>42. ASSUME NEW overdue \in SUBSET Pods, NEW drain \in SUBSET Pods, PoolPass(overdue, drain) PROVE CreationCounted'
  BY <1>42 DEF PoolPass, MayBeOverdue, InPhase, Tracked, poolVars, slotVars, waitVars, dispVars, maintVars, delVars
<1>43. ASSUME NEW p \in Pods, DrainPod(p) PROVE CreationCounted'
  BY <1>43 DEF DrainPod, poolVars, slotVars, waitVars, dispVars, maintVars, delVars
<1>44. ASSUME NEW p \in Pods, DeletePod(p) PROVE CreationCounted'
  BY <1>44 DEF DeletePod, StartDelete, Untrack, poolVars, slotVars, waitVars, dispVars, maintVars, delVars
<1>45. ASSUME NEW old \in SUBSET Pods, Drift(old) PROVE CreationCounted'
  <2>1. \A p \in Pods : kube'[p] = kube[p] \/ kube'[p] = "gone"
    BY <1>45 DEF Drift
  <2>2. \A p \in old : kube[p] = "gone"
    BY <1>45 DEF Drift, Forgettable
  <2>3. \A p \in Pods : phase'[p] = phase[p] \/ kube[p] = "gone"
    BY <1>45, <2>2 DEF Drift, Untrack
  <2>4. mpc' = "scan" /\ UNCHANGED <<reaps, mfailed, mdel, mdead, mcur>>
    BY <1>45 DEF Drift, poolVars, slotVars, waitVars, dispVars, maintVars, delVars
  <2>5. \A p \in Pods : kube'[p] \in {"creating", "live"} => phase'[p] = "creating"
    BY <2>1, <2>3, ZenonT(30)
  <2>6. Registered \subseteq Registered'
    BY <2>1
  <2> QED
    BY <2>4, <2>5, <2>6
<1> QED
  BY <1>0, <1>1, <1>2, <1>3, <1>4, <1>5, <1>6, <1>7, <1>8, <1>9, <1>10, <1>11, <1>12, <1>13, <1>14, <1>15, <1>16, <1>17, <1>18, <1>19, <1>20, <1>21, <1>22, <1>23, <1>24, <1>25, <1>26, <1>27, <1>28, <1>29, <1>30, <1>31, <1>32, <1>33, <1>34, <1>35, <1>36, <1>37, <1>38, <1>39, <1>40, <1>41, <1>42, <1>43, <1>44, <1>45
  DEF Next, Arrive, Handler, Router, Dispatch, Worker, Maintenance


(* The slots in use on ready pods are a number. *)
LEMMA ReadyInFlightType ==
  ASSUME SlotInv
  PROVE  ReadyInFlight \in Nat
<1> DEFINE slots == UNION {{p} \X (1..inFlight[p]) : p \in InPhase("ready")}
<1>1. slots \subseteq Pods \X (1..Cap)
  BY SizeAssumption DEF InPhase, SlotInv, TypeOK
<1>2. IsFiniteSet(1..Cap)
  BY FS_Interval, SizeAssumption
<1>3. IsFiniteSet(Pods \X (1..Cap))
  BY <1>2, FS_Product, PodsAssumption
<1> HIDE DEF slots
<1>4. Cardinality(slots) \in Nat
  BY <1>1, <1>3, FS_Subset, FS_CardinalityType
<1> QED
  BY <1>4 DEF slots, ReadyInFlight

(* The scaler never asks for more pods than the ceiling. *)
LEMMA DesiredBounded ==
  ASSUME NEW i \in Nat, NEW d \in Nat, NEW t \in Nat, NEW m \in Nat
  PROVE  /\ DesiredPods(i, d, t, m) \in Nat
         /\ DesiredPods(i, d, t, m) <= AtLeast(m, 1)
<1> DEFINE tt == AtLeast(t, 1)
           demand == AtLeast(i + d + 1, 1)
           ceil == (demand + tt - 1) \div tt
<1>1. tt \in Nat \ {0} /\ demand \in Nat
  BY DEF AtLeast
<1>2. demand + tt - 1 \in Int
  BY <1>1
<1> HIDE DEF tt, demand
<1>3. ceil \in Int
  BY <1>1, <1>2
<1>4. DesiredPods(i, d, t, m) = AtMost(AtLeast(ceil, 1), AtLeast(m, 1))
  BY DEF DesiredPods, tt, demand
<1> HIDE DEF ceil
<1> QED
  BY <1>3, <1>4 DEF AtLeast, AtMost

(* maybeScaleUp adds no more pods than are missing to the ceiling. *)
LEMMA NewPodsBounded ==
  ASSUME SlotInv, NEW new \in NewPods
  PROVE  /\ IsFiniteSet(new) /\ Cardinality(new) \in Nat
         /\ LET up == Cardinality(InPhase("ready") \cup InPhase("creating"))
            IN  Cardinality(new) <= AtLeast(AtLeast(MaxPods, 1) - up, 0)
<1> DEFINE up == Cardinality(InPhase("ready") \cup InPhase("creating"))
           fresh == {p \in Pods : kube[p] = "none"}
           desired == AtMost(DesiredPods(ReadyInFlight, Depth, Target, MaxPods), AtLeast(MaxPods, 1))
<1>1. up \in Nat
  <2>1. InPhase("ready") \cup InPhase("creating") \subseteq Pods
    BY DEF InPhase
  <2> QED
    BY <2>1, PodsAssumption, FS_Subset, FS_CardinalityType
<1>2. IsFiniteSet(fresh) /\ Cardinality(fresh) \in Nat
  BY PodsAssumption, FS_Subset, FS_CardinalityType
<1>3. IsFiniteSet(new) /\ Cardinality(new) \in Nat
  <2>1. new \subseteq fresh
    BY DEF NewPods
  <2> QED
    BY <1>2, <2>1, FS_Subset, FS_CardinalityType
<1>4. Depth \in Nat
  BY DEF Depth, SlotInv, TypeOK
<1>5. desired \in Nat /\ desired <= AtLeast(MaxPods, 1)
  <2>1. /\ DesiredPods(ReadyInFlight, Depth, Target, MaxPods) \in Nat
        /\ DesiredPods(ReadyInFlight, Depth, Target, MaxPods) <= AtLeast(MaxPods, 1)
    BY <1>4, ReadyInFlightType, DesiredBounded, SizeAssumption
  <2> QED
    BY <2>1, SizeAssumption DEF AtMost, AtLeast
<1>6. Shortfall = AtLeast(desired - up, 0)
  BY DEF Shortfall
<1>7. Cardinality(new) <= AtMost(Shortfall, Cardinality(fresh))
  <2>1. /\ new \subseteq fresh
        /\ IF "spec" \in Env THEN Cardinality(new) <= AtMost(Shortfall, Cardinality(fresh))
                            ELSE Cardinality(new) = AtMost(Shortfall, Cardinality(fresh))
    BY DEF NewPods
  <2> QED
    BY <1>3, <2>1
<1> HIDE DEF up, fresh, desired
<1>8. Cardinality(new) <= AtLeast(AtLeast(MaxPods, 1) - up, 0)
  BY <1>1, <1>2, <1>3, <1>5, <1>6, <1>7, SizeAssumption DEF AtLeast, AtMost
<1> QED
  BY <1>3, <1>8 DEF up

(* Every step keeps the pool within the ceiling. *)
LEMMA CeilingStep ==
  ASSUME SlotInv, CreationCounted, PodCeiling, TypeOK', CreationsWork, [Next]_vars
  PROVE  PodCeiling'
<1> DEFINE Up == InPhase("ready") \cup InPhase("creating")
<1> USE DEF SlotInv, TypeOK
<1>u. IsFiniteSet(Up) /\ Cardinality(Up) \in Nat /\ Cardinality(Up) <= AtLeast(MaxPods, 1)
  <2>1. Up \subseteq Pods
    BY DEF InPhase
  <2> QED
    BY <2>1, PodsAssumption, FS_Subset, FS_CardinalityType DEF PodCeiling
<1>s. ASSUME Up' \subseteq Up PROVE PodCeiling'
  <2>1. Cardinality(Up') <= Cardinality(Up) /\ Cardinality(Up') \in Nat
    BY <1>s, <1>u, FS_Subset, FS_CardinalityType
  <2> QED
    BY <1>u, <2>1, SizeAssumption DEF PodCeiling, AtLeast
<1>f. ASSUME UNCHANGED phase PROVE PodCeiling'
  BY <1>s, <1>f DEF InPhase
<1>0. CASE UNCHANGED vars
  BY <1>0, <1>f DEF vars, poolVars
<1>1. ASSUME NEW r \in Req, AcquireSlot(r) PROVE PodCeiling'
  <2>1. PICK new \in NewPods : phase' = [p \in Pods |-> IF p \in new THEN "creating" ELSE phase[p]]
    BY <1>1 DEF AcquireSlot
  <2>2. new \subseteq Pods /\ \A p \in new : p \notin Up
    BY NewPodsAreFresh DEF FreshPods, InPhase
  <2>3. Up' = Up \cup new /\ Up \cap new = {}
    BY <2>1, <2>2 DEF InPhase
  <2>4. /\ IsFiniteSet(new) /\ Cardinality(new) \in Nat
        /\ Cardinality(new) <= AtLeast(AtLeast(MaxPods, 1) - Cardinality(Up), 0)
    BY NewPodsBounded
  <2> HIDE DEF Up
  <2>5. Cardinality(Up \cup new) = Cardinality(Up) + Cardinality(new) - Cardinality(Up \cap new)
    BY <1>u, <2>4, FS_Union
  <2>6. Cardinality(Up \cap new) = 0
    BY <2>3, FS_EmptySet
  <2>7. Cardinality(Up \cup new) <= AtLeast(MaxPods, 1)
    BY <1>u, <2>4, <2>5, <2>6, SizeAssumption DEF AtLeast
  <2> QED
    BY <2>3, <2>7 DEF PodCeiling, Up
<1>2. ASSUME NEW r \in Req, PageNotFound(r) PROVE PodCeiling'
  BY <1>2, <1>f DEF PageNotFound, poolVars
<1>3. ASSUME NEW r \in Req, AdmitFast(r) PROVE PodCeiling'
  BY <1>3, <1>f DEF AdmitFast, poolVars
<1>4. ASSUME NEW r \in Req, AdmitSlow(r) PROVE PodCeiling'
  BY <1>4, <1>f DEF AdmitSlow, poolVars
<1>5. ASSUME NEW r \in Req, FastLease(r) PROVE PodCeiling'
  BY <1>5, <1>f DEF FastLease, poolVars
<1>6. ASSUME NEW r \in Req, FastLeaseFails(r) PROVE PodCeiling'
  BY <1>6, <1>f DEF FastLeaseFails, poolVars
<1>7. ASSUME NEW r \in Req, Enqueue(r) PROVE PodCeiling'
  BY <1>7, <1>f DEF Enqueue, poolVars
<1>8. ASSUME NEW r \in Req, EnqueueExpired(r) PROVE PodCeiling'
  BY <1>8, <1>f DEF EnqueueExpired, poolVars
<1>9. ASSUME NEW r \in Req, Position(r) PROVE PodCeiling'
  BY <1>9, <1>f DEF Position, poolVars
<1>10. ASSUME NEW r \in Req, Announce(r) PROVE PodCeiling'
  BY <1>10, <1>f DEF Announce, poolVars
<1>11. ASSUME NEW r \in Req, ReceiveGrant(r) PROVE PodCeiling'
  BY <1>11, <1>f DEF ReceiveGrant, poolVars
<1>12. ASSUME NEW r \in Req, WaitExpired(r) PROVE PodCeiling'
  BY <1>12, <1>f DEF WaitExpired, poolVars
<1>13. ASSUME NEW r \in Req, RouterGone(r) PROVE PodCeiling'
  BY <1>13, <1>f DEF RouterGone, poolVars
<1>14. ASSUME NEW r \in Req, ReleaseSlot(r) PROVE PodCeiling'
  BY <1>14, <1>f DEF ReleaseSlot, poolVars
<1>15. ASSUME NEW r \in Req, RouterLost(r) PROVE PodCeiling'
  BY <1>15, <1>f DEF RouterLost, poolVars
<1>16. ASSUME NEW r \in Req, QueueTimeout(r) PROVE PodCeiling'
  BY <1>16, <1>f DEF QueueTimeout, poolVars
<1>17. ASSUME NEW r \in Req, QueueCancel(r) PROVE PodCeiling'
  BY <1>17, <1>f DEF QueueCancel, poolVars
<1>18. ASSUME NEW r \in Req, FreeSlot(r) PROVE PodCeiling'
  BY <1>18, <1>f DEF FreeSlot, poolVars
<1>19. ASSUME DispatchDequeue PROVE PodCeiling'
  BY <1>19, <1>f DEF DispatchDequeue, poolVars
<1>20. ASSUME DispatchTake PROVE PodCeiling'
  BY <1>20, <1>f DEF DispatchTake, poolVars
<1>21. ASSUME DispatchReserve PROVE PodCeiling'
  BY <1>21, <1>f DEF DispatchReserve, poolVars
<1>22. ASSUME DispatchBlock PROVE PodCeiling'
  BY <1>22, <1>f DEF DispatchBlock, poolVars
<1>23. ASSUME DispatchWake PROVE PodCeiling'
  BY <1>23, <1>f DEF DispatchWake, poolVars
<1>24. ASSUME DispatchGiveUp PROVE PodCeiling'
  BY <1>24, <1>f DEF DispatchGiveUp, poolVars
<1>25. ASSUME DispatchUnmark PROVE PodCeiling'
  BY <1>25, <1>f DEF DispatchUnmark, poolVars
<1>26. ASSUME DispatchLease PROVE PodCeiling'
  BY <1>26, <1>f DEF DispatchLease, poolVars
<1>27. ASSUME DispatchLeaseFails PROVE PodCeiling'
  BY <1>27, <1>f DEF DispatchLeaseFails, poolVars
<1>28. ASSUME Deliver PROVE PodCeiling'
  BY <1>28, <1>f DEF Deliver, poolVars
<1>29. ASSUME Rollback PROVE PodCeiling'
  BY <1>29, <1>f DEF Rollback, poolVars
<1>30. ASSUME NEW p \in Pods, CreateDone(p) PROVE PodCeiling'
  BY <1>30, <1>f DEF CreateDone, poolVars
<1>31. ASSUME NEW p \in Pods, CreateFails(p) PROVE PodCeiling'
  <2>1. Up' \subseteq Up
    BY <1>31 DEF CreateFails, Untrack, InPhase
  <2> QED
    BY <1>s, <2>1
<1>32. ASSUME NEW p \in Pods, Register(p) PROVE PodCeiling'
  <2>1. Up' \subseteq Up
    BY <1>32 DEF Register, InPhase, CreationCounted, CreationsWork
  <2> QED
    BY <1>s, <2>1
<1>33. ASSUME NEW p \in Pods, Heartbeat(p) PROVE PodCeiling'
  BY <1>33, <1>f DEF Heartbeat, poolVars
<1>34. ASSUME NEW p \in Pods, Reap(p) PROVE PodCeiling'
  <2>1. Up' \subseteq Up
    BY <1>34 DEF Reap, StartDelete, Untrack, InPhase
  <2> QED
    BY <1>s, <2>1
<1>35. ASSUME NEW p \in Pods, PodCrash(p) PROVE PodCeiling'
  BY <1>35, <1>f DEF PodCrash, poolVars
<1>36. ASSUME NEW p \in Pods, PodVanish(p) PROVE PodCeiling'
  BY <1>36, <1>f DEF PodVanish, poolVars
<1>37. ASSUME NEW d \in deleting, FinishDelete(d) PROVE PodCeiling'
  BY <1>37, <1>f DEF FinishDelete, poolVars
<1>38. ASSUME NEW dead \in SUBSET Req, WatchdogScan(dead) PROVE PodCeiling'
  BY <1>38, <1>f DEF WatchdogScan, poolVars
<1>39. ASSUME NEW d \in mdead, WatchdogRelease(d) PROVE PodCeiling'
  BY <1>39, <1>f DEF WatchdogRelease, poolVars
<1>40. ASSUME WatchdogDelete PROVE PodCeiling'
  <2>1. Up' \subseteq Up
    BY <1>40 DEF WatchdogDelete, StartDelete, Untrack, InPhase
  <2> QED
    BY <1>s, <2>1
<1>41. ASSUME ListPods PROVE PodCeiling'
  BY <1>41, <1>f DEF ListPods, poolVars
<1>42. ASSUME NEW overdue \in SUBSET Pods, NEW drain \in SUBSET Pods, PoolPass(overdue, drain) PROVE PodCeiling'
  BY <1>42, <1>f DEF PoolPass, poolVars
<1>43. ASSUME NEW p \in Pods, DrainPod(p) PROVE PodCeiling'
  <2>1. Up' \subseteq Up
    BY <1>43 DEF DrainPod, InPhase
  <2> QED
    BY <1>s, <2>1
<1>44. ASSUME NEW p \in Pods, DeletePod(p) PROVE PodCeiling'
  <2>1. Up' \subseteq Up
    BY <1>44 DEF DeletePod, StartDelete, Untrack, InPhase
  <2> QED
    BY <1>s, <2>1
<1>45. ASSUME NEW old \in SUBSET Pods, Drift(old) PROVE PodCeiling'
  <2>1. Up' \subseteq Up
    BY <1>45 DEF Drift, Untrack, InPhase
  <2> QED
    BY <1>s, <2>1
<1> QED
  BY <1>0, <1>1, <1>2, <1>3, <1>4, <1>5, <1>6, <1>7, <1>8, <1>9, <1>10, <1>11, <1>12, <1>13, <1>14, <1>15, <1>16, <1>17, <1>18, <1>19, <1>20, <1>21, <1>22, <1>23, <1>24, <1>25, <1>26, <1>27, <1>28, <1>29, <1>30, <1>31, <1>32, <1>33, <1>34, <1>35, <1>36, <1>37, <1>38, <1>39, <1>40, <1>41, <1>42, <1>43, <1>44, <1>45
  DEF Next, Arrive, Handler, Router, Dispatch, Worker, Maintenance

(* While creations and deletions work in time, the tenant never has more   *)
(* ready and creating pods than its ceiling, whatever crashes, expires or  *)
(* is lost (maybeScaleUp under t.mu, against Register and the deletions).  *)
THEOREM PodCeilingHolds ==
  ASSUME CreationsWork
  PROVE  Spec => []PodCeiling
<1>1. Init => CreationCounted /\ PodCeiling
  <2> SUFFICES ASSUME Init PROVE CreationCounted /\ PodCeiling
    OBVIOUS
  <2>1. CreationCounted
    BY DEF Init, CreationCounted
  <2>2. InPhase("ready") \cup InPhase("creating") = {}
    BY DEF Init, InPhase
  <2>3. PodCeiling
    BY <2>2, FS_EmptySet, SizeAssumption DEF PodCeiling, AtLeast
  <2> QED
    BY <2>1, <2>3
<1>2. SlotInv /\ SlotInv' /\ CreationCounted /\ PodCeiling /\ [Next]_vars => CreationCounted' /\ PodCeiling'
  BY CreationStep, CeilingStep DEF SlotInv
<1>3. Spec => []SlotInv
  BY SlotInvariantWithoutLate DEF CreationsWork
<1> QED
  BY <1>1, <1>2, <1>3, PTL DEF Spec
=============================================================================
