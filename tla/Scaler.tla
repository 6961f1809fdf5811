------------------------------- MODULE Scaler -------------------------------
(***************************************************************************)
(* The default scaler (pkg/scaler/defaultscaler) and the pod choice of the *)
(* dispatcher (tenant.tryReserve), as pure operators on a snapshot of one  *)
(* tenant's pool.                                                          *)
(*                                                                         *)
(* The Go code walks maps, whose iteration order is unspecified, so an     *)
(* operator returns the SET of the answers the code may give.  Clocks are  *)
(* abstracted: any amount of time may pass between two steps, so a pod     *)
(* that is idle may or may not have been idle for longer than IdleTTL.     *)
(***************************************************************************)
EXTENDS Integers, FiniteSets

AtLeast(n, lo) == IF n < lo THEN lo ELSE n
AtMost(n, hi)  == IF n > hi THEN hi ELSE n

(* DesiredPods: clamp(ceil((inFlight + depth + 1) / target), 1, maxPods),  *)
(* with the guards on a misconfigured target and ceiling.                  *)
DesiredPods(inFlight, depth, target, maxPods) ==
  LET t       == AtLeast(target, 1)
      demand  == AtLeast(inFlight + depth + 1, 1)
      ceil    == (demand + t - 1) \div t
  IN  AtMost(AtLeast(ceil, 1), AtLeast(maxPods, 1))

(* SelectScaleDown: the sets of pods that may be returned, where idle is   *)
(* the set of ready pods with no lease.  Every idle pod has an idleSince:  *)
(* Register and releaseSlot set it, tryReserve clears it.  With demand the *)
(* candidates are cut to all but one of the ready pods.                    *)
SelectScaleDown(ready, idle, inFlight, depth) ==
  {c \in SUBSET idle : inFlight + depth > 0 => Cardinality(c) <= AtLeast(Cardinality(ready) - 1, 0)}

(* tryReserve's choice among the candidate pods (ready, below the cap):    *)
(* the ones that have the page loaded first, then the least loaded.        *)
BestPods(free, hasPage, inFlight) ==
  LET preferred == IF free \cap hasPage # {} THEN free \cap hasPage ELSE free
  IN  {p \in preferred : \A q \in preferred : inFlight[p] <= inFlight[q]}
=============================================================================
