----------------------------- MODULE ShimProofs -----------------------------
(***************************************************************************)
(* Proofs about Shim: loads of one page are serial, the pages in s.active  *)
(* are the ones the current instance serves, no runtime instance is lost,  *)
(* and a drain waits for exactly the requests that are being forwarded.    *)
(* Proofs about UsageLog, the usage record of the requests the shim        *)
(* serves: every event is in exactly one place and in order, every drop is *)
(* reported once, no trace that came in time is missed, no log is cut      *)
(* silently.                                                               *)
(***************************************************************************)
EXTENDS Shim, UsageLog, SeqLemmas, FiniteSetTheorems, TLAPS

Actors   == Requests \cup {Sweeper}
Places   == {"new", "refused", "check", "flight", "join", "fetch", "swap", "launch", "switch",
             "publish", "settle", "leave", "pick", "count", "forward", "served", "error", "sleep"}
InSwap   == {"launch", "switch", "publish"}
InLoad   == {"fetch", "swap", "launch", "switch", "publish", "settle", "leave"}
OnItsWay == {"count", "forward"}

(* The types of all but the LRU list, which no other part of the invariant *)
(* depends on.                                                             *)
ShimTypes ==
  /\ active \in [Pages -> Deployments \cup {None}]
  /\ fresh \subseteq Deployments
  /\ current \in Instances \cup {None} /\ spare \in Instances \cup {None}
  /\ istate \in [Instances -> {"ready", "draining", "closed"}]
  /\ iset \in [Instances -> [Pages -> Deployments \cup {None}]]
  /\ inFlight \in [Instances -> Nat]
  /\ draining \in BOOLEAN
  /\ loading \in [Pages -> Requests \cup {None}]
  /\ done \in [Requests -> BOOLEAN] /\ failed \in [Requests -> BOOLEAN]
  /\ at \in [Requests -> Requests \cup {None}]
  /\ pc \in [Actors -> Places]
  /\ using \in [Requests -> Instances \cup {None}]
  /\ swapMu \in Actors \cup {None} /\ desired \in [Pages -> Deployments \cup {None}]

(* swapMu is held by whoever is inside swap, the spare instance is his,    *)
(* and the new instance runs the load set he is about to publish.          *)
SwapInv ==
  /\ \A x \in Actors : pc[x] \in InSwap <=> swapMu = x
  /\ spare # None => \E x \in Actors : pc[x] \in {"switch", "publish"}
  /\ spare # None => spare # current
  /\ \A x \in Actors : pc[x] = "switch" => spare # None /\ iset[spare] = desired
  /\ \A x \in Actors : pc[x] = "publish" => current # None /\ iset[current] = desired

(* The page of a load belongs to it until it leaves.                       *)
LoadInv == \A r \in Requests : pc[r] \in InLoad => loading[Page(r)] = r

(* inFlight counts the requests that are being forwarded, no more and no   *)
(* less.                                                                   *)
Forwarding(i) == {r \in Requests : pc[r] = "forward" /\ using[r] = i}
InFlightExact == \A i \in Instances : inFlight[i] = Cardinality(Forwarding(i))
UsingInv == \A r \in Requests : pc[r] \in OnItsWay => using[r] \in Instances

ShimInv ==
  /\ ShimTypes /\ SwapInv /\ InstancesOwned /\ CurrentServesActive
  /\ LoadInv /\ InFlightExact /\ UsingInv

-----------------------------------------------------------------------------
(* A request that moves outside swap disturbs neither the swap in progress *)
(* nor the instances.                                                      *)
LEMMA SwapAside ==
  ASSUME ShimInv, NEW r \in Requests, NEW w \in Places \ InSwap,
         pc[r] \notin InSwap, pc' = [pc EXCEPT ![r] = w],
         UNCHANGED <<active, current, istate, iset, swapVars>>
  PROVE  SwapInv' /\ InstancesOwned' /\ CurrentServesActive'
<1>1. \A x \in Actors : x # r => pc'[x] = pc[x]
  BY DEF ShimInv, ShimTypes
<1>2. pc'[r] = w /\ r \in Actors
  BY DEF ShimInv, ShimTypes, Actors
<1>3. SwapInv'
  BY <1>1, <1>2 DEF ShimInv, SwapInv, InSwap, swapVars
<1>4. InstancesOwned'
  BY DEF ShimInv, InstancesOwned, swapVars
<1>5. CurrentServesActive'
  BY <1>1, <1>2 DEF ShimInv, CurrentServesActive, Actors, InSwap
<1> QED BY <1>3, <1>4, <1>5

(* Who neither starts nor ends a forward disturbs no count.                *)
LEMMA CountAside ==
  ASSUME ShimInv, NEW x \in Actors, NEW w \in Places \ OnItsWay,
         pc[x] # "forward", pc' = [pc EXCEPT ![x] = w],
         UNCHANGED <<inFlight, using>>
  PROVE  InFlightExact' /\ UsingInv'
<1>1. \A r \in Requests : pc'[r] = IF r = x THEN w ELSE pc[r]
  BY DEF ShimInv, ShimTypes, Actors
<1>2. \A i \in Instances : Forwarding(i)' = Forwarding(i)
  BY <1>1 DEF Forwarding, OnItsWay
<1>3. InFlightExact'
  BY <1>2 DEF ShimInv, InFlightExact
<1>4. UsingInv'
  BY <1>1 DEF ShimInv, UsingInv, OnItsWay
<1> QED BY <1>3, <1>4

(* Who does not start a load leaves the loads alone.                       *)
LEMMA LoadAside ==
  ASSUME ShimInv, NEW x \in Actors, NEW w \in Places,
         w \in InLoad /\ x # Sweeper => pc[x] \in InLoad, pc' = [pc EXCEPT ![x] = w],
         UNCHANGED loading
  PROVE  LoadInv'
BY ShimAssumption DEF ShimInv, ShimTypes, LoadInv, Actors, Page

(* A request joins, waits, fetches, settles or asks for an instance.       *)
LEMMA RequestStepKeeps ==
  ASSUME ShimInv, NEW r \in Requests,
         \/ Arrive(r) \/ CheckActive(r) \/ Joined(r)
         \/ Fetch(r) \/ FetchFails(r) \/ Settle(r)
  PROVE  ShimInv'
<1> r \in Actors
  BY DEF Actors
<1>1. PICK w \in Places : pc' = [pc EXCEPT ![r] = w]
  BY DEF Arrive, CheckActive, Joined, Fetch, FetchFails, Settle, Goto, Places
<1>2. pc'[r] = w
  BY <1>1 DEF ShimInv, ShimTypes
<1>3. /\ w \notin InSwap /\ pc[r] \notin InSwap
      /\ w \notin OnItsWay /\ pc[r] # "forward"
      /\ w \in InLoad => pc[r] \in InLoad
  <2>1. pc[r] \in Places /\ pc' \in [Actors -> Places]
    BY <1>1 DEF ShimInv, ShimTypes
  <2> QED
    BY <1>2 DEF ShimInv, ShimTypes, Arrive, CheckActive, Joined, Fetch, FetchFails, Settle, Goto,
         InSwap, OnItsWay, InLoad
<1>4. UNCHANGED <<active, current, istate, iset, swapVars, inFlight, using, loading>>
  BY DEF Arrive, CheckActive, Joined, Fetch, FetchFails, Settle, instVars, loadVars
<1>5. ShimTypes'
  <2>1. pc' \in [Actors -> Places]
    BY <1>1 DEF ShimInv, ShimTypes
  <2>2. fresh' \subseteq Deployments
    BY ShimAssumption DEF ShimInv, ShimTypes, Arrive, CheckActive, Joined, Fetch, FetchFails, Settle, Touch
  <2>3. draining' \in BOOLEAN /\ done' \in [Requests -> BOOLEAN] /\ failed' \in [Requests -> BOOLEAN]
        /\ at' \in [Requests -> Requests \cup {None}]
    BY DEF ShimInv, ShimTypes, Arrive, CheckActive, Joined, Fetch, FetchFails, Settle, loadVars
  <2> QED BY <1>4, <2>1, <2>2, <2>3 DEF ShimInv, ShimTypes, swapVars
<1>6. SwapInv' /\ InstancesOwned' /\ CurrentServesActive'
  BY <1>1, <1>3, <1>4, SwapAside
<1>7. InFlightExact' /\ UsingInv'
  BY <1>1, <1>3, <1>4, CountAside
<1>8. LoadInv'
  BY <1>1, <1>3, <1>4, LoadAside
<1> QED BY <1>5, <1>6, <1>7, <1>8 DEF ShimInv


(* A request takes the lead of its page, or joins who has it.              *)
LEMMA JoinOrLeadKeeps ==
  ASSUME ShimInv, NEW r \in Requests, JoinOrLead(r)
  PROVE  ShimInv'
<1> r \in Actors
  BY DEF Actors
<1>1. PICK w \in {"join", "fetch"} : pc' = [pc EXCEPT ![r] = w]
  BY DEF JoinOrLead, Goto
<1>2. w \in Places /\ w \notin InSwap /\ w \notin OnItsWay /\ pc[r] = "flight"
  BY DEF JoinOrLead, Places, InSwap, OnItsWay
<1>3. UNCHANGED <<active, fresh, current, istate, iset, swapVars, inFlight, using, draining, done, failed>>
  BY DEF JoinOrLead, instVars
<1>4. Page(r) \in Pages
  BY ShimAssumption DEF Page
<1>5. ShimTypes'
  <2>1. pc' \in [Actors -> Places]
    BY <1>1, <1>2 DEF ShimInv, ShimTypes
  <2>2. loading' \in [Pages -> Requests \cup {None}] /\ at' \in [Requests -> Requests \cup {None}]
    BY <1>4 DEF ShimInv, ShimTypes, JoinOrLead
  <2> QED BY <1>3, <2>1, <2>2 DEF ShimInv, ShimTypes, swapVars
<1>6. SwapInv' /\ InstancesOwned' /\ CurrentServesActive'
  BY <1>1, <1>2, <1>3, SwapAside DEF InSwap
<1>7. InFlightExact' /\ UsingInv'
  BY <1>1, <1>2, <1>3, CountAside
<1>8. LoadInv'
  <2>1. CASE w = "join"
    <3>1. UNCHANGED loading
      BY <1>1, <2>1 DEF JoinOrLead, Goto, ShimInv, ShimTypes
    <3> QED BY <1>1, <1>2, <2>1, <3>1, LoadAside DEF InLoad
  <2>2. CASE w = "fetch"
    <3>1. loading[Page(r)] = None /\ loading' = [loading EXCEPT ![Page(r)] = r]
      BY <1>1, <2>2 DEF JoinOrLead, Goto, ShimInv, ShimTypes
    <3>2. ASSUME NEW q \in Requests, pc'[q] \in InLoad, q # r
          PROVE  loading'[Page(q)] = q
      <4>1. pc[q] \in InLoad
        BY <1>1, <3>2 DEF ShimInv, ShimTypes, Actors
      <4>2. loading[Page(q)] = q
        BY <4>1 DEF ShimInv, LoadInv
      <4>3. Page(q) # Page(r)
        BY <3>1, <4>2, ShimAssumption
      <4> QED BY <3>1, <4>2, <4>3, ShimAssumption DEF ShimInv, ShimTypes, Page
    <3>3. loading'[Page(r)] = r
      BY <1>4, <3>1 DEF ShimInv, ShimTypes
    <3> QED BY <3>2, <3>3 DEF LoadInv, Page
  <2> QED BY <2>1, <2>2
<1> QED BY <1>5, <1>6, <1>7, <1>8 DEF ShimInv

(* The load ends and gives the page back.                                  *)
LEMMA LeaveKeeps ==
  ASSUME ShimInv, NEW r \in Requests, Leave(r)
  PROVE  ShimInv'
<1> r \in Actors
  BY DEF Actors
<1>1. PICK w \in {"error", "pick"} : pc' = [pc EXCEPT ![r] = w]
  BY DEF Leave, Goto
<1>2. w \in Places /\ w \notin InSwap /\ w \notin OnItsWay /\ w \notin InLoad /\ pc[r] = "leave"
  BY DEF Leave, Places, InSwap, OnItsWay, InLoad
<1>3. UNCHANGED <<active, fresh, current, istate, iset, swapVars, inFlight, using, draining, done, failed, at>>
  BY DEF Leave, instVars
<1>4. Page(r) \in Pages /\ loading' = [loading EXCEPT ![Page(r)] = None]
  BY ShimAssumption DEF Page, Leave
<1>5. ShimTypes'
  <2>1. pc' \in [Actors -> Places]
    BY <1>1, <1>2 DEF ShimInv, ShimTypes
  <2>2. loading' \in [Pages -> Requests \cup {None}]
    BY <1>4 DEF ShimInv, ShimTypes
  <2> QED BY <1>3, <2>1, <2>2 DEF ShimInv, ShimTypes, swapVars
<1>6. SwapInv' /\ InstancesOwned' /\ CurrentServesActive'
  BY <1>1, <1>2, <1>3, SwapAside DEF InSwap
<1>7. InFlightExact' /\ UsingInv'
  BY <1>1, <1>2, <1>3, CountAside
<1>8. ASSUME NEW q \in Requests, pc'[q] \in InLoad
      PROVE  loading'[Page(q)] = q
  <2>1. q # r /\ pc[q] \in InLoad
    BY <1>1, <1>2, <1>8 DEF ShimInv, ShimTypes, Actors
  <2>2. loading[Page(q)] = q /\ loading[Page(r)] = r
    BY <1>2, <2>1 DEF ShimInv, LoadInv, InLoad
  <2> QED BY <1>4, <2>1, <2>2, ShimAssumption DEF ShimInv, ShimTypes, Page
<1> QED BY <1>5, <1>6, <1>7, <1>8 DEF ShimInv, LoadInv, Page


(* The request is given the current instance.                              *)
LEMMA PickKeeps ==
  ASSUME ShimInv, NEW r \in Requests, Pick(r)
  PROVE  ShimInv'
<1> r \in Actors
  BY DEF Actors
<1>1. PICK w \in {"error", "count"} :
        pc' = [pc EXCEPT ![r] = w] /\ (w = "count" => current # None)
  BY DEF Pick, Goto
<1>2. w \in Places /\ w \notin InSwap /\ w \notin InLoad /\ w # "forward" /\ pc[r] = "pick"
  BY DEF Pick, Places, InSwap, InLoad
<1>3. /\ UNCHANGED <<active, fresh, current, istate, iset, swapVars, inFlight, draining, loadVars>>
      /\ using' = [using EXCEPT ![r] = current]
  BY DEF Pick, instVars
<1>4. /\ \A q \in Requests : pc'[q] = IF q = r THEN w ELSE pc[q]
      /\ \A q \in Requests : using'[q] = IF q = r THEN current ELSE using[q]
      /\ current \in Instances \cup {None}
  BY <1>1, <1>3 DEF ShimInv, ShimTypes, Actors
<1>5. ShimTypes'
  <2>1. pc' \in [Actors -> Places]
    BY <1>1, <1>2 DEF ShimInv, ShimTypes
  <2>2. using' \in [Requests -> Instances \cup {None}]
    BY <1>3 DEF ShimInv, ShimTypes
  <2> QED BY <1>3, <2>1, <2>2 DEF ShimInv, ShimTypes, swapVars, loadVars
<1>6. SwapInv' /\ InstancesOwned' /\ CurrentServesActive'
  BY <1>1, <1>2, <1>3, SwapAside DEF InSwap
<1>7. InFlightExact'
  <2>1. \A i \in Instances : Forwarding(i)' = Forwarding(i)
    BY <1>2, <1>4 DEF Forwarding
  <2> QED BY <1>3, <2>1 DEF ShimInv, InFlightExact
<1>8. UsingInv'
  BY <1>1, <1>2, <1>4 DEF ShimInv, UsingInv, OnItsWay
<1>9. LoadInv'
  BY <1>1, <1>2, <1>3, LoadAside DEF loadVars
<1> QED BY <1>5, <1>6, <1>7, <1>8, <1>9 DEF ShimInv

(* One more request under way on its instance.                             *)
LEMMA CountKeeps ==
  ASSUME ShimInv, NEW r \in Requests, Count(r)
  PROVE  ShimInv'
<1> r \in Actors
  BY DEF Actors
<1>1. pc' = [pc EXCEPT ![r] = "forward"] /\ pc[r] = "count"
  BY DEF Count, Goto
<1>2. /\ UNCHANGED <<active, fresh, current, istate, iset, swapVars, using, draining, loadVars>>
      /\ inFlight' = [inFlight EXCEPT ![using[r]] = @ + 1]
  BY DEF Count
<1>3. using[r] \in Instances
  BY <1>1 DEF ShimInv, UsingInv, OnItsWay
<1>4. \A q \in Requests : pc'[q] = IF q = r THEN "forward" ELSE pc[q]
  BY <1>1 DEF ShimInv, ShimTypes, Actors
<1>5. ShimTypes'
  <2>1. pc' \in [Actors -> Places]
    BY <1>1 DEF ShimInv, ShimTypes, Places
  <2>2. inFlight' \in [Instances -> Nat]
    BY <1>2, <1>3 DEF ShimInv, ShimTypes
  <2> QED BY <1>2, <2>1, <2>2 DEF ShimInv, ShimTypes, swapVars, loadVars
<1>6. SwapInv' /\ InstancesOwned' /\ CurrentServesActive'
  BY <1>1, <1>2, SwapAside DEF InSwap, Places
<1>7. ASSUME NEW i \in Instances PROVE inFlight'[i] = Cardinality(Forwarding(i)')
  <2>1. IsFiniteSet(Forwarding(i))
    BY RequestsFinite, FS_Subset DEF Forwarding
  <2>2. CASE i = using[r]
    <3>1. Forwarding(i)' = Forwarding(i) \cup {r} /\ r \notin Forwarding(i)
      BY <1>1, <1>2, <1>4, <2>2 DEF Forwarding
    <3>2. Cardinality(Forwarding(i)') = Cardinality(Forwarding(i)) + 1
      BY <2>1, <3>1, FS_AddElement
    <3> QED BY <1>2, <1>3, <2>2, <3>2 DEF ShimInv, ShimTypes, InFlightExact
  <2>3. CASE i # using[r]
    <3>1. Forwarding(i)' = Forwarding(i)
      BY <1>1, <1>2, <1>4, <2>3 DEF Forwarding
    <3> QED BY <1>2, <1>3, <2>3, <3>1 DEF ShimInv, ShimTypes, InFlightExact
  <2> QED BY <2>2, <2>3
<1>8. UsingInv'
  BY <1>1, <1>2, <1>4 DEF ShimInv, UsingInv, OnItsWay
<1>9. LoadInv'
  BY <1>1, <1>2, LoadAside DEF loadVars, InLoad, Places
<1> QED BY <1>5, <1>6, <1>7, <1>8, <1>9 DEF ShimInv, InFlightExact

(* The answer is there: the request is taken off the instance it was on.   *)
LEMMA ForwardKeeps ==
  ASSUME ShimInv, NEW r \in Requests, Forward(r)
  PROVE  ShimInv'
<1> r \in Actors
  BY DEF Actors
<1>1. PICK w \in {"error", "served"} : pc' = [pc EXCEPT ![r] = w]
  BY DEF Forward, Goto
<1>2. w \in Places /\ w \notin InSwap /\ w \notin InLoad /\ w \notin OnItsWay /\ pc[r] = "forward"
  BY DEF Forward, Places, InSwap, InLoad, OnItsWay
<1>3. /\ UNCHANGED <<active, current, istate, iset, swapVars, draining, loadVars>>
      /\ inFlight' = [inFlight EXCEPT ![using[r]] = @ - 1]
      /\ using' = [using EXCEPT ![r] = None]
  BY DEF Forward
<1>3a. fresh' \subseteq Deployments
  <2>1. Wants[r] \in Deployments /\ fresh \subseteq Deployments
    BY ShimAssumption DEF ShimInv, ShimTypes
  <2>2. fresh' \in {fresh, fresh \cup {Wants[r]}}
    BY DEF Forward, Touch
  <2> QED BY <2>1, <2>2
<1>4. using[r] \in Instances
  BY <1>2 DEF ShimInv, UsingInv, OnItsWay
<1>5. /\ \A q \in Requests : pc'[q] = IF q = r THEN w ELSE pc[q]
      /\ \A q \in Requests : using'[q] = IF q = r THEN None ELSE using[q]
  BY <1>1, <1>3 DEF ShimInv, ShimTypes, Actors
<1>6. ASSUME NEW i \in Instances PROVE inFlight'[i] = Cardinality(Forwarding(i)')
  <2>1. IsFiniteSet(Forwarding(i))
    BY RequestsFinite, FS_Subset DEF Forwarding
  <2>2. CASE i = using[r]
    <3>1. Forwarding(i)' = Forwarding(i) \ {r} /\ r \in Forwarding(i)
      BY <1>2, <1>5, <2>2 DEF Forwarding
    <3>2. Cardinality(Forwarding(i)') = Cardinality(Forwarding(i)) - 1
      BY <2>1, <3>1, FS_RemoveElement
    <3> QED BY <1>3, <1>4, <2>2, <3>2 DEF ShimInv, ShimTypes, InFlightExact
  <2>3. CASE i # using[r]
    <3>1. Forwarding(i)' = Forwarding(i)
      BY <1>2, <1>5, <2>3 DEF Forwarding
    <3> QED BY <1>3, <1>4, <2>3, <3>1 DEF ShimInv, ShimTypes, InFlightExact
  <2> QED BY <2>2, <2>3
<1>7. ShimTypes'
  <2>1. pc' \in [Actors -> Places]
    BY <1>1, <1>2 DEF ShimInv, ShimTypes
  <2>2. using' \in [Requests -> Instances \cup {None}]
    BY <1>3 DEF ShimInv, ShimTypes
  <2>3. ASSUME NEW i \in Instances PROVE inFlight'[i] \in Nat
    <3>1. IsFiniteSet(Forwarding(i)')
      BY RequestsFinite, FS_Subset DEF Forwarding
    <3>2. Cardinality(Forwarding(i)') \in Nat
      BY <3>1, FS_CardinalityType
    <3> QED BY <1>6, <3>2
  <2>4. inFlight' \in [Instances -> Nat]
    BY <1>3, <2>3 DEF ShimInv, ShimTypes
  <2> QED BY <1>3, <1>3a, <2>1, <2>2, <2>4 DEF ShimInv, ShimTypes, swapVars, loadVars
<1>8. SwapInv' /\ InstancesOwned' /\ CurrentServesActive'
  BY <1>1, <1>2, <1>3, SwapAside DEF InSwap
<1>9. UsingInv'
  BY <1>2, <1>5 DEF ShimInv, UsingInv, OnItsWay
<1>10. LoadInv'
  BY <1>1, <1>2, <1>3, LoadAside DEF loadVars
<1> QED BY <1>6, <1>7, <1>8, <1>9, <1>10 DEF ShimInv, InFlightExact


(* A swap that ends without a new instance.                                *)
LEMMA SwapFailsKeeps ==
  ASSUME ShimInv, NEW x \in Actors, pc[x] \in {"swap", "launch"},
         pc[x] = "swap" => swapMu = None, SwapFails(x),
         UNCHANGED <<active, lru, fresh, current, instVars, draining, loading, done, at, using>>
  PROVE  ShimInv'
<1>1. PICK w \in {"sleep", "settle"} : pc' = [pc EXCEPT ![x] = w] /\ (w = "sleep" <=> x = Sweeper)
  BY DEF SwapFails, Goto
<1>2. w \in Places /\ w \notin InSwap /\ w \notin OnItsWay
  BY DEF Places, InSwap, OnItsWay
<1>3. /\ swapMu' = None /\ spare' = None /\ desired' = NoPages
      /\ UNCHANGED <<active, fresh, current, istate, iset, inFlight, draining, loading, done, at, using>>
  BY DEF SwapFails, instVars
<1>4. \A y \in Actors : pc'[y] = IF y = x THEN w ELSE pc[y]
  BY <1>1 DEF ShimInv, ShimTypes
<1>5. \A y \in Actors : y # x => pc[y] \notin InSwap
  BY ShimAssumption DEF ShimInv, SwapInv, InSwap, Actors
<1>6. spare = None
  <2>1. \A y \in Actors : pc[y] \notin {"switch", "publish"}
    BY <1>5 DEF InSwap
  <2> QED BY <2>1 DEF ShimInv, SwapInv
<1>7. ShimTypes'
  <2>1. pc' \in [Actors -> Places]
    BY <1>1, <1>2 DEF ShimInv, ShimTypes
  <2>2. failed' \in [Requests -> BOOLEAN]
    BY DEF ShimInv, ShimTypes, SwapFails
  <2>3. NoPages \in [Pages -> Deployments \cup {None}]
    BY DEF NoPages
  <2> QED BY <1>3, <2>1, <2>2, <2>3 DEF ShimInv, ShimTypes
<1>8. SwapInv'
  BY <1>2, <1>3, <1>4, <1>5, ShimAssumption DEF SwapInv, InSwap, Actors
<1>9. InstancesOwned'
  BY <1>3, <1>6 DEF ShimInv, InstancesOwned
<1>10. CurrentServesActive'
  <2>1. \A y \in Actors : pc[y] # "publish"
    BY <1>5 DEF InSwap
  <2> QED BY <1>3, <2>1 DEF ShimInv, CurrentServesActive, Actors
<1>11. InFlightExact' /\ UsingInv'
  BY <1>1, <1>2, <1>3, CountAside
<1>12. LoadInv'
  BY <1>1, <1>2, <1>3, LoadAside DEF InLoad
<1> QED BY <1>7, <1>8, <1>9, <1>10, <1>11, <1>12 DEF ShimInv

(* swapMu is taken and the load set copied.                                *)
LEMMA SwapStartKeeps ==
  ASSUME ShimInv, NEW x \in Actors, SwapStart(x)
  PROVE  ShimInv'
<1> DEFINE set == IF x = Sweeper THEN active ELSE WithPage(x)
<1>1. CASE ~Buildable(set)
  <2>1. SwapFails(x)
    BY <1>1 DEF SwapStart
  <2> QED BY <2>1, SwapFailsKeeps DEF SwapStart
<1>2. CASE Buildable(set)
  <2>1. /\ pc' = [pc EXCEPT ![x] = "launch"] /\ swapMu' = x /\ desired' = set
        /\ pc[x] = "swap" /\ swapMu = None
        /\ UNCHANGED <<active, fresh, current, istate, iset, inFlight, draining, loading, done,
                       failed, at, using, spare>>
    BY <1>2 DEF SwapStart, Goto, instVars
  <2>2. \A y \in Actors : pc'[y] = IF y = x THEN "launch" ELSE pc[y]
    BY <2>1 DEF ShimInv, ShimTypes
  <2>3. \A y \in Actors : pc[y] \notin InSwap
    BY <2>1, ShimAssumption DEF ShimInv, SwapInv, Actors
  <2>4. spare = None
    BY <2>3 DEF ShimInv, SwapInv, InSwap
  <2>5. ShimTypes'
    <3>1. pc' \in [Actors -> Places]
      BY <2>1 DEF ShimInv, ShimTypes, Places
    <3>2. set \in [Pages -> Deployments \cup {None}]
      <4>1. CASE x = Sweeper
        BY <4>1 DEF ShimInv, ShimTypes
      <4>2. CASE x # Sweeper
        <5>1. Wants[x] \in Deployments
          BY <4>2, ShimAssumption DEF Actors
        <5> QED BY <4>2, <5>1 DEF ShimInv, ShimTypes, WithPage
      <4> QED BY <4>1, <4>2
    <3> QED BY <2>1, <3>1, <3>2 DEF ShimInv, ShimTypes
  <2>6. SwapInv'
    BY <2>1, <2>2, <2>3, <2>4 DEF SwapInv, InSwap
  <2>7. InstancesOwned'
    BY <2>1, <2>4 DEF ShimInv, InstancesOwned
  <2>8. CurrentServesActive'
    <3>1. \A y \in Actors : pc[y] # "publish"
      BY <2>3 DEF InSwap
    <3> QED BY <2>1, <3>1 DEF ShimInv, CurrentServesActive, Actors
  <2>9. InFlightExact' /\ UsingInv'
    BY <2>1, CountAside DEF Places, OnItsWay
  <2>10. LoadInv'
    BY <2>1, LoadAside DEF InLoad, Places
  <2> QED BY <2>5, <2>6, <2>7, <2>8, <2>9, <2>10 DEF ShimInv
<1> QED BY <1>1, <1>2

(* The new instance runs the load set of the swap.                         *)
LEMMA LaunchKeeps ==
  ASSUME ShimInv, NEW x \in Actors, Launch(x)
  PROVE  ShimInv'
<1>1. PICK i \in Instances :
        /\ istate[i] = "closed"
        /\ istate' = [istate EXCEPT ![i] = "ready"]
        /\ iset' = [iset EXCEPT ![i] = desired]
        /\ spare' = i
  BY DEF Launch
<1>2. /\ pc' = [pc EXCEPT ![x] = "switch"] /\ pc[x] = "launch"
      /\ UNCHANGED <<active, fresh, current, inFlight, draining, loadVars, using, swapMu, desired>>
  BY DEF Launch, Goto
<1>3. \A y \in Actors : pc'[y] = IF y = x THEN "switch" ELSE pc[y]
  BY <1>2 DEF ShimInv, ShimTypes
<1>4. swapMu = x /\ \A y \in Actors : y # x => pc[y] \notin InSwap
  BY <1>2 DEF ShimInv, SwapInv, InSwap
<1>5. spare = None
  BY <1>2, <1>4 DEF ShimInv, SwapInv, InSwap
<1>6. i # current /\ i # None
  BY <1>1, ShimAssumption DEF ShimInv, InstancesOwned
<1>7. iset'[i] = desired /\ \A j \in Instances : j # i => iset'[j] = iset[j] /\ istate'[j] = istate[j]
  BY <1>1 DEF ShimInv, ShimTypes
<1>8. ShimTypes'
  <2>1. pc' \in [Actors -> Places]
    BY <1>2 DEF ShimInv, ShimTypes, Places
  <2>2. istate' \in [Instances -> {"ready", "draining", "closed"}]
        /\ iset' \in [Instances -> [Pages -> Deployments \cup {None}]]
    BY <1>1 DEF ShimInv, ShimTypes
  <2> QED BY <1>1, <1>2, <2>1, <2>2 DEF ShimInv, ShimTypes, loadVars
<1>9. SwapInv'
  BY <1>1, <1>2, <1>3, <1>4, <1>6, <1>7 DEF SwapInv, InSwap
<1>10. InstancesOwned'
  <2>1. istate'[i] = "ready"
    BY <1>1 DEF ShimInv, ShimTypes
  <2>2. {j \in Instances : istate'[j] = "ready"} = {j \in Instances : istate[j] = "ready"} \cup {i}
    BY <1>7, <2>1
  <2>3. swapMu' # None
    BY <1>2, <1>4, ShimAssumption DEF Actors
  <2> QED BY <1>1, <1>2, <1>5, <1>6, <2>2, <2>3 DEF ShimInv, InstancesOwned
<1>11. CurrentServesActive'
  <2>1. \A y \in Actors : pc[y] # "publish"
    BY <1>2, <1>4 DEF InSwap
  <2> QED BY <1>2, <1>6, <1>7, <2>1 DEF ShimInv, ShimTypes, CurrentServesActive, Actors
<1>12. InFlightExact' /\ UsingInv'
  BY <1>2, CountAside DEF Places, OnItsWay
<1>13. LoadInv'
  BY <1>2, LoadAside DEF InLoad, Places, loadVars
<1> QED BY <1>8, <1>9, <1>10, <1>11, <1>12, <1>13 DEF ShimInv


(* New traffic goes to the new instance, the old one becomes the spare.    *)
LEMMA SwitchKeeps ==
  ASSUME ShimInv, NEW x \in Actors, Switch(x)
  PROVE  ShimInv'
<1>1. /\ pc' = [pc EXCEPT ![x] = "publish"] /\ pc[x] = "switch"
      /\ current' = spare /\ spare' = current
      /\ UNCHANGED <<active, fresh, istate, iset, inFlight, draining, loadVars, using, swapMu, desired>>
  BY DEF Switch, Goto, instVars
<1>2. \A y \in Actors : pc'[y] = IF y = x THEN "publish" ELSE pc[y]
  BY <1>1 DEF ShimInv, ShimTypes
<1>3. swapMu = x /\ \A y \in Actors : y # x => pc[y] \notin InSwap
  BY <1>1 DEF ShimInv, SwapInv, InSwap
<1>4. spare # None /\ spare # current /\ iset[spare] = desired
  BY <1>1 DEF ShimInv, SwapInv
<1>5. ShimTypes'
  <2>1. pc' \in [Actors -> Places]
    BY <1>1 DEF ShimInv, ShimTypes, Places
  <2> QED BY <1>1, <2>1 DEF ShimInv, ShimTypes, loadVars
<1>6. SwapInv'
  BY <1>1, <1>2, <1>3, <1>4 DEF SwapInv, InSwap
<1>7. InstancesOwned'
  <2>1. swapMu' # None
    BY <1>1, <1>3, ShimAssumption DEF Actors
  <2> QED BY <1>1, <2>1 DEF ShimInv, InstancesOwned
<1>8. CurrentServesActive'
  BY <1>2 DEF CurrentServesActive, Actors
<1>9. InFlightExact' /\ UsingInv'
  BY <1>1, CountAside DEF Places, OnItsWay
<1>10. LoadInv'
  BY <1>1, LoadAside DEF InLoad, Places, loadVars
<1> QED BY <1>5, <1>6, <1>7, <1>8, <1>9, <1>10 DEF ShimInv

(* s.active becomes what the current instance runs, the old one is drained.*)
LEMMA PublishKeeps ==
  ASSUME ShimInv, NEW x \in Actors, Publish(x)
  PROVE  ShimInv'
<1>1. PICK w \in {"sleep", "settle"} : pc' = [pc EXCEPT ![x] = w] /\ (w = "sleep" <=> x = Sweeper)
  BY DEF Publish, Goto
<1>2. w \in Places /\ w \notin InSwap /\ w \notin OnItsWay /\ pc[x] = "publish"
  BY DEF Publish, Places, InSwap, OnItsWay
<1>3. /\ active' = desired
      /\ istate' = [i \in Instances |-> IF i = spare THEN "draining" ELSE istate[i]]
      /\ swapMu' = None /\ desired' = NoPages /\ spare' = None
      /\ UNCHANGED <<fresh, current, iset, inFlight, draining, loadVars, using>>
  BY DEF Publish
<1>4. \A y \in Actors : pc'[y] = IF y = x THEN w ELSE pc[y]
  BY <1>1 DEF ShimInv, ShimTypes
<1>5. \A y \in Actors : y # x => pc[y] \notin InSwap
  BY <1>2 DEF ShimInv, SwapInv, InSwap
<1>6. current # None /\ iset[current] = desired /\ spare # current
  BY <1>2 DEF ShimInv, SwapInv
<1>7. ShimTypes'
  <2>1. pc' \in [Actors -> Places]
    BY <1>1, <1>2 DEF ShimInv, ShimTypes
  <2>2. NoPages \in [Pages -> Deployments \cup {None}]
    BY DEF NoPages
  <2>3. istate' \in [Instances -> {"ready", "draining", "closed"}]
    BY <1>3 DEF ShimInv, ShimTypes
  <2> QED BY <1>3, <2>1, <2>2, <2>3 DEF ShimInv, ShimTypes, loadVars
<1>8. SwapInv'
  BY <1>2, <1>3, <1>4, <1>5, ShimAssumption DEF SwapInv, InSwap, Actors
<1>9. InstancesOwned'
  <2>1. {i \in Instances : istate'[i] = "ready"} = {i \in Instances : istate[i] = "ready"} \ {spare}
    BY <1>3
  <2> QED BY <1>3, <1>6, <2>1, ShimAssumption DEF ShimInv, InstancesOwned
<1>10. CurrentServesActive'
  BY <1>3, <1>6 DEF CurrentServesActive
<1>11. InFlightExact' /\ UsingInv'
  BY <1>1, <1>2, <1>3, CountAside
<1>12. LoadInv'
  BY <1>1, <1>2, <1>3, LoadAside DEF InLoad, loadVars
<1> QED BY <1>7, <1>8, <1>9, <1>10, <1>11, <1>12 DEF ShimInv

(* A drained instance is closed; it is neither the current one nor spare.  *)
LEMMA CloseOldKeeps ==
  ASSUME ShimInv, NEW i \in Instances, CloseOld(i)
  PROVE  ShimInv'
<1>1. /\ istate[i] = "draining"
      /\ istate' = [istate EXCEPT ![i] = "closed"]
      /\ iset' = [iset EXCEPT ![i] = NoPages]
      /\ UNCHANGED <<active, fresh, current, inFlight, draining, loadVars, pc, using, swapVars>>
  BY DEF CloseOld
<1>2. /\ istate'[i] = "closed"
      /\ \A j \in Instances : j # i => iset'[j] = iset[j] /\ istate'[j] = istate[j]
  BY <1>1 DEF ShimInv, ShimTypes
<1>3. i # current /\ i # spare
  BY <1>1, ShimAssumption DEF ShimInv, InstancesOwned
<1>4. ShimTypes'
  <2>1. NoPages \in [Pages -> Deployments \cup {None}]
    BY DEF NoPages
  <2>2. istate' \in [Instances -> {"ready", "draining", "closed"}]
        /\ iset' \in [Instances -> [Pages -> Deployments \cup {None}]]
    BY <1>1, <2>1 DEF ShimInv, ShimTypes
  <2> QED BY <1>1, <2>2 DEF ShimInv, ShimTypes, loadVars, swapVars
<1>5. SwapInv'
  <2>1. current # None => iset'[current] = iset[current]
    BY <1>2, <1>3 DEF ShimInv, ShimTypes
  <2>2. spare # None => iset'[spare] = iset[spare]
    BY <1>2, <1>3 DEF ShimInv, ShimTypes
  <2> QED BY <1>1, <2>1, <2>2 DEF ShimInv, SwapInv, swapVars
<1>6. InstancesOwned'
  <2>1. {j \in Instances : istate'[j] = "ready"} = {j \in Instances : istate[j] = "ready"}
    BY <1>1, <1>2
  <2> QED BY <1>1, <2>1 DEF ShimInv, InstancesOwned, swapVars
<1>7. CurrentServesActive'
  BY <1>1, <1>2, <1>3 DEF ShimInv, ShimTypes, CurrentServesActive
<1>8. InFlightExact' /\ UsingInv' /\ LoadInv'
  BY <1>1 DEF ShimInv, InFlightExact, Forwarding, UsingInv, LoadInv, Page, loadVars
<1> QED BY <1>4, <1>5, <1>6, <1>7, <1>8 DEF ShimInv

(* The sweep takes pages out of s.active: what is left is still served.    *)
LEMMA SweepKeeps ==
  ASSUME ShimInv, Sweep
  PROVE  ShimInv'
<1> Sweeper \in Actors
  BY DEF Actors
<1>1. PICK w \in {"swap", "sleep"} : pc' = [pc EXCEPT ![Sweeper] = w]
  BY DEF Sweep, Goto
<1>2. w \in Places /\ w \notin InSwap /\ w \notin OnItsWay /\ pc[Sweeper] = "sleep"
  BY DEF Sweep, Places, InSwap, OnItsWay
<1>3. /\ UNCHANGED <<fresh, current, istate, iset, inFlight, draining, loadVars, using, swapVars>>
      /\ active' \in [Pages -> Deployments \cup {None}]
      /\ \A p \in Pages : active'[p] \in {active[p], None}
  <2>1. UNCHANGED <<fresh, current, istate, iset, inFlight, draining, loadVars, using, swapVars>>
    BY DEF Sweep, instVars
  <2>2. active' = [p \in Pages |-> IF active[p] \in Evicted THEN None ELSE active[p]]
    BY DEF Sweep
  <2> QED BY <2>1, <2>2 DEF ShimInv, ShimTypes
<1>4. \A y \in Actors : pc'[y] = IF y = Sweeper THEN w ELSE pc[y]
  BY <1>1 DEF ShimInv, ShimTypes
<1>5. ShimTypes'
  <2>1. pc' \in [Actors -> Places]
    BY <1>1, <1>2 DEF ShimInv, ShimTypes
  <2> QED BY <1>3, <2>1 DEF ShimInv, ShimTypes, loadVars, swapVars
<1>6. SwapInv'
  BY <1>2, <1>3, <1>4 DEF ShimInv, SwapInv, InSwap, swapVars
<1>7. InstancesOwned'
  BY <1>3 DEF ShimInv, InstancesOwned, swapVars
<1>8. CurrentServesActive'
  <2> SUFFICES ASSUME NEW p \in Pages, active'[p] # None,
                      \A y \in Actors : pc'[y] # "publish"
               PROVE  current' # None /\ iset'[current'][p] = active'[p]
    BY DEF CurrentServesActive, Actors
  <2>1. \A y \in Actors : pc[y] # "publish"
    BY <1>2, <1>4 DEF InSwap
  <2>2. active[p] # None /\ active'[p] = active[p]
    BY <1>3
  <2> QED BY <1>3, <2>1, <2>2 DEF ShimInv, CurrentServesActive, Actors
<1>9. InFlightExact' /\ UsingInv'
  BY <1>1, <1>2, <1>3, CountAside
<1>10. LoadInv'
  BY <1>1, <1>2, <1>3, LoadAside DEF loadVars
<1> QED BY <1>5, <1>6, <1>7, <1>8, <1>9, <1>10 DEF ShimInv

(* The clock and the drain order touch nothing of this.                    *)
LEMMA AgeKeeps ==
  ASSUME ShimInv, (\E d \in Deployments : Age(d)) \/ DrainOrdered \/ UNCHANGED vars
  PROVE  ShimInv'
<1>1. /\ UNCHANGED <<active, current, istate, iset, inFlight, loadVars, pc, using, swapVars>>
      /\ fresh' \subseteq Deployments /\ draining' \in BOOLEAN
  BY DEF Age, DrainOrdered, vars, instVars, ShimInv, ShimTypes
<1>2. ShimTypes'
  BY <1>1 DEF ShimInv, ShimTypes, loadVars, swapVars
<1>3. SwapInv' /\ InstancesOwned' /\ CurrentServesActive'
  BY <1>1 DEF ShimInv, SwapInv, InstancesOwned, CurrentServesActive, swapVars
<1>4. InFlightExact' /\ UsingInv' /\ LoadInv'
  BY <1>1 DEF ShimInv, InFlightExact, Forwarding, UsingInv, LoadInv, Page, loadVars
<1> QED BY <1>2, <1>3, <1>4 DEF ShimInv

-----------------------------------------------------------------------------
(* The invariant holds in every state of the shim, for any number of pages,*)
(* deployments, requests and instances and whatever goes wrong.            *)
THEOREM ShimInvariant == Spec => []ShimInv
<1>1. Init => ShimInv
  <2> SUFFICES ASSUME Init PROVE ShimInv
    OBVIOUS
  <2>1. ShimTypes
    BY DEF Init, ShimTypes, NoPages, Actors, Places
  <2>2. SwapInv /\ InstancesOwned /\ CurrentServesActive
    BY ShimAssumption DEF Init, SwapInv, InstancesOwned, CurrentServesActive, NoPages, InSwap, Actors
  <2>3. LoadInv /\ UsingInv
    BY ShimAssumption DEF Init, LoadInv, UsingInv, InLoad, OnItsWay
  <2>4. InFlightExact
    <3>1. \A i \in Instances : Forwarding(i) = {}
      BY DEF Init, Forwarding
    <3> QED BY <3>1, FS_EmptySet DEF Init, InFlightExact
  <2> QED BY <2>1, <2>2, <2>3, <2>4 DEF ShimInv
<1>2. ShimInv /\ [Next]_vars => ShimInv'
  <2> SUFFICES ASSUME ShimInv, [Next]_vars PROVE ShimInv'
    OBVIOUS
  <2>1. ASSUME NEW r \in Requests, Arrive(r) \/ Handle(r) PROVE ShimInv'
    BY <2>1, RequestStepKeeps, JoinOrLeadKeeps, LeaveKeeps, PickKeeps, CountKeeps, ForwardKeeps
       DEF Handle
  <2>2. ASSUME NEW x \in Requests \cup {Sweeper}, SwapStart(x) \/ Swapping(x) PROVE ShimInv'
    <3>1. x \in Actors
      BY DEF Actors
    <3>2. CASE LaunchFails(x)
      BY <3>1, <3>2, SwapFailsKeeps DEF LaunchFails
    <3> QED BY <2>2, <3>1, <3>2, SwapStartKeeps, LaunchKeeps, SwitchKeeps, PublishKeeps DEF Swapping
  <2>3. ASSUME NEW i \in Instances, CloseOld(i) PROVE ShimInv'
    BY <2>3, CloseOldKeeps
  <2> QED BY <2>1, <2>2, <2>3, SweepKeeps, AgeKeeps DEF Next
<1> QED BY <1>1, <1>2, PTL DEF Spec

(* ensureLoaded's single flight: whatever fails, times out or is evicted,  *)
(* a page has one load at a time.                                          *)
THEOREM LoadsSerialHolds == Spec => []LoadsSerial
<1>1. ShimInv => LoadsSerial
  BY DEF ShimInv, LoadInv, LoadsSerial, InLoad
<1> QED BY <1>1, ShimInvariant, PTL

(* What ensureLoaded believes is loaded, the current instance serves.      *)
THEOREM CurrentServesActiveHolds == Spec => []CurrentServesActive
BY ShimInvariant, PTL DEF ShimInv

(* No instance is lost by swap, sweep or drain.                            *)
THEOREM InstancesOwnedHolds == Spec => []InstancesOwned
BY ShimInvariant, PTL DEF ShimInv

(* The drain of a replaced instance waits for exactly the requests that    *)
(* are being forwarded to it: none is forgotten, none is counted twice.    *)
THEOREM InFlightExactHolds == Spec => []InFlightExact
BY ShimInvariant, PTL DEF ShimInv

-----------------------------------------------------------------------------
(***************************************************************************)
(* The usage log                                                           *)
(***************************************************************************)

(* The logs of an event as its handler made it, and the events that the    *)
(* emitter has: as made, but for the drops the first of a batch reports.   *)
Raw(e)  == IF e.traced THEN LogsOf[e.id] ELSE <<>>
Emitted == {e \in UsageEvents : e.logs = Raw(e)}
Queued  == {e \in Emitted : e.drops = 0}
Finished == {r \in Proxied : RqAt(r, "done")}

(* One event was emitted before another, and is of another request.        *)
Before(a, b)  == a.n < b.n /\ a.id # b.id
Ordered(s)    == \A i, j \in DOMAIN s : i < j => Before(s[i], s[j])
Ahead(s, t)   == \A i \in DOMAIN s : \A j \in DOMAIN t : Before(s[i], t[j])
Upto(s, n)    == \A i \in DOMAIN s : s[i].n \in Nat /\ s[i].n <= n

(* Where the events of the requests D are: S in the sink, W on the stream, *)
(* P in the batch being built, C in the channel, L lost, X refused.  The   *)
(* first four follow each other in the order of emission.                  *)
InLine(S, W, P, C) ==
  /\ Ordered(S) /\ Ordered(W) /\ Ordered(P) /\ Ordered(C)
  /\ Ahead(S, W) /\ Ahead(S, P) /\ Ahead(S, C)
  /\ Ahead(W, P) /\ Ahead(W, C) /\ Ahead(P, C)
Disjoint(A, B) == A \cap B = {}
Sorted(S, W, P, C, L, X, D) ==
  /\ D = S \cup W \cup P \cup C \cup L \cup X
  /\ Disjoint(S, W \cup P \cup C \cup L \cup X)
  /\ Disjoint(W, P \cup C \cup L \cup X)
  /\ Disjoint(P, C \cup L \cup X)
  /\ Disjoint(C, L \cup X)
  /\ Disjoint(L, X)
Placed(S, W, P, C, L, X, D) ==
  /\ InLine(S, W, P, C)
  /\ Upto(S, Cardinality(D)) /\ Upto(W, Cardinality(D))
  /\ Upto(P, Cardinality(D)) /\ Upto(C, Cardinality(D))
  /\ Sorted(Ids(S), Ids(W), Ids(P), Ids(C), Ids(L), X, D)

(* The handlers and the correlator.  A handler that waits has an entry, in *)
(* the map or in its hands; it only has one in its hands that was swept.   *)
RqType == [at : {"new", "forward", "wait", "emit", "done"}, traced : BOOLEAN,
           seized : {NoEntry} \cup CorEntries]
HandlerOK(r) ==
  /\ rq[r].seized # NoEntry => r \in swept
  /\ RqAt(r, "new") => r \notin seen
  /\ RqAt(r, "wait") => cor[r] # NoEntry \/ rq[r].seized # NoEntry
  /\ r \in seen \ swept =>
       /\ rq[r].at \in {"forward", "wait"} => cor[r] # NoEntry /\ cor[r].trace
       /\ rq[r].at \in {"emit", "done"} => rq[r].traced
HandlerInv ==
  /\ rq \in [Proxied -> RqType] /\ cor \in [Proxied -> {NoEntry} \cup CorEntries]
  /\ seen \subseteq Proxied
  /\ \A r \in Proxied : HandlerOK(r)

(* The emitter: what its places hold, when they hold nothing, and that the *)
(* drops told and not yet told are the events refused.                     *)
EmitterTypes ==
  /\ toHub \in BOOLEAN /\ alive \in BOOLEAN /\ dropped \in Nat
  /\ ch \in Seq(Queued) /\ Len(ch) <= ChanSize
  /\ loop \in [at : {"select", "flush", "ack", "stopped"}, pending : Seq(Emitted)]
  /\ Len(loop.pending) <= BatchSize
  /\ wire \in {NoBatch} \cup [events : Seq(Emitted), at : {"sent", "acked", "broken"}]
  /\ sink \in Seq(UsageEvents) /\ lost \in Seq(Emitted) /\ refused \subseteq Proxied
LoopInv ==
  /\ Pending \in Seq(Queued)
  /\ loop.at = "select" => Len(loop.pending) < BatchSize
  /\ loop.at = "flush" => loop.pending # <<>>
  /\ alive /\ loop.at # "ack" => OnWire = <<>>
  /\ ~toHub => ch = <<>> /\ loop.pending = <<>> /\ wire = NoBatch /\ loop.at = "select"
Capped(e)  == e.logs = capLogs(Raw(e))
SinkCapped == toHub => \A i \in DOMAIN sink : Capped(sink[i])
DropsEven(S, W, L, d, X) == Told(S) + Told(W) + Told(L) + d = Cardinality(X)
EmitterInv ==
  /\ EmitterTypes /\ LoopInv /\ SinkCapped
  /\ Placed(sink, OnWire, Pending, ch, lost, refused, Finished)
  /\ DropsEven(sink, OnWire, lost, dropped, refused)

UsageInv == HandlerInv /\ EmitterInv

-----------------------------------------------------------------------------
(* Sequences of events *)

(* c is s followed by t, as far as the identity of the events goes.        *)
SameEvent(a, b) == a.id = b.id /\ a.n = b.n
Joins(c, s, t) ==
  /\ Len(s) \in Nat /\ Len(t) \in Nat
  /\ DOMAIN s = 1..Len(s) /\ DOMAIN t = 1..Len(t) /\ DOMAIN c = 1..(Len(s) + Len(t))
  /\ \A i \in 1..Len(s) : SameEvent(c[i], s[i])
  /\ \A i \in 1..Len(t) : SameEvent(c[Len(s) + i], t[i])

\* What holds of each event of a sequence holds of both parts of it.
LEMMA JoinsPoints ==
  ASSUME NEW c, NEW s, NEW t, Joins(c, s, t)
  PROVE  /\ \A i \in DOMAIN s : i \in DOMAIN c /\ SameEvent(c[i], s[i])
         /\ \A i \in DOMAIN t : Len(s) + i \in DOMAIN c /\ SameEvent(c[Len(s) + i], t[i])
         /\ \A i \in DOMAIN c : \/ i \in DOMAIN s /\ SameEvent(c[i], s[i])
                                \/ \E k \in DOMAIN t : i = Len(s) + k /\ SameEvent(c[i], t[k])
         /\ \A i \in DOMAIN s, k \in DOMAIN t : i < Len(s) + k
         /\ \A i, k \in DOMAIN t : Len(s) + i < Len(s) + k <=> i < k
<1> DEFINE m == Len(s)
           n == Len(t)
<1>1. /\ m \in Nat /\ n \in Nat
      /\ DOMAIN s = 1..m /\ DOMAIN t = 1..n /\ DOMAIN c = 1..(m + n)
      /\ \A i \in 1..m : SameEvent(c[i], s[i])
      /\ \A i \in 1..n : SameEvent(c[m + i], t[i])
  BY DEF Joins
<1> HIDE DEF m, n
<1>2. \A i \in 1..(m + n) : i \in 1..m \/ (i - m \in 1..n /\ i = m + (i - m))
  BY <1>1
<1>3. ASSUME NEW i \in DOMAIN c
      PROVE  \/ i \in DOMAIN s /\ SameEvent(c[i], s[i])
             \/ \E k \in DOMAIN t : i = m + k /\ SameEvent(c[i], t[k])
  <2>1. CASE i \in 1..m
    BY <1>1, <2>1
  <2>2. CASE i \notin 1..m
    <3>1. PICK k \in 1..n : i = m + k
      BY <1>1, <1>2, <2>2
    <3> QED
      BY <1>1, <3>1
  <2> QED
    BY <2>1, <2>2
<1>4. \A i \in DOMAIN s : i \in DOMAIN c /\ SameEvent(c[i], s[i])
  BY <1>1
<1>5. \A i \in DOMAIN t : m + i \in DOMAIN c /\ SameEvent(c[m + i], t[i])
  BY <1>1
<1>6. \A i \in DOMAIN s, k \in DOMAIN t : i < m + k
  BY <1>1
<1>7. \A i, k \in DOMAIN t : m + i < m + k <=> i < k
  BY <1>1
<1> QED
  BY <1>3, <1>4, <1>5, <1>6, <1>7 DEF m

\* The requests of a sequence are those of its parts.
LEMMA JoinsIds ==
  ASSUME NEW c, NEW s, NEW t, Joins(c, s, t)
  PROVE  Ids(c) = Ids(s) \cup Ids(t)
<1>1. ASSUME NEW i \in DOMAIN c PROVE c[i].id \in Ids(s) \cup Ids(t)
  BY JoinsPoints DEF Ids, SameEvent
<1>2. ASSUME NEW i \in DOMAIN s PROVE s[i].id \in Ids(c)
  BY JoinsPoints DEF Ids, SameEvent
<1>3. ASSUME NEW i \in DOMAIN t PROVE t[i].id \in Ids(c)
  BY JoinsPoints DEF Ids, SameEvent
<1> QED
  BY <1>1, <1>2, <1>3 DEF Ids

\* The order of a sequence is that of its parts, one before the other.
LEMMA JoinsOrdered ==
  ASSUME NEW c, NEW s, NEW t, Joins(c, s, t)
  PROVE  Ordered(c) <=> Ordered(s) /\ Ordered(t) /\ Ahead(s, t)
<1> DEFINE m == Len(s)
<1>1. /\ \A i \in DOMAIN s : i \in DOMAIN c /\ SameEvent(c[i], s[i])
      /\ \A i \in DOMAIN t : m + i \in DOMAIN c /\ SameEvent(c[m + i], t[i])
      /\ \A i \in DOMAIN c : \/ i \in DOMAIN s /\ SameEvent(c[i], s[i])
                             \/ \E k \in DOMAIN t : i = m + k /\ SameEvent(c[i], t[k])
      /\ \A i \in DOMAIN s, k \in DOMAIN t : i < m + k
      /\ \A i, k \in DOMAIN t : m + i < m + k <=> i < k
  BY JoinsPoints
<1>2. \A a, b, x, y : SameEvent(a, x) /\ SameEvent(b, y) => (Before(a, b) <=> Before(x, y))
  BY DEF SameEvent, Before
<1>3. m \in Nat /\ (\A i \in DOMAIN s : i \in Nat) /\ (\A i \in DOMAIN t : i \in Nat)
      /\ \A i \in DOMAIN s : \A k \in DOMAIN t : ~(m + k < i)
  BY DEF Joins
<1> HIDE DEF m
<1>4. ASSUME Ordered(c) PROVE Ordered(s) /\ Ordered(t) /\ Ahead(s, t)
  <2>1. ASSUME NEW i \in DOMAIN s, NEW j \in DOMAIN s, i < j PROVE Before(s[i], s[j])
    BY <1>1, <1>2, <1>4, <2>1 DEF Ordered
  <2>2. ASSUME NEW i \in DOMAIN t, NEW j \in DOMAIN t, i < j PROVE Before(t[i], t[j])
    BY <1>1, <1>2, <1>4, <2>2 DEF Ordered
  <2>3. ASSUME NEW i \in DOMAIN s, NEW j \in DOMAIN t PROVE Before(s[i], t[j])
    BY <1>1, <1>2, <1>4 DEF Ordered
  <2> QED
    BY <2>1, <2>2, <2>3 DEF Ordered, Ahead
<1>5. ASSUME Ordered(s), Ordered(t), Ahead(s, t) PROVE Ordered(c)
  <2>1. SUFFICES ASSUME NEW i \in DOMAIN c, NEW j \in DOMAIN c, i < j PROVE Before(c[i], c[j])
    BY DEF Ordered
  <2>2. CASE i \in DOMAIN s /\ SameEvent(c[i], s[i]) /\ j \in DOMAIN s /\ SameEvent(c[j], s[j])
    BY <1>2, <1>5, <2>1, <2>2 DEF Ordered
  <2>3. ASSUME NEW k \in DOMAIN t, j = m + k, SameEvent(c[j], t[k]),
               i \in DOMAIN s, SameEvent(c[i], s[i])
        PROVE  Before(c[i], c[j])
    BY <1>2, <1>5, <2>3 DEF Ahead
  <2>4. ASSUME NEW k \in DOMAIN t, j = m + k, SameEvent(c[j], t[k]),
               NEW l \in DOMAIN t, i = m + l, SameEvent(c[i], t[l])
        PROVE  Before(c[i], c[j])
    BY <1>1, <1>2, <1>5, <2>1, <2>4 DEF Ordered
  <2>5. ASSUME NEW l \in DOMAIN t, i = m + l, j \in DOMAIN s
        PROVE  FALSE
    BY <1>3, <2>1, <2>5
  <2> QED
    BY <1>1, <2>2, <2>3, <2>4, <2>5
<1> QED
  BY <1>4, <1>5

\* A sequence is before, or behind, another one if both its parts are.
LEMMA JoinsAhead ==
  ASSUME NEW c, NEW s, NEW t, Joins(c, s, t), NEW u
  PROVE  /\ Ahead(c, u) <=> Ahead(s, u) /\ Ahead(t, u)
         /\ Ahead(u, c) <=> Ahead(u, s) /\ Ahead(u, t)
<1> DEFINE m == Len(s)
<1>1. /\ \A i \in DOMAIN s : i \in DOMAIN c /\ SameEvent(c[i], s[i])
      /\ \A i \in DOMAIN t : m + i \in DOMAIN c /\ SameEvent(c[m + i], t[i])
      /\ \A i \in DOMAIN c : \/ i \in DOMAIN s /\ SameEvent(c[i], s[i])
                             \/ \E k \in DOMAIN t : i = m + k /\ SameEvent(c[i], t[k])
  BY JoinsPoints
<1>2. \A a, x, y : SameEvent(a, x) => /\ Before(a, y) <=> Before(x, y)
                                      /\ Before(y, a) <=> Before(y, x)
  BY DEF SameEvent, Before
<1> HIDE DEF m
<1>3. Ahead(c, u) <=> Ahead(s, u) /\ Ahead(t, u)
  BY <1>1, <1>2 DEF Ahead
<1>4. ASSUME Ahead(u, c) PROVE Ahead(u, s) /\ Ahead(u, t)
  <2>1. ASSUME NEW i \in DOMAIN u, NEW j \in DOMAIN s PROVE Before(u[i], s[j])
    BY <1>1, <1>2, <1>4 DEF Ahead
  <2>2. ASSUME NEW i \in DOMAIN u, NEW j \in DOMAIN t PROVE Before(u[i], t[j])
    BY <1>1, <1>2, <1>4 DEF Ahead
  <2> QED
    BY <2>1, <2>2 DEF Ahead
<1>5. ASSUME Ahead(u, s), Ahead(u, t) PROVE Ahead(u, c)
  BY <1>1, <1>2, <1>5 DEF Ahead
<1> QED
  BY <1>3, <1>4, <1>5

\* A bound holds for a sequence if it holds for both parts.
LEMMA JoinsUpto ==
  ASSUME NEW c, NEW s, NEW t, Joins(c, s, t), NEW n
  PROVE  Upto(c, n) <=> Upto(s, n) /\ Upto(t, n)
<1> DEFINE m == Len(s)
<1>1. /\ \A i \in DOMAIN s : i \in DOMAIN c /\ SameEvent(c[i], s[i])
      /\ \A i \in DOMAIN t : m + i \in DOMAIN c /\ SameEvent(c[m + i], t[i])
      /\ \A i \in DOMAIN c : \/ i \in DOMAIN s /\ SameEvent(c[i], s[i])
                             \/ \E k \in DOMAIN t : i = m + k /\ SameEvent(c[i], t[k])
  BY JoinsPoints
<1> HIDE DEF m
<1> QED
  BY <1>1 DEF Upto, SameEvent

\* Of two sequences in order, no request is in both.
LEMMA AheadDisjoint ==
  ASSUME NEW s, NEW t, Ahead(s, t)
  PROVE  Disjoint(Ids(s), Ids(t))
BY DEF Ahead, Disjoint, Ids, Before

\* The empty sequence.
LEMMA EmptyEvents ==
  /\ Ids(<<>>) = {} /\ Ordered(<<>>)
  /\ \A u : Ahead(<<>>, u) /\ Ahead(u, <<>>)
  /\ \A n : Upto(<<>>, n)
BY DEF Ids, Ordered, Ahead, Upto

\* One event.
LEMMA OneEvent ==
  ASSUME NEW e
  PROVE  /\ Ids(<<e>>) = {e.id} /\ Ordered(<<e>>)
         /\ \A n \in Nat : Upto(<<e>>, n) <=> e.n \in Nat /\ e.n <= n
BY DEF Ids, Ordered, Upto

\* Concatenation.
LEMMA ConcatJoins ==
  ASSUME NEW K, NEW s \in Seq(K), NEW t \in Seq(K)
  PROVE  Joins(s \o t, s, t)
BY DEF Joins, SameEvent

\* One event more.
LEMMA AppendJoins ==
  ASSUME NEW K, NEW s \in Seq(K), NEW e \in K
  PROVE  Joins(Append(s, e), s, <<e>>)
BY DEF Joins, SameEvent

\* The first event and the others.
LEMMA HeadJoins ==
  ASSUME NEW K, NEW s \in Seq(K), s # <<>>
  PROVE  Joins(s, <<Head(s)>>, Tail(s))
<1> DEFINE one == <<Head(s)>>
           rest == Tail(s)
<1>1. one \in Seq(K) /\ rest \in Seq(K) /\ s = one \o rest
  OBVIOUS
<1> HIDE DEF one, rest
<1>2. Joins(one \o rest, one, rest)
  BY <1>1, ConcatJoins
<1> QED
  BY <1>1, <1>2 DEF one, rest

\* The same events with other contents.
LEMMA AlikeJoins ==
  ASSUME NEW K, NEW s \in Seq(K), NEW t \in Seq(K), Len(s) = Len(t),
         \A i \in 1..Len(t) : SameEvent(s[i], t[i])
  PROVE  Joins(s, t, <<>>)
BY DEF Joins

\* What is left of a sequence behind its first n elements.
LEMMA SuffixElements ==
  ASSUME NEW K, NEW s \in Seq(K), NEW n \in 0..Len(s)
  PROVE  LET rest == SubSeq(s, n + 1, Len(s))
             k == Len(s) - n
         IN  rest \in Seq(K) /\ Len(rest) = k /\ DOMAIN rest = 1..k
             /\ \A i \in 1..k : rest[i] = s[n + i]
<1> DEFINE m == Len(s)
           k == m - n
           rest == SubSeq(s, n + 1, m)
<1>1. m \in Nat /\ n \in Nat /\ n <= m /\ k \in Nat /\ (m - (n + 1)) + 1 = k
  OBVIOUS
<1>2. \A i \in 1..m : s[i] \in K
  OBVIOUS
<1> HIDE DEF m
<1>3. rest = [i \in 1..k |-> s[(i + (n + 1)) - 1]]
  BY <1>1
<1> HIDE DEF rest
<1>4. \A i \in 1..k : n + i \in 1..m /\ (i + (n + 1)) - 1 = n + i
  BY <1>1
<1> HIDE DEF k
<1>5. DOMAIN rest = 1..k /\ \A i \in 1..k : rest[i] = s[n + i] /\ rest[i] \in K
  BY <1>2, <1>3, <1>4
<1>6. rest \in Seq(K) /\ Len(rest) = k
  BY <1>1, <1>3, <1>5
<1> QED
  BY <1>5, <1>6 DEF rest, k, m

\* A batch of which the sink takes the first n events, with other contents.
LEMMA SplitJoins ==
  ASSUME NEW K, NEW s \in Seq(K), NEW n \in 0..Len(s), NEW front \in Seq(K), Len(front) = n,
         \A i \in 1..n : SameEvent(front[i], s[i])
  PROVE  Joins(s, front, SubSeq(s, n + 1, Len(s)))
<1> DEFINE rest == SubSeq(s, n + 1, Len(s))
           m == Len(s)
<1>1. m \in Nat /\ n \in Nat /\ DOMAIN s = 1..m /\ DOMAIN front = 1..n
  OBVIOUS
<1>2. Len(rest) = m - n /\ DOMAIN rest = 1..(m - n) /\ \A i \in 1..(m - n) : rest[i] = s[n + i]
  BY SuffixElements
<1> HIDE DEF rest, m
<1>3. Len(rest) \in Nat /\ n + Len(rest) = m
  BY <1>1, <1>2 DEF m
<1>4. \A a, b : SameEvent(a, b) => SameEvent(b, a)
  BY DEF SameEvent
<1>5. \A a : SameEvent(a, a)
  BY DEF SameEvent
<1>6. \A i \in 1..Len(front) : SameEvent(s[i], front[i])
  BY <1>4
<1>7. \A i \in 1..Len(rest) : SameEvent(s[Len(front) + i], rest[i])
  BY <1>1, <1>2, <1>3, <1>5
<1> QED
  BY <1>1, <1>2, <1>3, <1>6, <1>7 DEF Joins, rest

-----------------------------------------------------------------------------
(* Where the events go *)

\* A finished request's event is a new one: no place has it, and its number
\* is above all others.
LEMMA NewEventBehind ==
  ASSUME NEW D, Cardinality(D) \in Nat,
         NEW s, Upto(s, Cardinality(D)), Ids(s) \subseteq D,
         NEW e, e.id \notin D, e.n = Cardinality(D) + 1
  PROVE  Ahead(s, <<e>>) /\ Upto(s, Cardinality(D) + 1)
<1>1. ASSUME NEW i \in DOMAIN s PROVE Before(s[i], e) /\ s[i].n \in Nat /\ s[i].n <= Cardinality(D) + 1
  <2>1. s[i].id \in D
    BY DEF Ids
  <2>2. s[i].n \in Nat /\ s[i].n <= Cardinality(D)
    BY DEF Upto
  <2> QED
    BY <2>1, <2>2 DEF Before
<1> QED
  BY <1>1 DEF Ahead, Upto

\* The sets a finished request is sorted into.
LEMMA SortedNew ==
  ASSUME NEW S, NEW W, NEW P, NEW C, NEW L, NEW X, NEW D, Sorted(S, W, P, C, L, X, D),
         NEW r, r \notin D
  PROVE  /\ Sorted(S, W, P, C \cup {r}, L, X, D \cup {r})
         /\ Sorted(S \cup {r}, W, P, C, L, X, D \cup {r})
         /\ Sorted(S, W, P, C, L, X \cup {r}, D \cup {r})
BY DEF Sorted, Disjoint

\* The event of a finished request joins the end of the channel, or of the
\* pod log when there is nothing else, or is refused.
LEMMA PlacedNew ==
  ASSUME NEW S, NEW W, NEW P, NEW C, NEW L, NEW X, NEW D,
         Placed(S, W, P, C, L, X, D), IsFiniteSet(D),
         NEW e, e.id \notin D, e.n = Cardinality(D) + 1
  PROVE  /\ \A C2 : Joins(C2, C, <<e>>) => Placed(S, W, P, C2, L, X, D \cup {e.id})
         /\ W = <<>> /\ P = <<>> /\ C = <<>> =>
              \A S2 : Joins(S2, S, <<e>>) => Placed(S2, W, P, C, L, X, D \cup {e.id})
         /\ Placed(S, W, P, C, L, X \cup {e.id}, D \cup {e.id})
<1> DEFINE r == e.id
           E == D \cup {r}
           one == <<e>>
<1>1. Cardinality(D) \in Nat /\ Cardinality(E) = Cardinality(D) + 1
  BY FS_AddElement, FS_CardinalityType
<1>2. Sorted(Ids(S), Ids(W), Ids(P), Ids(C), Ids(L), X, D)
  BY DEF Placed
<1>3. Ids(S) \subseteq D /\ Ids(W) \subseteq D /\ Ids(P) \subseteq D /\ Ids(C) \subseteq D
  BY <1>2 DEF Sorted
<1>4. Ids(one) = {r} /\ Ordered(one) /\ Upto(one, Cardinality(E))
  BY <1>1, OneEvent
<1>5. /\ Ahead(S, one) /\ Upto(S, Cardinality(E)) /\ Ahead(W, one) /\ Upto(W, Cardinality(E))
      /\ Ahead(P, one) /\ Upto(P, Cardinality(E)) /\ Ahead(C, one) /\ Upto(C, Cardinality(E))
  BY <1>1, <1>3, NewEventBehind DEF Placed
<1>6. /\ Sorted(Ids(S), Ids(W), Ids(P), Ids(C) \cup {r}, Ids(L), X, E)
      /\ Sorted(Ids(S) \cup {r}, Ids(W), Ids(P), Ids(C), Ids(L), X, E)
      /\ Sorted(Ids(S), Ids(W), Ids(P), Ids(C), Ids(L), X \cup {r}, E)
  BY <1>2, SortedNew
<1>7. InLine(S, W, P, C)
  BY DEF Placed
<1> HIDE DEF r, E, one
<1>8. ASSUME NEW C2, Joins(C2, C, one) PROVE Placed(S, W, P, C2, L, X, E)
  <2>1. Ids(C2) = Ids(C) \cup {r} /\ Ordered(C2) /\ Upto(C2, Cardinality(E))
    BY <1>4, <1>5, <1>7, <1>8, JoinsIds, JoinsOrdered, JoinsUpto DEF InLine
  <2>2. Ahead(S, C2) /\ Ahead(W, C2) /\ Ahead(P, C2)
    BY <1>5, <1>7, <1>8, JoinsAhead DEF InLine
  <2> QED
    BY <1>5, <1>6, <1>7, <2>1, <2>2 DEF Placed, InLine
<1>9. ASSUME W = <<>>, P = <<>>, C = <<>>, NEW S2, Joins(S2, S, one)
      PROVE  Placed(S2, W, P, C, L, X, E)
  <2>1. Ids(S2) = Ids(S) \cup {r} /\ Ordered(S2) /\ Upto(S2, Cardinality(E))
    BY <1>4, <1>5, <1>7, <1>9, JoinsIds, JoinsOrdered, JoinsUpto DEF InLine
  <2>2. Ahead(S2, W) /\ Ahead(S2, P) /\ Ahead(S2, C)
    BY <1>9, EmptyEvents
  <2> QED
    BY <1>5, <1>6, <1>7, <2>1, <2>2 DEF Placed, InLine
<1>10. Placed(S, W, P, C, L, X \cup {r}, E)
  BY <1>5, <1>6, <1>7 DEF Placed
<1> QED
  BY <1>8, <1>9, <1>10 DEF r, E, one

\* The emitter takes the oldest event of the channel.
LEMMA PlacedTake ==
  ASSUME NEW S, NEW W, NEW P, NEW C, NEW L, NEW X, NEW D, Placed(S, W, P, C, L, X, D),
         NEW h, NEW C2, NEW P2, Joins(C, h, C2), Joins(P2, P, h)
  PROVE  Placed(S, W, P2, C2, L, X, D)
<1>1. /\ Ids(C) = Ids(h) \cup Ids(C2) /\ Ids(P2) = Ids(P) \cup Ids(h)
      /\ Ordered(h) /\ Ordered(C2) /\ Ahead(h, C2)
  BY JoinsIds, JoinsOrdered DEF Placed, InLine
<1>2. /\ Ahead(S, h) /\ Ahead(S, C2) /\ Ahead(W, h) /\ Ahead(W, C2) /\ Ahead(P, h) /\ Ahead(P, C2)
      /\ Upto(h, Cardinality(D)) /\ Upto(C2, Cardinality(D))
  BY JoinsAhead, JoinsUpto DEF Placed, InLine
<1>3. Ordered(P2) /\ Ahead(S, P2) /\ Ahead(W, P2) /\ Ahead(P2, C2) /\ Upto(P2, Cardinality(D))
  BY <1>1, <1>2, JoinsOrdered, JoinsAhead, JoinsUpto DEF Placed, InLine
<1>4. Sorted(Ids(S), Ids(W), Ids(P2), Ids(C2), Ids(L), X, D)
  <2>1. Disjoint(Ids(h), Ids(C2))
    BY <1>1, AheadDisjoint
  <2>2. Sorted(Ids(S), Ids(W), Ids(P), Ids(h) \cup Ids(C2), Ids(L), X, D)
    BY <1>1 DEF Placed
  <2>3. Sorted(Ids(S), Ids(W), Ids(P) \cup Ids(h), Ids(C2), Ids(L), X, D)
    BY <2>1, <2>2 DEF Sorted, Disjoint
  <2> QED
    BY <1>1, <2>3
<1> QED
  BY <1>1, <1>2, <1>3, <1>4 DEF Placed, InLine

\* The batch goes on the stream, as the only one.
LEMMA PlacedSend ==
  ASSUME NEW S, NEW P, NEW C, NEW L, NEW X, NEW D, Placed(S, <<>>, P, C, L, X, D),
         NEW B, Joins(B, P, <<>>)
  PROVE  Placed(S, B, <<>>, C, L, X, D)
<1>1. /\ Ids(B) = Ids(P) \cup Ids(<<>>) /\ Ids(<<>>) = {}
      /\ Ordered(B) /\ Ahead(S, B) /\ Ahead(B, C) /\ Upto(B, Cardinality(D))
  BY JoinsIds, JoinsOrdered, JoinsAhead, JoinsUpto, EmptyEvents DEF Placed, InLine
<1>2. Sorted(Ids(S), Ids(B), Ids(<<>>), Ids(C), Ids(L), X, D)
  <2>1. Sorted(Ids(S), {}, Ids(P), Ids(C), Ids(L), X, D)
    BY <1>1 DEF Placed
  <2>2. Sorted(Ids(S), Ids(P), {}, Ids(C), Ids(L), X, D)
    BY <2>1 DEF Sorted, Disjoint
  <2> QED
    BY <1>1, <2>2
<1> QED
  BY <1>1, <1>2, EmptyEvents DEF Placed, InLine

\* The batch is lost.
LEMMA PlacedLose ==
  ASSUME NEW S, NEW W, NEW P, NEW C, NEW L, NEW X, NEW D, Placed(S, W, P, C, L, X, D),
         NEW B, Joins(B, P, <<>>), NEW L2, Joins(L2, L, B)
  PROVE  Placed(S, W, <<>>, C, L2, X, D)
<1>1. /\ Ids(L2) = Ids(L) \cup Ids(P) /\ Ids(<<>>) = {}
  BY JoinsIds, EmptyEvents
<1>2. Sorted(Ids(S), Ids(W), Ids(<<>>), Ids(C), Ids(L2), X, D)
  <2>1. Sorted(Ids(S), Ids(W), Ids(P), Ids(C), Ids(L), X, D)
    BY DEF Placed
  <2>2. Sorted(Ids(S), Ids(W), {}, Ids(C), Ids(L) \cup Ids(P), X, D)
    BY <2>1 DEF Sorted, Disjoint
  <2> QED
    BY <1>1, <2>2
<1> QED
  BY <1>1, <1>2, EmptyEvents DEF Placed, InLine

\* The hub reads the batch, and its sink takes the first part of it.
LEMMA PlacedIngest ==
  ASSUME NEW S, NEW W, NEW P, NEW C, NEW L, NEW X, NEW D, Placed(S, W, P, C, L, X, D),
         NEW front, NEW rest, Joins(W, front, rest),
         NEW S2, Joins(S2, S, front), NEW L2, Joins(L2, L, rest)
  PROVE  Placed(S2, <<>>, P, C, L2, X, D)
<1>1. /\ Ids(W) = Ids(front) \cup Ids(rest) /\ Ids(S2) = Ids(S) \cup Ids(front)
      /\ Ids(L2) = Ids(L) \cup Ids(rest) /\ Ids(<<>>) = {}
      /\ Ordered(front) /\ Ahead(front, rest)
  BY JoinsIds, JoinsOrdered, EmptyEvents DEF Placed, InLine
<1>2. /\ Ahead(S, front) /\ Ahead(front, P) /\ Ahead(front, C) /\ Upto(front, Cardinality(D))
  BY JoinsAhead, JoinsUpto DEF Placed, InLine
<1>3. Ordered(S2) /\ Ahead(S2, P) /\ Ahead(S2, C) /\ Upto(S2, Cardinality(D))
  BY <1>1, <1>2, JoinsOrdered, JoinsAhead, JoinsUpto DEF Placed, InLine
<1>4. Sorted(Ids(S2), Ids(<<>>), Ids(P), Ids(C), Ids(L2), X, D)
  <2>1. Sorted(Ids(S), Ids(front) \cup Ids(rest), Ids(P), Ids(C), Ids(L), X, D)
    BY <1>1 DEF Placed
  <2>2. Disjoint(Ids(front), Ids(rest))
    BY <1>1, AheadDisjoint
  <2>3. Sorted(Ids(S) \cup Ids(front), {}, Ids(P), Ids(C), Ids(L) \cup Ids(rest), X, D)
    BY <2>1, <2>2 DEF Sorted, Disjoint
  <2> QED
    BY <1>1, <2>3
<1> QED
  BY <1>3, <1>4, EmptyEvents DEF Placed, InLine

\* The stream breaks with the batch on it.
LEMMA PlacedBreak ==
  ASSUME NEW S, NEW W, NEW P, NEW C, NEW L, NEW X, NEW D, Placed(S, W, P, C, L, X, D),
         NEW L2, Joins(L2, L, W)
  PROVE  Placed(S, <<>>, P, C, L2, X, D)
<1>1. Ids(L2) = Ids(L) \cup Ids(W) /\ Ids(<<>>) = {}
  BY JoinsIds, EmptyEvents
<1>2. Sorted(Ids(S), Ids(<<>>), Ids(P), Ids(C), Ids(L2), X, D)
  <2>1. Sorted(Ids(S), Ids(W), Ids(P), Ids(C), Ids(L), X, D)
    BY DEF Placed
  <2>2. Sorted(Ids(S), {}, Ids(P), Ids(C), Ids(L) \cup Ids(W), X, D)
    BY <2>1 DEF Sorted, Disjoint
  <2> QED
    BY <1>1, <2>2
<1> QED
  BY <1>1, <1>2, EmptyEvents DEF Placed, InLine

-----------------------------------------------------------------------------
(* The drops that a sequence of events tells of *)

(* The events of s can be counted, and f has the sums of their drops.      *)
Counted(s)  == Len(s) \in Nat /\ DOMAIN s = 1..Len(s) /\ \A i \in 1..Len(s) : s[i].drops \in Nat
Tells(s, f) == f[0] = 0 /\ \A k \in 1..Len(s) : f[k] = f[k - 1] + s[k].drops

\* The function that Told sums with exists.
LEMMA TellsExist ==
  ASSUME NEW s, Counted(s)
  PROVE  \E f \in [0..Len(s) -> Nat] : Tells(s, f)
<1> DEFINE w == [i \in 1..Len(s) |-> s[i].drops]
<1>1. Len(s) \in Nat /\ w \in [1..Len(s) -> Nat] /\ \A i \in 1..Len(s) : w[i] = s[i].drops
  BY DEF Counted
<1> HIDE DEF w
<1>2. PICK f \in [0..Len(s) -> Nat] : f[0] = 0 /\ \A k \in 1..Len(s) : f[k] = f[k - 1] + w[k]
  BY <1>1, SumExists
<1> QED
  BY <1>1, <1>2 DEF Tells

\* There is one sum.
LEMMA TellsUnique ==
  ASSUME NEW s, Counted(s), NEW f, NEW g, Tells(s, f), Tells(s, g)
  PROVE  f[Len(s)] = g[Len(s)]
<1> DEFINE P == {k \in Nat : k <= Len(s) => f[k] = g[k]}
<1>1. P \subseteq Nat /\ 0 \in P
  BY DEF Tells
<1>2. ASSUME NEW k \in P PROVE k + 1 \in P
  <2>1. SUFFICES ASSUME k + 1 <= Len(s) PROVE f[k + 1] = g[k + 1]
    OBVIOUS
  <2>2. k \in Nat /\ f[k] = g[k] /\ k + 1 \in 1..Len(s) /\ (k + 1) - 1 = k
    BY <2>1 DEF Counted
  <2>3. f[k + 1] = f[k] + s[k + 1].drops /\ g[k + 1] = g[k] + s[k + 1].drops
    BY <2>2 DEF Tells
  <2> QED
    BY <2>2, <2>3
<1>3. P = Nat
  <2> HIDE DEF P
  <2> QED
    BY <1>1, <1>2, SetInduction
<1> QED
  BY <1>3 DEF Counted

\* Told is that sum.
LEMMA ToldTells ==
  ASSUME NEW s, Counted(s)
  PROVE  Told(s) \in Nat /\ \A g : Tells(s, g) => Told(s) = g[Len(s)]
<1> DEFINE f == CHOOSE g : g = [k \in 0..Len(s) |-> IF k = 0 THEN 0 ELSE g[k - 1] + s[k].drops]
<1>1. Told(s) = f[Len(s)]
  BY Zenon DEF Told
<1>2. PICK g \in [0..Len(s) -> Nat] : Tells(s, g)
  BY TellsExist, Zenon
<1>3. g = [k \in 0..Len(s) |-> IF k = 0 THEN 0 ELSE g[k - 1] + s[k].drops]
  <2>1. Len(s) \in Nat /\ \A k \in 0..Len(s) : k = 0 \/ k \in 1..Len(s)
    BY DEF Counted
  <2>2. \A k \in 0..Len(s) : g[k] = IF k = 0 THEN 0 ELSE g[k - 1] + s[k].drops
    BY <1>2, <2>1, Zenon DEF Tells
  <2>3. g = [k \in 0..Len(s) |-> g[k]]
    OBVIOUS
  <2> QED
    BY <2>2, <2>3, Zenon
<1>4. f = [k \in 0..Len(s) |-> IF k = 0 THEN 0 ELSE f[k - 1] + s[k].drops]
  BY <1>3, Zenon
<1> HIDE DEF f
<1>5. Tells(s, f)
  <2>1. Len(s) \in Nat /\ 0 \in 0..Len(s) /\ \A k \in 1..Len(s) : k \in 0..Len(s) /\ k # 0
    BY DEF Counted
  <2>2. \A k \in 0..Len(s) : f[k] = IF k = 0 THEN 0 ELSE f[k - 1] + s[k].drops
    BY <1>4, Zenon
  <2> QED
    BY <2>1, <2>2, Zenon DEF Tells
<1>6. ASSUME NEW h, Tells(s, h) PROVE Told(s) = h[Len(s)]
  <2>1. f[Len(s)] = h[Len(s)]
    BY <1>5, <1>6, TellsUnique
  <2> QED
    BY <1>1, <2>1
<1>7. Told(s) = g[Len(s)] /\ Len(s) \in 0..Len(s)
  BY <1>2, <1>6 DEF Counted
<1> QED
  BY <1>2, <1>6, <1>7

(* c tells of the same drops as s and t one after the other.               *)
DropsJoin(c, s, t) ==
  /\ Len(c) = Len(s) + Len(t)
  /\ \A i \in 1..Len(s) : c[i].drops = s[i].drops
  /\ \A i \in 1..Len(t) : c[Len(s) + i].drops = t[i].drops

\* The drops of two sequences add up.
LEMMA ToldJoins ==
  ASSUME NEW c, NEW s, NEW t, Counted(c), Counted(s), Counted(t), DropsJoin(c, s, t)
  PROVE  Told(c) = Told(s) + Told(t)
<1> DEFINE m == Len(s)
           n == Len(t)
<1>1. /\ m \in Nat /\ n \in Nat /\ Len(c) = m + n
      /\ \A i \in 1..m : c[i].drops = s[i].drops
      /\ \A i \in 1..n : c[m + i].drops = t[i].drops /\ t[i].drops \in Nat
  BY DEF DropsJoin, Counted
<1>2. PICK f \in [0..(m + n) -> Nat] : Tells(c, f)
  BY <1>1, TellsExist
<1> HIDE DEF m, n
<1>3. f[0] = 0 /\ \A k \in 1..(m + n) : f[k] = f[k - 1] + c[k].drops
  BY <1>1, <1>2 DEF Tells
<1>4. Tells(s, f)
  <2>1. \A k \in 1..m : k \in 1..(m + n)
    BY <1>1
  <2> QED
    BY <1>1, <1>3, <2>1 DEF Tells, m
<1> DEFINE g == [k \in 0..n |-> f[m + k] - f[m]]
<1>5. Tells(t, g)
  <2>1. g[0] = 0
    BY <1>1, <1>2
  <2>2. ASSUME NEW k \in 1..n PROVE g[k] = g[k - 1] + t[k].drops
    <3>1. /\ m + k \in 1..(m + n) /\ (m + k) - 1 = m + (k - 1)
          /\ k \in 0..n /\ k - 1 \in 0..n /\ m + (k - 1) \in 0..(m + n) /\ m \in 0..(m + n)
      BY <1>1
    <3>2. f[m + k] = f[m + (k - 1)] + t[k].drops
      BY <1>1, <1>3, <3>1
    <3>3. g[k] = f[m + k] - f[m] /\ g[k - 1] = f[m + (k - 1)] - f[m]
      BY <3>1
    <3>4. f[m + (k - 1)] \in Nat /\ f[m] \in Nat /\ t[k].drops \in Nat
      BY <1>1, <1>2, <3>1
    <3> HIDE DEF g
    <3> QED
      BY <3>2, <3>3, <3>4
  <2> HIDE DEF g
  <2> QED
    BY <2>1, <2>2 DEF Tells, n
<1>6. g[n] = f[m + n] - f[m] /\ f[m + n] \in Nat /\ f[m] \in Nat
  BY <1>1, <1>2
<1> HIDE DEF g
<1>7. Told(c) = f[m + n] /\ Told(s) = f[m] /\ Told(t) = g[n]
  BY <1>1, <1>2, <1>4, <1>5, ToldTells DEF m, n
<1> QED
  BY <1>6, <1>7

\* Events without drops tell of none.
LEMMA ToldNothing ==
  ASSUME NEW s, Counted(s), \A i \in 1..Len(s) : s[i].drops = 0
  PROVE  Told(s) = 0
<1> DEFINE f == [k \in 0..Len(s) |-> 0]
<1>1. Len(s) \in Nat /\ f[Len(s)] = 0
  BY DEF Counted
<1>2. Tells(s, f)
  BY <1>1 DEF Tells
<1> HIDE DEF f
<1> QED
  BY <1>1, <1>2, ToldTells

\* One event tells of its own drops.
LEMMA ToldOne ==
  ASSUME NEW e, e.drops \in Nat
  PROVE  Counted(<<e>>) /\ Told(<<e>>) = e.drops
<1> DEFINE one == <<e>>
           f == [k \in 0..1 |-> IF k = 0 THEN 0 ELSE e.drops]
<1>1. Len(one) = 1 /\ DOMAIN one = 1..1 /\ one[1] = e
  OBVIOUS
<1>2. f[0] = 0 /\ f[1] = e.drops
  OBVIOUS
<1> HIDE DEF f, one
<1>3. \A k \in 1..1 : k = 1 /\ k - 1 = 0
  OBVIOUS
<1>4. Tells(one, f)
  BY <1>1, <1>2, <1>3 DEF Tells
<1>5. Counted(one)
  BY <1>1, <1>3 DEF Counted
<1>6. Told(one) = f[1]
  BY <1>1, <1>4, <1>5, ToldTells
<1> QED
  BY <1>2, <1>5, <1>6 DEF one

-----------------------------------------------------------------------------
(* The caps on logs *)

\* No logs, no bytes.
LEMMA NoBytes == Bytes(<<>>) = 0
<1> DEFINE none == <<>>
           f == CHOOSE g : g = [k \in 0..Len(none) |-> IF k = 0 THEN 0 ELSE g[k - 1] + none[k]]
           h == [k \in 0..0 |-> 0]
<1>1. Bytes(none) = f[Len(none)]
  BY Zenon DEF Bytes
<1>2. Len(none) = 0 /\ \A k \in 0..0 : k = 0
  OBVIOUS
<1>3. h = [k \in 0..Len(none) |-> IF k = 0 THEN 0 ELSE h[k - 1] + none[k]]
  <2>1. \A k \in 0..Len(none) : h[k] = IF k = 0 THEN 0 ELSE h[k - 1] + none[k]
    BY <1>2
  <2>2. h = [k \in 0..Len(none) |-> h[k]]
    BY <1>2
  <2> HIDE DEF h, none
  <2> QED
    BY <2>1, <2>2, Zenon
<1>4. f = [k \in 0..Len(none) |-> IF k = 0 THEN 0 ELSE f[k - 1] + none[k]]
  <2> HIDE DEF h, none
  <2> QED
    BY <1>3, Zenon
<1> HIDE DEF f
<1>5. 0 \in 0..Len(none)
  BY <1>2
<1>6. f[0] = 0
  <2> HIDE DEF none
  <2>1. \A k \in 0..Len(none) : f[k] = IF k = 0 THEN 0 ELSE f[k - 1] + none[k]
    BY <1>4, Zenon
  <2> QED
    BY <1>5, <2>1
<1> QED
  BY <1>1, <1>2, <1>6

(* got is a prefix of logs within the caps, and shows whether it is all.   *)
Visible(got, logs) ==
  LET cut  == got # <<>> /\ got[Len(got)] = Marker
      kept == IF cut THEN SubSeq(got, 1, Len(got) - 1) ELSE got
  IN  /\ Len(kept) <= MaxLogs /\ Bytes(kept) <= MaxLogBytes
      /\ kept = SubSeq(logs, 1, Len(kept))
      /\ cut <=> Len(kept) < Len(logs)

(* q is p and one more element.                                            *)
Marked(q, p, x) == q # <<>> /\ q[Len(q)] = x /\ SubSeq(q, 1, Len(q) - 1) = p

\* One element put behind a sequence can be told from the others.
LEMMA LastMarked ==
  ASSUME NEW K, NEW p \in Seq(K), NEW x, x \in K
  PROVE  Marked(p \o <<x>>, p, x) /\ p \o <<x>> \in Seq(K)
<1> DEFINE q == p \o <<x>>
<1>1. q \in Seq(K) /\ Len(p) \in Nat /\ Len(q) = Len(p) + 1 /\ q[Len(p) + 1] = x
      /\ \A i \in 1..Len(p) : q[i] = p[i]
  OBVIOUS
<1> HIDE DEF q
<1>2. Len(q) - 1 = Len(p) /\ q # <<>>
  BY <1>1
<1>3. SubSeq(q, 1, Len(p)) = p
  BY <1>1
<1> QED
  BY <1>1, <1>2, <1>3 DEF Marked, q

\* A prefix, with a marker if it is not all, is visibly cut.
LEMMA PrefixVisible ==
  ASSUME NEW logs \in Seq(Nat), NEW k \in 0..Len(logs),
         k <= MaxLogs, Bytes(SubSeq(logs, 1, k)) <= MaxLogBytes
  PROVE  LET got == SubSeq(logs, 1, k) \o (IF k < Len(logs) THEN <<Marker>> ELSE <<>>)
         IN  got \in Seq(Nat \cup {Marker}) /\ Visible(got, logs)
<1> DEFINE p == SubSeq(logs, 1, k)
           n == Len(logs)
           got == p \o (IF k < n THEN <<Marker>> ELSE <<>>)
<1>1. /\ n \in Nat /\ k \in Nat /\ k <= n /\ p \in Seq(Nat) /\ Len(p) = k
      /\ \A i \in 1..k : p[i] \in Nat
  OBVIOUS
<1> SUFFICES got \in Seq(Nat \cup {Marker}) /\ Visible(got, logs)
  OBVIOUS
<1>2. CASE k < n
  <2>1. got = p \o <<Marker>>
    BY <1>2
  <2>2. p \in Seq(Nat \cup {Marker})
    BY <1>1
  <2> HIDE DEF p, n, got
  <2>3. Marked(got, p, Marker) /\ got \in Seq(Nat \cup {Marker})
    BY <2>1, <2>2, LastMarked
  <2>5. /\ Len(p) <= MaxLogs /\ Bytes(p) <= MaxLogBytes /\ p = SubSeq(logs, 1, Len(p)) /\ Len(p) < Len(logs)
    BY <1>1, <1>2 DEF p, n
  <2> QED
    BY <2>3, <2>5 DEF Visible, Marked
<1>3. CASE ~(k < n)
  <2>1. k = n
    BY <1>1, <1>3
  <2>2. p \o <<>> = p
    BY <1>1
  <2>3. got = p
    BY <1>3, <2>2
  <2> HIDE DEF got
  <2>4. \A i \in 1..k : p[i] # Marker
    BY <1>1, CapsAssumption DEF CapsAssumption
  <2>5. /\ Len(p) <= MaxLogs /\ Bytes(p) <= MaxLogBytes /\ p = SubSeq(logs, 1, Len(p))
        /\ Len(p) = Len(logs) /\ p \in Seq(Nat \cup {Marker})
    BY <1>1, <2>1
  <2>6. ~(p # <<>> /\ p[Len(p)] = Marker)
    <3>1. SUFFICES ASSUME p # <<>> PROVE p[Len(p)] # Marker
      OBVIOUS
    <3>2. k \in 1..k
      <4>1. k # 0
        BY <1>1, <3>1, EmptySeq
      <4> QED
        BY <1>1, <4>1
    <3> QED
      BY <1>1, <2>4, <3>2
  <2>7. ~(Len(p) < Len(logs))
    BY <1>1, <2>1
  <2> HIDE DEF p
  <2> QED
    BY <2>3, <2>5, <2>6, <2>7 DEF Visible
<1> QED
  BY <1>2, <1>3

\* capLogs keeps a prefix within the caps and shows whether it is all.
LEMMA CapLogs ==
  ASSUME NEW logs \in Seq(Nat)
  PROVE  capLogs(logs) \in Seq(Nat \cup {Marker}) /\ Visible(capLogs(logs), logs)
<1> DEFINE fits == {n \in 0..Len(logs) : n <= MaxLogs /\ Bytes(SubSeq(logs, 1, n)) <= MaxLogBytes}
           kept == CHOOSE n \in fits : \A m \in fits : m <= n
<1>1. 0 \in fits
  <2>1. SubSeq(logs, 1, 0) = <<>> /\ 0 \in 0..Len(logs)
    OBVIOUS
  <2>2. Bytes(SubSeq(logs, 1, 0)) = 0
    BY <2>1, NoBytes
  <2>3. 0 <= MaxLogs /\ 0 <= MaxLogBytes
    BY CapsAssumption DEF CapsAssumption
  <2>4. Bytes(SubSeq(logs, 1, 0)) <= MaxLogBytes
    BY <2>2, <2>3
  <2> QED
    BY <2>1, <2>3, <2>4
<1>2. Len(logs) \in Nat /\ fits \subseteq 0..Len(logs)
  OBVIOUS
<1>3. \A n \in fits : n <= MaxLogs /\ Bytes(SubSeq(logs, 1, n)) <= MaxLogBytes
  OBVIOUS
<1>4. capLogs(logs) = SubSeq(logs, 1, kept) \o (IF kept < Len(logs) THEN <<Marker>> ELSE <<>>)
  BY DEF capLogs
<1> HIDE DEF fits
<1>5. kept \in fits
  BY <1>1, <1>2, LargestExists
<1> HIDE DEF kept
<1>6. kept \in 0..Len(logs) /\ kept <= MaxLogs /\ Bytes(SubSeq(logs, 1, kept)) <= MaxLogBytes
  BY <1>2, <1>3, <1>5
<1> QED
  BY <1>4, <1>6, PrefixVisible

-----------------------------------------------------------------------------
(* The handlers *)

\* A fresh entry, and what a trace or its age make of one.
LEMMA EntryFields ==
  /\ FreshEntry \in CorEntries
  /\ \A e \in CorEntries :
       /\ e # NoEntry /\ e.trace \in BOOLEAN
       /\ [e EXCEPT !.trace = TRUE] \in CorEntries /\ [e EXCEPT !.trace = TRUE].trace
       /\ [e EXCEPT !.old = TRUE] \in CorEntries /\ [e EXCEPT !.old = TRUE].trace = e.trace
BY UsageAssumption DEF FreshEntry, CorEntries, UsageAssumption

\* A handler that only moves on.
LEMMA ServeProxyHandled ==
  ASSUME HandlerInv, NEW r \in Proxied, ServeProxy(r)
  PROVE  HandlerInv'
<1>1. /\ rq' = [rq EXCEPT ![r].at = "forward"] /\ rq[r].at = "new"
      /\ cor' = [cor EXCEPT ![r] = IF @ = NoEntry THEN FreshEntry ELSE @]
      /\ seen' = seen /\ swept' = swept
  BY DEF ServeProxy, RqMove, RqAt
<1>2. rq' \in [Proxied -> RqType]
  BY <1>1 DEF HandlerInv, RqType
<1>3. cor' \in [Proxied -> {NoEntry} \cup CorEntries]
  BY <1>1, EntryFields DEF HandlerInv
<1>4. ASSUME NEW q \in Proxied, q # r PROVE HandlerOK(q)'
  <2>1. rq'[q] = rq[q] /\ cor'[q] = cor[q]
    BY <1>1, <1>4 DEF HandlerInv
  <2> QED
    BY <1>1, <2>1 DEF HandlerInv, HandlerOK, RqAt
<1>5. HandlerOK(r)'
  <2>1. rq'[r].at = "forward" /\ rq'[r].seized = rq[r].seized
    BY <1>1 DEF HandlerInv, RqType
  <2>2. r \notin seen /\ (rq[r].seized # NoEntry => r \in swept)
    BY <1>1 DEF HandlerInv, HandlerOK, RqAt
  <2> QED
    BY <1>1, <2>1, <2>2 DEF HandlerOK, RqAt
<1> QED
  BY <1>1, <1>2, <1>3, <1>4, <1>5 DEF HandlerInv

\* A forwarded request waits for its trace if it has an entry.
LEMMA ForwardedHandled ==
  ASSUME HandlerInv, NEW r \in Proxied, Forwarded(r)
  PROVE  HandlerInv'
<1> DEFINE to == IF cor[r] = NoEntry THEN "emit" ELSE "wait"
<1>1. /\ rq' = [rq EXCEPT ![r].at = to] /\ rq[r].at = "forward"
      /\ cor' = cor /\ seen' = seen /\ swept' = swept
  BY DEF Forwarded, RqMove, RqAt
<1>2. rq' \in [Proxied -> RqType]
  BY <1>1 DEF HandlerInv, RqType
<1>3. ASSUME NEW q \in Proxied, q # r PROVE HandlerOK(q)'
  <2>1. rq'[q] = rq[q]
    BY <1>1, <1>3 DEF HandlerInv
  <2> QED
    BY <1>1, <2>1 DEF HandlerInv, HandlerOK, RqAt
<1>4. HandlerOK(r)'
  <2>1. rq'[r].at = to /\ rq'[r].seized = rq[r].seized
    BY <1>1 DEF HandlerInv, RqType
  <2>2. /\ rq[r].seized # NoEntry => r \in swept
        /\ r \in seen \ swept => cor[r] # NoEntry /\ cor[r].trace
    BY <1>1 DEF HandlerInv, HandlerOK, RqAt
  <2>3. CASE cor[r] = NoEntry
    BY <1>1, <2>1, <2>2, <2>3 DEF HandlerOK, RqAt
  <2>4. CASE cor[r] # NoEntry
    BY <1>1, <2>1, <2>2, <2>4 DEF HandlerOK, RqAt
  <2> QED
    BY <2>3, <2>4
<1> QED
  BY <1>1, <1>2, <1>3, <1>4 DEF HandlerInv

\* A handler that stops waiting takes the trace its entry has.
LEMMA WaitOverHandled ==
  ASSUME HandlerInv, NEW r \in Proxied, WaitOver(r)
  PROVE  HandlerInv'
<1> DEFINE held == IF rq[r].seized = NoEntry THEN cor[r] ELSE rq[r].seized
<1>1. /\ rq' = [rq EXCEPT ![r].at = "emit", ![r].traced = held.trace, ![r].seized = NoEntry]
      /\ rq[r].at = "wait"
      /\ cor' = [cor EXCEPT ![r] = NoEntry] /\ seen' = seen /\ swept' = swept
  BY DEF WaitOver, RqAt
<1>2. held \in CorEntries
  BY <1>1 DEF HandlerInv, HandlerOK, RqAt, RqType
<1>3. held.trace \in BOOLEAN
  BY <1>2, EntryFields
<1>4. r \in seen \ swept => held.trace
  BY <1>1 DEF HandlerInv, HandlerOK, RqAt
<1> HIDE DEF held
<1>5. rq' \in [Proxied -> RqType]
  <2> DEFINE t == held.trace
             u == [[[rq[r] EXCEPT !.at = "emit"] EXCEPT !.traced = t] EXCEPT !.seized = NoEntry]
  <2>1. rq[r] \in RqType /\ rq \in [Proxied -> RqType]
    BY DEF HandlerInv
  <2>2. t \in BOOLEAN
    BY <1>3
  <2>3. rq' = [rq EXCEPT ![r] = u]
    BY <1>1, <2>1
  <2> HIDE DEF t
  <2>4. u \in RqType
    BY <2>1, <2>2 DEF RqType
  <2> HIDE DEF u
  <2> QED
    BY <2>1, <2>3, <2>4
<1>6. cor' \in [Proxied -> {NoEntry} \cup CorEntries]
  BY <1>1 DEF HandlerInv
<1>7. ASSUME NEW q \in Proxied, q # r PROVE HandlerOK(q)'
  <2>1. rq'[q] = rq[q] /\ cor'[q] = cor[q]
    BY <1>1, <1>7 DEF HandlerInv
  <2> QED
    BY <1>1, <2>1 DEF HandlerInv, HandlerOK, RqAt
<1>8. HandlerOK(r)'
  <2>1. rq'[r].at = "emit" /\ rq'[r].seized = NoEntry /\ rq'[r].traced = held.trace
    BY <1>1 DEF HandlerInv, RqType
  <2> QED
    BY <1>1, <1>4, <2>1 DEF HandlerOK, RqAt
<1> QED
  BY <1>1, <1>5, <1>6, <1>7, <1>8 DEF HandlerInv

\* A handler emits with the trace it took.
LEMMA EmitHandled ==
  ASSUME HandlerInv, NEW r \in Proxied, EmitUsage(r)
  PROVE  HandlerInv'
<1>1. /\ rq' = [rq EXCEPT ![r].at = "done"] /\ rq[r].at = "emit"
      /\ cor' = cor /\ seen' = seen /\ swept' = swept
  BY DEF EmitUsage, RqMove, RqAt
<1>2. rq' \in [Proxied -> RqType]
  BY <1>1 DEF HandlerInv, RqType
<1>3. ASSUME NEW q \in Proxied, q # r PROVE HandlerOK(q)'
  <2>1. rq'[q] = rq[q]
    BY <1>1, <1>3 DEF HandlerInv
  <2> QED
    BY <1>1, <2>1 DEF HandlerInv, HandlerOK, RqAt
<1>4. HandlerOK(r)'
  <2>1. rq'[r].at = "done" /\ rq'[r].seized = rq[r].seized /\ rq'[r].traced = rq[r].traced
    BY <1>1 DEF HandlerInv, RqType
  <2>2. (rq[r].seized # NoEntry => r \in swept) /\ (r \in seen \ swept => rq[r].traced)
    BY <1>1 DEF HandlerInv, HandlerOK
  <2> QED
    BY <1>1, <2>1, <2>2 DEF HandlerOK, RqAt
<1> QED
  BY <1>1, <1>2, <1>3, <1>4 DEF HandlerInv

\* A trace that comes reaches the entry the handler waits on.
LEMMA DeliverHandled ==
  ASSUME HandlerInv, NEW r \in Proxied, Deliver(r)
  PROVE  HandlerInv'
<1> DEFINE base == IF cor[r] = NoEntry THEN FreshEntry ELSE cor[r]
           kept == [base EXCEPT !.trace = TRUE]
<1>1. /\ cor' = [cor EXCEPT ![r] = kept] /\ rq' = rq /\ swept' = swept /\ rq[r].at # "new"
      /\ seen' = IF rq[r].at \in {"forward", "wait"} THEN seen \cup {r} ELSE seen
  BY DEF Deliver, RqAt
<1>2. base \in CorEntries
  BY EntryFields DEF HandlerInv
<1>3. kept \in CorEntries /\ kept # NoEntry /\ kept.trace
  BY <1>2, EntryFields
<1> HIDE DEF kept
<1>4. /\ cor' \in [Proxied -> {NoEntry} \cup CorEntries] /\ seen' \subseteq Proxied
      /\ cor'[r] = kept /\ \A q \in Proxied : q # r => cor'[q] = cor[q] /\ (q \in seen' <=> q \in seen)
  BY <1>1, <1>3 DEF HandlerInv
<1>5. ASSUME NEW q \in Proxied, q # r PROVE HandlerOK(q)'
  <2>1. cor'[q] = cor[q] /\ (q \in seen' <=> q \in seen)
    BY <1>4, <1>5
  <2> QED
    BY <1>1, <2>1 DEF HandlerInv, HandlerOK, RqAt
<1>6. HandlerOK(r)'
  <2>1. rq[r].at \in {"emit", "done"} => (r \in seen' <=> r \in seen)
    BY <1>1
  <2>2. HandlerOK(r) /\ rq[r] = rq'[r]
    BY <1>1 DEF HandlerInv
  <2> QED
    BY <1>1, <1>3, <1>4, <2>1, <2>2 DEF HandlerOK, RqAt
<1> QED
  BY <1>1, <1>4, <1>5, <1>6 DEF HandlerInv

\* An entry grows old with its trace.
LEMMA OutliveHandled ==
  ASSUME HandlerInv, NEW r \in Proxied, Outlive(r)
  PROVE  HandlerInv'
<1> DEFINE kept == [cor[r] EXCEPT !.old = TRUE]
<1>1. /\ cor' = [cor EXCEPT ![r] = kept] /\ rq' = rq /\ swept' = swept /\ seen' = seen
      /\ cor[r] # NoEntry
  BY DEF Outlive
<1>2. cor[r] \in CorEntries
  BY <1>1 DEF HandlerInv
<1>3. kept \in CorEntries /\ kept # NoEntry /\ kept.trace = cor[r].trace
  BY <1>2, EntryFields
<1> HIDE DEF kept
<1>4. /\ cor' \in [Proxied -> {NoEntry} \cup CorEntries]
      /\ cor'[r] = kept /\ \A q \in Proxied : q # r => cor'[q] = cor[q]
  BY <1>1, <1>3 DEF HandlerInv
<1>5. ASSUME NEW q \in Proxied, q # r PROVE HandlerOK(q)'
  <2>1. cor'[q] = cor[q]
    BY <1>4, <1>5
  <2> QED
    BY <1>1, <2>1 DEF HandlerInv, HandlerOK, RqAt
<1>6. HandlerOK(r)'
  <2>1. HandlerOK(r)
    BY DEF HandlerInv
  <2> QED
    BY <1>1, <1>3, <1>4, <2>1 DEF HandlerOK, RqAt
<1> QED
  BY <1>1, <1>4, <1>5, <1>6 DEF HandlerInv

\* The janitor takes old entries out of the map, not out of hands.
LEMMA JanitorHandled ==
  ASSUME HandlerInv, Janitor
  PROVE  HandlerInv'
<1> DEFINE old == {r \in Proxied : cor[r] # NoEntry /\ cor[r].old}
           Held(r) == IF r \in old /\ RqAt(r, "wait") /\ rq[r].seized = NoEntry
                        THEN [rq[r] EXCEPT !.seized = cor[r]] ELSE rq[r]
<1>1. /\ cor' = [r \in Proxied |-> IF r \in old THEN NoEntry ELSE cor[r]]
      /\ rq' = [r \in Proxied |-> Held(r)]
      /\ swept' = swept \cup old /\ seen' = seen
  BY DEF Janitor
<1>2. ASSUME NEW r \in Proxied
      PROVE  /\ Held(r) \in RqType /\ Held(r).at = rq[r].at /\ Held(r).traced = rq[r].traced
             /\ Held(r).seized # rq[r].seized => r \in old
             /\ r \notin old => Held(r) = rq[r]
             /\ r \in old /\ rq[r].at = "wait" => Held(r).seized # NoEntry
  <2>1. rq[r] \in RqType /\ cor[r] \in {NoEntry} \cup CorEntries
    BY DEF HandlerInv
  <2>2. CASE r \in old /\ RqAt(r, "wait") /\ rq[r].seized = NoEntry
    <3>1. Held(r) = [rq[r] EXCEPT !.seized = cor[r]] /\ cor[r] # NoEntry
      BY <2>2
    <3> HIDE DEF Held
    <3> QED
      BY <2>1, <2>2, <3>1 DEF RqType
  <2>3. CASE ~(r \in old /\ RqAt(r, "wait") /\ rq[r].seized = NoEntry)
    <3>1. Held(r) = rq[r]
      BY <2>3
    <3> HIDE DEF Held, old
    <3> QED
      BY <2>1, <2>3, <3>1 DEF RqAt
  <2> QED
    BY <2>2, <2>3
<1> HIDE DEF Held, old
<1>3. cor' \in [Proxied -> {NoEntry} \cup CorEntries] /\ rq' \in [Proxied -> RqType]
  BY <1>1, <1>2 DEF HandlerInv
<1>4. ASSUME NEW r \in Proxied PROVE HandlerOK(r)'
  <2>1. rq'[r] = Held(r) /\ cor'[r] = IF r \in old THEN NoEntry ELSE cor[r]
    BY <1>1
  <2>2. HandlerOK(r)
    BY DEF HandlerInv
  <2>3. CASE r \in old
    <3>1. r \in swept' /\ cor'[r] = NoEntry /\ rq'[r].at = rq[r].at
      BY <1>1, <1>2, <2>1, <2>3
    <3>2. rq'[r].at = "wait" => rq'[r].seized # NoEntry
      BY <1>2, <2>1, <2>3, <3>1
    <3>3. rq[r].at = "new" => r \notin seen'
      BY <1>1, <2>2 DEF HandlerOK, RqAt
    <3> QED
      BY <3>1, <3>2, <3>3 DEF HandlerOK, RqAt
  <2>4. CASE r \notin old
    <3>1. rq'[r] = rq[r] /\ cor'[r] = cor[r] /\ (r \in swept' <=> r \in swept) /\ seen' = seen
      BY <1>1, <1>2, <2>1, <2>4
    <3> QED
      BY <2>2, <3>1 DEF HandlerOK, RqAt
  <2> QED
    BY <2>3, <2>4
<1> QED
  BY <1>1, <1>3, <1>4 DEF HandlerInv

\* The emitter, the hub and the process leave the handlers alone.
LEMMA EmitterAside ==
  ASSUME HandlerInv, Emitting \/ Ingest \/ IngestBreaks \/ StopShim \/ UNCHANGED usageVars
  PROVE  HandlerInv'
<1>1. UNCHANGED <<rq, cor, seen, swept>>
  BY DEF Emitting, TakeLine, FlushTick, IngestFails, SendBatch, RecvAck, EmitterStops, Ingest,
         IngestBreaks, StopShim, requestVars, usageVars
<1> QED
  BY <1>1 DEF HandlerInv, HandlerOK, RqAt

\* Every step of the usage log keeps the handlers' part of the invariant.
LEMMA HandlerStep ==
  ASSUME HandlerInv, [UsageNext]_usageVars
  PROVE  HandlerInv'
BY ServeProxyHandled, ForwardedHandled, WaitOverHandled, EmitHandled, DeliverHandled,
   OutliveHandled, JanitorHandled, EmitterAside DEF UsageNext, Proxying

-----------------------------------------------------------------------------
(* Events and batches *)

\* The fields of an event, and an event with other drops.
LEMMA EventFields ==
  /\ Queued \subseteq Emitted /\ Emitted \subseteq UsageEvents
  /\ \A e \in UsageEvents : e.id \in Proxied /\ e.n \in Nat /\ e.drops \in Nat /\ Raw(e) \in Seq(Nat)
  /\ \A e \in Queued : e.drops = 0
  /\ \A e \in Emitted, d \in Nat :
       LET f == [e EXCEPT !.drops = d]
       IN  f \in Emitted /\ f.drops = d /\ SameEvent(f, e)
<1>1. Queued \subseteq Emitted /\ Emitted \subseteq UsageEvents /\ \A e \in Queued : e.drops = 0
  BY DEF Queued, Emitted
<1>2. ASSUME NEW e \in UsageEvents
      PROVE  e.id \in Proxied /\ e.n \in Nat /\ e.drops \in Nat /\ Raw(e) \in Seq(Nat)
  <2>1. e.id \in Proxied /\ e.n \in Nat /\ e.drops \in Nat
    BY DEF UsageEvents
  <2>2. LogsOf[e.id] \in Seq(Nat) /\ <<>> \in Seq(Nat)
    BY <2>1, UsageAssumption DEF UsageAssumption
  <2> QED
    BY <2>1, <2>2 DEF Raw
<1>3. ASSUME NEW e \in Emitted, NEW d \in Nat, NEW f, f = [e EXCEPT !.drops = d]
      PROVE  f \in Emitted /\ f.drops = d /\ SameEvent(f, e)
  <2>1. e \in UsageEvents /\ e.logs = Raw(e)
    BY DEF Emitted
  <2>2. /\ f \in UsageEvents /\ f.drops = d /\ f.id = e.id /\ f.n = e.n
        /\ f.logs = e.logs /\ f.traced = e.traced
    BY <1>3, <2>1 DEF UsageEvents
  <2>3. Raw(f) = Raw(e)
    BY <2>2 DEF Raw
  <2> QED
    BY <2>1, <2>2, <2>3 DEF Emitted, SameEvent
<1> QED
  BY <1>1, <1>2, <1>3

\* Sequences of queued events are sequences of events, and count.
LEMMA EventSeqs ==
  /\ \A s \in Seq(Queued) : s \in Seq(Emitted) /\ s \in Seq(UsageEvents)
  /\ \A s \in Seq(Emitted) : s \in Seq(UsageEvents)
  /\ \A s \in Seq(UsageEvents) : Counted(s)
<1>1. ASSUME NEW s \in Seq(Emitted) PROVE s \in Seq(UsageEvents)
  BY EventFields
<1>2. ASSUME NEW s \in Seq(Queued) PROVE s \in Seq(Emitted)
  BY EventFields
<1>3. ASSUME NEW s \in Seq(UsageEvents) PROVE Counted(s)
  <2>1. Len(s) \in Nat /\ DOMAIN s = 1..Len(s) /\ \A i \in 1..Len(s) : s[i] \in UsageEvents
    OBVIOUS
  <2> QED
    BY <2>1, EventFields DEF Counted
<1> QED
  BY <1>1, <1>2, <1>3

\* Finished requests are finitely many.
LEMMA FinishedFinite ==
  /\ IsFiniteSet(Finished) /\ Finished \subseteq Proxied
  /\ \A r \in Proxied \ Finished :
       Cardinality(Finished) \in Nat /\ Cardinality(Finished) + 1 <= Cardinality(Proxied)
<1>1. IsFiniteSet(Proxied) /\ Finished \subseteq Proxied
  BY UsageAssumption DEF UsageAssumption, Finished
<1>2. IsFiniteSet(Finished)
  BY <1>1, FS_Subset
<1>3. ASSUME NEW r \in Proxied \ Finished
      PROVE  Cardinality(Finished) \in Nat /\ Cardinality(Finished) + 1 <= Cardinality(Proxied)
  <2>1. Finished \cup {r} \subseteq Proxied
    BY <1>1
  <2>2. Cardinality(Finished \cup {r}) <= Cardinality(Proxied)
    BY <1>1, <2>1, FS_Subset
  <2>3. Cardinality(Finished \cup {r}) = Cardinality(Finished) + 1 /\ Cardinality(Finished) \in Nat
    BY <1>2, FS_AddElement, FS_CardinalityType
  <2> QED
    BY <2>2, <2>3
<1> QED
  BY <1>1, <1>2, <1>3

\* The event of a request that finishes is a new one, without drops.
LEMMA EventNew ==
  ASSUME HandlerInv, NEW r \in Proxied, RqAt(r, "emit")
  PROVE  /\ Event(r) \in Queued /\ Event(r).id = r /\ Event(r).n = Cardinality(Finished) + 1
         /\ r \notin Finished
<1> DEFINE e == Event(r)
<1>1. r \notin Finished
  BY DEF Finished, RqAt
<1>2. Cardinality(Finished) \in Nat /\ Cardinality(Finished) + 1 <= Cardinality(Proxied)
  BY <1>1, FinishedFinite
<1>3. Cardinality(Proxied) \in Nat /\ Cardinality(Finished) + 1 \in 1..Cardinality(Proxied)
  <2>1. Cardinality(Proxied) \in Nat
    BY FS_CardinalityType, UsageAssumption DEF UsageAssumption
  <2> QED
    BY <1>2, <2>1
<1>4. rq[r].traced \in BOOLEAN
  BY DEF HandlerInv, RqType
<1>5. LogsOf[r] \in Seq(Nat)
  BY UsageAssumption DEF UsageAssumption
<1>6. /\ e.id = r /\ e.n = Cardinality(Finished) + 1 /\ e.drops = 0 /\ e.traced = rq[r].traced
      /\ e.logs = IF rq[r].traced THEN LogsOf[r] ELSE <<>>
  BY DEF Event, Finished
<1>7. e.logs \in Seq(Nat \cup {Marker}) /\ e.logs = Raw(e)
  <2>1. LogsOf[r] \in Seq(Nat \cup {Marker}) /\ <<>> \in Seq(Nat \cup {Marker})
    BY <1>5
  <2> QED
    <3> HIDE DEF e
    <3> QED
      BY <1>6, <2>1 DEF Raw
<1>8. e \in UsageEvents
  <2> DEFINE n == Cardinality(Finished) + 1
             logs == e.logs
             traced == rq[r].traced
  <2>1. n \in 1..Cardinality(Proxied) /\ logs \in Seq(Nat \cup {Marker}) /\ traced \in BOOLEAN
    BY <1>3, <1>4, <1>7
  <2>2. e = [id |-> r, traced |-> traced, logs |-> logs, drops |-> 0, n |-> n]
    BY DEF Event, Finished
  <2> HIDE DEF n, logs, traced, e
  <2> QED
    BY <2>1, <2>2 DEF UsageEvents
<1> HIDE DEF e
<1> QED
  BY <1>1, <1>6, <1>7, <1>8 DEF Queued, Emitted, e

\* The batch that is sent: the events pending, and the drops on the first.
LEMMA BatchTells ==
  ASSUME NEW p \in Seq(Queued), p # <<>>, NEW d \in Nat
  PROVE  LET b == [p EXCEPT ![1].drops = d]
         IN  b \in Seq(Emitted) /\ Len(b) = Len(p) /\ Joins(b, p, <<>>) /\ Told(b) = d
<1> DEFINE b == [p EXCEPT ![1].drops = d]
           first == [p[1] EXCEPT !.drops = d]
<1>1. Len(p) \in Nat /\ DOMAIN p = 1..Len(p) /\ 1 \in 1..Len(p) /\ \A i \in 1..Len(p) : p[i] \in Queued
  OBVIOUS
<1>2. first \in Emitted /\ first.drops = d /\ SameEvent(first, p[1])
  BY <1>1, EventFields
<1> HIDE DEF first
<1>3. Len(b) = Len(p) /\ DOMAIN b = 1..Len(p) /\ b[1] = first /\ \A i \in 1..Len(p) : i # 1 => b[i] = p[i]
  BY <1>1 DEF first
<1>4. p \in Seq(Emitted)
  BY EventSeqs
<1>5. b \in Seq(Emitted)
  BY <1>2, <1>4 DEF first
<1> HIDE DEF b
<1>6. \A a : SameEvent(a, a)
  BY DEF SameEvent
<1>7. Joins(b, p, <<>>)
  <2>1. \A i \in 1..Len(p) : SameEvent(b[i], p[i])
    BY <1>2, <1>3, <1>6
  <2> QED
    BY <1>3, <1>4, <1>5, <2>1, AlikeJoins
<1>8. Told(b) = d
  <2> DEFINE one == <<first>>
             rest == Tail(b)
  <2>1. b # <<>> /\ Head(b) = first
    BY <1>1, <1>3, <1>5
  <2>2. /\ rest \in Seq(Emitted) /\ Len(rest) = Len(b) - 1
        /\ \A i \in 1..Len(rest) : rest[i] = b[i + 1]
    BY <1>5, <2>1
  <2>3. Counted(b) /\ Counted(rest) /\ Counted(one) /\ Told(one) = d
    BY <1>2, <1>5, <2>2, EventSeqs, ToldOne
  <2>4. \A i \in 1..Len(rest) : rest[i].drops = 0
    <3>1. ASSUME NEW i \in 1..Len(rest) PROVE rest[i].drops = 0
      <4>1. i + 1 \in 1..Len(p) /\ i + 1 # 1
        BY <1>1, <1>3, <2>2
      <4>2. rest[i] = p[i + 1] /\ p[i + 1] \in Queued
        BY <1>1, <1>3, <2>2, <4>1
      <4> HIDE DEF rest
      <4> QED
        BY <4>2, EventFields
    <3> QED
      BY <3>1
  <2>5. Len(one) = 1 /\ one[1] = first
    OBVIOUS
  <2> HIDE DEF one, rest
  <2>6. Told(rest) = 0
    BY <2>3, <2>4, ToldNothing
  <2>7. DropsJoin(b, one, rest)
    <3>1. Len(b) = Len(one) + Len(rest)
      BY <1>1, <1>3, <2>2, <2>5
    <3>2. \A i \in 1..Len(one) : b[i].drops = one[i].drops
      BY <1>3, <2>5
    <3>3. \A i \in 1..Len(rest) : b[Len(one) + i].drops = rest[i].drops
      <4>1. ASSUME NEW i \in 1..Len(rest) PROVE b[Len(one) + i].drops = rest[i].drops
        <5>1. Len(one) + i = i + 1
          BY <1>1, <1>3, <2>2, <2>5
        <5> QED
          BY <2>2, <5>1
      <4> QED
        BY <4>1
    <3> QED
      BY <3>1, <3>2, <3>3 DEF DropsJoin
  <2>8. Told(b) = Told(one) + Told(rest)
    BY <2>3, <2>7, ToldJoins
  <2> QED
    BY <2>3, <2>6, <2>8
<1> QED
  BY <1>3, <1>5, <1>7, <1>8 DEF b

\* What the sink writes of a batch: the first n events, with capped logs.
LEMMA WrittenTells ==
  ASSUME NEW b \in Seq(Emitted), NEW n \in 0..Len(b)
  PROVE  LET w == Written(processBatch(b), n)
             rest == SubSeq(b, n + 1, Len(b))
         IN  /\ w \in Seq(UsageEvents) /\ rest \in Seq(Emitted)
             /\ \A i \in DOMAIN w : Capped(w[i])
             /\ Joins(b, w, rest) /\ Told(b) = Told(w) + Told(rest)
<1> DEFINE out(i) == [b[i] EXCEPT !.logs = capLogs(@)]
           w == Written(processBatch(b), n)
           rest == SubSeq(b, n + 1, Len(b))
           m == Len(b)
<1>1. m \in Nat /\ n \in Nat /\ n <= m /\ DOMAIN b = 1..m /\ \A i \in 1..m : b[i] \in Emitted
  OBVIOUS
<1>2. ASSUME NEW i \in 1..m
      PROVE  /\ out(i) \in UsageEvents /\ SameEvent(out(i), b[i]) /\ out(i).drops = b[i].drops
             /\ Capped(out(i))
  <2> DEFINE e == b[i]
             f == out(i)
             c == capLogs(e.logs)
  <2>1. e \in UsageEvents /\ e.logs = Raw(e)
    BY <1>1 DEF Emitted
  <2>2. c \in Seq(Nat \cup {Marker})
    BY <2>1, EventFields, CapLogs
  <2>3. f = [e EXCEPT !.logs = c]
    OBVIOUS
  <2> HIDE DEF c, e, f
  <2>4. /\ f \in UsageEvents /\ f.logs = c /\ f.id = e.id /\ f.n = e.n
        /\ f.drops = e.drops /\ f.traced = e.traced
    BY <2>1, <2>2, <2>3 DEF UsageEvents
  <2>5. Raw(f) = Raw(e)
    BY <2>4 DEF Raw
  <2>6. Capped(f) /\ SameEvent(f, e)
    BY <2>1, <2>4, <2>5 DEF Capped, SameEvent, c
  <2> QED
    BY <2>4, <2>6 DEF e, f
<1> DEFINE all == [i \in 1..m |-> out(i)]
<1>3. processBatch(b) = all
  BY <1>1 DEF processBatch
<1> HIDE DEF out
<1>4. all \in Seq(UsageEvents) /\ Len(all) = m /\ \A i \in 1..m : all[i] = out(i)
  BY <1>1, <1>2
<1> HIDE DEF all, m
<1>5. w = SubSeq(all, 1, n)
  BY <1>3 DEF Written
<1> HIDE DEF w
<1>6. w \in Seq(UsageEvents) /\ Len(w) = n /\ DOMAIN w = 1..n /\ \A i \in 1..n : w[i] = out(i)
  BY <1>1, <1>4, <1>5
<1>7. rest \in Seq(Emitted) /\ Len(rest) = m - n /\ \A i \in 1..(m - n) : rest[i] = b[n + i]
  BY SuffixElements DEF m
<1> HIDE DEF rest
<1>8. \A i \in DOMAIN w : Capped(w[i])
  BY <1>1, <1>2, <1>6
<1>9. b \in Seq(UsageEvents) /\ Len(b) = m
  BY EventSeqs DEF m
<1>10. Joins(b, w, rest)
  <2>1. \A i \in 1..n : SameEvent(w[i], b[i])
    BY <1>1, <1>2, <1>6
  <2> QED
    BY <1>6, <1>9, <2>1, SplitJoins DEF rest, m
<1>11. Told(b) = Told(w) + Told(rest)
  <2>1. Counted(b) /\ Counted(w) /\ Counted(rest)
    BY <1>6, <1>7, <1>9, EventSeqs
  <2>2. \A i \in 1..n : b[i].drops = w[i].drops
    BY <1>1, <1>2, <1>6
  <2>3. Len(b) = Len(w) + Len(rest)
    BY <1>1, <1>6, <1>7, <1>9
  <2>4. DropsJoin(b, w, rest)
    BY <1>1, <1>6, <1>7, <2>2, <2>3 DEF DropsJoin
  <2> QED
    BY <2>1, <2>4, ToldJoins
<1> QED
  BY <1>6, <1>7, <1>8, <1>10, <1>11 DEF w, rest, m

\* Concatenation joins the drops.
LEMMA ConcatDrops ==
  ASSUME NEW K, NEW s \in Seq(K), NEW t \in Seq(K)
  PROVE  DropsJoin(s \o t, s, t)
<1> DEFINE c == s \o t
<1>1. /\ Len(c) = Len(s) + Len(t)
      /\ \A i \in 1..Len(s) : c[i] = s[i]
      /\ \A i \in 1..Len(t) : c[Len(s) + i] = t[i]
  OBVIOUS
<1> HIDE DEF c
<1>2. DropsJoin(c, s, t)
  BY <1>1 DEF DropsJoin
<1> QED
  BY <1>2 DEF c

\* The drops of two sequences of events, of one event more, and of none.
LEMMA EventsTell ==
  /\ \A s \in Seq(UsageEvents) : Told(s) \in Nat
  /\ \A s, t \in Seq(UsageEvents) : Told(s \o t) = Told(s) + Told(t)
  /\ \A s \in Seq(UsageEvents), e \in UsageEvents : Told(Append(s, e)) = Told(s) + e.drops
  /\ \A s \in Seq(Queued) : Told(s) = 0
  /\ Told(<<>>) = 0
<1>1. ASSUME NEW s \in Seq(UsageEvents) PROVE Told(s) \in Nat
  BY EventSeqs, ToldTells
<1>2. ASSUME NEW s \in Seq(UsageEvents), NEW t \in Seq(UsageEvents)
      PROVE  Told(s \o t) = Told(s) + Told(t)
  <2> DEFINE c == s \o t
  <2>1. c \in Seq(UsageEvents)
    OBVIOUS
  <2>2. DropsJoin(c, s, t)
    BY ConcatDrops
  <2> HIDE DEF c
  <2>3. Told(c) = Told(s) + Told(t)
    BY <2>1, <2>2, EventSeqs, ToldJoins
  <2> QED
    BY <2>3 DEF c
<1>3. ASSUME NEW s \in Seq(UsageEvents), NEW e \in UsageEvents
      PROVE  Told(Append(s, e)) = Told(s) + e.drops
  <2> DEFINE one == <<e>>
  <2>1. one \in Seq(UsageEvents) /\ Append(s, e) = s \o one
    OBVIOUS
  <2>2. Told(one) = e.drops
    BY EventFields, ToldOne
  <2> HIDE DEF one
  <2> QED
    BY <1>2, <2>1, <2>2
<1>4. ASSUME NEW s \in Seq(Queued) PROVE Told(s) = 0
  <2>1. Counted(s) /\ \A i \in 1..Len(s) : s[i].drops = 0
    BY EventSeqs, EventFields
  <2> QED
    BY <2>1, ToldNothing
<1>5. <<>> \in Seq(Queued)
  OBVIOUS
<1> QED
  BY <1>1, <1>2, <1>3, <1>4, <1>5

-----------------------------------------------------------------------------
(* The emitter and the hub *)

\* A finished request's event reaches the pod log or the channel, or counts
\* as a drop.
LEMMA EmitAccounts ==
  ASSUME HandlerInv, EmitterInv, NEW r \in Proxied, EmitUsage(r)
  PROVE  EmitterInv'
<1> DEFINE e == Event(r)
<1>1. /\ RqAt(r, "emit") /\ rq' = [rq EXCEPT ![r].at = "done"]
      /\ UNCHANGED <<toHub, loop, wire, alive, lost>>
  BY DEF EmitUsage, RqMove
<1>2. /\ e \in Queued /\ e \in Emitted /\ e \in UsageEvents /\ e.id = r
      /\ e.n = Cardinality(Finished) + 1 /\ r \notin Finished
  BY <1>1, EventNew, EventFields
<1>3. Finished' = Finished \cup {r} /\ IsFiniteSet(Finished)
  <2>1. rq'[r].at = "done" /\ \A q \in Proxied : q # r => rq'[q] = rq[q]
    BY <1>1 DEF HandlerInv, RqType
  <2> QED
    BY <2>1, FinishedFinite DEF Finished, RqAt
<1>4. OnWire' = OnWire /\ Pending' = Pending
  BY <1>1 DEF OnWire, Pending
<1>5. /\ EmitterTypes /\ LoopInv /\ SinkCapped
      /\ Placed(sink, OnWire, Pending, ch, lost, refused, Finished)
      /\ DropsEven(sink, OnWire, lost, dropped, refused)
  BY DEF EmitterInv
<1>6. /\ \A C2 : Joins(C2, ch, <<e>>) =>
           Placed(sink, OnWire, Pending, C2, lost, refused, Finished \cup {r})
      /\ OnWire = <<>> /\ Pending = <<>> /\ ch = <<>> =>
           \A S2 : Joins(S2, sink, <<e>>) =>
             Placed(S2, OnWire, Pending, ch, lost, refused, Finished \cup {r})
      /\ Placed(sink, OnWire, Pending, ch, lost, refused \cup {r}, Finished \cup {r})
  <2> HIDE DEF e
  <2>1. /\ Placed(sink, OnWire, Pending, ch, lost, refused, Finished)
        /\ IsFiniteSet(Finished) /\ e.id \notin Finished /\ e.n = Cardinality(Finished) + 1
    BY <1>2, <1>3, <1>5
  <2>2. e.id = r
    BY <1>2
  <2> QED
    BY <2>1, <2>2, PlacedNew
<1> HIDE DEF e
<1>7. CASE ~toHub /\ sink' = Append(sink, e) /\ UNCHANGED <<ch, dropped, refused>>
  <2>1. OnWire = <<>> /\ Pending = <<>> /\ ch = <<>>
    BY <1>5, <1>7 DEF LoopInv, OnWire, Pending
  <2>2. sink \in Seq(UsageEvents) /\ e.drops = 0
    BY <1>2, <1>5, EventFields DEF EmitterTypes
  <2>3. Joins(sink', sink, <<e>>)
    BY <1>2, <1>7, <2>2, AppendJoins
  <2>4. Placed(sink', OnWire', Pending', ch', lost', refused', Finished')
    BY <1>1, <1>3, <1>4, <1>6, <1>7, <2>1, <2>3
  <2>5. DropsEven(sink', OnWire', lost', dropped', refused')
    <3>1. Told(sink') = Told(sink) /\ Told(sink) \in Nat
      BY <1>2, <1>7, <2>2, EventsTell
    <3> QED
      BY <1>1, <1>4, <1>5, <1>7, <3>1 DEF DropsEven
  <2>6. EmitterTypes'
    BY <1>1, <1>2, <1>5, <1>7 DEF EmitterTypes
  <2>7. LoopInv' /\ SinkCapped'
    BY <1>1, <1>4, <1>5, <1>7 DEF LoopInv, SinkCapped
  <2> QED
    BY <2>4, <2>5, <2>6, <2>7 DEF EmitterInv
<1>8. CASE toHub /\ Len(ch) < ChanSize /\ ch' = Append(ch, e) /\ UNCHANGED <<dropped, refused, sink>>
  <2>1. ch \in Seq(Queued) /\ ChanSize \in Nat
    BY <1>5, UsageAssumption DEF EmitterTypes, UsageAssumption
  <2>2. Joins(ch', ch, <<e>>)
    BY <1>2, <1>8, <2>1, AppendJoins
  <2>3. Placed(sink', OnWire', Pending', ch', lost', refused', Finished')
    BY <1>1, <1>3, <1>4, <1>6, <1>8, <2>2
  <2>4. DropsEven(sink', OnWire', lost', dropped', refused')
    BY <1>1, <1>4, <1>5, <1>8 DEF DropsEven
  <2>5. ch' \in Seq(Queued) /\ Len(ch') <= ChanSize
    BY <1>2, <1>8, <2>1
  <2>6. EmitterTypes' /\ LoopInv' /\ SinkCapped'
    BY <1>1, <1>4, <1>5, <1>8, <2>5 DEF EmitterTypes, LoopInv, SinkCapped
  <2> QED
    BY <2>3, <2>4, <2>6 DEF EmitterInv
<1>9. CASE /\ toHub /\ dropped' = dropped + 1 /\ refused' = refused \cup {r} /\ UNCHANGED <<ch, sink>>
  <2>1. Placed(sink', OnWire', Pending', ch', lost', refused', Finished')
    BY <1>1, <1>3, <1>4, <1>6, <1>9
  <2>2. r \notin refused
    BY <1>2, <1>5 DEF Placed, Sorted
  <2>3. Cardinality(refused') = Cardinality(refused) + 1 /\ Cardinality(refused) \in Nat
    <3>1. IsFiniteSet(refused)
      BY <1>5, FS_Subset, UsageAssumption DEF EmitterTypes, UsageAssumption
    <3> QED
      BY <1>9, <2>2, <3>1, FS_AddElement, FS_CardinalityType
  <2>4. DropsEven(sink', OnWire', lost', dropped', refused')
    <3>1. /\ sink' = sink /\ OnWire' = OnWire /\ lost' = lost /\ dropped' = dropped + 1
          /\ dropped \in Nat /\ sink \in Seq(UsageEvents) /\ OnWire \in Seq(UsageEvents)
          /\ lost \in Seq(UsageEvents)
      BY <1>1, <1>4, <1>5, <1>9, EventSeqs DEF EmitterTypes, OnWire
    <3>2. Told(sink) \in Nat /\ Told(OnWire) \in Nat /\ Told(lost) \in Nat
      BY <3>1, EventsTell
    <3> QED
      BY <1>5, <2>3, <3>1, <3>2 DEF DropsEven
  <2>5. EmitterTypes' /\ LoopInv' /\ SinkCapped'
    BY <1>1, <1>4, <1>5, <1>9 DEF EmitterTypes, LoopInv, SinkCapped
  <2> QED
    BY <2>1, <2>4, <2>5 DEF EmitterInv
<1> QED
  BY <1>7, <1>8, <1>9 DEF EmitUsage, e

\* What a step of the emitter or of the hub leaves alone.
LEMMA EmitterStepAside ==
  ASSUME EmitterInv, UNCHANGED requestVars
  PROVE  /\ Finished' = Finished /\ toHub' = toHub /\ refused' = refused
         /\ EmitterTypes /\ LoopInv /\ SinkCapped
         /\ Placed(sink, OnWire, Pending, ch, lost, refused, Finished)
         /\ DropsEven(sink, OnWire, lost, dropped, refused)
         /\ sink \in Seq(UsageEvents) /\ OnWire \in Seq(UsageEvents) /\ OnWire \in Seq(Emitted)
         /\ lost \in Seq(UsageEvents) /\ Pending \in Seq(Queued)
         /\ Told(sink) \in Nat /\ Told(OnWire) \in Nat /\ Told(lost) \in Nat /\ dropped \in Nat
<1>1. toHub' = toHub /\ rq' = rq /\ refused' = refused
  BY DEF requestVars
<1>2. Finished' = Finished
  BY <1>1 DEF Finished, RqAt
<1>3. EmitterTypes /\ LoopInv
  BY DEF EmitterInv
<1>4. /\ sink \in Seq(UsageEvents) /\ OnWire \in Seq(Emitted) /\ lost \in Seq(Emitted)
      /\ Pending \in Seq(Queued) /\ dropped \in Nat
  BY <1>3 DEF EmitterTypes, LoopInv, OnWire
<1>5. OnWire \in Seq(UsageEvents) /\ lost \in Seq(UsageEvents)
  BY <1>4, EventSeqs
<1> QED
  BY <1>1, <1>2, <1>3, <1>4, <1>5, EventsTell DEF EmitterInv

\* An event taken from the channel is the last of the batch being built.
LEMMA TakeLineAccounts ==
  ASSUME EmitterInv, TakeLine
  PROVE  EmitterInv'
<1> DEFINE h == <<Head(ch)>>
           p == loop.pending
           p2 == Append(p, Head(ch))
<1>1. /\ toHub /\ loop.at = "select" /\ ch # <<>> /\ ch' = Tail(ch)
      /\ loop' = [at |-> IF Len(p2) >= BatchSize THEN "flush" ELSE "select", pending |-> p2]
      /\ UNCHANGED <<dropped, wire, sink, alive, lost, requestVars>>
  BY DEF TakeLine
<1>2. /\ Finished' = Finished /\ toHub' = toHub /\ refused' = refused
      /\ EmitterTypes /\ LoopInv /\ SinkCapped
      /\ Placed(sink, OnWire, Pending, ch, lost, refused, Finished)
      /\ DropsEven(sink, OnWire, lost, dropped, refused)
  BY <1>1, EmitterStepAside
<1>3. /\ ch \in Seq(Queued) /\ Len(ch) <= ChanSize /\ p \in Seq(Queued) /\ Pending = p
      /\ Len(p) < BatchSize /\ BatchSize \in Nat \ {0} /\ ChanSize \in Nat
  BY <1>1, <1>2, UsageAssumption DEF EmitterTypes, LoopInv, Pending, UsageAssumption
<1>4. /\ ch' \in Seq(Queued) /\ Len(ch') <= ChanSize /\ Head(ch) \in Queued
      /\ p2 \in Seq(Queued) /\ Len(p2) = Len(p) + 1 /\ Len(p) \in Nat
  BY <1>1, <1>3
<1>5. Joins(ch, h, ch') /\ Joins(p2, p, h)
  <2>1. Joins(ch, h, Tail(ch))
    BY <1>1, <1>3, HeadJoins
  <2>2. Joins(p2, p, h)
    BY <1>3, <1>4, AppendJoins
  <2> QED
    BY <1>1, <2>1, <2>2
<1> HIDE DEF h, p2
<1>6. OnWire' = OnWire /\ Pending' = p2 /\ loop'.pending = p2 /\ loop'.at \in {"select", "flush"}
      /\ (loop'.at = "flush" <=> Len(p2) >= BatchSize)
  BY <1>1 DEF OnWire, Pending
<1>7. Placed(sink', OnWire', Pending', ch', lost', refused', Finished')
  <2>1. Placed(sink, OnWire, p2, ch', lost, refused, Finished)
    BY <1>2, <1>3, <1>5, PlacedTake
  <2> QED
    BY <1>1, <1>2, <1>6, <2>1
<1>8. DropsEven(sink', OnWire', lost', dropped', refused')
  BY <1>1, <1>2, <1>6
<1>9. EmitterTypes'
  <2>1. p2 \in Seq(Emitted) /\ Len(p2) <= BatchSize
    BY <1>3, <1>4, EventSeqs
  <2>2. loop' \in [at : {"select", "flush", "ack", "stopped"}, pending : Seq(Emitted)]
    BY <1>1, <2>1
  <2> QED
    BY <1>1, <1>2, <1>4, <1>6, <2>1, <2>2 DEF EmitterTypes
<1>10. LoopInv'
  <2>1. loop'.at = "select" => Len(p2) < BatchSize
    BY <1>3, <1>4, <1>6
  <2>2. p2 # <<>>
    BY <1>4
  <2> QED
    BY <1>1, <1>2, <1>4, <1>6, <2>1, <2>2 DEF LoopInv
<1>11. SinkCapped'
  BY <1>1, <1>2 DEF SinkCapped
<1> QED
  BY <1>7, <1>8, <1>9, <1>10, <1>11 DEF EmitterInv

\* A tick moves nothing.
LEMMA FlushTickAccounts ==
  ASSUME EmitterInv, FlushTick
  PROVE  EmitterInv'
<1>1. /\ loop.at = "select" /\ loop.pending # <<>> /\ loop' = [loop EXCEPT !.at = "flush"]
      /\ UNCHANGED <<ch, dropped, wire, sink, alive, lost, requestVars>>
  BY DEF FlushTick
<1>2. /\ Finished' = Finished /\ toHub' = toHub /\ refused' = refused
      /\ EmitterTypes /\ LoopInv /\ SinkCapped
      /\ Placed(sink, OnWire, Pending, ch, lost, refused, Finished)
      /\ DropsEven(sink, OnWire, lost, dropped, refused)
  BY <1>1, EmitterStepAside
<1>3. /\ loop' \in [at : {"select", "flush", "ack", "stopped"}, pending : Seq(Emitted)]
      /\ loop'.at = "flush" /\ loop'.pending = loop.pending
  BY <1>1, <1>2 DEF EmitterTypes
<1>4. OnWire' = OnWire /\ Pending' = Pending
  BY <1>1, <1>3 DEF OnWire, Pending
<1>5. EmitterTypes'
  BY <1>1, <1>2, <1>3 DEF EmitterTypes
<1>6. LoopInv' /\ SinkCapped'
  BY <1>1, <1>2, <1>3, <1>4 DEF LoopInv, SinkCapped
<1> QED
  BY <1>1, <1>2, <1>4, <1>5, <1>6 DEF EmitterInv

\* A batch for which there is no stream is lost with its events; it reports
\* no drops yet.
LEMMA PendingLost ==
  ASSUME EmitterInv, UNCHANGED <<ch, dropped, wire, sink, alive, requestVars>>,
         loop.at # "ack", lost' = lost \o loop.pending, loop'.pending = <<>>,
         loop' \in [at : {"select", "flush", "ack", "stopped"}, pending : Seq(Emitted)],
         loop'.at \in {"select", "stopped"}, ~toHub => loop'.at = "select"
  PROVE  EmitterInv'
<1> DEFINE p == loop.pending
<1>2. /\ Finished' = Finished /\ toHub' = toHub /\ refused' = refused
      /\ EmitterTypes /\ LoopInv /\ SinkCapped
      /\ Placed(sink, OnWire, Pending, ch, lost, refused, Finished)
      /\ DropsEven(sink, OnWire, lost, dropped, refused)
      /\ lost \in Seq(UsageEvents) /\ Pending \in Seq(Queued)
      /\ Told(sink) \in Nat /\ Told(OnWire) \in Nat /\ Told(lost) \in Nat /\ dropped \in Nat
  BY EmitterStepAside
<1>3. Pending = p /\ p \in Seq(Queued) /\ p \in Seq(Emitted) /\ p \in Seq(UsageEvents)
  BY <1>2, EventSeqs DEF Pending
<1>4. OnWire' = OnWire /\ Pending' = <<>>
  BY DEF OnWire, Pending
<1>5. lost \in Seq(Emitted) /\ lost' \in Seq(Emitted)
  BY <1>2, <1>3 DEF EmitterTypes
<1>6. Told(lost') = Told(lost)
  <2>1. Told(lost \o p) = Told(lost) + Told(p) /\ Told(p) = 0
    BY <1>2, <1>3, EventsTell
  <2> HIDE DEF p
  <2> QED
    BY <1>2, <2>1 DEF p
<1>7. Placed(sink', OnWire', Pending', ch', lost', refused', Finished')
  <2>1. Joins(p, p, <<>>)
    BY <1>3, AlikeJoins DEF SameEvent
  <2>2. Joins(lost', lost, p)
    BY <1>3, <1>5, ConcatJoins
  <2>3. Placed(sink, OnWire, <<>>, ch, lost', refused, Finished)
    BY <1>2, <1>3, <2>1, <2>2, PlacedLose
  <2> QED
    BY <1>2, <1>4, <2>3
<1>8. DropsEven(sink', OnWire', lost', dropped', refused')
  BY <1>2, <1>4, <1>6 DEF DropsEven
<1>9. Len(<<>>) = 0 /\ BatchSize \in Nat /\ 0 < BatchSize /\ <<>> \in Seq(Queued)
  BY UsageAssumption DEF UsageAssumption
<1>10. EmitterTypes'
  BY <1>2, <1>5, <1>9 DEF EmitterTypes
<1>11. LoopInv' /\ SinkCapped'
  BY <1>2, <1>4, <1>9 DEF LoopInv, SinkCapped
<1> QED
  BY <1>7, <1>8, <1>10, <1>11 DEF EmitterInv

\* The stream cannot be opened.
LEMMA IngestFailsAccounts ==
  ASSUME EmitterInv, IngestFails
  PROVE  EmitterInv'
<1>1. /\ loop.at = "flush" /\ lost' = lost \o loop.pending
      /\ loop' = [at |-> "select", pending |-> <<>>]
      /\ UNCHANGED <<ch, dropped, wire, sink, alive, requestVars>>
  BY DEF IngestFails, Flushed
<1>2. /\ loop' \in [at : {"select", "flush", "ack", "stopped"}, pending : Seq(Emitted)]
      /\ loop'.at = "select" /\ loop'.pending = <<>>
  BY <1>1
<1> QED
  BY <1>1, <1>2, PendingLost

\* The emitter stops.
LEMMA EmitterStopsAccounts ==
  ASSUME EmitterInv, EmitterStops
  PROVE  EmitterInv'
<1>1. /\ loop.at = "select" /\ toHub /\ lost' = lost \o loop.pending
      /\ loop' = [at |-> "stopped", pending |-> <<>>]
      /\ UNCHANGED <<ch, dropped, wire, sink, alive, requestVars>>
  BY DEF EmitterStops
<1>2. /\ loop' \in [at : {"select", "flush", "ack", "stopped"}, pending : Seq(Emitted)]
      /\ loop'.at = "stopped" /\ loop'.pending = <<>>
  BY <1>1
<1> QED
  BY <1>1, <1>2, PendingLost

\* A batch is sent, and reports the drops; or it is lost together with them.
LEMMA SendBatchAccounts ==
  ASSUME EmitterInv, SendBatch
  PROVE  EmitterInv'
<1> DEFINE p == loop.pending
           b == [p EXCEPT ![1].drops = dropped]
<1>1. /\ loop.at = "flush" /\ alive /\ dropped' = 0
      /\ \/ /\ loop' = [at |-> "ack", pending |-> b] /\ wire' = [events |-> b, at |-> "sent"]
            /\ lost' = lost
         \/ /\ loop' = [at |-> "select", pending |-> <<>>] /\ lost' = lost \o b /\ wire' = wire
      /\ UNCHANGED <<ch, sink, alive, requestVars>>
  BY DEF SendBatch, Flushed
<1>2. /\ Finished' = Finished /\ toHub' = toHub /\ refused' = refused
      /\ EmitterTypes /\ LoopInv /\ SinkCapped
      /\ Placed(sink, OnWire, Pending, ch, lost, refused, Finished)
      /\ DropsEven(sink, OnWire, lost, dropped, refused)
      /\ lost \in Seq(UsageEvents) /\ Pending \in Seq(Queued)
      /\ Told(sink) \in Nat /\ Told(OnWire) \in Nat /\ Told(lost) \in Nat /\ dropped \in Nat
  BY <1>1, EmitterStepAside
<1>3. /\ Pending = p /\ p \in Seq(Queued) /\ p # <<>> /\ OnWire = <<>> /\ Len(p) <= BatchSize
      /\ toHub
  BY <1>1, <1>2 DEF Pending, LoopInv, EmitterTypes
<1>4. b \in Seq(Emitted) /\ Len(b) = Len(p) /\ Joins(b, p, <<>>) /\ Told(b) = dropped
  BY <1>2, <1>3, BatchTells
<1>5. b \in Seq(UsageEvents) /\ lost \in Seq(Emitted) /\ Told(<<>>) = 0
  BY <1>2, <1>4, EventSeqs, EventsTell DEF EmitterTypes
<1>6. Len(<<>>) = 0 /\ BatchSize \in Nat \ {0} /\ <<>> \in Seq(Queued) /\ <<>> \in Seq(Emitted)
  BY UsageAssumption DEF UsageAssumption
<1>7. SinkCapped'
  BY <1>1, <1>2 DEF SinkCapped
<1> HIDE DEF b, p
<1>8. CASE /\ loop' = [at |-> "ack", pending |-> b] /\ wire' = [events |-> b, at |-> "sent"]
           /\ lost' = lost
  <2>1. /\ loop'.at = "ack" /\ loop'.pending = b
        /\ loop' \in [at : {"select", "flush", "ack", "stopped"}, pending : Seq(Emitted)]
    BY <1>4, <1>8
  <2>2. wire' \in [events : Seq(Emitted), at : {"sent", "acked", "broken"}]
        /\ wire'.at = "sent" /\ wire'.events = b
    BY <1>4, <1>8
  <2>3. wire' # NoBatch
    <3>1. [events |-> b, at |-> "sent"] \in Batches
      BY <1>5 DEF Batches
    <3> QED
      BY <1>8, <3>1, UsageAssumption DEF UsageAssumption
  <2>4. OnWire' = b /\ Pending' = <<>>
    BY <2>1, <2>2, <2>3 DEF OnWire, Pending
  <2>5. Placed(sink', OnWire', Pending', ch', lost', refused', Finished')
    <3>1. Placed(sink, <<>>, p, ch, lost, refused, Finished)
      BY <1>2, <1>3
    <3>2. Placed(sink, b, <<>>, ch, lost, refused, Finished)
      BY <1>4, <3>1, PlacedSend
    <3> QED
      BY <1>1, <1>2, <1>8, <2>4, <3>2
  <2>6. DropsEven(sink', OnWire', lost', dropped', refused')
    <3>1. Told(sink) + Told(OnWire) + Told(lost) + dropped = Cardinality(refused)
      BY <1>2 DEF DropsEven
    <3>2. Told(sink) + dropped + Told(lost) + 0 = Cardinality(refused)
      BY <1>2, <1>3, <1>5, <3>1
    <3>3. Told(sink') + Told(OnWire') + Told(lost') + dropped' = Cardinality(refused')
      BY <1>1, <1>2, <1>4, <1>8, <2>4, <3>2
    <3> QED
      BY <3>3 DEF DropsEven
  <2>7. EmitterTypes'
    BY <1>1, <1>2, <1>3, <1>4, <1>8, <2>1, <2>2 DEF EmitterTypes
  <2>8. LoopInv'
    BY <1>1, <1>2, <1>3, <1>6, <2>1, <2>4 DEF LoopInv
  <2> QED
    BY <1>7, <2>5, <2>6, <2>7, <2>8 DEF EmitterInv
<1>9. CASE /\ loop' = [at |-> "select", pending |-> <<>>] /\ lost' = lost \o b /\ wire' = wire
  <2>1. /\ loop'.at = "select" /\ loop'.pending = <<>>
        /\ loop' \in [at : {"select", "flush", "ack", "stopped"}, pending : Seq(Emitted)]
    BY <1>6, <1>9
  <2>2. OnWire' = OnWire /\ Pending' = <<>>
    BY <1>9, <2>1 DEF OnWire, Pending
  <2>3. lost' \in Seq(Emitted) /\ Joins(lost', lost, b)
    BY <1>4, <1>5, <1>9, ConcatJoins
  <2>4. Told(lost') = Told(lost) + dropped
    <3>1. Told(lost \o b) = Told(lost) + Told(b)
      BY <1>2, <1>5, EventsTell
    <3> QED
      BY <1>4, <1>9, <3>1
  <2>5. Placed(sink', OnWire', Pending', ch', lost', refused', Finished')
    <3>1. Placed(sink, OnWire, p, ch, lost, refused, Finished)
      BY <1>2, <1>3
    <3>2. Placed(sink, OnWire, <<>>, ch, lost', refused, Finished)
      BY <1>4, <2>3, <3>1, PlacedLose
    <3> QED
      BY <1>1, <1>2, <2>2, <3>2
  <2>6. DropsEven(sink', OnWire', lost', dropped', refused')
    <3>1. Told(sink) + Told(OnWire) + Told(lost) + dropped = Cardinality(refused)
      BY <1>2 DEF DropsEven
    <3>2. Told(sink) + Told(OnWire) + (Told(lost) + dropped) + 0 = Cardinality(refused)
      BY <1>2, <3>1
    <3>3. Told(sink') + Told(OnWire') + Told(lost') + dropped' = Cardinality(refused')
      BY <1>1, <1>2, <2>2, <2>4, <3>2
    <3> QED
      BY <3>3 DEF DropsEven
  <2>7. EmitterTypes'
    BY <1>1, <1>2, <1>6, <1>9, <2>1, <2>3 DEF EmitterTypes
  <2>8. LoopInv'
    BY <1>1, <1>2, <1>3, <1>6, <1>9, <2>1, <2>2 DEF LoopInv
  <2> QED
    BY <1>7, <2>5, <2>6, <2>7, <2>8 DEF EmitterInv
<1> QED
  BY <1>1, <1>8, <1>9

\* The answer to a batch, or its absence, moves no event.
LEMMA RecvAckAccounts ==
  ASSUME EmitterInv, RecvAck
  PROVE  EmitterInv'
<1>1. /\ loop.at = "ack" /\ (wire.at \in {"acked", "broken"} \/ ~alive)
      /\ loop' = [at |-> "select", pending |-> <<>>]
      /\ wire' = IF wire.at = "sent" THEN wire ELSE NoBatch
      /\ UNCHANGED <<ch, dropped, sink, alive, lost, requestVars>>
  BY DEF RecvAck, Flushed
<1>2. /\ Finished' = Finished /\ toHub' = toHub /\ refused' = refused
      /\ EmitterTypes /\ LoopInv /\ SinkCapped
      /\ Placed(sink, OnWire, Pending, ch, lost, refused, Finished)
      /\ DropsEven(sink, OnWire, lost, dropped, refused)
  BY <1>1, EmitterStepAside
<1>3. Len(<<>>) = 0 /\ BatchSize \in Nat \ {0} /\ <<>> \in Seq(Queued) /\ <<>> \in Seq(Emitted)
  BY UsageAssumption DEF UsageAssumption
<1>4. /\ loop'.at = "select" /\ loop'.pending = <<>>
      /\ loop' \in [at : {"select", "flush", "ack", "stopped"}, pending : Seq(Emitted)]
  BY <1>1, <1>3
<1>5. OnWire' = OnWire /\ Pending' = <<>> /\ Pending = <<>> /\ (alive => OnWire = <<>>)
  BY <1>1, <1>4 DEF OnWire, Pending
<1>6. EmitterTypes'
  BY <1>1, <1>2, <1>3, <1>4 DEF EmitterTypes
<1>7. LoopInv' /\ SinkCapped'
  BY <1>1, <1>2, <1>3, <1>4, <1>5 DEF LoopInv, SinkCapped
<1> QED
  BY <1>1, <1>2, <1>5, <1>6, <1>7 DEF EmitterInv

\* What the sink has is capped if what it had is, and what it gets.
LEMMA ConcatCapped ==
  ASSUME NEW s \in Seq(UsageEvents), NEW t \in Seq(UsageEvents),
         \A i \in DOMAIN s : Capped(s[i]), \A i \in DOMAIN t : Capped(t[i])
  PROVE  \A i \in DOMAIN (s \o t) : Capped((s \o t)[i])
<1> DEFINE c == s \o t
<1>1. /\ Len(s) \in Nat /\ Len(t) \in Nat /\ DOMAIN s = 1..Len(s) /\ DOMAIN t = 1..Len(t)
      /\ DOMAIN c = 1..(Len(s) + Len(t))
      /\ \A i \in 1..Len(s) : c[i] = s[i]
      /\ \A i \in 1..Len(t) : c[Len(s) + i] = t[i]
  OBVIOUS
<1> HIDE DEF c
<1>2. ASSUME NEW i \in DOMAIN c PROVE Capped(c[i])
  <2>1. CASE i \in 1..Len(s)
    BY <1>1, <2>1
  <2>2. CASE i \notin 1..Len(s)
    <3>1. PICK k \in 1..Len(t) : i = Len(s) + k
      <4>1. i - Len(s) \in 1..Len(t) /\ i = Len(s) + (i - Len(s))
        BY <1>1, <2>2
      <4> QED
        BY <4>1
    <3> QED
      BY <1>1, <3>1
  <2> QED
    BY <2>1, <2>2
<1> QED
  BY <1>2 DEF c

\* A batch is taken off the stream.
LEMMA OffWire ==
  ASSUME EmitterTypes, wire # NoBatch, wire.at = "sent",
         NEW how \in {"acked", "broken"}, wire' = [wire EXCEPT !.at = how]
  PROVE  /\ OnWire = wire.events /\ OnWire' = <<>>
         /\ wire' \in [events : Seq(Emitted), at : {"sent", "acked", "broken"}]
<1>1. wire \in [events : Seq(Emitted), at : {"sent", "acked", "broken"}]
  BY DEF EmitterTypes
<1>2. wire' \in [events : Seq(Emitted), at : {"sent", "acked", "broken"}] /\ wire'.at = how
  BY <1>1
<1> QED
  BY <1>2 DEF OnWire

\* The sink takes the first events of the batch, and the others are lost.
LEMMA IngestAccounts ==
  ASSUME EmitterInv, Ingest
  PROVE  EmitterInv'
<1> DEFINE b == wire.events
<1>1. /\ wire # NoBatch /\ wire.at = "sent" /\ wire' = [wire EXCEPT !.at = "acked"]
      /\ \E n \in 0..Len(b) : /\ sink' = sink \o Written(processBatch(b), n)
                              /\ lost' = lost \o SubSeq(b, n + 1, Len(b))
      /\ UNCHANGED <<ch, dropped, loop, alive, requestVars>>
  BY DEF Ingest
<1>2. /\ Finished' = Finished /\ toHub' = toHub /\ refused' = refused
      /\ EmitterTypes /\ LoopInv /\ SinkCapped
      /\ Placed(sink, OnWire, Pending, ch, lost, refused, Finished)
      /\ DropsEven(sink, OnWire, lost, dropped, refused)
      /\ sink \in Seq(UsageEvents) /\ lost \in Seq(UsageEvents) /\ OnWire \in Seq(Emitted)
      /\ Told(sink) \in Nat /\ Told(OnWire) \in Nat /\ Told(lost) \in Nat /\ dropped \in Nat
  BY <1>1, EmitterStepAside
<1>3. /\ OnWire = b /\ OnWire' = <<>>
      /\ wire' \in [events : Seq(Emitted), at : {"sent", "acked", "broken"}]
  BY <1>1, <1>2, OffWire
<1>4. b \in Seq(Emitted) /\ toHub /\ lost \in Seq(Emitted) /\ Pending' = Pending
  BY <1>1, <1>2, <1>3 DEF LoopInv, EmitterTypes, Pending
<1>5. PICK n \in 0..Len(b) : /\ sink' = sink \o Written(processBatch(b), n)
                             /\ lost' = lost \o SubSeq(b, n + 1, Len(b))
  BY <1>1
<1> DEFINE w == Written(processBatch(b), n)
           rest == SubSeq(b, n + 1, Len(b))
<1>6. /\ w \in Seq(UsageEvents) /\ rest \in Seq(Emitted) /\ \A i \in DOMAIN w : Capped(w[i])
      /\ Joins(b, w, rest) /\ Told(b) = Told(w) + Told(rest)
  BY <1>4, WrittenTells
<1>7. sink' = sink \o w /\ lost' = lost \o rest
  BY <1>5
<1> HIDE DEF w, rest, b
<1>8. sink' \in Seq(UsageEvents) /\ lost' \in Seq(Emitted)
  BY <1>2, <1>4, <1>6, <1>7
<1>9. Joins(sink', sink, w) /\ Joins(lost', lost, rest)
  BY <1>2, <1>4, <1>6, <1>7, ConcatJoins
<1>10. Placed(sink', OnWire', Pending', ch', lost', refused', Finished')
  <2>1. Placed(sink, b, Pending, ch, lost, refused, Finished)
    BY <1>2, <1>3
  <2>2. Placed(sink', <<>>, Pending, ch, lost', refused, Finished)
    BY <1>6, <1>9, <2>1, PlacedIngest
  <2> QED
    BY <1>1, <1>2, <1>3, <1>4, <2>2
<1>11. DropsEven(sink', OnWire', lost', dropped', refused')
  <2>1. rest \in Seq(UsageEvents)
    BY <1>6, EventSeqs
  <2>2. Told(sink \o w) = Told(sink) + Told(w) /\ Told(lost \o rest) = Told(lost) + Told(rest)
    BY <1>2, <1>6, <2>1, EventsTell
  <2>3. Told(w) \in Nat /\ Told(rest) \in Nat /\ Told(<<>>) = 0
    BY <1>6, <2>1, EventsTell
  <2>4. Told(sink) + Told(b) + Told(lost) + dropped = Cardinality(refused)
    BY <1>2, <1>3 DEF DropsEven
  <2>5. (Told(sink) + Told(w)) + 0 + (Told(lost) + Told(rest)) + dropped = Cardinality(refused)
    BY <1>2, <1>6, <2>3, <2>4
  <2>6. Told(sink') = Told(sink) + Told(w) /\ Told(lost') = Told(lost) + Told(rest)
    BY <1>7, <2>2
  <2>7. Told(sink') + Told(OnWire') + Told(lost') + dropped' = Cardinality(refused')
    BY <1>1, <1>2, <1>3, <2>3, <2>5, <2>6
  <2> QED
    BY <2>7 DEF DropsEven
<1>12. EmitterTypes'
  BY <1>1, <1>2, <1>3, <1>8 DEF EmitterTypes
<1>13. LoopInv'
  BY <1>1, <1>2, <1>3, <1>4 DEF LoopInv
<1>14. SinkCapped'
  <2>1. \A i \in DOMAIN sink : Capped(sink[i])
    BY <1>2, <1>4 DEF SinkCapped
  <2>2. \A i \in DOMAIN (sink \o w) : Capped((sink \o w)[i])
    BY <1>2, <1>6, <2>1, ConcatCapped
  <2> QED
    BY <1>7, <2>2 DEF SinkCapped, Capped, Raw
<1> QED
  BY <1>10, <1>11, <1>12, <1>13, <1>14 DEF EmitterInv

\* A batch on a stream that breaks is lost, with the drops it reports.
LEMMA IngestBreaksAccounts ==
  ASSUME EmitterInv, IngestBreaks
  PROVE  EmitterInv'
<1> DEFINE b == wire.events
<1>1. /\ wire # NoBatch /\ wire.at = "sent" /\ wire' = [wire EXCEPT !.at = "broken"]
      /\ lost' = lost \o b
      /\ UNCHANGED <<ch, dropped, loop, sink, alive, requestVars>>
  BY DEF IngestBreaks
<1>2. /\ Finished' = Finished /\ toHub' = toHub /\ refused' = refused
      /\ EmitterTypes /\ LoopInv /\ SinkCapped
      /\ Placed(sink, OnWire, Pending, ch, lost, refused, Finished)
      /\ DropsEven(sink, OnWire, lost, dropped, refused)
      /\ OnWire \in Seq(UsageEvents) /\ lost \in Seq(UsageEvents) /\ OnWire \in Seq(Emitted)
      /\ Told(sink) \in Nat /\ Told(OnWire) \in Nat /\ Told(lost) \in Nat /\ dropped \in Nat
  BY <1>1, EmitterStepAside
<1>3. /\ OnWire = b /\ OnWire' = <<>>
      /\ wire' \in [events : Seq(Emitted), at : {"sent", "acked", "broken"}]
  BY <1>1, <1>2, OffWire
<1>4. b \in Seq(Emitted) /\ toHub /\ lost \in Seq(Emitted) /\ Pending' = Pending
  BY <1>1, <1>2, <1>3 DEF LoopInv, EmitterTypes, Pending
<1> HIDE DEF b
<1>5. lost' \in Seq(Emitted) /\ Joins(lost', lost, b)
  BY <1>1, <1>4, ConcatJoins
<1>6. Placed(sink', OnWire', Pending', ch', lost', refused', Finished')
  <2>1. Placed(sink, b, Pending, ch, lost, refused, Finished)
    BY <1>2, <1>3
  <2>2. Placed(sink, <<>>, Pending, ch, lost', refused, Finished)
    BY <1>5, <2>1, PlacedBreak
  <2> QED
    BY <1>1, <1>2, <1>3, <1>4, <2>2
<1>7. DropsEven(sink', OnWire', lost', dropped', refused')
  <2>1. Told(lost \o b) = Told(lost) + Told(b) /\ Told(<<>>) = 0
    BY <1>2, <1>3, EventsTell
  <2>2. Told(sink) + Told(b) + Told(lost) + dropped = Cardinality(refused)
    BY <1>2, <1>3 DEF DropsEven
  <2>3. Told(sink') + Told(OnWire') + Told(lost') + dropped' = Cardinality(refused')
    BY <1>1, <1>2, <1>3, <2>1, <2>2
  <2> QED
    BY <2>3 DEF DropsEven
<1>8. EmitterTypes'
  BY <1>1, <1>2, <1>3, <1>5 DEF EmitterTypes
<1>9. LoopInv' /\ SinkCapped'
  BY <1>1, <1>2, <1>3, <1>4 DEF LoopInv, SinkCapped
<1> QED
  BY <1>6, <1>7, <1>8, <1>9 DEF EmitterInv

\* Where no event moves and no request finishes, all stays accounted for,
\* also when the process is told to stop.
LEMMA NoEventMoves ==
  ASSUME EmitterInv, UNCHANGED <<toHub, ch, dropped, loop, wire, sink, refused, lost>>,
         Finished' = Finished, alive' \in BOOLEAN, alive' => alive
  PROVE  EmitterInv'
<1>1. OnWire' = OnWire /\ Pending' = Pending
  BY DEF OnWire, Pending
<1>2. EmitterTypes'
  BY DEF EmitterInv, EmitterTypes
<1>3. LoopInv' /\ SinkCapped'
  BY <1>1 DEF EmitterInv, LoopInv, SinkCapped
<1> QED
  BY <1>1, <1>2, <1>3 DEF EmitterInv

\* Only an emit finishes a request.
LEMMA NobodyFinishes ==
  ASSUME HandlerInv,
         \/ \E r \in Proxied : ServeProxy(r) \/ Forwarded(r) \/ WaitOver(r) \/ Deliver(r) \/ Outlive(r)
         \/ Janitor \/ StopShim \/ UNCHANGED usageVars
  PROVE  Finished' = Finished
<1>1. SUFFICES ASSUME NEW q \in Proxied PROVE rq'[q].at = "done" <=> rq[q].at = "done"
  BY DEF Finished, RqAt
<1>2. rq \in [Proxied -> RqType]
  BY DEF HandlerInv
<1>3. ASSUME NEW r \in Proxied, ServeProxy(r) \/ Forwarded(r) PROVE rq'[q].at = "done" <=> rq[q].at = "done"
  <2>1. PICK where \in {"forward", "emit", "wait"} : rq' = [rq EXCEPT ![r].at = where]
    BY <1>3 DEF ServeProxy, Forwarded, RqMove
  <2>2. rq[r].at # "done"
    BY <1>3 DEF ServeProxy, Forwarded, RqAt
  <2> QED
    BY <1>2, <2>1, <2>2 DEF RqType
<1>4. ASSUME NEW r \in Proxied, WaitOver(r) PROVE rq'[q].at = "done" <=> rq[q].at = "done"
  <2>1. PICK v : rq' = [rq EXCEPT ![r].at = "emit", ![r].traced = v, ![r].seized = NoEntry]
    BY <1>4 DEF WaitOver
  <2>2. rq[r].at # "done"
    BY <1>4 DEF WaitOver, RqAt
  <2> QED
    BY <1>2, <2>1, <2>2 DEF RqType
<1>5. ASSUME Janitor PROVE rq'[q].at = "done" <=> rq[q].at = "done"
  <2> DEFINE old == {r \in Proxied : cor[r] # NoEntry /\ cor[r].old}
  <2>1. rq'[q] = IF q \in old /\ RqAt(q, "wait") /\ rq[q].seized = NoEntry
                   THEN [rq[q] EXCEPT !.seized = cor[q]] ELSE rq[q]
    BY <1>5 DEF Janitor
  <2> HIDE DEF old
  <2> QED
    BY <1>2, <2>1 DEF RqType
<1>6. ASSUME \/ \E r \in Proxied : Deliver(r) \/ Outlive(r)
             \/ StopShim \/ UNCHANGED usageVars
      PROVE  rq'[q].at = "done" <=> rq[q].at = "done"
  <2>1. rq' = rq
    BY <1>6 DEF Deliver, Outlive, StopShim, usageVars
  <2> QED
    BY <2>1
<1> QED
  BY <1>3, <1>4, <1>5, <1>6

\* Every step of the usage log keeps the emitter's part of the invariant.
LEMMA EmitterStep ==
  ASSUME HandlerInv, EmitterInv, [UsageNext]_usageVars
  PROVE  EmitterInv'
<1>1. alive \in BOOLEAN
  BY DEF EmitterInv, EmitterTypes
<1>2. ASSUME NEW r \in Proxied, ServeProxy(r) \/ Forwarded(r) \/ WaitOver(r) \/ Deliver(r) \/ Outlive(r)
      PROVE  EmitterInv'
  <2>1. UNCHANGED emitterVars
    BY <1>2 DEF ServeProxy, Forwarded, WaitOver, Deliver, Outlive
  <2>2. Finished' = Finished
    BY <1>2, NobodyFinishes
  <2> QED
    BY <1>1, <2>1, <2>2, NoEventMoves DEF emitterVars
<1>3. ASSUME Janitor \/ StopShim \/ UNCHANGED usageVars PROVE EmitterInv'
  <2>1. /\ UNCHANGED <<toHub, ch, dropped, loop, wire, sink, refused, lost>>
        /\ alive' = FALSE \/ alive' = alive
    BY <1>3, Zenon DEF Janitor, StopShim, usageVars, emitterVars
  <2>2. alive' \in BOOLEAN /\ (alive' => alive)
    <3>1. CASE alive' = FALSE
      BY <3>1, Zenon
    <3>2. CASE alive' = alive
      BY <1>1, <3>2, Zenon
    <3> QED
      BY <2>1, <3>1, <3>2
  <2>3. Finished' = Finished
    BY <1>3, NobodyFinishes
  <2> QED
    BY <2>1, <2>2, <2>3, NoEventMoves
<1>4. ASSUME NEW r \in Proxied, EmitUsage(r) PROVE EmitterInv'
  BY <1>4, EmitAccounts
<1>5. ASSUME Emitting \/ Ingest \/ IngestBreaks PROVE EmitterInv'
  BY <1>5, TakeLineAccounts, FlushTickAccounts, IngestFailsAccounts, SendBatchAccounts,
     RecvAckAccounts, EmitterStopsAccounts, IngestAccounts, IngestBreaksAccounts DEF Emitting
<1> QED
  BY <1>2, <1>3, <1>4, <1>5 DEF UsageNext, Proxying

-----------------------------------------------------------------------------
(* The invariant and what it says *)

\* Nothing is emitted in the initial state.
LEMMA UsageInitially ==
  ASSUME UsageInit
  PROVE  UsageInv
<1>1. HandlerInv
  <2>1. rq \in [Proxied -> RqType] /\ cor \in [Proxied -> {NoEntry} \cup CorEntries]
    BY DEF UsageInit, RqType
  <2>2. \A r \in Proxied : HandlerOK(r)
    BY DEF UsageInit, HandlerOK, RqAt
  <2> QED
    BY <2>1, <2>2 DEF UsageInit, HandlerInv
<1>2. /\ toHub \in BOOLEAN /\ alive = TRUE /\ dropped = 0 /\ ch = <<>> /\ wire = NoBatch
      /\ loop = [at |-> "select", pending |-> <<>>] /\ sink = <<>> /\ lost = <<>> /\ refused = {}
  BY DEF UsageInit
<1>3. OnWire = <<>> /\ Pending = <<>>
  BY <1>2 DEF OnWire, Pending
<1>4. Finished = {}
  BY DEF UsageInit, Finished, RqAt
<1>5. /\ Len(<<>>) = 0 /\ BatchSize \in Nat \ {0} /\ ChanSize \in Nat
      /\ <<>> \in Seq(Queued) /\ <<>> \in Seq(Emitted) /\ <<>> \in Seq(UsageEvents)
  BY UsageAssumption DEF UsageAssumption
<1>6. /\ loop \in [at : {"select", "flush", "ack", "stopped"}, pending : Seq(Emitted)]
      /\ loop.at = "select" /\ loop.pending = <<>>
  BY <1>2, <1>5
<1>7. EmitterTypes
  BY <1>2, <1>5, <1>6 DEF EmitterTypes
<1>8. LoopInv /\ SinkCapped
  BY <1>2, <1>3, <1>5, <1>6 DEF LoopInv, SinkCapped
<1>9. Placed(sink, OnWire, Pending, ch, lost, refused, Finished)
  <2>1. Sorted({}, {}, {}, {}, {}, {}, {})
    BY DEF Sorted, Disjoint
  <2>2. InLine(<<>>, <<>>, <<>>, <<>>)
    BY EmptyEvents DEF InLine
  <2>3. Placed(<<>>, <<>>, <<>>, <<>>, <<>>, {}, {})
    BY <2>1, <2>2, EmptyEvents DEF Placed
  <2> QED
    BY <1>2, <1>3, <1>4, <2>3
<1>10. DropsEven(sink, OnWire, lost, dropped, refused)
  BY <1>2, <1>3, EventsTell, FS_EmptySet DEF DropsEven
<1> QED
  BY <1>1, <1>7, <1>8, <1>9, <1>10 DEF UsageInv, EmitterInv

\* The inductive invariant of the usage log: a waiting handler holds an entry,
\* and events are in line, sorted by place, with every drop on account.
THEOREM UsageInvariant == UsageSpec => []UsageInv
<1>1. UsageInit => UsageInv
  BY UsageInitially
<1>2. UsageInv /\ [UsageNext]_usageVars => UsageInv'
  BY HandlerStep, EmitterStep DEF UsageInv
<1> QED
  BY <1>1, <1>2, PTL DEF UsageSpec

\* The values of the usage log's state are of their types.
THEOREM UsageTypes == UsageSpec => []UsageTypeOK
<1>1. UsageInv => UsageTypeOK
  <2>1. SUFFICES ASSUME HandlerInv, EmitterTypes PROVE UsageTypeOK
    BY DEF UsageInv, EmitterInv
  <2>2. ch \in Seq(UsageEvents) /\ lost \in Seq(UsageEvents) /\ loop.pending \in Seq(UsageEvents)
    BY <2>1, EventSeqs DEF EmitterTypes
  <2>3. loop \in [at : {"select", "flush", "ack", "stopped"}, pending : Seq(UsageEvents)]
    BY <2>1, <2>2 DEF EmitterTypes
  <2>4. wire \in {NoBatch} \cup Batches
    BY <2>1, EventSeqs DEF EmitterTypes, Batches
  <2> QED
    BY <2>1, <2>2, <2>3, <2>4 DEF HandlerInv, RqType, EmitterTypes, UsageTypeOK
<1> QED
  BY <1>1, UsageInvariant, PTL

\* The event of a finished request is in one place, and once in the sink.
LEMMA AllAccounted ==
  ASSUME EmitterInv
  PROVE  EventsAccounted
<1>1. /\ Ordered(sink) /\ sink \in Seq(UsageEvents)
      /\ Sorted(Ids(sink), Ids(OnWire), Ids(Pending), Ids(ch), Ids(lost), refused, Finished)
  BY DEF EmitterInv, EmitterTypes, Placed, InLine
<1>2. ASSUME NEW i \in DOMAIN sink, NEW j \in DOMAIN sink, sink[i].id = sink[j].id
      PROVE  i = j
  <2>1. i \in Nat /\ j \in Nat
    BY <1>1
  <2>2. ~(i < j) /\ ~(j < i)
    BY <1>1, <1>2 DEF Ordered, Before
  <2> QED
    BY <2>1, <2>2
<1>3. ASSUME NEW r \in Proxied, RqAt(r, "done")
      PROVE  Cardinality({k \in 1..6 :
               r \in <<Ids(ch), Ids(Pending), Ids(OnWire), Ids(sink), Ids(lost), refused>>[k]}) = 1
  <2> DEFINE t == <<Ids(ch), Ids(Pending), Ids(OnWire), Ids(sink), Ids(lost), refused>>
             places == {k \in 1..6 : r \in t[k]}
  <2>1. r \in Finished
    BY <1>3 DEF Finished
  <2>2. /\ t[1] = Ids(ch) /\ t[2] = Ids(Pending) /\ t[3] = Ids(OnWire)
        /\ t[4] = Ids(sink) /\ t[5] = Ids(lost) /\ t[6] = refused
    OBVIOUS
  <2> HIDE DEF t
  <2>3. r \in t[1] \/ r \in t[2] \/ r \in t[3] \/ r \in t[4] \/ r \in t[5] \/ r \in t[6]
    BY <1>1, <2>1, <2>2 DEF Sorted
  <2>4. PICK k \in 1..6 : r \in t[k]
    BY <2>3
  <2>5. /\ r \in t[1] => r \notin t[2] /\ r \notin t[3] /\ r \notin t[4] /\ r \notin t[5] /\ r \notin t[6]
        /\ r \in t[2] => r \notin t[3] /\ r \notin t[4] /\ r \notin t[5] /\ r \notin t[6]
        /\ r \in t[3] => r \notin t[4] /\ r \notin t[5] /\ r \notin t[6]
        /\ r \in t[4] => r \notin t[5] /\ r \notin t[6]
        /\ r \in t[5] => r \notin t[6]
    BY <1>1, <2>2 DEF Sorted, Disjoint
  <2>6. \A j \in 1..6 : r \in t[j] => j = k
    BY <2>4, <2>5
  <2>7. places = {k}
    BY <2>4, <2>6
  <2> HIDE DEF places
  <2>8. Cardinality(places) = 1
    BY <2>7, FS_Singleton
  <2> QED
    BY <2>8 DEF places, t
<1> QED
  BY <1>2, <1>3 DEF EventsAccounted

\* What the sink has of the logs is visibly all or a prefix.
LEMMA AllVisible ==
  ASSUME EmitterInv
  PROVE  LogsCutVisibly
<1>1. SUFFICES ASSUME toHub, NEW i \in DOMAIN sink PROVE Visible(sink[i].logs, Raw(sink[i]))
  BY DEF LogsCutVisibly, Visible, Raw
<1>2. sink[i] \in UsageEvents /\ Capped(sink[i])
  BY <1>1 DEF EmitterInv, EmitterTypes, SinkCapped
<1>3. Raw(sink[i]) \in Seq(Nat)
  BY <1>2, EventFields
<1> QED
  BY <1>2, <1>3, CapLogs DEF Capped

\* Every finished request's usage is in exactly one place and at most once in
\* the sink, in the order of emission, no drop is counted twice or forgotten,
\* no trace that came in time is missed and no log is cut silently.
THEOREM UsageSoundHolds == UsageSpec => []UsageSound
<1>1. UsageInv => UsageSound
  <2>1. SUFFICES ASSUME HandlerInv, EmitterInv PROVE UsageSound
    BY DEF UsageInv
  <2>2. EventsAccounted /\ LogsCutVisibly
    BY <2>1, AllAccounted, AllVisible
  <2>3. DropCountConserved
    BY <2>1 DEF EmitterInv, DropsEven, DropCountConserved
  <2>4. SinkInOrder
    BY <2>1 DEF EmitterInv, Placed, InLine, Ordered, Before, SinkInOrder
  <2>5. TraceNotMissed
    BY <2>1 DEF HandlerInv, HandlerOK, TraceNotMissed
  <2> QED
    BY <2>2, <2>3, <2>4, <2>5 DEF UsageSound
<1> QED
  BY <1>1, UsageInvariant, PTL
=============================================================================
