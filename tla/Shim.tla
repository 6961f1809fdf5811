-------------------------------- MODULE Shim --------------------------------
(***************************************************************************)
(* The worker shim's bundle cache and runtime instances (pkg/shim): the    *)
(* request path serveProxy -> ensureLoaded -> load -> swap -> forward, and *)
(* the LRU sweep that runs beside it.                                      *)
(*                                                                         *)
(* One action is one critical section (mu, loadingMu, swapMu) or one call  *)
(* that takes time (fetch, launch, forward).  Bundles have size 1, so a    *)
(* budget in bytes is a number of deployments; the files on disk and the   *)
(* tail traces are left out.                                               *)
(***************************************************************************)
EXTENDS Integers, Sequences, FiniteSets, SequencesExt

CONSTANTS
  Requests,    \* proxied requests
  Pages,
  Deployments,
  PageOf,      \* deployment -> its page
  Wants,       \* request -> the deployment its header names
  Instances,   \* names for runtime instances; one is used again when nobody knows it any more
  CacheMax,    \* CacheMaxBytes, in bundles
  Env,         \* what may go wrong or arrive in this instance, a subset of Events
  Sweeper,     \* the sweep goroutine
  None

Events == {"load",     \* fetching the bundle or the page config fails
           "launch",   \* launching the runtime, or waiting for it, fails
           "slow",     \* a request takes longer than MinIdle to get from its load to the runtime
           "drain",    \* the controller orders the pod to drain
           "timeout"}  \* draining an old instance takes longer than a minute

ASSUME ShimAssumption ==
  /\ PageOf \in [Deployments -> Pages] /\ Wants \in [Requests -> Deployments]
  /\ CacheMax \in Nat /\ Env \subseteq Events
  /\ None \notin Deployments \cup Instances \cup Requests \cup {Sweeper}
  /\ Sweeper \notin Requests
ASSUME RequestsFinite == IsFiniteSet(Requests)

VARIABLES
  active,    \* page -> deployment in s.active, None without one
  lru,       \* s.deployments, least recently used first
  fresh,     \* deployments used less than MinIdle ago
  current,   \* s.current
  istate,    \* instance -> "ready", "draining" or "closed" (not running)
  iset,      \* instance -> the load set it was launched with, empty once closed
  inFlight,  \* instance -> liveInstance.inFlight
  draining,  \* s.draining
  loading,   \* page -> the request running its load (s.loading)
  done,      \* request -> its loadCall.done is closed
  failed,    \* request -> its loadCall.err is set
  pc,        \* request -> where its handler is, or its outcome; Sweeper -> where the sweep is
  at,        \* request -> the request whose load it waits for
  using,     \* request -> the instance it was given
  swapMu,    \* who is inside swap
  desired,   \* the load set of that swap
  spare      \* the instance that swap has launched; then the one it has replaced

loadVars == <<loading, done, failed, at>>
instVars == <<istate, iset, inFlight>>
swapVars == <<swapMu, desired, spare>>
vars == <<active, lru, fresh, current, instVars, draining, loadVars, pc, using, swapVars>>

Page(r) == PageOf[Wants[r]]
Stored == ToSet(lru)
NoPages == [p \in Pages |-> None]

Init ==
  /\ active = NoPages /\ lru = <<>> /\ fresh = {}
  /\ current = None
  /\ istate = [i \in Instances |-> "closed"]
  /\ iset = [i \in Instances |-> NoPages]
  /\ inFlight = [i \in Instances |-> 0]
  /\ draining = FALSE
  /\ loading = [p \in Pages |-> None]
  /\ done = [r \in Requests |-> FALSE] /\ failed = [r \in Requests |-> FALSE]
  /\ at = [r \in Requests |-> None]
  /\ pc = [x \in Requests \cup {Sweeper} |-> IF x = Sweeper THEN "sleep" ELSE "new"]
  /\ using = [r \in Requests |-> None]
  /\ swapMu = None /\ desired = NoPages /\ spare = None

Goto(x, where) == pc' = [pc EXCEPT ![x] = where]

-----------------------------------------------------------------------------
(* The clock: lastUsed and MinIdle. *)

\* s.deployments with d as the last one used.
Newest(d) == Append(SelectSeq(lru, LAMBDA x : x # d), d)

\* d.lastUsed = now, for a deployment that is stored.
Touch(d) ==
  IF d \in Stored
    THEN /\ lru' = Newest(d)
         /\ fresh' = fresh \cup {d}
    ELSE UNCHANGED <<lru, fresh>>

\* MinIdle passes since the last use of a deployment, and of all older ones.
Age(d) ==
  /\ d \in fresh
  /\ \/ "slow" \in Env
     \/ \A r \in Requests :
          Wants[r] = d => pc[r] \notin {"swap", "launch", "switch", "publish", "settle", "leave", "pick", "count"}
  /\ \A i, j \in DOMAIN lru : i < j /\ lru[j] = d => lru[i] \notin fresh
  /\ fresh' = fresh \ {d}
  /\ UNCHANGED <<active, lru, current, instVars, draining, loadVars, pc, using, swapVars>>

-----------------------------------------------------------------------------
(* ensureLoaded. *)

\* serveProxy: a draining pod answers 503.
Arrive(r) ==
  /\ pc[r] = "new"
  /\ Goto(r, IF draining THEN "refused" ELSE "check")
  /\ UNCHANGED <<active, lru, fresh, current, instVars, draining, loadVars, using, swapVars>>

\* s.active under mu.
CheckActive(r) ==
  /\ pc[r] = "check"
  /\ IF active[Page(r)] = Wants[r]
       THEN Touch(Wants[r]) /\ Goto(r, "pick")
       ELSE Goto(r, "flight") /\ UNCHANGED <<lru, fresh>>
  /\ UNCHANGED <<active, current, instVars, draining, loadVars, using, swapVars>>

\* Mutant: only a load of the same deployment is joined.
JoinSameDeployment(r) ==
  /\ pc[r] = "flight"
  /\ IF loading[Page(r)] # None /\ Wants[loading[Page(r)]] = Wants[r]
       THEN at' = [at EXCEPT ![r] = loading[Page(r)]] /\ Goto(r, "join") /\ UNCHANGED loading
       ELSE loading' = [loading EXCEPT ![Page(r)] = r] /\ Goto(r, "fetch") /\ UNCHANGED at
  /\ UNCHANGED <<active, lru, fresh, current, instVars, draining, done, failed, using, swapVars>>

\* s.loading under loadingMu: join the load of the page, or start one.
JoinOrLead(r) ==
  /\ pc[r] = "flight"
  /\ IF loading[Page(r)] # None
       THEN at' = [at EXCEPT ![r] = loading[Page(r)]] /\ Goto(r, "join") /\ UNCHANGED loading
       ELSE loading' = [loading EXCEPT ![Page(r)] = r] /\ Goto(r, "fetch") /\ UNCHANGED at
  /\ UNCHANGED <<active, lru, fresh, current, instVars, draining, done, failed, using, swapVars>>

\* The load waited for is done: its error counts for the same deployment only,
\* otherwise the loop starts over.
Joined(r) ==
  /\ pc[r] = "join"
  /\ done[at[r]]
  /\ Goto(r, IF Wants[at[r]] = Wants[r] /\ failed[at[r]] THEN "error" ELSE "check")
  /\ at' = [at EXCEPT ![r] = None]
  /\ UNCHANGED <<active, lru, fresh, current, instVars, draining, loading, done, failed, using, swapVars>>

-----------------------------------------------------------------------------
(* load and swap. *)

\* fetchBundle and fetchPageConfig; then the deployment is stored.
Fetch(r) ==
  /\ pc[r] = "fetch"
  /\ lru' = Newest(Wants[r])
  /\ fresh' = fresh \cup {Wants[r]}
  /\ Goto(r, "swap")
  /\ UNCHANGED <<active, current, instVars, draining, loadVars, using, swapVars>>

FetchFails(r) ==
  /\ "load" \in Env
  /\ pc[r] = "fetch"
  /\ failed' = [failed EXCEPT ![r] = TRUE]
  /\ Goto(r, "settle")
  /\ UNCHANGED <<active, lru, fresh, current, instVars, draining, loading, done, at, using, swapVars>>

\* load's mutate: the page is added, pages idle for MinIdle are dropped.
WithPage(r) ==
  [p \in Pages |->
     IF p = Page(r) THEN Wants[r]
     ELSE IF active[p] \in Stored \ fresh THEN None ELSE active[p]]

\* buildSpecLocked finds a deployment for every page.
Buildable(set) == \A p \in Pages : set[p] # None => set[p] \in Stored

\* What a swap does when it ends without a new instance.
SwapFails(x) ==
  /\ IF x = Sweeper
       THEN Goto(x, "sleep") /\ UNCHANGED failed
       ELSE Goto(x, "settle") /\ failed' = [failed EXCEPT ![x] = TRUE]
  /\ swapMu' = None /\ desired' = NoPages /\ spare' = None

\* swapMu is taken, the load set computed under mu and the spec built from it.
SwapStart(x) ==
  /\ pc[x] = "swap"
  /\ swapMu = None
  /\ LET set == IF x = Sweeper THEN active ELSE WithPage(x) IN
       IF Buildable(set)
         THEN /\ swapMu' = x /\ desired' = set
              /\ Goto(x, "launch")
              /\ UNCHANGED <<failed, spare>>
         ELSE SwapFails(x)
  /\ UNCHANGED <<active, lru, fresh, current, instVars, draining, loading, done, at, using>>

\* Runtime.Launch and WaitReady.
Launch(x) ==
  /\ pc[x] = "launch"
  /\ \E i \in Instances :
       /\ istate[i] = "closed" /\ \A r \in Requests : using[r] # i
       /\ istate' = [istate EXCEPT ![i] = "ready"]
       /\ iset' = [iset EXCEPT ![i] = desired]
       /\ spare' = i
  /\ Goto(x, "switch")
  /\ UNCHANGED <<active, lru, fresh, current, inFlight, draining, loadVars, using, swapMu, desired>>

\* The launch fails, or the instance does not get ready and is closed.
LaunchFails(x) ==
  /\ "launch" \in Env
  /\ pc[x] = "launch"
  /\ SwapFails(x)
  /\ UNCHANGED <<active, lru, fresh, current, instVars, draining, loading, done, at, using>>

\* s.current.Swap: new traffic goes to the new instance.
Switch(x) ==
  /\ pc[x] = "switch"
  /\ current' = spare
  /\ spare' = current
  /\ Goto(x, "publish")
  /\ UNCHANGED <<active, lru, fresh, instVars, draining, loadVars, using, swapMu, desired>>

\* Mutant: only the loaded page is published, the shrink is forgotten.
PublishOwnPage(x) ==
  /\ pc[x] = "publish"
  /\ active' = [p \in Pages |-> IF desired[p] # None THEN desired[p] ELSE active[p]]
  /\ istate' = [i \in Instances |-> IF i = spare THEN "draining" ELSE istate[i]]
  /\ Goto(x, IF x = Sweeper THEN "sleep" ELSE "settle")
  /\ swapMu' = None /\ desired' = NoPages /\ spare' = None
  /\ UNCHANGED <<lru, fresh, current, iset, inFlight, draining, loadVars, using>>

\* Mutant: after the sweep's swap the old instance is left running.
PublishKeepsOld(x) ==
  /\ pc[x] = "publish"
  /\ active' = desired
  /\ istate' = [i \in Instances |-> IF i = spare /\ x # Sweeper THEN "draining" ELSE istate[i]]
  /\ Goto(x, IF x = Sweeper THEN "sleep" ELSE "settle")
  /\ swapMu' = None /\ desired' = NoPages /\ spare' = None
  /\ UNCHANGED <<lru, fresh, current, iset, inFlight, draining, loadVars, using>>

\* s.active = desired under mu; the old instance is drained in the background;
\* swapMu is released.
Publish(x) ==
  /\ pc[x] = "publish"
  /\ active' = desired
  /\ istate' = [i \in Instances |-> IF i = spare THEN "draining" ELSE istate[i]]
  /\ Goto(x, IF x = Sweeper THEN "sleep" ELSE "settle")
  /\ swapMu' = None /\ desired' = NoPages /\ spare' = None
  /\ UNCHANGED <<lru, fresh, current, iset, inFlight, draining, loadVars, using>>

\* The load ends: the joiners are released, then the entry is removed.
Settle(r) ==
  /\ pc[r] = "settle"
  /\ done' = [done EXCEPT ![r] = TRUE]
  /\ Goto(r, "leave")
  /\ UNCHANGED <<active, lru, fresh, current, instVars, draining, loading, failed, at, using, swapVars>>

\* Mutant: a failed load returns before its entry is deleted.
LeaveOnSuccess(r) ==
  /\ pc[r] = "leave"
  /\ loading' = IF failed[r] THEN loading ELSE [loading EXCEPT ![Page(r)] = None]
  /\ Goto(r, IF failed[r] THEN "error" ELSE "pick")
  /\ UNCHANGED <<active, lru, fresh, current, instVars, draining, done, failed, at, using, swapVars>>

Leave(r) ==
  /\ pc[r] = "leave"
  /\ loading' = [loading EXCEPT ![Page(r)] = None]
  /\ Goto(r, IF failed[r] THEN "error" ELSE "pick")
  /\ UNCHANGED <<active, lru, fresh, current, instVars, draining, done, failed, at, using, swapVars>>

\* Instance.Drain returns, all counted requests answered or a minute gone by;
\* then Close.
CloseOld(i) ==
  /\ istate[i] = "draining"
  /\ inFlight[i] = 0 \/ "timeout" \in Env
  /\ istate' = [istate EXCEPT ![i] = "closed"]
  /\ iset' = [iset EXCEPT ![i] = NoPages]
  /\ UNCHANGED <<active, lru, fresh, current, inFlight, draining, loadVars, pc, using, swapVars>>

-----------------------------------------------------------------------------
(* forward. *)

\* s.current.Load().  (It is never nil here: a load has succeeded.)
Pick(r) ==
  /\ pc[r] = "pick"
  /\ using' = [using EXCEPT ![r] = current]
  /\ Goto(r, IF current = None THEN "error" ELSE "count")
  /\ UNCHANGED <<active, lru, fresh, current, instVars, draining, loadVars, swapVars>>

\* Mutant: the request is not counted.
CountForgotten(r) ==
  /\ pc[r] = "count"
  /\ Goto(r, "forward")
  /\ UNCHANGED <<active, lru, fresh, current, instVars, draining, loadVars, using, swapVars>>

\* The request is counted on the instance only now.
Count(r) ==
  /\ pc[r] = "count"
  /\ inFlight' = [inFlight EXCEPT ![using[r]] = @ + 1]
  /\ Goto(r, "forward")
  /\ UNCHANGED <<active, lru, fresh, current, istate, iset, draining, loadVars, using, swapVars>>

\* Mutant: a request whose instance has been replaced meanwhile is never counted down.
ForwardCountsAnswers(r) ==
  /\ pc[r] = "forward"
  /\ inFlight' = [inFlight EXCEPT ![using[r]] = IF istate[using[r]] = "ready" THEN @ - 1 ELSE @]
  /\ Touch(Wants[r])
  /\ Goto(r, IF istate[using[r]] = "closed" THEN "error" ELSE "served")
  /\ using' = [using EXCEPT ![r] = None]
  /\ UNCHANGED <<active, current, istate, iset, draining, loadVars, swapVars>>

\* The round trip; 502 when the instance is closed.  Then touch.
Forward(r) ==
  /\ pc[r] = "forward"
  /\ inFlight' = [inFlight EXCEPT ![using[r]] = @ - 1]
  /\ Touch(Wants[r])
  /\ Goto(r, IF istate[using[r]] = "closed" THEN "error" ELSE "served")
  /\ using' = [using EXCEPT ![r] = None]
  /\ UNCHANGED <<active, current, istate, iset, draining, loadVars, swapVars>>

\* A heartbeat response orders the pod to drain.
DrainOrdered ==
  /\ "drain" \in Env
  /\ ~draining
  /\ draining' = TRUE
  /\ UNCHANGED <<active, lru, fresh, current, instVars, loadVars, pc, using, swapVars>>

-----------------------------------------------------------------------------
(* sweep. *)

\* Superseded deployments that have been idle for MinIdle.
Superseded == {d \in Stored \ fresh : active[PageOf[d]] # d}

\* Over budget: the active ones idle for MinIdle, oldest first, as many as
\* bring the total down to the budget.
Evicted ==
  LET kept  == Stored \ Superseded
      cands == SelectSeq(lru, LAMBDA d : d \in kept \ fresh)
      over  == Cardinality(kept) - CacheMax
  IN  {cands[n] : n \in {m \in DOMAIN cands : m <= over}}

\* One sweep under mu.  It swaps when an active deployment was evicted.
Sweep ==
  /\ pc[Sweeper] = "sleep"
  /\ Superseded \cup Evicted # {}
  /\ lru' = SelectSeq(lru, LAMBDA d : d \notin Superseded \cup Evicted)
  /\ active' = [p \in Pages |-> IF active[p] \in Evicted THEN None ELSE active[p]]
  /\ Goto(Sweeper, IF Evicted # {} THEN "swap" ELSE "sleep")
  /\ UNCHANGED <<fresh, current, instVars, draining, loadVars, using, swapVars>>

-----------------------------------------------------------------------------
\* swap once swapMu is held.
Swapping(x) == Launch(x) \/ LaunchFails(x) \/ Switch(x) \/ Publish(x)

Handle(r) ==
  \/ CheckActive(r) \/ JoinOrLead(r) \/ Joined(r)
  \/ Fetch(r) \/ FetchFails(r) \/ Settle(r) \/ Leave(r)
  \/ Pick(r) \/ Count(r) \/ Forward(r)

Next ==
  \/ \E r \in Requests : Arrive(r) \/ Handle(r)
  \/ \E x \in Requests \cup {Sweeper} : SwapStart(x) \/ Swapping(x)
  \/ \E i \in Instances : CloseOld(i)
  \/ \E d \in Deployments : Age(d)
  \/ Sweep
  \/ DrainOrdered

Spec == Init /\ [][Next]_vars

(* Goroutines that can run do run and swapMu is fair (Go's mutex hands over *)
(* to a waiter that starves).  A fetch, a launch and a forward return: the  *)
(* first two end with the context of the request, the last one also with    *)
(* the instance.  (The sweep's own launch has no such limit: here it is     *)
(* assumed that a workerd process gets ready or exits.)                     *)
Fairness ==
  /\ \A r \in Requests : WF_vars(Handle(r))
  /\ \A x \in Requests \cup {Sweeper} :
       SF_vars(SwapStart(x)) /\ WF_vars(Swapping(x))
  /\ \A i \in Instances : WF_vars(CloseOld(i))

FairSpec == Spec /\ Fairness

-----------------------------------------------------------------------------
TypeOK ==
  /\ active \in [Pages -> Deployments \cup {None}]
  /\ lru \in Seq(Deployments) /\ fresh \subseteq Deployments
  /\ current \in Instances \cup {None} /\ spare \in Instances \cup {None}
  /\ istate \in [Instances -> {"ready", "draining", "closed"}]
  /\ iset \in [Instances -> [Pages -> Deployments \cup {None}]]
  /\ inFlight \in [Instances -> Nat]
  /\ draining \in BOOLEAN
  /\ loading \in [Pages -> Requests \cup {None}]
  /\ done \in [Requests -> BOOLEAN] /\ failed \in [Requests -> BOOLEAN]
  /\ at \in [Requests -> Requests \cup {None}]
  /\ pc \in [Requests \cup {Sweeper} ->
             {"new", "refused", "check", "flight", "join", "fetch", "swap", "launch", "switch", "publish",
              "settle", "leave", "pick", "count", "forward", "served", "error", "sleep"}]
  /\ using \in [Requests -> Instances \cup {None}]
  /\ swapMu \in Requests \cup {Sweeper, None} /\ desired \in [Pages -> Deployments \cup {None}]

Outcomes == {"refused", "served", "error"}

(* ensureLoaded's single flight: while a request fetches a bundle of a page, *)
(* swaps or has not yet settled its call, no other request loads that page, *)
(* not even for another deployment.                                         *)
LoadsSerial ==
  LET Leading == {r \in Requests :
                    pc[r] \in {"fetch", "swap", "launch", "switch", "publish", "settle", "leave"}}
  IN  \A r \in Leading :
        /\ loading[Page(r)] = r
        /\ \A q \in Leading : Page(q) = Page(r) => q = r

(* The answer ensureLoaded gives is about the instance that runs: outside   *)
(* the few lines of swap between current.Swap and s.active = desired, every *)
(* page in s.active is served by the current instance, with the deployment  *)
(* s.active names, whatever the sweep does meanwhile.                       *)
CurrentServesActive ==
  \A p \in Pages :
    /\ active[p] # None
    /\ \A x \in Requests \cup {Sweeper} : pc[x] # "publish"
    => /\ current # None
       /\ iset[current][p] = active[p]

(* No runtime process is lost and none is stopped too early: the running    *)
(* instances are the current one and the one the swap in progress holds.    *)
(* Every other one has been closed or is being drained.                     *)
InstancesOwned ==
  /\ {i \in Instances : istate[i] = "ready"} = {current, spare} \ {None}
  /\ spare # None => swapMu # None

(* Every accepted request is answered: joining a load that fails, one for   *)
(* another deployment, or one whose entry is not yet removed never leaves a *)
(* handler spinning or waiting for good.                                    *)
RequestsFinish == \A r \in Requests : pc[r] # "new" ~> pc[r] \in Outcomes

(* A replaced instance is closed in the end.                                *)
OldInstancesClosed == \A i \in Instances : istate[i] = "draining" ~> istate[i] = "closed"

(* What the shim owes in the end: an answer to every request and the end   *)
(* of every replaced instance.                                             *)
ShimLive == RequestsFinish /\ OldInstancesClosed

(* swap's comment: "The whole swap is serialized so concurrent              *)
(* loads/evictions do not race" (loader.go:163-166).  If so, the load set   *)
(* names only deployments the shim still has.  It does not: the sweep trims *)
(* s.active under mu but outside swapMu, and the swap that was launching    *)
(* then publishes the set it had copied.                                    *)
NoMissingDeployment == Buildable(active)
=============================================================================
