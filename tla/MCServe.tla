------------------------------- MODULE MCServe ------------------------------
(***************************************************************************)
(* What the serving side must eventually do, on instances small enough for *)
(* liveness: the shim, its runtime, the router, and the two usage logs.    *)
(* They share nothing here: part says which one a behaviour is about.      *)
(***************************************************************************)
EXTENDS Shim, Workerd, Router, UsageLog, AccessLog

CONSTANTS pa, pb, a1, a2, b1, r1, r2

VARIABLE part

PageMap == a1 :> pa @@ a2 :> pa @@ b1 :> pb
RivalWants == r1 :> a1 @@ r2 :> a2

Api == Seg("api", 0)
Served(hash, runs, globs) ==
  [static |-> (<<Index>> :> hash), redirects |-> <<>>, headers |-> <<>>, worker |-> runs,
   routes |-> [absent |-> globs = <<>>, include |-> globs, exclude |-> <<>>]]
Ask(path) == [host |-> "www", path |-> path, method |-> "GET", inm |-> [star |-> FALSE, tags |-> {}]]
TheSizes == [h \in Hashes |-> 1]
TheInfos == {[tenant |-> "t", page |-> pa, dep |-> a1], [tenant |-> "t", page |-> pa, dep |-> a2]}
TheManifests == a1 :> Served("h1", FALSE, <<>>) @@
                a2 :> Served("h1", TRUE, <<[glob |-> <<Api, Splat>>]>>)
TheAsks == {Ask(<<Empty>>), Ask(<<Api, Api>>)}
TheAsksOf == r1 :> {Ask(<<Empty>>)} @@ r2 :> {Ask(<<Api, Api>>)}

NoLogs == [r \in Proxied |-> <<>>]
OnePost == [r \in Proxied |-> 1]

-----------------------------------------------------------------------------
Is(p) == part = p
routing == <<routerVars, cacheVars>>
logs == <<usageVars, accessVars>>
serveVars == <<part, vars, workerdVars, routing, logs>>

MCInit ==
  /\ part \in {"shim", "workerd", "router", "usage", "access"}
  /\ Init /\ WorkerdInit
  /\ RouterInit /\ table["www"].dep = a2
  /\ UsageInit /\ (~Is("usage") => toHub)
  /\ AccessInit /\ (~Is("access") => viaHub)
MCNext ==
  /\ UNCHANGED part
  /\ \/ Is("shim") /\ Next /\ UNCHANGED <<workerdVars, routing, logs>>
     \/ Is("workerd") /\ WorkerdNext /\ UNCHANGED <<vars, routing, logs>>
     \/ Is("router") /\ RouterNext /\ UNCHANGED <<vars, workerdVars, logs>>
     \/ Is("usage") /\ UsageNext /\ UNCHANGED <<vars, workerdVars, routing, accessVars>>
     \/ Is("access") /\ AccessNext /\ UNCHANGED <<vars, workerdVars, routing, usageVars>>

(* The fairness of the modules, each while its own part moves.             *)
ShimFair ==
  /\ \A r \in Requests : WF_vars(Is("shim") /\ Handle(r))
  /\ \A x \in Requests \cup {Sweeper} : /\ SF_vars(Is("shim") /\ SwapStart(x))
                                        /\ WF_vars(Is("shim") /\ Swapping(x))
  /\ \A i \in Instances : WF_vars(Is("shim") /\ CloseOld(i))
(* A killed process exits, a timer fires, a goroutine that can run does.   *)
WorkerdFair ==
  \A i \in Runtimes :
    /\ WF_workerdVars(Is("workerd") /\ inst[i].killed /\ Exit(i))
    /\ WF_workerdVars(Is("workerd") /\ Reap(i))
    /\ WF_workerdVars(Is("workerd") /\ Drain(i))
    /\ \A k \in ClosersOf : WF_workerdVars(Is("workerd") /\ Close(i, k))
RouterFair ==
  /\ \A r \in Handlers : /\ WF_routing(Is("router") /\ HandlerStep(r))
                         /\ WF_routing(Is("router") /\ Reclaim(r))
  /\ \A h \in RHosts : WF_routing(Is("router") /\ Expire(h))
LogsFair ==
  /\ \A r \in Proxied :
       /\ WF_usageVars(Is("usage") /\ (Forwarded(r) \/ WaitOver(r) \/ EmitUsage(r)))
       /\ WF_usageVars(Is("usage") /\ Outlive(r))
  /\ WF_usageVars(Is("usage") /\ Janitor) /\ WF_usageVars(Is("usage") /\ Emitting)
  /\ WF_usageVars(Is("usage") /\ Ingest)
  /\ WF_accessVars(Is("access") /\ Flushing)

MCSpec == MCInit /\ [][MCNext]_serveVars /\ ShimFair /\ WorkerdFair /\ RouterFair /\ LogsFair

(* Both logs empty their buffers as long as their process lives, and the   *)
(* correlator forgets every request.                                       *)
LogsDrain == EventsSettle /\ EntriesForgotten /\ BufferDrains
=============================================================================
