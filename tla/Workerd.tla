------------------------------- MODULE Workerd -------------------------------
(***************************************************************************)
(* The workerd runtime (pkg/runtime/workerdruntime) as the shim uses it:   *)
(* Launch with its port, directory and process, WaitReady, the switch to   *)
(* the new instance, Drain, and Close with its signals, called by the swap *)
(* that failed, by the goroutine that drains a replaced instance, and by   *)
(* the shim when it stops.  A step ends where the code returns, waits or   *)
(* hands over to the operating system; the processes are external.         *)
(***************************************************************************)
EXTENDS Integers, FiniteSets

CONSTANTS
  Runtimes,    \* instances, each launched at most once
  Ports,       \* loopback ports
  NoRuntime,   \* no instance; as a port: none yet
  DropUid,     \* Options.DropToUID is set
  WorkerdEnv   \* what may go wrong, a subset of WorkerdEvents

WorkerdEvents ==
  {"os",       \* a port, a directory, a file or a process cannot be had
   "eperm",    \* the pod may not change the uid
   "taken",    \* the port is in use by the time workerd listens
   "crash",    \* workerd exits by itself
   "cancel",   \* the context of the swap ends
   "deaf",     \* workerd does not react to SIGTERM within killGrace
   "slow",     \* draining takes longer than a minute
   "stop"}     \* the shim stops

ASSUME WorkerdAssumption ==
  /\ NoRuntime \notin Runtimes \cup Ports
  /\ DropUid \in BOOLEAN /\ WorkerdEnv \subseteq WorkerdEvents

VARIABLES
  inst,        \* the instances, their directories and processes
  closer,      \* instance -> who calls Close, and where that call is
  serving,     \* s.current
  stopper      \* Run on its way out
workerdVars == <<inst, closer, serving, stopper>>

ClosersOf == {"swap", "drainer", "stop"}
SwapStages == {"port", "dir", "write", "start", "retry", "wait", "switch"}

RuntimeState ==
  [stage : {"new", "live", "failed"} \cup SwapStages,   \* how far its swap is
   port : Ports \cup {NoRuntime},
   dir : BOOLEAN,                                       \* the directory exists
   proc : {"none", "boot", "bound", "gone"},
   done : BOOLEAN,                                      \* the done channel is closed
   killed : BOOLEAN,                                    \* SIGKILL was sent
   closed : BOOLEAN,                                    \* the closed flag
   load : 0..1,                                         \* requests counted on it
   prober : Runtimes \cup {NoRuntime}]                  \* who answered the probe

WorkerdTypeOK ==
  /\ inst \in [Runtimes -> RuntimeState]
  /\ closer \in [Runtimes -> [ClosersOf -> {"none", "drain", "close", "term", "kill", "back"}]]
  /\ serving \in Runtimes \cup {NoRuntime}
  /\ stopper \in {"up", "load", "over"}

WorkerdInit ==
  /\ inst = [i \in Runtimes |->
       [stage |-> "new", port |-> NoRuntime, dir |-> FALSE, proc |-> "none", done |-> FALSE,
        killed |-> FALSE, closed |-> FALSE, load |-> 0, prober |-> NoRuntime]]
  /\ closer = [i \in Runtimes |-> [k \in ClosersOf |-> "none"]]
  /\ serving = NoRuntime
  /\ stopper = "up"

InStage(i, where) == inst[i].stage = where
StageTo(i, where) == inst' = [inst EXCEPT ![i].stage = where]
CallTo(i, k, where) == closer' = [closer EXCEPT ![i][k] = where]
Undisturbed == UNCHANGED <<closer, serving, stopper>>

Listening(p) == {j \in Runtimes : inst[j].proc = "bound" /\ inst[j].port = p}
Calling(i, k) == closer[i][k] \notin {"none", "back"}
Launching == {i \in Runtimes : inst[i].stage \in SwapStages \/ Calling(i, "swap")}

-----------------------------------------------------------------------------
(* Launch.  The caller holds swapMu until its swap is over.                *)

\* Mutant of SwapBegins: swaps do not exclude each other.
SwapBeginsUnlocked(i) == InStage(i, "new") /\ StageTo(i, "port") /\ Undisturbed

SwapBegins(i) == InStage(i, "new") /\ Launching = {} /\ StageTo(i, "port") /\ Undisturbed

LaunchFailed(i) ==
  /\ "os" \in WorkerdEnv
  /\ inst' = [inst EXCEPT ![i].stage = "failed", ![i].dir = FALSE]

(* freePort: nobody listens on the port when the listener closes, and      *)
(* nothing reserves it afterwards.                                         *)
FreePort(i) ==
  /\ InStage(i, "port") /\ Undisturbed
  /\ \/ \E p \in {p \in Ports : Listening(p) = {}} :
          inst' = [inst EXCEPT ![i].stage = "dir", ![i].port = p]
     \/ LaunchFailed(i)

MakeDir(i) ==
  /\ InStage(i, "dir") /\ Undisturbed
  /\ inst' = [inst EXCEPT ![i].stage = "write", ![i].dir = TRUE] \/ LaunchFailed(i)

(* generateConfig, writeFiles and the links to the bundles.                *)
WriteConfig(i) ==
  /\ InStage(i, "write") /\ Undisturbed
  /\ StageTo(i, "start") \/ LaunchFailed(i)

(* The goroutine in cmd.Wait and the one that copies the output start with *)
(* the process.                                                            *)
Spawn(i) == inst' = [inst EXCEPT ![i].stage = "wait", ![i].proc = "boot"]

\* Mutant of StartProcess: a failed start leaves the directory.
StartKeepsDir(i) ==
  /\ InStage(i, "start") /\ Undisturbed
  /\ \/ Spawn(i)
     \/ "os" \in WorkerdEnv /\ StageTo(i, "failed")
     \/ DropUid /\ "eperm" \in WorkerdEnv /\ StageTo(i, "retry")

(* start: as the lower uid, if the pod may.                                *)
StartProcess(i) ==
  /\ InStage(i, "start") /\ Undisturbed
  /\ \/ Spawn(i)
     \/ LaunchFailed(i)
     \/ DropUid /\ "eperm" \in WorkerdEnv /\ StageTo(i, "retry")

(* start again, at the shim's own uid.                                     *)
StartAsSelf(i) == InStage(i, "retry") /\ Undisturbed /\ (Spawn(i) \/ LaunchFailed(i))

-----------------------------------------------------------------------------
(* The processes: one listens on its port unless it is taken, and exits by *)
(* itself or on a signal.                                                  *)

Runs(i) == inst[i].proc \in {"boot", "bound"}

Bind(i) ==
  /\ inst[i].proc = "boot" /\ Undisturbed
  /\ \/ Listening(inst[i].port) = {} /\ inst' = [inst EXCEPT ![i].proc = "bound"]
     \/ /\ Listening(inst[i].port) # {} \/ "taken" \in WorkerdEnv
        /\ inst' = [inst EXCEPT ![i].proc = "gone"]

Signalled(i) == \E k \in ClosersOf : closer[i][k] \in {"term", "kill"}
Exit(i) ==
  /\ Runs(i) /\ Undisturbed
  /\ inst[i].killed \/ Signalled(i) \/ "crash" \in WorkerdEnv
  /\ inst' = [inst EXCEPT ![i].proc = "gone"]

(* cmd.Wait returns.                                                       *)
Reap(i) ==
  /\ inst[i].proc = "gone" /\ ~inst[i].done /\ Undisturbed
  /\ inst' = [inst EXCEPT ![i].done = TRUE]

-----------------------------------------------------------------------------
(* WaitReady and what swap does after it.                                  *)

(* probe asks the port: whoever listens there answers.                     *)
Probe(i) ==
  /\ InStage(i, "wait") /\ Undisturbed
  /\ \E j \in Listening(inst[i].port) :
       inst' = [inst EXCEPT ![i].stage = "switch", ![i].prober = j]

(* The process exited, or the context ended first.                         *)
NotReady(i) ==
  /\ InStage(i, "wait") /\ (inst[i].done \/ "cancel" \in WorkerdEnv)
  /\ StageTo(i, "failed") /\ CallTo(i, "swap", "close")
  /\ UNCHANGED <<serving, stopper>>

(* SetInFlightFunc, s.current.Swap, and the goroutine for the old one.     *)
SwitchTo(i) ==
  /\ InStage(i, "switch") /\ StageTo(i, "live")
  /\ serving' = i
  /\ IF serving = NoRuntime THEN UNCHANGED closer ELSE CallTo(serving, "drainer", "drain")
  /\ UNCHANGED stopper

(* A request is counted on the instance it was given, which may have been  *)
(* replaced meanwhile, and over.                                           *)
CountIn(i) ==
  /\ InStage(i, "live") /\ inst[i].load = 0 /\ Undisturbed
  /\ inst' = [inst EXCEPT ![i].load = 1]
CountOut(i) ==
  /\ inst[i].load = 1 /\ Undisturbed
  /\ inst' = [inst EXCEPT ![i].load = 0]

\* Mutant of Drain: the wait has no limit.
DrainForever(i) ==
  /\ closer[i]["drainer"] = "drain" /\ inst[i].load = 0
  /\ CallTo(i, "drainer", "close")
  /\ UNCHANGED <<inst, serving, stopper>>

Drain(i) ==
  /\ closer[i]["drainer"] = "drain"
  /\ inst[i].load = 0 \/ inst[i].done \/ "slow" \in WorkerdEnv
  /\ CallTo(i, "drainer", "close")
  /\ UNCHANGED <<inst, serving, stopper>>

-----------------------------------------------------------------------------
(* Close: the second caller returns at once, the first one sends SIGTERM.  *)
CloseEnter(i, k) ==
  /\ closer[i][k] = "close"
  /\ inst' = [inst EXCEPT ![i].closed = TRUE]
  /\ CallTo(i, k, IF inst[i].closed THEN "back" ELSE "term")
  /\ UNCHANGED <<serving, stopper>>

\* Mutant of Escalate: the directory goes with the signal, before the process.
EscalateAndClean(i, k) ==
  /\ closer[i][k] = "term" /\ "deaf" \in WorkerdEnv
  /\ inst' = [inst EXCEPT ![i].killed = TRUE, ![i].dir = FALSE]
  /\ CallTo(i, k, "back")
  /\ UNCHANGED <<serving, stopper>>

(* killGrace is over: SIGKILL.                                             *)
Escalate(i, k) ==
  /\ closer[i][k] = "term" /\ "deaf" \in WorkerdEnv
  /\ inst' = [inst EXCEPT ![i].killed = TRUE]
  /\ CallTo(i, k, "kill")
  /\ UNCHANGED <<serving, stopper>>

CloseExit(i, k) ==
  /\ closer[i][k] \in {"term", "kill"} /\ inst[i].done
  /\ inst' = [inst EXCEPT ![i].dir = FALSE]
  /\ CallTo(i, k, "back")
  /\ UNCHANGED <<serving, stopper>>

(* Run after its context ended: it reads s.current and closes what it saw. *)
StopOrdered ==
  /\ "stop" \in WorkerdEnv /\ stopper = "up" /\ stopper' = "load"
  /\ UNCHANGED <<inst, closer, serving>>
StopCloses ==
  /\ stopper = "load" /\ stopper' = "over"
  /\ IF serving = NoRuntime THEN UNCHANGED closer ELSE CallTo(serving, "stop", "close")
  /\ UNCHANGED <<inst, serving>>

Swap(i) == \/ SwapBegins(i) \/ FreePort(i) \/ MakeDir(i) \/ WriteConfig(i)
           \/ StartProcess(i) \/ StartAsSelf(i)
           \/ Probe(i) \/ NotReady(i) \/ SwitchTo(i)
Close(i, k) == CloseEnter(i, k) \/ Escalate(i, k) \/ CloseExit(i, k)
WorkerdNext ==
  \/ \E i \in Runtimes :
       \/ Swap(i) \/ Bind(i) \/ Exit(i) \/ Reap(i) \/ CountIn(i) \/ CountOut(i) \/ Drain(i)
       \/ \E k \in ClosersOf : Close(i, k)
  \/ StopOrdered \/ StopCloses
WorkerdSpec == WorkerdInit /\ [][WorkerdNext]_workerdVars

-----------------------------------------------------------------------------
(* workerd runs in its directory and reads its configuration from it: the  *)
(* directory outlives the process, whichever of the callers closes it and  *)
(* whether or not it had to be killed (Close, runtime.go:294-318).         *)
DirOutlivesProcess == \A i \in Runtimes : Runs(i) => inst[i].dir

(* No process and no directory is lost: an instance that has either is     *)
(* being launched, is the current one, or somebody has yet to finish       *)
(* closing it (Launch's error paths; swap, loader.go:179-206).             *)
RuntimesOwned ==
  \A i \in Runtimes : Runs(i) \/ inst[i].dir =>
    i \in Launching \cup {serving} \/ \E k \in ClosersOf : Calling(i, k)

(* The port of a new instance is not reserved between freePort and the     *)
(* start of workerd, and the probe cannot tell who answers.  Since swaps   *)
(* exclude each other and a failed one waits for its process, it is always *)
(* the new process that answered (runtime.go:232-268, 320-328).            *)
ReadyIsOwn == \A i \in Runtimes : inst[i].prober \in {i, NoRuntime}

(* A replaced instance is gone some day, process and directory: draining   *)
(* ends after a minute, and Close does not need workerd's cooperation.     *)
ReplacedIsGone ==
  \A i \in Runtimes : (InStage(i, "live") /\ serving # i) ~> (~Runs(i) /\ ~inst[i].dir)
=============================================================================
