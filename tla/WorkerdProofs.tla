---------------------------- MODULE WorkerdProofs ----------------------------
(***************************************************************************)
(* Proofs about Workerd, for every set of instances and ports and whatever *)
(* goes wrong: the directory outlives the process, no process or directory *)
(* is lost, and the process that answers the probe is the new one.         *)
(***************************************************************************)
EXTENDS Workerd, WorkerdConfig, SeqLemmas, TLAPS

Unstarted == {"new", "port", "dir", "write", "start", "retry"}
PortChosen == {"dir", "write", "start", "retry", "wait"}

(* What an instance has at which point of its launch.                      *)
StageInv ==
  \A i \in Runtimes :
    /\ inst[i].stage \in Unstarted => inst[i].proc = "none"
    /\ inst[i].stage \in {"new", "port", "dir"} => ~inst[i].dir
    /\ inst[i].stage \in {"write", "start", "retry"} => inst[i].dir
    /\ inst[i].stage \in {"switch", "live"} => inst[i].proc # "boot"
    /\ inst[i].stage = "failed" /\ closer[i]["swap"] = "none" =>
         inst[i].proc = "none" /\ ~inst[i].dir
    /\ inst[i].done => inst[i].proc = "gone"

(* Who may close it when, and what has happened when a call is back.       *)
CloseInv ==
  \A i \in Runtimes :
    /\ inst[i].stage # "failed" => closer[i]["swap"] = "none"
    /\ inst[i].stage # "live" => closer[i]["drainer"] = "none" /\ closer[i]["stop"] = "none"
    /\ \A k \in ClosersOf : closer[i][k] \in {"term", "kill", "back"} => inst[i].closed
    /\ inst[i].closed => Signalled(i) \/ (inst[i].done /\ ~inst[i].dir)

(* The current instance is live and not yet being drained, every other     *)
(* live one is, or was.                                                    *)
ServingInv ==
  /\ serving # NoRuntime => InStage(serving, "live") /\ closer[serving]["drainer"] = "none"
  /\ \A i \in Runtimes : InStage(i, "live") /\ i # serving => closer[i]["drainer"] # "none"
  /\ stopper # "over" => \A i \in Runtimes : closer[i]["stop"] = "none"

(* One swap at a time, and every process that does not listen yet belongs  *)
(* to it: nobody else can come to listen on its port.                      *)
AloneInv ==
  /\ \A i, j \in Launching : i = j
  /\ \A i \in Runtimes : inst[i].proc = "boot" => i \in Launching
  /\ \A i, j \in Runtimes :
       inst[i].stage \in PortChosen /\ j \in Listening(inst[i].port) => j = i

WorkerdInv ==
  /\ WorkerdTypeOK
  /\ StageInv /\ DirOutlivesProcess
  /\ CloseInv /\ ServingInv
  /\ AloneInv /\ ReadyIsOwn

-----------------------------------------------------------------------------
(* A swap takes swapMu: no other one is under way.                         *)
LEMMA SwapBeginsKeeps ==
  ASSUME WorkerdInv, NEW i \in Runtimes,
         SwapBegins(i)
  PROVE  WorkerdInv'
<1>1. WorkerdTypeOK'
  <2>1. inst[i] \in RuntimeState
    BY DEF WorkerdInv, WorkerdTypeOK
  <2>2. inst'[i] \in RuntimeState
    BY <2>1 DEF WorkerdInv, SwapBegins, InStage, StageTo, Undisturbed,
         WorkerdTypeOK, RuntimeState, SwapStages
  <2>3. inst' \in [Runtimes -> RuntimeState]
    BY <2>2 DEF WorkerdInv, SwapBegins, InStage, StageTo, Undisturbed,
         WorkerdTypeOK
  <2> QED
    BY <2>3 DEF WorkerdInv, SwapBegins, InStage, StageTo, Undisturbed,
         WorkerdTypeOK, ClosersOf
<1>2. StageInv'
  BY DEF WorkerdInv, WorkerdTypeOK, RuntimeState, SwapBegins, InStage,
       StageTo, Undisturbed, StageInv, CloseInv, Unstarted, ClosersOf
<1>3. DirOutlivesProcess'
  BY DEF WorkerdInv, WorkerdTypeOK, RuntimeState, SwapBegins, InStage,
       StageTo, Undisturbed, StageInv, DirOutlivesProcess, Runs, Unstarted
<1>4. CloseInv'
  BY DEF WorkerdInv, WorkerdTypeOK, RuntimeState, SwapBegins, InStage,
       StageTo, Undisturbed, StageInv, CloseInv, Signalled, ServingInv, Unstarted,
       ClosersOf
<1>5. ServingInv'
  BY DEF WorkerdInv, WorkerdTypeOK, RuntimeState, SwapBegins, InStage,
       StageTo, Undisturbed, ServingInv, CloseInv, ClosersOf
<1>6. AloneInv'
  <2>1. \A x, y \in Launching' : x = y
    BY DEF WorkerdInv, WorkerdTypeOK, RuntimeState, SwapBegins, InStage,
         StageTo, Undisturbed, Launching, Calling, AloneInv, CloseInv, SwapStages,
         ClosersOf
  <2>2. \A x \in Runtimes : inst'[x].proc = "boot" => x \in Launching'
    BY DEF WorkerdInv, WorkerdTypeOK, RuntimeState, SwapBegins, InStage,
         StageTo, Undisturbed, Launching, Calling, StageInv, CloseInv, AloneInv,
         Signalled, Unstarted, SwapStages, ClosersOf
  <2>3. \A x, y \in Runtimes :
          inst'[x].stage \in PortChosen /\ y \in Listening(inst[x].port)' => y = x
    BY DEF WorkerdInv, WorkerdTypeOK, RuntimeState, SwapBegins, InStage,
         StageTo, Undisturbed, Launching, Calling, AloneInv, PortChosen, StageInv,
         Unstarted, SwapStages, Listening
  <2> QED BY <2>1, <2>2, <2>3 DEF AloneInv
<1>7. ReadyIsOwn'
  BY DEF WorkerdInv, WorkerdTypeOK, RuntimeState, SwapBegins, InStage,
       StageTo, Undisturbed, ReadyIsOwn, AloneInv, PortChosen
<1> QED BY <1>1, <1>2, <1>3, <1>4, <1>5, <1>6, <1>7 DEF WorkerdInv

(* freePort found a port nobody listens on.                                *)
LEMMA PortFoundKeeps ==
  ASSUME WorkerdInv, NEW i \in Runtimes,
         InStage(i, "port"), NEW p \in Ports, Listening(p) = {}, Undisturbed,
         inst' = [inst EXCEPT ![i].stage = "dir", ![i].port = p]
  PROVE  WorkerdInv'
<1>1. WorkerdTypeOK'
  <2>1. inst[i] \in RuntimeState
    BY DEF WorkerdInv, WorkerdTypeOK
  <2>2. inst'[i] \in RuntimeState
    BY <2>1 DEF WorkerdInv, InStage, Undisturbed, WorkerdTypeOK, RuntimeState,
         SwapStages
  <2>3. inst' \in [Runtimes -> RuntimeState]
    BY <2>2 DEF WorkerdInv, InStage, Undisturbed, WorkerdTypeOK
  <2> QED
    BY <2>3 DEF WorkerdInv, InStage, Undisturbed, WorkerdTypeOK, ClosersOf
<1>2. StageInv'
  BY DEF WorkerdInv, WorkerdTypeOK, RuntimeState, InStage, Undisturbed,
       StageInv, CloseInv, Unstarted, ClosersOf
<1>3. DirOutlivesProcess'
  BY DEF WorkerdInv, WorkerdTypeOK, RuntimeState, InStage, Undisturbed,
       StageInv, DirOutlivesProcess, Runs, Unstarted
<1>4. CloseInv'
  BY DEF WorkerdInv, WorkerdTypeOK, RuntimeState, InStage, Undisturbed,
       StageInv, CloseInv, Signalled, ServingInv, Unstarted, ClosersOf
<1>5. ServingInv'
  BY DEF WorkerdInv, WorkerdTypeOK, RuntimeState, InStage, Undisturbed,
       ServingInv, CloseInv, ClosersOf
<1>6. AloneInv'
  <2>1. \A x, y \in Launching' : x = y
    BY DEF WorkerdInv, WorkerdTypeOK, RuntimeState, InStage, Undisturbed,
         Launching, Calling, AloneInv, CloseInv, SwapStages, ClosersOf
  <2>2. \A x \in Runtimes : inst'[x].proc = "boot" => x \in Launching'
    BY DEF WorkerdInv, WorkerdTypeOK, RuntimeState, InStage, Undisturbed,
         Launching, Calling, StageInv, CloseInv, AloneInv, Signalled, Unstarted,
         SwapStages, ClosersOf
  <2>3. \A x, y \in Runtimes :
          inst'[x].stage \in PortChosen /\ y \in Listening(inst[x].port)' => y = x
    BY DEF WorkerdInv, WorkerdTypeOK, RuntimeState, InStage, Undisturbed,
         Launching, Calling, AloneInv, PortChosen, StageInv, Unstarted, SwapStages,
         Listening
  <2> QED BY <2>1, <2>2, <2>3 DEF AloneInv
<1>7. ReadyIsOwn'
  BY DEF WorkerdInv, WorkerdTypeOK, RuntimeState, InStage, Undisturbed,
       ReadyIsOwn, AloneInv, PortChosen
<1> QED BY <1>1, <1>2, <1>3, <1>4, <1>5, <1>6, <1>7 DEF WorkerdInv

(* Launch made the directory.                                              *)
LEMMA DirMadeKeeps ==
  ASSUME WorkerdInv, NEW i \in Runtimes,
         InStage(i, "dir"), Undisturbed,
         inst' = [inst EXCEPT ![i].stage = "write", ![i].dir = TRUE]
  PROVE  WorkerdInv'
<1>1. WorkerdTypeOK'
  <2>1. inst[i] \in RuntimeState
    BY DEF WorkerdInv, WorkerdTypeOK
  <2>2. inst'[i] \in RuntimeState
    BY <2>1 DEF WorkerdInv, InStage, Undisturbed, WorkerdTypeOK, RuntimeState,
         SwapStages
  <2>3. inst' \in [Runtimes -> RuntimeState]
    BY <2>2 DEF WorkerdInv, InStage, Undisturbed, WorkerdTypeOK
  <2> QED
    BY <2>3 DEF WorkerdInv, InStage, Undisturbed, WorkerdTypeOK, ClosersOf
<1>2. StageInv'
  BY DEF WorkerdInv, WorkerdTypeOK, RuntimeState, InStage, Undisturbed,
       StageInv, CloseInv, Unstarted, ClosersOf
<1>3. DirOutlivesProcess'
  BY DEF WorkerdInv, WorkerdTypeOK, RuntimeState, InStage, Undisturbed,
       StageInv, DirOutlivesProcess, Runs, Unstarted
<1>4. CloseInv'
  BY DEF WorkerdInv, WorkerdTypeOK, RuntimeState, InStage, Undisturbed,
       StageInv, CloseInv, Signalled, ServingInv, Unstarted, ClosersOf
<1>5. ServingInv'
  BY DEF WorkerdInv, WorkerdTypeOK, RuntimeState, InStage, Undisturbed,
       ServingInv, CloseInv, ClosersOf
<1>6. AloneInv'
  <2>1. \A x, y \in Launching' : x = y
    BY DEF WorkerdInv, WorkerdTypeOK, RuntimeState, InStage, Undisturbed,
         Launching, Calling, AloneInv, CloseInv, SwapStages, ClosersOf
  <2>2. \A x \in Runtimes : inst'[x].proc = "boot" => x \in Launching'
    BY DEF WorkerdInv, WorkerdTypeOK, RuntimeState, InStage, Undisturbed,
         Launching, Calling, StageInv, CloseInv, AloneInv, Signalled, Unstarted,
         SwapStages, ClosersOf
  <2>3. \A x, y \in Runtimes :
          inst'[x].stage \in PortChosen /\ y \in Listening(inst[x].port)' => y = x
    BY DEF WorkerdInv, WorkerdTypeOK, RuntimeState, InStage, Undisturbed,
         Launching, Calling, AloneInv, PortChosen, StageInv, Unstarted, SwapStages,
         Listening
  <2> QED BY <2>1, <2>2, <2>3 DEF AloneInv
<1>7. ReadyIsOwn'
  BY DEF WorkerdInv, WorkerdTypeOK, RuntimeState, InStage, Undisturbed,
       ReadyIsOwn, AloneInv, PortChosen
<1> QED BY <1>1, <1>2, <1>3, <1>4, <1>5, <1>6, <1>7 DEF WorkerdInv

(* The files are written, or the start is tried again as the own uid.      *)
LEMMA OnwardKeeps ==
  ASSUME WorkerdInv, NEW i \in Runtimes,
         Undisturbed, NEW to \in {"start", "retry"}, StageTo(i, to),
         inst[i].stage \in {"write", "start"}
  PROVE  WorkerdInv'
<1>1. WorkerdTypeOK'
  <2>1. inst[i] \in RuntimeState
    BY DEF WorkerdInv, WorkerdTypeOK
  <2>2. inst'[i] \in RuntimeState
    BY <2>1 DEF WorkerdInv, StageTo, Undisturbed, WorkerdTypeOK, RuntimeState,
         SwapStages
  <2>3. inst' \in [Runtimes -> RuntimeState]
    BY <2>2 DEF WorkerdInv, StageTo, Undisturbed, WorkerdTypeOK
  <2> QED
    BY <2>3 DEF WorkerdInv, StageTo, Undisturbed, WorkerdTypeOK, ClosersOf
<1>2. StageInv'
  BY DEF WorkerdInv, WorkerdTypeOK, RuntimeState, StageTo, Undisturbed,
       StageInv, CloseInv, Unstarted, ClosersOf
<1>3. DirOutlivesProcess'
  BY DEF WorkerdInv, WorkerdTypeOK, RuntimeState, StageTo, Undisturbed,
       StageInv, DirOutlivesProcess, Runs, Unstarted
<1>4. CloseInv'
  BY DEF WorkerdInv, WorkerdTypeOK, RuntimeState, StageTo, Undisturbed,
       StageInv, CloseInv, Signalled, ServingInv, Unstarted, ClosersOf
<1>5. ServingInv'
  BY DEF WorkerdInv, WorkerdTypeOK, RuntimeState, StageTo, Undisturbed,
       ServingInv, CloseInv, ClosersOf, InStage
<1>6. AloneInv'
  <2>1. \A x, y \in Launching' : x = y
    BY DEF WorkerdInv, WorkerdTypeOK, RuntimeState, StageTo, Undisturbed,
         Launching, Calling, AloneInv, CloseInv, SwapStages, ClosersOf
  <2>2. \A x \in Runtimes : inst'[x].proc = "boot" => x \in Launching'
    BY DEF WorkerdInv, WorkerdTypeOK, RuntimeState, StageTo, Undisturbed,
         Launching, Calling, StageInv, CloseInv, AloneInv, Signalled, Unstarted,
         SwapStages, ClosersOf
  <2>3. \A x, y \in Runtimes :
          inst'[x].stage \in PortChosen /\ y \in Listening(inst[x].port)' => y = x
    BY DEF WorkerdInv, WorkerdTypeOK, RuntimeState, StageTo, Undisturbed,
         Launching, Calling, AloneInv, PortChosen, StageInv, Unstarted, SwapStages,
         Listening
  <2> QED BY <2>1, <2>2, <2>3 DEF AloneInv
<1>7. ReadyIsOwn'
  BY DEF WorkerdInv, WorkerdTypeOK, RuntimeState, StageTo, Undisturbed,
       ReadyIsOwn, AloneInv, PortChosen
<1> QED BY <1>1, <1>2, <1>3, <1>4, <1>5, <1>6, <1>7 DEF WorkerdInv

(* Launch fails before there is a process, and removes the directory.      *)
LEMMA LaunchFailedKeeps ==
  ASSUME WorkerdInv, NEW i \in Runtimes,
         Undisturbed, LaunchFailed(i),
         inst[i].stage \in {"port", "dir", "write", "start", "retry"}
  PROVE  WorkerdInv'
<1>1. WorkerdTypeOK'
  <2>1. inst[i] \in RuntimeState
    BY DEF WorkerdInv, WorkerdTypeOK
  <2>2. inst'[i] \in RuntimeState
    BY <2>1 DEF WorkerdInv, LaunchFailed, Undisturbed, WorkerdTypeOK,
         RuntimeState, SwapStages
  <2>3. inst' \in [Runtimes -> RuntimeState]
    BY <2>2 DEF WorkerdInv, LaunchFailed, Undisturbed, WorkerdTypeOK
  <2> QED
    BY <2>3 DEF WorkerdInv, LaunchFailed, Undisturbed, WorkerdTypeOK,
         ClosersOf
<1>2. StageInv'
  BY DEF WorkerdInv, WorkerdTypeOK, RuntimeState, LaunchFailed, Undisturbed,
       StageInv, CloseInv, Unstarted, ClosersOf
<1>3. DirOutlivesProcess'
  BY DEF WorkerdInv, WorkerdTypeOK, RuntimeState, LaunchFailed, Undisturbed,
       StageInv, DirOutlivesProcess, Runs, Unstarted
<1>4. CloseInv'
  BY DEF WorkerdInv, WorkerdTypeOK, RuntimeState, LaunchFailed, Undisturbed,
       StageInv, CloseInv, Signalled, ServingInv, Unstarted, ClosersOf
<1>5. ServingInv'
  BY DEF WorkerdInv, WorkerdTypeOK, RuntimeState, LaunchFailed, Undisturbed,
       ServingInv, CloseInv, ClosersOf, InStage
<1>6. AloneInv'
  <2>1. \A x, y \in Launching' : x = y
    BY DEF WorkerdInv, WorkerdTypeOK, RuntimeState, LaunchFailed, Undisturbed,
         Launching, Calling, AloneInv, CloseInv, SwapStages, ClosersOf
  <2>2. \A x \in Runtimes : inst'[x].proc = "boot" => x \in Launching'
    BY DEF WorkerdInv, WorkerdTypeOK, RuntimeState, LaunchFailed, Undisturbed,
         Launching, Calling, StageInv, CloseInv, AloneInv, Signalled, Unstarted,
         SwapStages, ClosersOf
  <2>3. \A x, y \in Runtimes :
          inst'[x].stage \in PortChosen /\ y \in Listening(inst[x].port)' => y = x
    BY DEF WorkerdInv, WorkerdTypeOK, RuntimeState, LaunchFailed, Undisturbed,
         Launching, Calling, AloneInv, PortChosen, StageInv, Unstarted, SwapStages,
         Listening
  <2> QED BY <2>1, <2>2, <2>3 DEF AloneInv
<1>7. ReadyIsOwn'
  BY DEF WorkerdInv, WorkerdTypeOK, RuntimeState, LaunchFailed, Undisturbed,
       ReadyIsOwn, AloneInv, PortChosen
<1> QED BY <1>1, <1>2, <1>3, <1>4, <1>5, <1>6, <1>7 DEF WorkerdInv

(* The process starts, in the directory.                                   *)
LEMMA SpawnKeeps ==
  ASSUME WorkerdInv, NEW i \in Runtimes,
         Undisturbed, Spawn(i), inst[i].stage \in {"start", "retry"}
  PROVE  WorkerdInv'
<1>1. WorkerdTypeOK'
  <2>1. inst[i] \in RuntimeState
    BY DEF WorkerdInv, WorkerdTypeOK
  <2>2. inst'[i] \in RuntimeState
    BY <2>1 DEF WorkerdInv, Spawn, Undisturbed, WorkerdTypeOK, RuntimeState,
         SwapStages
  <2>3. inst' \in [Runtimes -> RuntimeState]
    BY <2>2 DEF WorkerdInv, Spawn, Undisturbed, WorkerdTypeOK
  <2> QED
    BY <2>3 DEF WorkerdInv, Spawn, Undisturbed, WorkerdTypeOK, ClosersOf
<1>2. StageInv'
  BY DEF WorkerdInv, WorkerdTypeOK, RuntimeState, Spawn, Undisturbed,
       StageInv, CloseInv, Unstarted, ClosersOf
<1>3. DirOutlivesProcess'
  BY DEF WorkerdInv, WorkerdTypeOK, RuntimeState, Spawn, Undisturbed,
       StageInv, DirOutlivesProcess, Runs, Unstarted
<1>4. CloseInv'
  BY DEF WorkerdInv, WorkerdTypeOK, RuntimeState, Spawn, Undisturbed,
       StageInv, CloseInv, Signalled, ServingInv, Unstarted, ClosersOf
<1>5. ServingInv'
  BY SMTT(30) DEF WorkerdInv, WorkerdTypeOK, RuntimeState, Spawn, Undisturbed,
       ServingInv, CloseInv, ClosersOf, InStage
<1>6. AloneInv'
  <2>1. \A x, y \in Launching' : x = y
    BY DEF WorkerdInv, WorkerdTypeOK, RuntimeState, Spawn, Undisturbed,
         Launching, Calling, AloneInv, CloseInv, SwapStages, ClosersOf
  <2>2. \A x \in Runtimes : inst'[x].proc = "boot" => x \in Launching'
    BY DEF WorkerdInv, WorkerdTypeOK, RuntimeState, Spawn, Undisturbed,
         Launching, Calling, StageInv, CloseInv, AloneInv, Signalled, Unstarted,
         SwapStages, ClosersOf
  <2>3. \A x, y \in Runtimes :
          inst'[x].stage \in PortChosen /\ y \in Listening(inst[x].port)' => y = x
    BY DEF WorkerdInv, WorkerdTypeOK, RuntimeState, Spawn, Undisturbed,
         Launching, Calling, AloneInv, PortChosen, StageInv, Unstarted, SwapStages,
         Listening
  <2> QED BY <2>1, <2>2, <2>3 DEF AloneInv
<1>7. ReadyIsOwn'
  BY DEF WorkerdInv, WorkerdTypeOK, RuntimeState, Spawn, Undisturbed,
       ReadyIsOwn, AloneInv, PortChosen
<1> QED BY <1>1, <1>2, <1>3, <1>4, <1>5, <1>6, <1>7 DEF WorkerdInv

(* The probe is answered: by AloneInv, by the process of this instance.    *)
LEMMA ProbeKeeps ==
  ASSUME WorkerdInv, NEW i \in Runtimes,
         Probe(i)
  PROVE  WorkerdInv'
<1>1. WorkerdTypeOK'
  <2>1. inst[i] \in RuntimeState
    BY DEF WorkerdInv, WorkerdTypeOK
  <2>2. inst'[i] \in RuntimeState
    <3>1. PICK j \in Runtimes : inst' = [inst EXCEPT ![i].stage = "switch", ![i].prober = j]
      BY DEF Probe, Listening
    <3> QED BY <2>1, <3>1 DEF WorkerdInv, WorkerdTypeOK, RuntimeState, SwapStages
  <2>3. inst' \in [Runtimes -> RuntimeState]
    BY <2>2 DEF WorkerdInv, Probe, InStage, Undisturbed, WorkerdTypeOK
  <2> QED
    BY <2>3 DEF WorkerdInv, Probe, InStage, Undisturbed, WorkerdTypeOK,
         ClosersOf
<1>2. StageInv'
  BY DEF WorkerdInv, WorkerdTypeOK, RuntimeState, Probe, InStage, Undisturbed,
       StageInv, CloseInv, Unstarted, ClosersOf, AloneInv, Listening, PortChosen
<1>3. DirOutlivesProcess'
  BY DEF WorkerdInv, WorkerdTypeOK, RuntimeState, Probe, InStage, Undisturbed,
       StageInv, DirOutlivesProcess, Runs, Unstarted, AloneInv, Listening,
       PortChosen
<1>4. CloseInv'
  BY DEF WorkerdInv, WorkerdTypeOK, RuntimeState, Probe, InStage, Undisturbed,
       StageInv, CloseInv, Signalled, ServingInv, Unstarted, ClosersOf, AloneInv,
       Listening, PortChosen
<1>5. ServingInv'
  <2>1. UNCHANGED <<serving, closer, stopper>> /\ inst[i].stage = "wait"
    BY DEF Probe, Undisturbed, InStage
  <2>2. PICK j \in Runtimes : inst' = [inst EXCEPT ![i].stage = "switch", ![i].prober = j]
    BY DEF Probe, Listening
  <2>3. \A x \in Runtimes : InStage(x, "live")' <=> InStage(x, "live")
    BY <2>1, <2>2 DEF WorkerdInv, WorkerdTypeOK, RuntimeState, InStage
  <2>4. serving \in Runtimes \cup {NoRuntime}
    BY DEF WorkerdInv, WorkerdTypeOK
  <2> QED BY <2>1, <2>3, <2>4 DEF WorkerdInv, ServingInv
<1>6. AloneInv'
  <2>1. \A x, y \in Launching' : x = y
    BY DEF WorkerdInv, WorkerdTypeOK, RuntimeState, Probe, InStage,
         Undisturbed, Launching, Calling, AloneInv, CloseInv, SwapStages, ClosersOf
  <2>2. \A x \in Runtimes : inst'[x].proc = "boot" => x \in Launching'
    BY DEF WorkerdInv, WorkerdTypeOK, RuntimeState, Probe, InStage,
         Undisturbed, Launching, Calling, StageInv, CloseInv, AloneInv, Signalled,
         Unstarted, SwapStages, ClosersOf
  <2>3. \A x, y \in Runtimes :
          inst'[x].stage \in PortChosen /\ y \in Listening(inst[x].port)' => y = x
    BY DEF WorkerdInv, WorkerdTypeOK, RuntimeState, Probe, InStage,
         Undisturbed, AloneInv, PortChosen, Listening
  <2> QED BY <2>1, <2>2, <2>3 DEF AloneInv
<1>7. ReadyIsOwn'
  BY WorkerdAssumption DEF WorkerdInv, WorkerdTypeOK, RuntimeState, Probe,
       InStage, Undisturbed, ReadyIsOwn, AloneInv, PortChosen, Listening
<1> QED BY <1>1, <1>2, <1>3, <1>4, <1>5, <1>6, <1>7 DEF WorkerdInv

(* The swap failed and closes its instance, still under swapMu.            *)
LEMMA NotReadyKeeps ==
  ASSUME WorkerdInv, NEW i \in Runtimes,
         NotReady(i)
  PROVE  WorkerdInv'
<1>1. WorkerdTypeOK'
  <2>1. inst[i] \in RuntimeState
    BY DEF WorkerdInv, WorkerdTypeOK
  <2>2. inst'[i] \in RuntimeState
    BY <2>1 DEF WorkerdInv, NotReady, InStage, StageTo, CallTo, WorkerdTypeOK,
         RuntimeState, SwapStages
  <2>3. inst' \in [Runtimes -> RuntimeState]
    BY <2>2 DEF WorkerdInv, NotReady, InStage, StageTo, CallTo, WorkerdTypeOK
  <2> QED
    BY <2>3 DEF WorkerdInv, NotReady, InStage, StageTo, CallTo, WorkerdTypeOK,
         ClosersOf
<1>2. StageInv'
  BY DEF WorkerdInv, WorkerdTypeOK, RuntimeState, NotReady, InStage, StageTo,
       CallTo, StageInv, CloseInv, Unstarted, ClosersOf
<1>3. DirOutlivesProcess'
  BY DEF WorkerdInv, WorkerdTypeOK, RuntimeState, NotReady, InStage, StageTo,
       CallTo, StageInv, DirOutlivesProcess, Runs, Unstarted
<1>4. CloseInv'
  BY DEF WorkerdInv, WorkerdTypeOK, RuntimeState, NotReady, InStage, StageTo,
       CallTo, StageInv, CloseInv, Signalled, ServingInv, Unstarted, ClosersOf
<1>5. ServingInv'
  BY DEF WorkerdInv, WorkerdTypeOK, RuntimeState, NotReady, InStage, StageTo,
       CallTo, ServingInv, CloseInv, ClosersOf
<1>6. AloneInv'
  <2>1. \A x, y \in Launching' : x = y
    BY DEF WorkerdInv, WorkerdTypeOK, RuntimeState, NotReady, InStage,
         StageTo, CallTo, Launching, Calling, AloneInv, CloseInv, SwapStages,
         ClosersOf
  <2>2. \A x \in Runtimes : inst'[x].proc = "boot" => x \in Launching'
    BY DEF WorkerdInv, WorkerdTypeOK, RuntimeState, NotReady, InStage,
         StageTo, CallTo, Launching, Calling, StageInv, CloseInv, AloneInv,
         Signalled, Unstarted, SwapStages, ClosersOf
  <2>3. \A x, y \in Runtimes :
          inst'[x].stage \in PortChosen /\ y \in Listening(inst[x].port)' => y = x
    BY DEF WorkerdInv, WorkerdTypeOK, RuntimeState, NotReady, InStage,
         StageTo, CallTo, AloneInv, PortChosen, Listening
  <2> QED BY <2>1, <2>2, <2>3 DEF AloneInv
<1>7. ReadyIsOwn'
  BY DEF WorkerdInv, WorkerdTypeOK, RuntimeState, NotReady, InStage, StageTo,
       CallTo, ReadyIsOwn, AloneInv, PortChosen
<1> QED BY <1>1, <1>2, <1>3, <1>4, <1>5, <1>6, <1>7 DEF WorkerdInv

(* The instance becomes the current one; the old one gets its drainer.     *)
LEMMA SwitchToKeeps ==
  ASSUME WorkerdInv, NEW i \in Runtimes,
         SwitchTo(i)
  PROVE  WorkerdInv'
<1>1. WorkerdTypeOK'
  <2>1. inst[i] \in RuntimeState
    BY DEF WorkerdInv, WorkerdTypeOK
  <2>2. inst'[i] \in RuntimeState
    BY <2>1 DEF WorkerdInv, SwitchTo, InStage, StageTo, CallTo, WorkerdTypeOK,
         RuntimeState, SwapStages
  <2>3. inst' \in [Runtimes -> RuntimeState]
    BY <2>2 DEF WorkerdInv, SwitchTo, InStage, StageTo, CallTo, WorkerdTypeOK
  <2> QED
    BY <2>3 DEF WorkerdInv, SwitchTo, InStage, StageTo, CallTo, WorkerdTypeOK,
         ClosersOf
<1>2. StageInv'
  <2>1. \A x \in Runtimes : closer'[x]["swap"] = closer[x]["swap"]
    BY DEF WorkerdInv, WorkerdTypeOK, SwitchTo, CallTo, ClosersOf
  <2>2. \A x \in Runtimes : x # i => inst'[x] = inst[x]
    BY DEF WorkerdInv, WorkerdTypeOK, SwitchTo, StageTo
  <2>3. /\ inst[i].stage = "switch" /\ inst'[i].stage = "live"
        /\ inst'[i].proc = inst[i].proc /\ inst'[i].done = inst[i].done
    BY DEF WorkerdInv, WorkerdTypeOK, RuntimeState, SwitchTo, StageTo, InStage
  <2> QED BY <2>1, <2>2, <2>3 DEF WorkerdInv, StageInv, Unstarted
<1>3. DirOutlivesProcess'
  BY DEF WorkerdInv, WorkerdTypeOK, RuntimeState, SwitchTo, InStage, StageTo,
       CallTo, StageInv, DirOutlivesProcess, Runs, Unstarted
<1>4. CloseInv'
  BY WorkerdAssumption DEF WorkerdInv, WorkerdTypeOK, RuntimeState, SwitchTo,
       InStage, StageTo, CallTo, StageInv, CloseInv, Signalled, ServingInv,
       Unstarted, ClosersOf
<1>5. ServingInv'
  <2>1. inst[i].stage = "switch" /\ inst'[i].stage = "live" /\ serving' = i
    BY DEF WorkerdInv, WorkerdTypeOK, RuntimeState, SwitchTo, StageTo, InStage
  <2>2. \A x \in Runtimes : x # i => inst'[x] = inst[x]
    BY DEF WorkerdInv, WorkerdTypeOK, SwitchTo, StageTo
  <2>3. \A x \in Runtimes : x # serving => closer'[x] = closer[x]
    BY DEF WorkerdInv, WorkerdTypeOK, SwitchTo, CallTo
  <2>4. serving \in Runtimes =>
          /\ closer'[serving]["drainer"] = "drain"
          /\ closer'[serving]["stop"] = closer[serving]["stop"]
    BY WorkerdAssumption DEF WorkerdInv, WorkerdTypeOK, SwitchTo, CallTo, ClosersOf
  <2>5. i # serving /\ closer[i]["drainer"] = "none"
    BY <2>1, WorkerdAssumption DEF WorkerdInv, ServingInv, CloseInv, InStage
  <2>6. closer'[i]["drainer"] = "none"
    BY <2>3, <2>5
  <2>7. ASSUME NEW x \in Runtimes, inst'[x].stage = "live", x # i
        PROVE  closer'[x]["drainer"] # "none"
    BY <2>2, <2>3, <2>4, <2>7 DEF WorkerdInv, ServingInv, InStage
  <2>8. stopper' = stopper
    BY DEF SwitchTo
  <2>9. stopper' # "over" => \A x \in Runtimes : closer'[x]["stop"] = "none"
    BY <2>3, <2>4, <2>8 DEF WorkerdInv, ServingInv
  <2> QED BY <2>1, <2>6, <2>7, <2>9 DEF ServingInv, InStage
<1>6. AloneInv'
  <2>1. \A x, y \in Launching' : x = y
    <3>1. \A x \in Runtimes : closer'[x]["swap"] = closer[x]["swap"]
      BY DEF WorkerdInv, WorkerdTypeOK, SwitchTo, CallTo, ClosersOf
    <3>2. \A x \in Runtimes : inst'[x].stage \in {inst[x].stage, "live"}
      BY DEF WorkerdInv, WorkerdTypeOK, RuntimeState, SwitchTo, StageTo
    <3>3. Launching' \subseteq Launching
      BY <3>1, <3>2 DEF Launching, Calling, SwapStages
    <3> QED BY <3>3 DEF WorkerdInv, AloneInv
  <2>2. \A x \in Runtimes : inst'[x].proc = "boot" => x \in Launching'
    BY DEF WorkerdInv, WorkerdTypeOK, RuntimeState, SwitchTo, InStage,
         StageTo, CallTo, Launching, Calling, StageInv, CloseInv, AloneInv,
         Signalled, Unstarted, SwapStages, ClosersOf
  <2>3. \A x, y \in Runtimes :
          inst'[x].stage \in PortChosen /\ y \in Listening(inst[x].port)' => y = x
    BY DEF WorkerdInv, WorkerdTypeOK, RuntimeState, SwitchTo, InStage,
         StageTo, CallTo, AloneInv, PortChosen, Listening
  <2> QED BY <2>1, <2>2, <2>3 DEF AloneInv
<1>7. ReadyIsOwn'
  BY DEF WorkerdInv, WorkerdTypeOK, RuntimeState, SwitchTo, InStage, StageTo,
       CallTo, ReadyIsOwn, AloneInv, PortChosen
<1> QED BY <1>1, <1>2, <1>3, <1>4, <1>5, <1>6, <1>7 DEF WorkerdInv

(* A process comes to listen on its port: it is that of the swap.          *)
LEMMA BoundKeeps ==
  ASSUME WorkerdInv, NEW i \in Runtimes,
         Undisturbed, inst[i].proc = "boot", Listening(inst[i].port) = {},
         inst' = [inst EXCEPT ![i].proc = "bound"]
  PROVE  WorkerdInv'
<1>1. WorkerdTypeOK'
  <2>1. inst[i] \in RuntimeState
    BY DEF WorkerdInv, WorkerdTypeOK
  <2>2. inst'[i] \in RuntimeState
    BY <2>1 DEF WorkerdInv, Undisturbed, WorkerdTypeOK, RuntimeState,
         SwapStages
  <2>3. inst' \in [Runtimes -> RuntimeState]
    BY <2>2 DEF WorkerdInv, Undisturbed, WorkerdTypeOK
  <2> QED
    BY <2>3 DEF WorkerdInv, Undisturbed, WorkerdTypeOK, ClosersOf
<1>2. StageInv'
  BY DEF WorkerdInv, WorkerdTypeOK, RuntimeState, Undisturbed, StageInv,
       CloseInv, Unstarted, ClosersOf
<1>3. DirOutlivesProcess'
  BY DEF WorkerdInv, WorkerdTypeOK, RuntimeState, Undisturbed, StageInv,
       DirOutlivesProcess, Runs, Unstarted
<1>4. CloseInv'
  BY DEF WorkerdInv, WorkerdTypeOK, RuntimeState, Undisturbed, StageInv,
       CloseInv, Signalled, ServingInv, Unstarted, ClosersOf
<1>5. ServingInv'
  BY DEF WorkerdInv, WorkerdTypeOK, RuntimeState, Undisturbed, ServingInv,
       CloseInv, ClosersOf, InStage
<1>6. AloneInv'
  <2>1. \A x, y \in Launching' : x = y
    BY DEF WorkerdInv, WorkerdTypeOK, RuntimeState, Undisturbed, Launching,
         Calling, AloneInv, CloseInv, SwapStages, ClosersOf
  <2>2. \A x \in Runtimes : inst'[x].proc = "boot" => x \in Launching'
    BY DEF WorkerdInv, WorkerdTypeOK, RuntimeState, Undisturbed, Launching,
         Calling, StageInv, CloseInv, AloneInv, Signalled, Unstarted, SwapStages,
         ClosersOf
  <2>3. \A x, y \in Runtimes :
          inst'[x].stage \in PortChosen /\ y \in Listening(inst[x].port)' => y = x
    BY DEF WorkerdInv, WorkerdTypeOK, RuntimeState, Undisturbed, Launching,
         Calling, AloneInv, PortChosen, StageInv, Unstarted, SwapStages, Listening
  <2> QED BY <2>1, <2>2, <2>3 DEF AloneInv
<1>7. ReadyIsOwn'
  BY DEF WorkerdInv, WorkerdTypeOK, RuntimeState, Undisturbed, ReadyIsOwn,
       AloneInv, PortChosen
<1> QED BY <1>1, <1>2, <1>3, <1>4, <1>5, <1>6, <1>7 DEF WorkerdInv

(* A process exits.                                                        *)
LEMMA GoneKeeps ==
  ASSUME WorkerdInv, NEW i \in Runtimes,
         Undisturbed, Runs(i), inst' = [inst EXCEPT ![i].proc = "gone"]
  PROVE  WorkerdInv'
<1>1. WorkerdTypeOK'
  <2>1. inst[i] \in RuntimeState
    BY DEF WorkerdInv, WorkerdTypeOK
  <2>2. inst'[i] \in RuntimeState
    BY <2>1 DEF WorkerdInv, Undisturbed, Runs, WorkerdTypeOK, RuntimeState,
         SwapStages
  <2>3. inst' \in [Runtimes -> RuntimeState]
    BY <2>2 DEF WorkerdInv, Undisturbed, Runs, WorkerdTypeOK
  <2> QED
    BY <2>3 DEF WorkerdInv, Undisturbed, Runs, WorkerdTypeOK, ClosersOf
<1>2. StageInv'
  BY DEF WorkerdInv, WorkerdTypeOK, RuntimeState, Undisturbed, Runs, StageInv,
       CloseInv, Unstarted, ClosersOf
<1>3. DirOutlivesProcess'
  BY DEF WorkerdInv, WorkerdTypeOK, RuntimeState, Undisturbed, Runs, StageInv,
       DirOutlivesProcess, Unstarted
<1>4. CloseInv'
  BY DEF WorkerdInv, WorkerdTypeOK, RuntimeState, Undisturbed, Runs, StageInv,
       CloseInv, Signalled, ServingInv, Unstarted, ClosersOf
<1>5. ServingInv'
  BY DEF WorkerdInv, WorkerdTypeOK, RuntimeState, Undisturbed, Runs,
       ServingInv, CloseInv, ClosersOf, InStage
<1>6. AloneInv'
  <2>1. \A x, y \in Launching' : x = y
    BY DEF WorkerdInv, WorkerdTypeOK, RuntimeState, Undisturbed, Runs,
         Launching, Calling, AloneInv, CloseInv, SwapStages, ClosersOf
  <2>2. \A x \in Runtimes : inst'[x].proc = "boot" => x \in Launching'
    BY DEF WorkerdInv, WorkerdTypeOK, RuntimeState, Undisturbed, Runs,
         Launching, Calling, StageInv, CloseInv, AloneInv, Signalled, Unstarted,
         SwapStages, ClosersOf
  <2>3. \A x, y \in Runtimes :
          inst'[x].stage \in PortChosen /\ y \in Listening(inst[x].port)' => y = x
    BY DEF WorkerdInv, WorkerdTypeOK, RuntimeState, Undisturbed, Runs,
         AloneInv, PortChosen, Listening
  <2> QED BY <2>1, <2>2, <2>3 DEF AloneInv
<1>7. ReadyIsOwn'
  BY DEF WorkerdInv, WorkerdTypeOK, RuntimeState, Undisturbed, Runs,
       ReadyIsOwn, AloneInv, PortChosen
<1> QED BY <1>1, <1>2, <1>3, <1>4, <1>5, <1>6, <1>7 DEF WorkerdInv

(* The done channel closes.                                                *)
LEMMA ReapKeeps ==
  ASSUME WorkerdInv, NEW i \in Runtimes,
         Reap(i)
  PROVE  WorkerdInv'
<1>1. WorkerdTypeOK'
  <2>1. inst[i] \in RuntimeState
    BY DEF WorkerdInv, WorkerdTypeOK
  <2>2. inst'[i] \in RuntimeState
    BY <2>1 DEF WorkerdInv, Reap, Undisturbed, WorkerdTypeOK, RuntimeState,
         SwapStages
  <2>3. inst' \in [Runtimes -> RuntimeState]
    BY <2>2 DEF WorkerdInv, Reap, Undisturbed, WorkerdTypeOK
  <2> QED
    BY <2>3 DEF WorkerdInv, Reap, Undisturbed, WorkerdTypeOK, ClosersOf
<1>2. StageInv'
  BY DEF WorkerdInv, WorkerdTypeOK, RuntimeState, Reap, Undisturbed, StageInv,
       CloseInv, Unstarted, ClosersOf
<1>3. DirOutlivesProcess'
  BY DEF WorkerdInv, WorkerdTypeOK, RuntimeState, Reap, Undisturbed, StageInv,
       DirOutlivesProcess, Runs, Unstarted
<1>4. CloseInv'
  BY DEF WorkerdInv, WorkerdTypeOK, RuntimeState, Reap, Undisturbed, StageInv,
       CloseInv, Signalled, ServingInv, Unstarted, ClosersOf
<1>5. ServingInv'
  BY DEF WorkerdInv, WorkerdTypeOK, RuntimeState, Reap, Undisturbed,
       ServingInv, CloseInv, ClosersOf, InStage
<1>6. AloneInv'
  <2>1. \A x, y \in Launching' : x = y
    BY DEF WorkerdInv, WorkerdTypeOK, RuntimeState, Reap, Undisturbed,
         Launching, Calling, AloneInv, CloseInv, SwapStages, ClosersOf
  <2>2. \A x \in Runtimes : inst'[x].proc = "boot" => x \in Launching'
    BY DEF WorkerdInv, WorkerdTypeOK, RuntimeState, Reap, Undisturbed,
         Launching, Calling, StageInv, CloseInv, AloneInv, Signalled, Unstarted,
         SwapStages, ClosersOf
  <2>3. \A x, y \in Runtimes :
          inst'[x].stage \in PortChosen /\ y \in Listening(inst[x].port)' => y = x
    BY DEF WorkerdInv, WorkerdTypeOK, RuntimeState, Reap, Undisturbed,
         AloneInv, PortChosen, Listening
  <2> QED BY <2>1, <2>2, <2>3 DEF AloneInv
<1>7. ReadyIsOwn'
  BY DEF WorkerdInv, WorkerdTypeOK, RuntimeState, Reap, Undisturbed,
       ReadyIsOwn, AloneInv, PortChosen
<1> QED BY <1>1, <1>2, <1>3, <1>4, <1>5, <1>6, <1>7 DEF WorkerdInv

(* The counter of requests moves.                                          *)
LEMMA CountKeeps ==
  ASSUME WorkerdInv, NEW i \in Runtimes,
         Undisturbed, NEW n \in 0..1, inst' = [inst EXCEPT ![i].load = n]
  PROVE  WorkerdInv'
<1>1. WorkerdTypeOK'
  <2>1. inst[i] \in RuntimeState
    BY DEF WorkerdInv, WorkerdTypeOK
  <2>2. inst'[i] \in RuntimeState
    BY <2>1 DEF WorkerdInv, Undisturbed, WorkerdTypeOK, RuntimeState,
         SwapStages
  <2>3. inst' \in [Runtimes -> RuntimeState]
    BY <2>2 DEF WorkerdInv, Undisturbed, WorkerdTypeOK
  <2> QED
    BY <2>3 DEF WorkerdInv, Undisturbed, WorkerdTypeOK, ClosersOf
<1>2. StageInv'
  BY DEF WorkerdInv, WorkerdTypeOK, RuntimeState, Undisturbed, StageInv,
       CloseInv, Unstarted, ClosersOf
<1>3. DirOutlivesProcess'
  BY DEF WorkerdInv, WorkerdTypeOK, RuntimeState, Undisturbed, StageInv,
       DirOutlivesProcess, Runs, Unstarted
<1>4. CloseInv'
  BY DEF WorkerdInv, WorkerdTypeOK, RuntimeState, Undisturbed, StageInv,
       CloseInv, Signalled, ServingInv, Unstarted, ClosersOf
<1>5. ServingInv'
  BY DEF WorkerdInv, WorkerdTypeOK, RuntimeState, Undisturbed, ServingInv,
       CloseInv, ClosersOf, InStage
<1>6. AloneInv'
  <2>1. \A x, y \in Launching' : x = y
    BY DEF WorkerdInv, WorkerdTypeOK, RuntimeState, Undisturbed, Launching,
         Calling, AloneInv, CloseInv, SwapStages, ClosersOf
  <2>2. \A x \in Runtimes : inst'[x].proc = "boot" => x \in Launching'
    BY DEF WorkerdInv, WorkerdTypeOK, RuntimeState, Undisturbed, Launching,
         Calling, StageInv, CloseInv, AloneInv, Signalled, Unstarted, SwapStages,
         ClosersOf
  <2>3. \A x, y \in Runtimes :
          inst'[x].stage \in PortChosen /\ y \in Listening(inst[x].port)' => y = x
    BY DEF WorkerdInv, WorkerdTypeOK, RuntimeState, Undisturbed, AloneInv,
         PortChosen, Listening
  <2> QED BY <2>1, <2>2, <2>3 DEF AloneInv
<1>7. ReadyIsOwn'
  BY DEF WorkerdInv, WorkerdTypeOK, RuntimeState, Undisturbed, ReadyIsOwn,
       AloneInv, PortChosen
<1> QED BY <1>1, <1>2, <1>3, <1>4, <1>5, <1>6, <1>7 DEF WorkerdInv

(* Draining is over.                                                       *)
LEMMA DrainKeeps ==
  ASSUME WorkerdInv, NEW i \in Runtimes,
         Drain(i)
  PROVE  WorkerdInv'
<1>1. WorkerdTypeOK'
  BY DEF WorkerdInv, Drain, CallTo, WorkerdTypeOK, ClosersOf
<1>2. StageInv'
  BY DEF WorkerdInv, WorkerdTypeOK, RuntimeState, Drain, CallTo, StageInv,
       CloseInv, Unstarted, ClosersOf
<1>3. DirOutlivesProcess'
  BY DEF WorkerdInv, WorkerdTypeOK, RuntimeState, Drain, CallTo, StageInv,
       DirOutlivesProcess, Runs, Unstarted
<1>4. CloseInv'
  BY DEF WorkerdInv, WorkerdTypeOK, RuntimeState, Drain, CallTo, StageInv,
       CloseInv, Signalled, ServingInv, Unstarted, ClosersOf
<1>5. ServingInv'
  BY DEF WorkerdInv, WorkerdTypeOK, RuntimeState, Drain, CallTo, ServingInv,
       CloseInv, ClosersOf, InStage
<1>6. AloneInv'
  <2>1. \A x, y \in Launching' : x = y
    BY DEF WorkerdInv, WorkerdTypeOK, RuntimeState, Drain, CallTo, Launching,
         Calling, AloneInv, CloseInv, SwapStages, ClosersOf
  <2>2. \A x \in Runtimes : inst'[x].proc = "boot" => x \in Launching'
    BY DEF WorkerdInv, WorkerdTypeOK, RuntimeState, Drain, CallTo, Launching,
         Calling, StageInv, CloseInv, AloneInv, Signalled, Unstarted, SwapStages,
         ClosersOf
  <2>3. \A x, y \in Runtimes :
          inst'[x].stage \in PortChosen /\ y \in Listening(inst[x].port)' => y = x
    BY DEF WorkerdInv, WorkerdTypeOK, RuntimeState, Drain, CallTo, AloneInv,
         PortChosen, Listening
  <2> QED BY <2>1, <2>2, <2>3 DEF AloneInv
<1>7. ReadyIsOwn'
  BY DEF WorkerdInv, WorkerdTypeOK, RuntimeState, Drain, CallTo, ReadyIsOwn,
       AloneInv, PortChosen
<1> QED BY <1>1, <1>2, <1>3, <1>4, <1>5, <1>6, <1>7 DEF WorkerdInv

(* Close: only the first caller signals the process.                       *)
LEMMA CloseEnterKeeps ==
  ASSUME WorkerdInv, NEW i \in Runtimes, NEW k \in ClosersOf,
         CloseEnter(i, k)
  PROVE  WorkerdInv'
<1>1. WorkerdTypeOK'
  <2>1. inst[i] \in RuntimeState
    BY DEF WorkerdInv, WorkerdTypeOK
  <2>2. inst'[i] \in RuntimeState
    BY <2>1 DEF WorkerdInv, CloseEnter, CallTo, WorkerdTypeOK, RuntimeState,
         SwapStages
  <2>3. inst' \in [Runtimes -> RuntimeState]
    BY <2>2 DEF WorkerdInv, CloseEnter, CallTo, WorkerdTypeOK
  <2> QED
    BY <2>3 DEF WorkerdInv, CloseEnter, CallTo, WorkerdTypeOK, ClosersOf
<1>2. StageInv'
  BY DEF WorkerdInv, WorkerdTypeOK, RuntimeState, CloseEnter, CallTo,
       StageInv, CloseInv, Unstarted, ClosersOf
<1>3. DirOutlivesProcess'
  BY DEF WorkerdInv, WorkerdTypeOK, RuntimeState, CloseEnter, CallTo,
       StageInv, DirOutlivesProcess, Runs, Unstarted
<1>4. CloseInv'
  BY DEF WorkerdInv, WorkerdTypeOK, RuntimeState, CloseEnter, CallTo,
       StageInv, CloseInv, Signalled, ServingInv, Unstarted, ClosersOf
<1>5. ServingInv'
  BY DEF WorkerdInv, WorkerdTypeOK, RuntimeState, CloseEnter, CallTo,
       ServingInv, CloseInv, ClosersOf, InStage
<1>6. AloneInv'
  <2>1. \A x, y \in Launching' : x = y
    BY DEF WorkerdInv, WorkerdTypeOK, RuntimeState, CloseEnter, CallTo,
         Launching, Calling, AloneInv, CloseInv, SwapStages, ClosersOf
  <2>2. \A x \in Runtimes : inst'[x].proc = "boot" => x \in Launching'
    BY DEF WorkerdInv, WorkerdTypeOK, RuntimeState, CloseEnter, CallTo,
         Launching, Calling, StageInv, CloseInv, AloneInv, Signalled, Unstarted,
         SwapStages, ClosersOf
  <2>3. \A x, y \in Runtimes :
          inst'[x].stage \in PortChosen /\ y \in Listening(inst[x].port)' => y = x
    BY DEF WorkerdInv, WorkerdTypeOK, RuntimeState, CloseEnter, CallTo,
         AloneInv, PortChosen, Listening
  <2> QED BY <2>1, <2>2, <2>3 DEF AloneInv
<1>7. ReadyIsOwn'
  BY DEF WorkerdInv, WorkerdTypeOK, RuntimeState, CloseEnter, CallTo,
       ReadyIsOwn, AloneInv, PortChosen
<1> QED BY <1>1, <1>2, <1>3, <1>4, <1>5, <1>6, <1>7 DEF WorkerdInv

(* Close: SIGKILL.                                                         *)
LEMMA EscalateKeeps ==
  ASSUME WorkerdInv, NEW i \in Runtimes, NEW k \in ClosersOf,
         Escalate(i, k)
  PROVE  WorkerdInv'
<1>1. WorkerdTypeOK'
  <2>1. inst[i] \in RuntimeState
    BY DEF WorkerdInv, WorkerdTypeOK
  <2>2. inst'[i] \in RuntimeState
    BY <2>1 DEF WorkerdInv, Escalate, CallTo, WorkerdTypeOK, RuntimeState,
         SwapStages
  <2>3. inst' \in [Runtimes -> RuntimeState]
    BY <2>2 DEF WorkerdInv, Escalate, CallTo, WorkerdTypeOK
  <2> QED
    BY <2>3 DEF WorkerdInv, Escalate, CallTo, WorkerdTypeOK, ClosersOf
<1>2. StageInv'
  BY DEF WorkerdInv, WorkerdTypeOK, RuntimeState, Escalate, CallTo, StageInv,
       CloseInv, Unstarted, ClosersOf
<1>3. DirOutlivesProcess'
  BY DEF WorkerdInv, WorkerdTypeOK, RuntimeState, Escalate, CallTo, StageInv,
       DirOutlivesProcess, Runs, Unstarted
<1>4. CloseInv'
  BY DEF WorkerdInv, WorkerdTypeOK, RuntimeState, Escalate, CallTo, StageInv,
       CloseInv, Signalled, ServingInv, Unstarted, ClosersOf
<1>5. ServingInv'
  BY DEF WorkerdInv, WorkerdTypeOK, RuntimeState, Escalate, CallTo,
       ServingInv, CloseInv, ClosersOf, InStage
<1>6. AloneInv'
  <2>1. \A x, y \in Launching' : x = y
    BY DEF WorkerdInv, WorkerdTypeOK, RuntimeState, Escalate, CallTo,
         Launching, Calling, AloneInv, CloseInv, SwapStages, ClosersOf
  <2>2. \A x \in Runtimes : inst'[x].proc = "boot" => x \in Launching'
    BY DEF WorkerdInv, WorkerdTypeOK, RuntimeState, Escalate, CallTo,
         Launching, Calling, StageInv, CloseInv, AloneInv, Signalled, Unstarted,
         SwapStages, ClosersOf
  <2>3. \A x, y \in Runtimes :
          inst'[x].stage \in PortChosen /\ y \in Listening(inst[x].port)' => y = x
    BY DEF WorkerdInv, WorkerdTypeOK, RuntimeState, Escalate, CallTo,
         AloneInv, PortChosen, Listening
  <2> QED BY <2>1, <2>2, <2>3 DEF AloneInv
<1>7. ReadyIsOwn'
  BY DEF WorkerdInv, WorkerdTypeOK, RuntimeState, Escalate, CallTo,
       ReadyIsOwn, AloneInv, PortChosen
<1> QED BY <1>1, <1>2, <1>3, <1>4, <1>5, <1>6, <1>7 DEF WorkerdInv

(* Close: the process is gone, the directory follows.                      *)
LEMMA CloseExitKeeps ==
  ASSUME WorkerdInv, NEW i \in Runtimes, NEW k \in ClosersOf,
         CloseExit(i, k)
  PROVE  WorkerdInv'
<1>1. WorkerdTypeOK'
  <2>1. inst[i] \in RuntimeState
    BY DEF WorkerdInv, WorkerdTypeOK
  <2>2. inst'[i] \in RuntimeState
    BY <2>1 DEF WorkerdInv, CloseExit, CallTo, WorkerdTypeOK, RuntimeState,
         SwapStages
  <2>3. inst' \in [Runtimes -> RuntimeState]
    BY <2>2 DEF WorkerdInv, CloseExit, CallTo, WorkerdTypeOK
  <2> QED
    BY <2>3 DEF WorkerdInv, CloseExit, CallTo, WorkerdTypeOK, ClosersOf
<1>2. StageInv'
  BY DEF WorkerdInv, WorkerdTypeOK, RuntimeState, CloseExit, CallTo, StageInv,
       CloseInv, Unstarted, ClosersOf
<1>3. DirOutlivesProcess'
  BY DEF WorkerdInv, WorkerdTypeOK, RuntimeState, CloseExit, CallTo, StageInv,
       DirOutlivesProcess, Runs, Unstarted
<1>4. CloseInv'
  BY DEF WorkerdInv, WorkerdTypeOK, RuntimeState, CloseExit, CallTo, StageInv,
       CloseInv, Signalled, ServingInv, Unstarted, ClosersOf
<1>5. ServingInv'
  BY DEF WorkerdInv, WorkerdTypeOK, RuntimeState, CloseExit, CallTo,
       ServingInv, CloseInv, ClosersOf, InStage
<1>6. AloneInv'
  <2>1. \A x, y \in Launching' : x = y
    BY DEF WorkerdInv, WorkerdTypeOK, RuntimeState, CloseExit, CallTo,
         Launching, Calling, AloneInv, CloseInv, SwapStages, ClosersOf
  <2>2. \A x \in Runtimes : inst'[x].proc = "boot" => x \in Launching'
    BY DEF WorkerdInv, WorkerdTypeOK, RuntimeState, CloseExit, CallTo,
         Launching, Calling, StageInv, CloseInv, AloneInv, Signalled, Unstarted,
         SwapStages, ClosersOf
  <2>3. \A x, y \in Runtimes :
          inst'[x].stage \in PortChosen /\ y \in Listening(inst[x].port)' => y = x
    BY DEF WorkerdInv, WorkerdTypeOK, RuntimeState, CloseExit, CallTo,
         AloneInv, PortChosen, Listening
  <2> QED BY <2>1, <2>2, <2>3 DEF AloneInv
<1>7. ReadyIsOwn'
  BY DEF WorkerdInv, WorkerdTypeOK, RuntimeState, CloseExit, CallTo,
       ReadyIsOwn, AloneInv, PortChosen
<1> QED BY <1>1, <1>2, <1>3, <1>4, <1>5, <1>6, <1>7 DEF WorkerdInv

(* The shim stops and closes what is current, for the first time.         *)
LEMMA StopKeeps ==
  ASSUME WorkerdInv, StopOrdered \/ StopCloses
  PROVE  WorkerdInv'
<1>1. CASE StopOrdered
  BY <1>1 DEF WorkerdInv, StopOrdered, WorkerdTypeOK, StageInv, DirOutlivesProcess, Runs,
     CloseInv, Signalled, ServingInv, InStage, AloneInv, Launching, Calling, Listening,
     ReadyIsOwn
<1>2. CASE StopCloses /\ serving = NoRuntime
  BY <1>2 DEF WorkerdInv, StopCloses, WorkerdTypeOK, StageInv, DirOutlivesProcess, Runs,
     CloseInv, Signalled, ServingInv, InStage, AloneInv, Launching, Calling, Listening,
     ReadyIsOwn
<1>3. CASE StopCloses /\ serving # NoRuntime
  <2>1. /\ serving \in Runtimes /\ closer[serving]["stop"] = "none"
        /\ inst[serving].stage = "live"
    BY <1>3 DEF WorkerdInv, WorkerdTypeOK, ServingInv, StopCloses, InStage
  <2>2. /\ closer' = [closer EXCEPT ![serving]["stop"] = "close"]
        /\ UNCHANGED <<inst, serving>> /\ stopper' = "over"
    BY <1>3 DEF StopCloses, CallTo
  <2>3. WorkerdTypeOK'
    BY <2>1, <2>2 DEF WorkerdInv, WorkerdTypeOK, ClosersOf
  <2>4. /\ \A x \in Runtimes : /\ closer'[x]["swap"] = closer[x]["swap"]
                               /\ closer'[x]["drainer"] = closer[x]["drainer"]
        /\ \A x \in Runtimes : x # serving => closer'[x] = closer[x]
    BY <2>1, <2>2 DEF WorkerdInv, WorkerdTypeOK, ClosersOf
  <2>5. StageInv' /\ DirOutlivesProcess' /\ ReadyIsOwn'
    BY <2>2, <2>4 DEF WorkerdInv, StageInv, DirOutlivesProcess, ReadyIsOwn, Runs
  <2>6. CloseInv'
    BY <2>1, <2>2, <2>4 DEF WorkerdInv, WorkerdTypeOK, CloseInv, Signalled, ClosersOf
  <2>7. ServingInv'
    BY <2>2, <2>4 DEF WorkerdInv, WorkerdTypeOK, ServingInv, InStage
  <2>8. AloneInv'
    BY <2>2, <2>4 DEF WorkerdInv, AloneInv, Launching, Calling, Listening
  <2> QED BY <2>3, <2>5, <2>6, <2>7, <2>8 DEF WorkerdInv
<1> QED BY <1>1, <1>2, <1>3

(* The invariant holds throughout, whatever the operating system, workerd  *)
(* and the callers of Close do.                                            *)
THEOREM WorkerdInvariant == WorkerdSpec => []WorkerdInv
<1>1. WorkerdInit => WorkerdInv
  BY WorkerdAssumption DEF WorkerdInit, WorkerdInv, WorkerdTypeOK, RuntimeState, SwapStages,
     ClosersOf, StageInv, DirOutlivesProcess, Runs, CloseInv, Signalled, ServingInv, InStage,
     AloneInv, Launching, Calling, PortChosen, Listening, ReadyIsOwn, Unstarted
<1>2. WorkerdInv /\ [WorkerdNext]_workerdVars => WorkerdInv'
  <2> SUFFICES ASSUME WorkerdInv, [WorkerdNext]_workerdVars
               PROVE  WorkerdInv'
    OBVIOUS
  <2>1. ASSUME NEW i \in Runtimes, Swap(i)
        PROVE  WorkerdInv'
    <3>1. CASE SwapBegins(i)
      BY <3>1, SwapBeginsKeeps
    <3>2. CASE FreePort(i)
      BY <3>2, PortFoundKeeps, LaunchFailedKeeps DEF FreePort, InStage
    <3>3. CASE MakeDir(i)
      BY <3>3, DirMadeKeeps, LaunchFailedKeeps DEF MakeDir, InStage
    <3>4. CASE WriteConfig(i)
      BY <3>4, OnwardKeeps, LaunchFailedKeeps DEF WriteConfig, InStage
    <3>5. CASE StartProcess(i)
      BY <3>5, SpawnKeeps, OnwardKeeps, LaunchFailedKeeps DEF StartProcess, InStage
    <3>6. CASE StartAsSelf(i)
      BY <3>6, SpawnKeeps, LaunchFailedKeeps DEF StartAsSelf, InStage
    <3>7. CASE Probe(i)
      BY <3>7, ProbeKeeps
    <3>8. CASE NotReady(i)
      BY <3>8, NotReadyKeeps
    <3>9. CASE SwitchTo(i)
      BY <3>9, SwitchToKeeps
    <3> QED
      BY <2>1, <3>1, <3>2, <3>3, <3>4, <3>5, <3>6, <3>7, <3>8, <3>9 DEF Swap
  <2>2. ASSUME NEW i \in Runtimes,
               Bind(i) \/ Exit(i) \/ Reap(i) \/ CountIn(i) \/ CountOut(i) \/ Drain(i)
        PROVE  WorkerdInv'
    <3>1. CASE Bind(i)
      BY <3>1, BoundKeeps, GoneKeeps DEF Bind, Runs
    <3>2. CASE Exit(i)
      BY <3>2, GoneKeeps DEF Exit
    <3>3. CASE Reap(i)
      BY <3>3, ReapKeeps
    <3>4. CASE CountIn(i) \/ CountOut(i)
      BY <3>4, CountKeeps DEF CountIn, CountOut
    <3>5. CASE Drain(i)
      BY <3>5, DrainKeeps
    <3> QED BY <2>2, <3>1, <3>2, <3>3, <3>4, <3>5
  <2>3. ASSUME NEW i \in Runtimes, NEW k \in ClosersOf, Close(i, k)
        PROVE  WorkerdInv'
    BY <2>3, CloseEnterKeeps, EscalateKeeps, CloseExitKeeps DEF Close
  <2>4. CASE StopOrdered \/ StopCloses
    BY <2>4, StopKeeps
  <2>5. CASE UNCHANGED workerdVars
    BY <2>5 DEF workerdVars, WorkerdInv, WorkerdTypeOK, StageInv, DirOutlivesProcess, Runs,
       CloseInv, Signalled, ServingInv, InStage, AloneInv, Launching, Calling, Listening,
       ReadyIsOwn
  <2> QED BY <2>1, <2>2, <2>3, <2>4, <2>5 DEF WorkerdNext
<1> QED BY <1>1, <1>2, PTL DEF WorkerdSpec

(* workerd never runs without the directory it reads its configuration     *)
(* from: Close removes it only after the process is gone, and the error    *)
(* paths of Launch only before there is one.                               *)
THEOREM DirOutlivesProcessHolds == WorkerdSpec => []DirOutlivesProcess
BY WorkerdInvariant, PTL DEF WorkerdInv

(* The port is not reserved between freePort and the start of workerd, yet *)
(* with swapMu held until a failed instance is closed it is always the new *)
(* process that answers the readiness probe.                               *)
THEOREM ReadyIsOwnHolds == WorkerdSpec => []ReadyIsOwn
BY WorkerdInvariant, PTL DEF WorkerdInv

(* A close that came back left the work to a caller who is still at it,   *)
(* or nothing is left to do.                                               *)
LEMMA OwnedFollows == WorkerdInv => RuntimesOwned
<1> SUFFICES ASSUME WorkerdInv, NEW i \in Runtimes, Runs(i) \/ inst[i].dir
             PROVE  i \in Launching \cup {serving} \/ \E k \in ClosersOf : Calling(i, k)
  BY DEF RuntimesOwned
<1>1. ASSUME NEW k \in ClosersOf, closer[i][k] # "none"
      PROVE  \E c \in ClosersOf : Calling(i, c)
  <2>1. CASE closer[i][k] # "back"
    BY <1>1, <2>1 DEF Calling
  <2>2. CASE closer[i][k] = "back"
    <3>1. inst[i].closed
      BY <2>2 DEF WorkerdInv, CloseInv
    <3>2. ~(inst[i].done /\ ~inst[i].dir)
      BY DEF WorkerdInv, StageInv, Runs
    <3>3. Signalled(i)
      BY <3>1, <3>2 DEF WorkerdInv, CloseInv
    <3> QED BY <3>3 DEF Signalled, Calling
  <2> QED BY <2>1, <2>2
<1>2. CASE inst[i].stage \in SwapStages
  BY <1>2 DEF Launching
<1>3. CASE inst[i].stage = "new"
  BY <1>3 DEF WorkerdInv, StageInv, Unstarted, Runs
<1>4. CASE inst[i].stage = "failed"
  <2>1. closer[i]["swap"] # "none"
    BY <1>4 DEF WorkerdInv, StageInv, Runs
  <2> QED BY <1>1, <2>1 DEF ClosersOf
<1>5. CASE inst[i].stage = "live" /\ i # serving
  <2>1. closer[i]["drainer"] # "none"
    BY <1>5 DEF WorkerdInv, ServingInv, InStage
  <2> QED BY <1>1, <2>1 DEF ClosersOf
<1> QED BY <1>2, <1>3, <1>4, <1>5 DEF WorkerdInv, WorkerdTypeOK, RuntimeState

(* No process and no directory is lost: whoever launched, serves or closes *)
(* the instance answers for it, although a Close that is not the first     *)
(* returns at once.                                                        *)
THEOREM RuntimesOwnedHolds == WorkerdSpec => []RuntimesOwned
BY WorkerdInvariant, OwnedFollows, PTL


-----------------------------------------------------------------------------
(* The configuration.                                                      *)

(* The names in order that discoverModules chooses of them: exactly the    *)
(* chosen ones, each once.                                                 *)
LEMMA InOrder ==
  ASSUME NEW S, S \subseteq RangeOf(ModuleNames)
  PROVE  LET s == Without(ModuleNames, RangeOf(ModuleNames) \ S)
         IN s \in Seq(RangeOf(ModuleNames)) /\ RangeOf(s) = S /\ Distinct(s)
<1> DEFINE K == RangeOf(ModuleNames)
<1>1. ModuleNames \in Seq(K) /\ Distinct(ModuleNames)
  BY ConfigAssumption DEF Distinct
<1>2. K \ (K \ S) = S
  OBVIOUS
<1> QED
  <2> HIDE DEF K
  <2>1. /\ Without(ModuleNames, K \ S) \in Seq(K)
        /\ RangeOf(Without(ModuleNames, K \ S)) = RangeOf(ModuleNames) \ (K \ S)
        /\ Distinct(Without(ModuleNames, K \ S))
    BY <1>1, WithoutProperties
  <2> QED
    BY <1>2, <2>1 DEF K

(* What discoverModules finds is what is there, with index.js in front.    *)
LEMMA ModulesFound ==
  ASSUME NEW found, found \subseteq RangeOf(ModuleNames), NEW i
  PROVE  LET mods == discoverModules(found, i)
         IN /\ {mods[n].name : n \in DOMAIN mods} = found
            /\ \A n \in DOMAIN mods : mods[n].embed = <<"page", i, mods[n].name>>
            /\ IndexJs \in found => mods[1].name = IndexJs
<1> DEFINE K == RangeOf(ModuleNames)
           a == Without(ModuleNames, K \ (found \cap {IndexJs}))
           b == Without(ModuleNames, K \ (found \ {IndexJs}))
           all == a \o b
           mods == discoverModules(found, i)
<1>1. a \in Seq(K) /\ RangeOf(a) = found \cap {IndexJs}
  BY InOrder
<1>2. b \in Seq(K) /\ RangeOf(b) = found \ {IndexJs}
  BY InOrder
<1>3. mods = [n \in DOMAIN all |->
                [name |-> all[n], embed |-> <<"page", i, all[n]>>, kind |-> moduleKindFor(all[n])]]
  BY DEF discoverModules
<1> HIDE DEF a, b, K, mods
<1>4. /\ Len(a) \in Nat /\ Len(b) \in Nat /\ DOMAIN a = 1..Len(a) /\ DOMAIN b = 1..Len(b)
      /\ DOMAIN all = 1..(Len(a) + Len(b))
      /\ \A n \in DOMAIN a : all[n] = a[n]
      /\ \A n \in DOMAIN b : all[n + Len(a)] = b[n]
      /\ \A n \in DOMAIN all : n \in DOMAIN a \/ (n - Len(a) \in DOMAIN b /\ all[n] = b[n - Len(a)])
  BY <1>1, <1>2
<1> HIDE DEF all
<1>5. RangeOf(all) = found
  <2>1. ASSUME NEW n \in DOMAIN all PROVE all[n] \in found
    BY <1>1, <1>2, <1>4 DEF RangeOf
  <2>2. ASSUME NEW x \in RangeOf(a) PROVE \E n \in DOMAIN all : all[n] = x
    <3>1. PICK n \in DOMAIN a : a[n] = x
      BY DEF RangeOf
    <3> QED
      BY <1>4, <3>1
  <2>3. ASSUME NEW x \in RangeOf(b) PROVE \E n \in DOMAIN all : all[n] = x
    <3>1. PICK n \in DOMAIN b : b[n] = x
      BY DEF RangeOf
    <3>2. n + Len(a) \in DOMAIN all
      BY <1>4
    <3> QED
      BY <1>4, <3>1, <3>2
  <2>4. ASSUME NEW x \in found PROVE x \in RangeOf(a) \/ x \in RangeOf(b)
    BY <1>1, <1>2
  <2> QED
    BY <2>1, <2>2, <2>3, <2>4 DEF RangeOf
<1>6. ASSUME IndexJs \in found PROVE 1 \in DOMAIN all /\ all[1] = IndexJs
  <2>1. PICK n \in DOMAIN a : a[n] = IndexJs
    BY <1>1, <1>6 DEF RangeOf
  <2>2. 1 \in DOMAIN a
    BY <1>4, <2>1
  <2>3. a[1] = IndexJs
    BY <1>1, <2>2 DEF RangeOf
  <2>4. 1 \in DOMAIN all
    BY <1>4, <2>2
  <2> QED
    BY <1>4, <2>2, <2>3, <2>4
<1>7. /\ DOMAIN mods = DOMAIN all
      /\ \A n \in DOMAIN mods : mods[n].name = all[n] /\ mods[n].embed = <<"page", i, mods[n].name>>
  BY <1>3
<1>8. {mods[n].name : n \in DOMAIN mods} = found
  BY <1>5, <1>7 DEF RangeOf
<1> QED
  BY <1>6, <1>7, <1>8 DEF mods

(* The configuration is the one generateConfig makes of the load set.      *)
ConfigInv == loadSet \in LoadSets /\ config \in {NoConfig, generateConfig(loadSet)}

THEOREM ConfigInvariant == ConfigSpec => []ConfigInv
<1>1. ConfigInit => ConfigInv
  BY DEF ConfigInit, ConfigInv
<1>2. ConfigInv /\ [ConfigNext]_configVars => ConfigInv'
  BY DEF ConfigInv, ConfigNext, Generate, configVars
<1> QED
  BY <1>1, <1>2, PTL DEF ConfigSpec

(* The entry worker hands a request for a page to the service of that page. *)
LEMMA OwnService ==
  ASSUME NEW spec \in LoadSets, Loadable(spec), NEW i \in DOMAIN spec
  PROVE  EntryFetch(generateConfig(spec), spec[i].page) = PageService(spec[i], i)
<1> DEFINE cfg == generateConfig(spec)
           r == Routes(spec)
           j == CHOOSE k \in DOMAIN spec : spec[k].page = spec[i].page
<1>1. j = i
  BY ConfigAssumption
<1> HIDE DEF j
<1>2. spec[i].page \in DOMAIN r /\ r[spec[i].page] = <<"svc", i>>
  <2>1. r[spec[i].page] = <<"svc", j>>
    BY DEF Routes, j
  <2> QED
    BY <1>1, <2>1 DEF Routes
<1> HIDE DEF r
<1>3. /\ cfg.entry.routes = r
      /\ cfg.entry.services[<<"svc", i>>] = <<"page", i>>
      /\ cfg.pages[<<"page", i>>] = PageService(spec[i], i)
  <2>1. cfg.entry.services[<<"svc", i>>] = <<"page", i>>
    BY DEF generateConfig
  <2>2. cfg.pages[<<"page", i>>] = PageService(spec[i], i)
    BY DEF generateConfig
  <2> QED
    BY <2>1, <2>2 DEF generateConfig, r
<1> HIDE DEF cfg
<1> QED
  BY <1>2, <1>3 DEF EntryFetch, cfg

(* Whatever else is loaded with it, a page runs its own modules with its    *)
(* own bindings and asks for its own assets (generateConfig, entry.js): for *)
(* every load set, any module names and any bindings.                       *)
THEOREM PageSeesItsOwnHolds == ConfigSpec => []PageSeesItsOwn
<1>1. ConfigInv => PageSeesItsOwn
  <2> SUFFICES ASSUME ConfigInv, config \notin {NoConfig, BadBundle} PROVE PageSeesItsOwn
    BY DEF PageSeesItsOwn
  <2>1. loadSet \in LoadSets /\ config = generateConfig(loadSet) /\ Loadable(loadSet)
    BY DEF ConfigInv, generateConfig
  <2>2. EntryFetch(config, "unloaded") = "404"
    <3>1. "unloaded" \notin DOMAIN Routes(loadSet)
      BY <2>1, ConfigAssumption DEF Routes
    <3>2. config.entry.routes = Routes(loadSet)
      BY <2>1 DEF generateConfig
    <3> QED
      BY <3>1, <3>2 DEF EntryFetch
  <2>3. ASSUME NEW i \in DOMAIN loadSet
        PROVE  LET p == loadSet[i]
                   s == EntryFetch(config, p.page)
               IN /\ {Linked(loadSet, s.modules[n]) : n \in DOMAIN s.modules} =
                       {[bundle |-> p.page, file |-> m] : m \in p.modules}
                  /\ IndexJs \in p.modules => s.modules[1].name = IndexJs
                  /\ DOMAIN s.text = DOMAIN p.env \cup DOMAIN p.secret
                  /\ \A k \in DOMAIN p.secret : s.text[k] = p.secret[k]
                  /\ \A k \in DOMAIN p.env \ DOMAIN p.secret : s.text[k] = p.env[k]
                  /\ config.assets[s.assets].page = p.page
                  /\ \A t \in s.tails : config[config[t].globalOutbound].address = "tailEndpoint"
    <3> DEFINE p == loadSet[i]
               s == EntryFetch(config, p.page)
               mods == discoverModules(p.modules, i)
    <3>1. s = PageService(p, i)
      BY <2>1, OwnService
    <3> HIDE DEF s
    <3>2. /\ s.modules = mods /\ s.text = mergedBindings(p)
          /\ s.assets = <<"assets", i>> /\ s.tails = {"tailworker"}
      BY <3>1 DEF PageService
    <3>3. p.modules \subseteq RangeOf(ModuleNames)
      BY <2>1, ConfigAssumption DEF Loadable
    <3>4. /\ {mods[n].name : n \in DOMAIN mods} = p.modules
          /\ \A n \in DOMAIN mods : mods[n].embed = <<"page", i, mods[n].name>>
          /\ IndexJs \in p.modules => mods[1].name = IndexJs
      BY <3>3, ModulesFound
    <3>5. \A n \in DOMAIN mods :
            Linked(loadSet, mods[n]) = [bundle |-> p.page, file |-> mods[n].name]
      BY <3>4 DEF Linked
    <3>6. /\ DOMAIN s.text = DOMAIN p.env \cup DOMAIN p.secret
          /\ \A k \in DOMAIN p.secret : s.text[k] = p.secret[k]
          /\ \A k \in DOMAIN p.env \ DOMAIN p.secret : s.text[k] = p.env[k]
      BY <3>2 DEF mergedBindings
    <3>7. config.assets[s.assets].page = p.page
      BY <2>1, <3>2 DEF generateConfig, AssetsService
    <3>8. \A t \in s.tails : config[config[t].globalOutbound].address = "tailEndpoint"
      BY <2>1, <3>2 DEF generateConfig
    <3> HIDE DEF mods, p
    <3>9. {Linked(loadSet, mods[n]) : n \in DOMAIN mods} =
            {[bundle |-> p.page, file |-> m] : m \in p.modules}
      BY <3>4, <3>5
    <3> QED
      BY <3>2, <3>4, <3>6, <3>7, <3>8, <3>9 DEF s, p
  <2> QED
    BY <2>2, <2>3 DEF PageSeesItsOwn
<1> QED
  BY <1>1, ConfigInvariant, PTL
=============================================================================
