--------------------------- MODULE ControlProofs ---------------------------
(***************************************************************************)
(* Proofs about the two small parts of the control plane, which share no   *)
(* state.  MemQueue, for any number of items and of Dequeue callers: the   *)
(* entries settle once, no signal is lost, and the queue implements the    *)
(* FIFO contract.  PodLifecycle, for any number of pods and of controller  *)
(* crashes and in every environment: draining is final.                    *)
(***************************************************************************)
EXTENDS MemQueue, PodLifecycle, SeqLemmas, FiniteSetTheorems, TLAPS

-----------------------------------------------------------------------------
(* The in-memory queue *)

\* The part of EntriesSettleOnce about the slice and the entries alone.
Listed ==
  /\ \A n \in DOMAIN items : state[items[n]] = "queued"
  /\ \A m, n \in DOMAIN items : items[m] = items[n] => m = n
  /\ \A i \in Items : state[i] = "queued" => \E n \in DOMAIN items : items[n] = i

\* The variables of the entries have their types.
EntryTypes ==
  /\ items \in Seq(Items)
  /\ state \in [Items -> {"new", "queued", "delivered", "cancelled"}]
  /\ closed \in [Items -> Nat]

(* Appending a new entry. *)
LEMMA AppendListed ==
  ASSUME EntryTypes, Listed, NEW i \in Items, state[i] = "new",
         items' = Append(items, i), state' = [state EXCEPT ![i] = "queued"]
  PROVE  Listed'
<1> USE DEF EntryTypes, Listed
<1>1. Len(items) \in Nat /\ DOMAIN items = 1..Len(items) /\ DOMAIN items' = 1..(Len(items) + 1)
  OBVIOUS
<1>2. /\ \A n \in 1..Len(items) : items'[n] = items[n] /\ items[n] \in Items /\ items[n] # i
      /\ items'[Len(items) + 1] = i
  OBVIOUS
<1>3. \A n \in 1..(Len(items) + 1) : n \in 1..Len(items) \/ n = Len(items) + 1
  BY <1>1
<1>4. \A n \in DOMAIN items' : state'[items'[n]] = "queued"
  BY <1>1, <1>2, <1>3
<1>5. \A m, n \in DOMAIN items' : items'[m] = items'[n] => m = n
  BY <1>1, <1>2, <1>3
<1>6. ASSUME NEW j \in Items, state'[j] = "queued" PROVE \E n \in DOMAIN items' : items'[n] = j
  <2>1. CASE j = i
    <3>1. Len(items) + 1 \in DOMAIN items'
      BY <1>1
    <3> QED
      BY <1>2, <2>1, <3>1
  <2>2. CASE j # i
    BY <1>1, <1>2, <1>6, <2>2
  <2> QED
    BY <2>1, <2>2
<1> QED
  BY <1>4, <1>5, <1>6

(* An entry leaves the slice and the queued state together: Dequeue for the *)
(* front entry, cancel for any.                                             *)
LEMMA RemoveListed ==
  ASSUME EntryTypes, Listed, NEW k \in DOMAIN items, NEW s \in {"delivered", "cancelled"},
         items' = RemoveAt(items, k), state' = [state EXCEPT ![items[k]] = s]
  PROVE  Listed' /\ items' \in Seq(Items)
<1> USE DEF EntryTypes, Listed
<1>1. k \in 1..Len(items) /\ items[k] \in Items /\ items' \in Seq(Items)
  BY RemoveAtProperties
<1>1a. items \in Seq(Items) /\ items' = RemoveAt(items, k)
  OBVIOUS
<1>1b. \A m, n \in DOMAIN items : items[m] = items[n] => m = n
  OBVIOUS
<1>2. /\ \A j \in DOMAIN items' : \E n \in DOMAIN items : items'[j] = items[n]
      /\ \A m, n \in DOMAIN items' : items'[m] = items'[n] => m = n
  BY ONLY <1>1, <1>1a, <1>1b, RemoveAtElements
<1>3. /\ \A n \in DOMAIN items : n # k => \E j \in DOMAIN items' : items'[j] = items[n]
      /\ \A j \in DOMAIN items' : items'[j] # items[k]
  BY ONLY <1>1, <1>1a, <1>1b, RemoveAtKeeps
<1>4. \A j \in DOMAIN items' : state'[items'[j]] = "queued"
  BY <1>1, <1>2, <1>3
<1>5. ASSUME NEW j \in Items, state'[j] = "queued" PROVE \E n \in DOMAIN items' : items'[n] = j
  <2>1. state[j] = "queued" /\ j # items[k]
    BY <1>1, <1>5
  <2>2. PICK n \in DOMAIN items : items[n] = j
    BY <2>1
  <2> QED
    BY <1>3, <2>1, <2>2
<1> QED
  BY <1>1, <1>2, <1>4, <1>5

(* Tail is the removal of the first element. *)
LEMMA TailRemoves ==
  ASSUME NEW S, NEW s \in Seq(S), s # <<>>
  PROVE  1 \in DOMAIN s /\ Head(s) = s[1] /\ Tail(s) = RemoveAt(s, 1)
<1>1. 1 \in DOMAIN s /\ Head(s) = s[1] /\ 1 \in 1..Len(s)
  BY TailElements
<1>2. /\ Tail(s) \in Seq(S) /\ RemoveAt(s, 1) \in Seq(S)
      /\ Len(Tail(s)) = Len(s) - 1 /\ Len(RemoveAt(s, 1)) = Len(s) - 1
  BY <1>1, TailElements, RemoveAtProperties
<1>3. \A j \in 1..(Len(s) - 1) : Tail(s)[j] = s[j + 1]
  BY <1>2, TailElements
<1>4. \A j \in 1..(Len(s) - 1) : RemoveAt(s, 1)[j] = s[j + 1]
  BY <1>1, RemoveAtProperties
<1> QED
  BY <1>1, <1>2, <1>3, <1>4, SeqEqual

(* A cancel that finds its entry queued removes exactly that entry. *)
LEMMA CancelListed ==
  ASSUME EntryTypes, Listed, NEW i \in Items, Cancel(i), state[i] = "queued"
  PROVE  /\ \E k \in DOMAIN items : items[k] = i /\ items' = RemoveAt(items, k)
         /\ state' = [state EXCEPT ![i] = "cancelled"]
         /\ closed' = [closed EXCEPT ![i] = closed[i] + 1]
         /\ Listed' /\ items' \in Seq(Items)
<1>1. PICK k \in DOMAIN items : items[k] = i /\ items' = RemoveAt(items, k)
  BY DEF Cancel
<1>2. state' = [state EXCEPT ![i] = "cancelled"] /\ closed' = [closed EXCEPT ![i] = closed[i] + 1]
  BY DEF Cancel
<1>3. Listed' /\ items' \in Seq(Items)
  BY <1>1, <1>2, RemoveListed
<1> QED
  BY <1>1, <1>2, <1>3

(* A Dequeue that finds an item removes the front entry. *)
LEMMA DequeueListed ==
  ASSUME EntryTypes, Listed, NEW c \in Consumers, DequeueItem(c)
  PROVE  /\ Head(items) \in Items /\ state[Head(items)] = "queued"
         /\ Listed' /\ items' \in Seq(Items)
<1>1. items # <<>> /\ items' = Tail(items) /\ state' = [state EXCEPT ![Head(items)] = "delivered"]
  BY DEF DequeueItem
<1>2. 1 \in DOMAIN items /\ Head(items) = items[1] /\ items' = RemoveAt(items, 1)
  BY <1>1, TailRemoves DEF EntryTypes
<1>3. Listed' /\ items' \in Seq(Items)
  BY <1>1, <1>2, RemoveListed
<1> QED
  BY <1>2, <1>3 DEF Listed, EntryTypes

(* A step that leaves the entries alone, and moves no Enqueue call over the *)
(* append, keeps them consistent.                                           *)
LEMMA SameEntries ==
  ASSUME QueueInv, UNCHANGED entryVars,
         \A j \in Items : enq'[j] \in {"idle", "refused", "append"} <=> enq[j] \in {"idle", "refused", "append"}
  PROVE  EntryTypes' /\ EntriesSettleOnce'
<1>1. EntryTypes'
  BY DEF QueueInv, TypeOK, EntryTypes, entryVars
<1>2. Listed'
  BY DEF QueueInv, EntriesSettleOnce, Listed, entryVars
<1>3. \A i \in Items : enq'[i] \in {"idle", "refused", "append"} <=> state'[i] = "new"
  BY DEF QueueInv, EntriesSettleOnce, entryVars
<1>4. /\ \A i \in Items : state'[i] \in {"delivered", "cancelled"} => closed'[i] = 1
      /\ \A i \in Items : state'[i] \in {"new", "queued"} => closed'[i] = 0
  BY DEF QueueInv, EntriesSettleOnce, entryVars
<1> QED
  BY <1>1, <1>2, <1>3, <1>4 DEF EntriesSettleOnce, Listed

(* Cancelling, by the watcher or by the ticket, keeps the invariant. *)
LEMMA CancelStep ==
  ASSUME QueueInv, NEW i \in Items, Cancel(i),
         enq' = enq \/ (enq[i] = "ticket" /\ enq' = [enq EXCEPT ![i] = "given up"])
  PROVE  EntryTypes' /\ EntriesSettleOnce'
<1>1. EntryTypes /\ Listed
  BY DEF QueueInv, TypeOK, EntriesSettleOnce, EntryTypes, Listed
<1>2. \A j \in Items : enq'[j] \in {"idle", "refused", "append"} <=> enq[j] \in {"idle", "refused", "append"}
  BY ZenonT(30) DEF QueueInv, TypeOK
<1>3. CASE state[i] # "queued"
  <2>1. UNCHANGED entryVars
    BY <1>3 DEF Cancel
  <2> QED
    BY <1>2, <2>1, SameEntries
<1>4. CASE state[i] = "queued"
  <2>1. /\ state' = [state EXCEPT ![i] = "cancelled"]
        /\ closed' = [closed EXCEPT ![i] = closed[i] + 1]
        /\ Listed' /\ items' \in Seq(Items)
    BY <1>1, <1>4, CancelListed
  <2>2. EntryTypes'
    <3>1. closed' \in [Items -> Nat]
      BY ONLY <1>1, <2>1, i \in Items DEF EntryTypes
    <3>2. state' \in [Items -> {"new", "queued", "delivered", "cancelled"}]
      BY ONLY <1>1, <2>1, i \in Items DEF EntryTypes
    <3> QED
      BY <2>1, <3>1, <3>2 DEF EntryTypes
  <2>3. closed[i] = 0
    BY <1>4 DEF QueueInv, EntriesSettleOnce
  <2>3a. /\ \A j \in Items : state[j] \in {"delivered", "cancelled"} => closed[j] = 1
         /\ \A j \in Items : state[j] \in {"new", "queued"} => closed[j] = 0
    BY DEF QueueInv, EntriesSettleOnce
  <2>4. /\ \A j \in Items : state'[j] \in {"delivered", "cancelled"} => closed'[j] = 1
        /\ \A j \in Items : state'[j] \in {"new", "queued"} => closed'[j] = 0
    BY ONLY <1>1, <2>1, <2>3, <2>3a, i \in Items DEF EntryTypes
  <2>5. \A j \in Items : enq'[j] \in {"idle", "refused", "append"} <=> state'[j] = "new"
    BY <1>1, <1>2, <1>4, <2>1 DEF QueueInv, EntriesSettleOnce, EntryTypes
  <2> QED
    BY <2>1, <2>2, <2>4, <2>5 DEF EntriesSettleOnce, Listed
<1> QED
  BY <1>3, <1>4

\* The types of the callers and their goroutines.
CallerTypes ==
  /\ enq \in [Items -> {"idle", "refused", "append", "ticket", "given up"}]
  /\ ctx \in [Items -> {"live", "done"}]
  /\ watcher \in [Items -> {"none", "watching", "ended"}]
  /\ cons \in [Consumers -> {"idle", "calling", "asleep", "locking", "error"}]
  /\ cctx \in [Consumers -> {"live", "done"}]
  /\ wakers \in [Consumers -> SUBSET {"current", "stopped"}]

(* Every step keeps the entries consistent. *)
LEMMA EntriesStep ==
  ASSUME QueueInv, [Next]_vars
  PROVE  EntryTypes' /\ EntriesSettleOnce'
<1> USE DEF entryVars, enqVars, consVars
<1>t. EntryTypes /\ Listed /\ CallerTypes
  BY DEF QueueInv, TypeOK, EntriesSettleOnce, EntryTypes, Listed, CallerTypes
<1>1. CASE UNCHANGED vars
  BY <1>1, SameEntries DEF vars
<1>2. ASSUME NEW i \in Items, CtxDone(i) PROVE EntryTypes' /\ EntriesSettleOnce'
  BY <1>2, SameEntries DEF CtxDone
<1>3. ASSUME NEW i \in Items, EnqueueCheck(i) PROVE EntryTypes' /\ EntriesSettleOnce'
  <2>1. \A j \in Items : enq'[j] \in {"idle", "refused", "append"} <=> enq[j] \in {"idle", "refused", "append"}
    BY <1>3, <1>t DEF EnqueueCheck, CallerTypes
  <2> QED
    BY <1>3, <2>1, SameEntries DEF EnqueueCheck
<1>4. ASSUME NEW i \in Items, Enqueue(i) PROVE EntryTypes' /\ EntriesSettleOnce'
  <2>1. /\ enq[i] = "append" /\ enq' = [enq EXCEPT ![i] = "ticket"] /\ closed' = closed
        /\ items' = Append(items, i) /\ state' = [state EXCEPT ![i] = "queued"]
    BY <1>4 DEF Enqueue
  <2>2. state[i] = "new"
    BY <2>1 DEF QueueInv, EntriesSettleOnce
  <2>3. Listed'
    BY <1>t, <2>1, <2>2, AppendListed
  <2>4. EntryTypes'
    BY <1>t, <2>1 DEF EntryTypes
  <2>5. /\ \A j \in Items : state'[j] \in {"delivered", "cancelled"} => closed'[j] = 1
        /\ \A j \in Items : state'[j] \in {"new", "queued"} => closed'[j] = 0
    BY <1>t, <2>1, <2>2 DEF QueueInv, EntriesSettleOnce, EntryTypes
  <2>6. \A j \in Items : enq'[j] \in {"idle", "refused", "append"} <=> state'[j] = "new"
    BY <1>t, <2>1, <2>2 DEF QueueInv, EntriesSettleOnce, EntryTypes, CallerTypes
  <2> QED
    BY <2>3, <2>4, <2>5, <2>6 DEF EntriesSettleOnce, Listed
<1>5. ASSUME NEW i \in Items, WatcherCancels(i) PROVE EntryTypes' /\ EntriesSettleOnce'
  BY <1>5, CancelStep DEF WatcherCancels
<1>6. ASSUME NEW i \in Items, WatcherEnds(i) PROVE EntryTypes' /\ EntriesSettleOnce'
  BY <1>6, SameEntries DEF WatcherEnds
<1>7. ASSUME NEW i \in Items, TicketCancel(i) PROVE EntryTypes' /\ EntriesSettleOnce'
  BY <1>7, CancelStep DEF TicketCancel
<1>8. ASSUME NEW c \in Consumers, ConsumerCtxDone(c) PROVE EntryTypes' /\ EntriesSettleOnce'
  BY <1>8, SameEntries DEF ConsumerCtxDone
<1>9. ASSUME NEW c \in Consumers, DequeueCall(c) PROVE EntryTypes' /\ EntriesSettleOnce'
  BY <1>9, SameEntries DEF DequeueCall
<1>10. ASSUME NEW c \in Consumers, DequeueItem(c) PROVE EntryTypes' /\ EntriesSettleOnce'
  <2>1. /\ Head(items) \in Items /\ state[Head(items)] = "queued"
        /\ Listed' /\ items' \in Seq(Items)
    BY <1>10, <1>t, DequeueListed
  <2>2. /\ state' = [state EXCEPT ![Head(items)] = "delivered"] /\ enq' = enq
        /\ closed' = [closed EXCEPT ![Head(items)] = closed[Head(items)] + 1]
    BY <1>10 DEF DequeueItem
  <2>3. closed[Head(items)] = 0
    BY <2>1 DEF QueueInv, EntriesSettleOnce
  <2> DEFINE h == Head(items)
  <2> HIDE DEF h
  <2>4. h \in Items /\ state[h] = "queued" /\ closed[h] = 0 /\ state' = [state EXCEPT ![h] = "delivered"]
        /\ closed' = [closed EXCEPT ![h] = closed[h] + 1]
    BY <2>1, <2>2, <2>3 DEF h
  <2>5. EntryTypes'
    BY <1>t, <2>1, <2>4 DEF EntryTypes
  <2>6. /\ \A j \in Items : state'[j] \in {"delivered", "cancelled"} => closed'[j] = 1
        /\ \A j \in Items : state'[j] \in {"new", "queued"} => closed'[j] = 0
    BY <1>t, <2>4 DEF QueueInv, EntriesSettleOnce, EntryTypes
  <2>7. \A j \in Items : enq'[j] \in {"idle", "refused", "append"} <=> state'[j] = "new"
    BY <1>t, <2>2, <2>4 DEF QueueInv, EntriesSettleOnce, EntryTypes
  <2> QED
    BY <2>1, <2>5, <2>6, <2>7 DEF EntriesSettleOnce, Listed
<1>11. ASSUME NEW c \in Consumers, DequeueError(c) \/ DequeueWait(c) PROVE EntryTypes' /\ EntriesSettleOnce'
  BY <1>11, SameEntries DEF DequeueError, DequeueWait
<1>12. ASSUME NEW c \in Consumers, WakerStops(c) PROVE EntryTypes' /\ EntriesSettleOnce'
  BY <1>12, SameEntries DEF WakerStops
<1>13. ASSUME NEW c \in Consumers, NEW w \in {"current", "stopped"}, WakerBroadcasts(c, w)
       PROVE  EntryTypes' /\ EntriesSettleOnce'
  BY <1>13, SameEntries DEF WakerBroadcasts
<1> QED
  BY <1>1, <1>2, <1>3, <1>4, <1>5, <1>6, <1>7, <1>8, <1>9, <1>10, <1>11, <1>12, <1>13 DEF Next, Dequeue

(* Every step keeps the types of the callers. *)
LEMMA CallerTypesStep ==
  ASSUME QueueInv, [Next]_vars
  PROVE  CallerTypes'
<1> USE DEF entryVars, enqVars, consVars
<1>t. CallerTypes
  BY DEF QueueInv, TypeOK, CallerTypes
<1> USE DEF CallerTypes
<1>1. CASE UNCHANGED vars
  BY <1>1, <1>t DEF vars
<1>2. ASSUME NEW i \in Items,
             CtxDone(i) \/ EnqueueCheck(i) \/ WatcherCancels(i) \/ WatcherEnds(i) \/ TicketCancel(i)
      PROVE  CallerTypes'
  BY <1>2, <1>t DEF CtxDone, EnqueueCheck, WatcherCancels, WatcherEnds, TicketCancel
<1>3. ASSUME NEW i \in Items, Enqueue(i) PROVE CallerTypes'
  <2>1. cons' \in [Consumers -> {"idle", "calling", "asleep", "locking", "error"}]
    BY <1>3, <1>t DEF Enqueue, Signal, Asleep
  <2> QED
    BY <1>3, <1>t, <2>1 DEF Enqueue
<1>4. ASSUME NEW c \in Consumers, ConsumerCtxDone(c) \/ DequeueCall(c)
      PROVE  CallerTypes'
  BY <1>4, <1>t DEF ConsumerCtxDone, DequeueCall
<1>4a. ASSUME NEW c \in Consumers, DequeueItem(c) \/ DequeueError(c)
       PROVE  CallerTypes'
  <2>1. Stopped(c) \in SUBSET {"current", "stopped"}
    BY DEF Stopped
  <2> QED
    <3>1. /\ cons' = [cons EXCEPT ![c] = "idle"] \/ cons' = [cons EXCEPT ![c] = "error"]
          /\ wakers' = [wakers EXCEPT ![c] = Stopped(c)]
          /\ enq' = enq /\ ctx' = ctx /\ watcher' = watcher /\ cctx' = cctx
      BY <1>4a DEF DequeueItem, DequeueError
    <3> QED
      BY <1>t, <2>1, <3>1
<1>4b. ASSUME NEW c \in Consumers, DequeueWait(c) PROVE CallerTypes'
  <2> DEFINE w == IF cons[c] = "calling" THEN wakers[c] \cup {"current"} ELSE wakers[c]
  <2>1. w \in SUBSET {"current", "stopped"}
    BY <1>t
  <2>2. wakers' = [wakers EXCEPT ![c] = w]
    BY <1>4b DEF DequeueWait
  <2> HIDE DEF w
  <2> QED
    BY <1>4b, <1>t, <2>1, <2>2 DEF DequeueWait
<1>4c. ASSUME NEW c \in Consumers, WakerStops(c) PROVE CallerTypes'
  <2>1. wakers[c] \ {"stopped"} \in SUBSET {"current", "stopped"}
    BY <1>t
  <2> QED
    BY <1>4c, <1>t, <2>1 DEF WakerStops
<1>5. ASSUME NEW c \in Consumers, NEW w \in {"current", "stopped"}, WakerBroadcasts(c, w) PROVE CallerTypes'
  BY <1>5, <1>t DEF WakerBroadcasts, Broadcast
<1> QED
  BY <1>1, <1>2, <1>3, <1>4, <1>4a, <1>4b, <1>4c, <1>5 DEF Next, Dequeue

LEMMA QueueInvInit ==
  ASSUME Init
  PROVE  QueueInv
BY DEF Init, QueueInv, TypeOK, EntriesSettleOnce

(* "Every item is either delivered exactly once or cancelled, never both":  *)
(* the slice holds exactly the queued entries and settled is closed once.   *)
THEOREM QueueInvariant == Spec => []QueueInv
<1>1. QueueInv /\ [Next]_vars => QueueInv'
  BY EntriesStep, CallerTypesStep DEF QueueInv, TypeOK, EntryTypes, CallerTypes
<1> QED
  BY <1>1, QueueInvInit, PTL DEF Spec

-----------------------------------------------------------------------------
(* The sets of callers are finite, and one caller is in one of them. *)
LEMMA CallerSets ==
  /\ IsFiniteSet(Awake) /\ IsFiniteSet(Awake')
  /\ Cardinality(Awake) \in Nat /\ Cardinality(Awake') \in Nat
<1>1. Awake \subseteq Consumers /\ Awake' \subseteq Consumers
  BY DEF Awake
<1> QED
  BY <1>1, ConsumersAssumption, FS_Subset, FS_CardinalityType

(* No step loses a signal. *)
LEMMA SignalStep ==
  ASSUME QueueInv, QueueInv', NoLostSignal, [Next]_vars
  PROVE  NoLostSignal'
<1> USE DEF entryVars, enqVars, consVars
<1>s. items \in Seq(Items) /\ items' \in Seq(Items)
  BY DEF QueueInv, TypeOK
<1>t. /\ items \in Seq(Items) /\ items' \in Seq(Items) /\ Len(items) \in Nat /\ Len(items') \in Nat
      /\ cons \in [Consumers -> {"idle", "calling", "asleep", "locking", "error"}]
  BY <1>s, LenProperties DEF QueueInv, TypeOK
<1>1. ASSUME cons' = cons, items' = items PROVE NoLostSignal'
  BY <1>1 DEF NoLostSignal, Asleep, Awake
<1>2. ASSUME NEW i \in Items, Enqueue(i) PROVE NoLostSignal'
  <2>1. Len(items') = Len(items) + 1
    BY <1>2, <1>t DEF Enqueue
  <2>2. CASE Asleep = {}
    BY <1>2, <2>2 DEF Enqueue, Signal, NoLostSignal, Asleep
  <2>3. CASE Asleep # {}
    <3>1. PICK c \in Asleep : cons' = [cons EXCEPT ![c] = "locking"]
      BY <1>2, <2>3 DEF Enqueue, Signal
    <3>2. c \notin Awake /\ Awake' = Awake \cup {c}
      BY <1>t, <3>1 DEF Asleep, Awake
    <3>3. Cardinality(Awake') = Cardinality(Awake) + 1
      BY <3>2, CallerSets, FS_AddElement
    <3> QED
      BY <1>t, <2>1, <2>3, <3>3, CallerSets DEF NoLostSignal
  <2> QED
    BY <2>2, <2>3
<1>3. ASSUME NEW i \in Items, Cancel(i), cons' = cons PROVE NoLostSignal'
  <2>1. Asleep' = Asleep /\ Awake' = Awake
    BY <1>3 DEF Asleep, Awake
  <2>2. CASE state[i] # "queued"
    BY <1>1, <1>3, <2>2 DEF Cancel
  <2>3. CASE state[i] = "queued"
    <3>1. PICK k \in DOMAIN items : items' = RemoveAt(items, k)
      BY <1>3, <2>3 DEF Cancel
    <3>2. Len(items') = Len(items) - 1
      BY <1>t, <3>1, RemoveAtProperties
    <3> QED
      BY <1>t, <2>1, <3>2, CallerSets DEF NoLostSignal
  <2> QED
    BY <2>2, <2>3
<1>4. ASSUME NEW c \in Consumers, DequeueCall(c) PROVE NoLostSignal'
  <2>1. c \notin Awake /\ Awake' = Awake \cup {c} /\ Asleep' = Asleep
    BY <1>4, <1>t DEF DequeueCall, Awake, Asleep
  <2>2. Cardinality(Awake') = Cardinality(Awake) + 1 /\ items' = items
    BY <1>4, <2>1, CallerSets, FS_AddElement DEF DequeueCall
  <2> QED
    BY <1>t, <2>1, <2>2, CallerSets DEF NoLostSignal
<1>5. ASSUME NEW c \in Consumers, DequeueItem(c) PROVE NoLostSignal'
  <2>1. c \in Awake /\ Awake' = Awake \ {c} /\ Asleep' = Asleep
    BY <1>5, <1>t DEF DequeueItem, Awake, Asleep
  <2>2. Cardinality(Awake') = Cardinality(Awake) - 1
    BY <2>1, CallerSets, FS_RemoveElement
  <2>3. Len(items') = Len(items) - 1
    BY <1>5, <1>t, TailElements DEF DequeueItem
  <2> QED
    BY <1>t, <2>1, <2>2, <2>3, CallerSets DEF NoLostSignal
<1>6. ASSUME NEW c \in Consumers, DequeueError(c) \/ DequeueWait(c) PROVE NoLostSignal'
  <2>1. items' = <<>>
    BY <1>6 DEF DequeueError, DequeueWait
  <2>2. Len(items') = 0
    BY <2>1
  <2> QED
    BY <2>2, CallerSets DEF NoLostSignal
<1>7. ASSUME NEW c \in Consumers, NEW w \in {"current", "stopped"}, WakerBroadcasts(c, w) PROVE NoLostSignal'
  <2>1. Asleep' = {}
    BY <1>7, <1>t DEF WakerBroadcasts, Broadcast, Asleep
  <2> QED
    BY <2>1 DEF NoLostSignal
<1>8. CASE UNCHANGED vars
  BY <1>1, <1>8 DEF vars
<1>9. ASSUME NEW i \in Items, CtxDone(i) \/ EnqueueCheck(i) \/ WatcherEnds(i) PROVE NoLostSignal'
  BY <1>1, <1>9 DEF CtxDone, EnqueueCheck, WatcherEnds
<1>10. ASSUME NEW i \in Items, WatcherCancels(i) \/ TicketCancel(i) PROVE NoLostSignal'
  BY <1>3, <1>10 DEF WatcherCancels, TicketCancel
<1>11. ASSUME NEW c \in Consumers, ConsumerCtxDone(c) \/ WakerStops(c) PROVE NoLostSignal'
  BY <1>1, <1>11 DEF ConsumerCtxDone, WakerStops
<1> QED
  BY <1>2, <1>4, <1>5, <1>6, <1>7, <1>8, <1>9, <1>10, <1>11 DEF Next, Dequeue

(* No lost signal, for any number of Dequeue callers: while one of them     *)
(* sleeps, as many as there are queued items are on their way to the lock.  *)
THEOREM NoLostSignalHolds == Spec => []NoLostSignal
<1>1. Init => NoLostSignal
  <2> SUFFICES ASSUME Init PROVE NoLostSignal
    OBVIOUS
  <2>1. Asleep = {}
    BY DEF Init, Asleep
  <2> QED
    BY <2>1 DEF NoLostSignal
<1>2. QueueInv /\ QueueInv' /\ NoLostSignal /\ [Next]_vars => NoLostSignal'
  BY SignalStep
<1> QED
  BY <1>1, <1>2, QueueInvariant, PTL DEF Spec

-----------------------------------------------------------------------------
(* Every step of the queue is a step of the FIFO, or changes nothing there. *)
LEMMA FifoStep ==
  ASSUME QueueInv, [Next]_vars
  PROVE  [Fifo!Next]_<<items, state>>
<1> USE DEF entryVars, enqVars, consVars
<1>t. EntryTypes /\ Listed
  BY DEF QueueInv, TypeOK, EntriesSettleOnce, EntryTypes, Listed
<1>1. ASSUME NEW i \in Items, Enqueue(i) PROVE Fifo!Next
  <2>1. state[i] = "new"
    BY <1>1 DEF Enqueue, QueueInv, EntriesSettleOnce
  <2>2. Fifo!Put(i)
    BY <1>1, <2>1 DEF Enqueue, Fifo!Put
  <2> QED
    BY <2>2 DEF Fifo!Next
<1>2. ASSUME NEW i \in Items, Cancel(i) PROVE [Fifo!Next]_<<items, state>>
  <2>1. CASE state[i] # "queued"
    BY <1>2, <2>1 DEF Cancel
  <2>2. CASE state[i] = "queued"
    <3>1. /\ \E k \in DOMAIN items : items[k] = i /\ items' = RemoveAt(items, k)
          /\ state' = [state EXCEPT ![i] = "cancelled"]
      BY <1>2, <1>t, <2>2, CancelListed
    <3>2. PICK k \in DOMAIN items : items[k] = i /\ items' = RemoveAt(items, k)
      BY <3>1
    <3>3. Fifo!Drop(k)
      BY <3>1, <3>2 DEF Fifo!Drop, Fifo!RemoveAt, RemoveAt
    <3> QED
      BY <3>3 DEF Fifo!Next
  <2> QED
    BY <2>1, <2>2
<1>3. ASSUME NEW c \in Consumers, DequeueItem(c) PROVE Fifo!Next
  <2>1. Fifo!Take
    BY <1>3 DEF DequeueItem, Fifo!Take
  <2> QED
    BY <2>1 DEF Fifo!Next
<1>4. CASE UNCHANGED vars
  BY <1>4 DEF vars
<1>5. ASSUME NEW i \in Items, CtxDone(i) \/ EnqueueCheck(i) \/ WatcherEnds(i) PROVE UNCHANGED <<items, state>>
  BY <1>5 DEF CtxDone, EnqueueCheck, WatcherEnds
<1>6. ASSUME NEW i \in Items, WatcherCancels(i) \/ TicketCancel(i) PROVE [Fifo!Next]_<<items, state>>
  BY <1>2, <1>6 DEF WatcherCancels, TicketCancel
<1>7. ASSUME NEW c \in Consumers,
             ConsumerCtxDone(c) \/ DequeueCall(c) \/ DequeueError(c) \/ DequeueWait(c) \/ WakerStops(c)
      PROVE  UNCHANGED <<items, state>>
  BY <1>7 DEF ConsumerCtxDone, DequeueCall, DequeueError, DequeueWait, WakerStops
<1>8. ASSUME NEW c \in Consumers, NEW w \in {"current", "stopped"}, WakerBroadcasts(c, w)
      PROVE  UNCHANGED <<items, state>>
  BY <1>8 DEF WakerBroadcasts
<1> QED
  BY <1>1, <1>3, <1>4, <1>5, <1>6, <1>7, <1>8 DEF Next, Dequeue

(* The in-memory queue implements the queue contract: FIFO order, at most   *)
(* one delivery, and no delivery after a cancellation.                      *)
THEOREM FifoRefinement == Spec => FifoSpec
<1>1. Init => Fifo!Init
  BY DEF Init, Fifo!Init
<1>2. QueueInv /\ [Next]_vars => [Fifo!Next]_(Fifo!vars)
  BY FifoStep DEF Fifo!vars
<1> QED
  BY <1>1, <1>2, QueueInvariant, PTL DEF Spec, FifoSpec, Fifo!Spec

-----------------------------------------------------------------------------
(* The life of a pod.  DrainIsFinal is not inductive: it needs that a shim *)
(* told to drain is past its only registration, and that a shim runs in a  *)
(* live pod only (so that no new pod starts under its name).               *)

Types ==
  /\ entry \in [Pods -> {"none", "creating", "ready", "draining"}]
  /\ kube \in [Pods -> {"absent", "live", "failed", "gone"}]
  /\ shim \in [Pods -> {"off", "register", "connect", "session"}]
  /\ drains \in [Pods -> BOOLEAN]

ShimInLivePod == \A p \in Pods : shim[p] # "off" => kube[p] = "live"
DrainsAfterRegister == \A p \in Pods : drains[p] => shim[p] \in {"connect", "session"}

DrainInv == Types /\ ShimInLivePod /\ DrainsAfterRegister /\ DrainIsFinal

\* Stopping containers keeps the invariant if no entry becomes ready.
LEMMA StopStep ==
  ASSUME DrainInv, NEW S \in SUBSET Pods, NEW how \in {"failed", "gone"}, Stop(S, how),
         entry' \in [Pods -> {"none", "creating", "ready", "draining"}],
         \A p \in Pods : entry'[p] = "ready" => entry[p] = "ready"
  PROVE  DrainInv'
<1>1. Types'
  BY DEF DrainInv, Types, Stop
<1>2. ShimInLivePod'
  BY DEF DrainInv, Types, ShimInLivePod, Stop
<1>3. DrainsAfterRegister'
  BY DEF DrainInv, Types, DrainsAfterRegister, Stop
<1>4. DrainIsFinal'
  BY DEF DrainInv, Types, DrainIsFinal, Stop
<1> QED
  BY <1>1, <1>2, <1>3, <1>4 DEF DrainInv

LEMMA DeleteStep ==
  ASSUME DrainInv, NEW S \in SUBSET Pods, Delete(S),
         entry' \in [Pods -> {"none", "creating", "ready", "draining"}],
         \A p \in Pods : entry'[p] = "ready" => entry[p] = "ready"
  PROVE  DrainInv'
<1>1. PICK ok \in SUBSET S : Stop(ok \cap Existing, "gone")
  BY DEF Delete
<1>2. ok \cap Existing \in SUBSET Pods
  OBVIOUS
<1> QED
  BY <1>1, <1>2, StopStep

\* A step that changes no shim and no pod, and makes no entry ready.
LEMMA EntryStep ==
  ASSUME DrainInv, UNCHANGED <<kube, shimVars>>,
         entry' \in [Pods -> {"none", "creating", "ready", "draining"}],
         \A p \in Pods : entry'[p] = "ready" => entry[p] = "ready"
  PROVE  DrainInv'
BY DEF DrainInv, Types, ShimInLivePod, DrainsAfterRegister, DrainIsFinal, shimVars

LEMMA ControllerStep ==
  ASSUME DrainInv,
         \/ CtlCrash \/ CtlStart \/ Reconcile \/ ReconcileListFails \/ WindowEnds
         \/ \E p \in Pods : ScaleUp(p) \/ CreateDone(p) \/ CreateFails(p)
         \/ Pass
  PROVE  DrainInv'
<1>1. CASE CtlCrash
  BY <1>1 DEF CtlCrash, Forget, DrainInv, Types, ShimInLivePod, DrainsAfterRegister, DrainIsFinal
<1>2. CASE CtlStart \/ ReconcileListFails \/ WindowEnds
  BY <1>2, EntryStep DEF CtlStart, ReconcileListFails, WindowEnds, DrainInv, Types, shimVars
<1>3. CASE Reconcile
  <2>1. Delete({p \in Pods : kube[p] = "failed"})
    BY <1>3 DEF Reconcile
  <2>2. entry' \in [Pods -> {"none", "creating", "ready", "draining"}]
    BY <1>3 DEF Reconcile, DrainInv, Types
  <2>3. \A p \in Pods : entry'[p] = "ready" => entry[p] = "ready"
    BY <1>3 DEF Reconcile, DrainInv, Types
  <2> QED
    BY <2>1, <2>2, <2>3, DeleteStep
<1>4. ASSUME NEW p \in Pods, ScaleUp(p) \/ CreateFails(p) PROVE DrainInv'
  BY <1>4, EntryStep DEF ScaleUp, CreateFails, Forget, DrainInv, Types, shimVars
<1>5. ASSUME NEW p \in Pods, CreateDone(p) PROVE DrainInv'
  BY <1>5 DEF CreateDone, ctlVars, DrainInv, Types, ShimInLivePod, DrainsAfterRegister, DrainIsFinal
<1>6. ASSUME NEW list, NEW late \in SUBSET Pods, NEW drain \in SUBSET Pods, PoolPass(list, late, drain)
      PROVE  DrainInv'
  <2> DEFINE dead == (Failed(list) \cap Tracked) \cup late \cup {p \in MayBeLate : seeded[p]}
  <2>1. dead \in SUBSET Pods
    BY DEF Tracked, MayBeLate, InPhase
  <2>2. Delete(dead)
    BY <1>6 DEF PoolPass
  <2>3. entry' \in [Pods -> {"none", "creating", "ready", "draining"}]
    BY <1>6 DEF PoolPass, DrainInv, Types
  <2>4. \A p \in Pods : entry'[p] = "ready" => entry[p] = "ready"
    BY <1>6 DEF PoolPass, DrainInv, Types
  <2> HIDE DEF dead
  <2> QED
    BY <2>1, <2>2, <2>3, <2>4, DeleteStep
<1>7. ASSUME NEW old \in SUBSET Pods, Drift(old) PROVE DrainInv'
  <2>1. entry' \in [Pods -> {"none", "creating", "ready", "draining"}]
    BY <1>7 DEF Drift, Forget, DrainInv, Types
  <2>2. \A p \in Pods : entry'[p] = "ready" => entry[p] = "ready"
    BY <1>7 DEF Drift, Forget, DrainInv, Types
  <2>3. CASE window
    BY <1>7, <2>1, <2>2, <2>3, EntryStep DEF Drift
  <2>4. CASE ~window
    <3>1. Delete((listed \ known) \cap Pods)
      BY <1>7, <2>4 DEF Drift, Delete, Existing
    <3> QED
      BY <3>1, <2>1, <2>2, DeleteStep
  <2> QED
    BY <2>3, <2>4
<1>8. MayBeLate \cup InPhase("draining") \in SUBSET Pods /\ MayDrain \in SUBSET Pods /\ Vanished \in SUBSET Pods
  BY DEF MayBeLate, InPhase, MayDrain, Vanished, Tracked
<1>9. CASE Pass
  BY <1>6, <1>7, <1>8, <1>9 DEF Pass
<1> QED
  BY <1>1, <1>2, <1>3, <1>4, <1>5, <1>9

LEMMA SessionStep ==
  ASSUME DrainInv, NEW p \in Pods, Session(p) \/ PodCrash(p)
  PROVE  DrainInv'
<1> USE DEF DrainInv, Types, ShimInLivePod, DrainsAfterRegister, DrainIsFinal
<1>1. CASE Register(p)
  BY <1>1 DEF Register, Ready
<1>2. CASE RegisterFails(p)
  BY <1>2 DEF RegisterFails, TryAgain, ctlVars
<1>3. CASE RegisterUnanswered(p)
  BY <1>3 DEF RegisterUnanswered, Ready, TryAgain
<1>4. CASE Connect(p) \/ ConnectFails(p) \/ StreamBreaks(p)
  BY <1>4 DEF Connect, ConnectFails, StreamBreaks, ctlVars
<1>5. CASE SelfTerminate(p) \/ PodCrash(p)
  <2>1. Stop({p}, "failed") /\ entry' = entry
    BY <1>5 DEF SelfTerminate, PodCrash, ctlVars
  <2> QED
    BY <2>1, StopStep
<1>6. CASE DrainHeartbeat(p)
  <2>1. CASE /\ drains' = [drains EXCEPT ![p] = TRUE]
             /\ UNCHANGED <<entry, seeded, kube, shim, tries, failing>>
    BY <1>6, <2>1 DEF DrainHeartbeat
  <2>2. CASE Forget({p}) /\ Delete({p})
    <3>1. entry' \in [Pods -> {"none", "creating", "ready", "draining"}]
      BY <2>2 DEF Forget
    <3>2. \A q \in Pods : entry'[q] = "ready" => entry[q] = "ready"
      BY <2>2 DEF Forget
    <3> QED
      BY <2>2, <3>1, <3>2, DeleteStep
  <2> QED
    BY <1>6, <2>1, <2>2 DEF DrainHeartbeat
<1> QED
  BY <1>1, <1>2, <1>3, <1>4, <1>5, <1>6 DEF Session

(* A shim that has been told to drain is never counted as ready, whatever the *)
(* controller forgets in a crash: Register happens once per shim, before its  *)
(* first heartbeat.                                                           *)
THEOREM DrainIsFinalHolds == LifeSpec => []DrainIsFinal
<1>1. LifeInit => DrainInv
  BY DEF LifeInit, DrainInv, Types, ShimInLivePod, DrainsAfterRegister, DrainIsFinal
<1>2. DrainInv /\ [LifeNext]_lifeVars => DrainInv'
  <2> SUFFICES ASSUME DrainInv, [LifeNext]_lifeVars PROVE DrainInv'
    OBVIOUS
  <2>1. CASE LifeNext
    BY <2>1, ControllerStep, SessionStep DEF LifeNext
  <2>2. CASE UNCHANGED lifeVars
    BY <2>2 DEF lifeVars, ctlVars, shimVars, DrainInv, Types, ShimInLivePod, DrainsAfterRegister, DrainIsFinal
  <2> QED
    BY <2>1, <2>2
<1>3. DrainInv => DrainIsFinal
  BY DEF DrainInv
<1> QED
  BY <1>1, <1>2, <1>3, PTL DEF LifeSpec
=============================================================================
