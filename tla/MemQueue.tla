------------------------------ MODULE MemQueue ------------------------------
(***************************************************************************)
(* The in-memory queue of one tenant (pkg/queue/inmemory): a slice of      *)
(* entries guarded by a mutex, a condition variable for Dequeue, one       *)
(* watcher goroutine per Enqueue call and one waker goroutine per Dequeue  *)
(* call, each waiting for its caller's context.                            *)
(*                                                                         *)
(* One action is one critical section of tq.mu, or one step of a goroutine *)
(* outside it.  An item of Items is one Enqueue call with its context; a   *)
(* member of Consumers is a thread that calls Dequeue again and again with *)
(* the same context, as the dispatch goroutines do.                        *)
(***************************************************************************)
EXTENDS Naturals, Sequences, FiniteSets, SequencesExt

CONSTANTS Items, Consumers

ASSUME ConsumersAssumption == IsFiniteSet(Consumers)

VARIABLES
  items,    \* tq.items, by the item of each entry
  state,    \* item -> entry.state, "new" before the entry exists
  closed,   \* item -> how often entry.settled was closed (a second close panics)
  enq,      \* item -> where its Enqueue call is
  ctx,      \* item -> "live" or "done": the context of Enqueue
  watcher,  \* item -> its watcher goroutine
  cons,     \* consumer -> where its Dequeue call is
  cctx,     \* consumer -> "live" or "done": the context of Dequeue
  wakers    \* consumer -> its waker goroutines: of this call, of earlier calls

entryVars == <<items, state, closed>>
enqVars   == <<enq, ctx, watcher>>
consVars  == <<cons, cctx, wakers>>
vars == <<entryVars, enqVars, consVars>>

Init ==
  /\ items   = <<>>
  /\ state   = [i \in Items |-> "new"]
  /\ closed  = [i \in Items |-> 0]
  /\ enq     = [i \in Items |-> "idle"]
  /\ ctx     = [i \in Items |-> "live"]
  /\ watcher = [i \in Items |-> "none"]
  /\ cons    = [c \in Consumers |-> "idle"]
  /\ cctx    = [c \in Consumers |-> "live"]
  /\ wakers  = [c \in Consumers |-> {}]

-----------------------------------------------------------------------------
(* sync.Cond: Wait puts the caller to sleep, Signal wakes one sleeper if   *)
(* there is one, Broadcast all of them; a woken caller relocks tq.mu.      *)

Asleep == {c \in Consumers : cons[c] = "asleep"}

Signal ==
  IF Asleep = {}
    THEN UNCHANGED cons
    ELSE \E c \in Asleep : cons' = [cons EXCEPT ![c] = "locking"]

\* Mutant of Broadcast: one sleeper is woken instead of all.
BroadcastToOne == Signal

Broadcast == cons' = [c \in Consumers |-> IF c \in Asleep THEN "locking" ELSE cons[c]]

-----------------------------------------------------------------------------
(* Enqueue. *)

\* The caller's context is cancelled, or its deadline passes.
CtxDone(i) ==
  /\ ctx[i] = "live"
  /\ ctx' = [ctx EXCEPT ![i] = "done"]
  /\ UNCHANGED <<entryVars, enq, watcher, consVars>>

\* ctx.Err() on entry: an item whose ctx is done is refused.
EnqueueCheck(i) ==
  /\ enq[i] = "idle"
  /\ enq' = [enq EXCEPT ![i] = IF ctx[i] = "live" THEN "append" ELSE "refused"]
  /\ UNCHANGED <<entryVars, ctx, watcher, consVars>>

\* Append and Signal under tq.mu; then the watcher goroutine is started.
Enqueue(i) ==
  /\ enq[i] = "append"
  /\ enq' = [enq EXCEPT ![i] = "ticket"]
  /\ items' = Append(items, i)
  /\ state' = [state EXCEPT ![i] = "queued"]
  /\ watcher' = [watcher EXCEPT ![i] = "watching"]
  /\ Signal
  /\ UNCHANGED <<closed, ctx, cctx, wakers>>

\* Mutants of Cancel: an entry is cancelled whatever its state; only the front
\* entry is looked at.
CancelAnyState(i) ==
  /\ items' = SelectSeq(items, LAMBDA x : x # i)
  /\ state' = [state EXCEPT ![i] = "cancelled"]
  /\ closed' = [closed EXCEPT ![i] = @ + 1]
CancelFront(i) ==
  IF items = <<>> \/ Head(items) # i
    THEN UNCHANGED entryVars
    ELSE /\ items' = Tail(items)
         /\ state' = [state EXCEPT ![i] = "cancelled"]
         /\ closed' = [closed EXCEPT ![i] = @ + 1]

\* tenantQueue.cancel: remove the entry and settle it, if it is still queued.
Cancel(i) ==
  IF state[i] # "queued"
    THEN UNCHANGED entryVars
    ELSE /\ \E n \in DOMAIN items : items[n] = i /\ items' = RemoveAt(items, n)
         /\ state' = [state EXCEPT ![i] = "cancelled"]
         /\ closed' = [closed EXCEPT ![i] = @ + 1]

\* The watcher: ctx.Done() leads to cancel, entry.settled ends it.
WatcherCancels(i) ==
  /\ watcher[i] = "watching"
  /\ ctx[i] = "done"
  /\ Cancel(i)
  /\ watcher' = [watcher EXCEPT ![i] = "ended"]
  /\ UNCHANGED <<enq, ctx, consVars>>

WatcherEnds(i) ==
  /\ watcher[i] = "watching"
  /\ closed[i] > 0
  /\ watcher' = [watcher EXCEPT ![i] = "ended"]
  /\ UNCHANGED <<entryVars, enq, ctx, consVars>>

\* Ticket.Cancel by the holder of the ticket.
TicketCancel(i) ==
  /\ enq[i] = "ticket"
  /\ Cancel(i)
  /\ enq' = [enq EXCEPT ![i] = "given up"]
  /\ UNCHANGED <<ctx, watcher, consVars>>

-----------------------------------------------------------------------------
(* Dequeue. *)

ConsumerCtxDone(c) ==
  /\ cctx[c] = "live"
  /\ cctx' = [cctx EXCEPT ![c] = "done"]
  /\ UNCHANGED <<entryVars, enqVars, cons, wakers>>

\* Dequeue is called; before it has tq.mu nothing else happens.
DequeueCall(c) ==
  /\ cons[c] = "idle"
  /\ cons' = [cons EXCEPT ![c] = "calling"]
  /\ UNCHANGED <<entryVars, enqVars, cctx, wakers>>

\* The waker goroutines after the call has returned: stop is closed for the
\* current one, if it still runs.
Stopped(c) == IF cons[c] = "calling" \/ wakers[c] # {} THEN {"stopped"} ELSE {}

\* Mutant of DequeueItem: the newest item is taken.
DequeueNewest(c) ==
  /\ cons[c] \in {"calling", "locking"}
  /\ items # <<>>
  /\ items' = Front(items)
  /\ state' = [state EXCEPT ![Last(items)] = "delivered"]
  /\ closed' = [closed EXCEPT ![Last(items)] = @ + 1]
  /\ cons' = [cons EXCEPT ![c] = "idle"]
  /\ wakers' = [wakers EXCEPT ![c] = Stopped(c)]
  /\ UNCHANGED <<enqVars, cctx>>

\* The loop finds an item: it is taken before ctx is looked at.
DequeueItem(c) ==
  /\ cons[c] \in {"calling", "locking"}
  /\ items # <<>>
  /\ items' = Tail(items)
  /\ state' = [state EXCEPT ![Head(items)] = "delivered"]
  /\ closed' = [closed EXCEPT ![Head(items)] = @ + 1]
  /\ cons' = [cons EXCEPT ![c] = "idle"]
  /\ wakers' = [wakers EXCEPT ![c] = Stopped(c)]
  /\ UNCHANGED <<enqVars, cctx>>

\* Mutant of DequeueError: ctx is looked at before the items.
DequeueErrorFirst(c) ==
  /\ cons[c] \in {"calling", "locking"}
  /\ cctx[c] = "done"
  /\ cons' = [cons EXCEPT ![c] = "error"]
  /\ wakers' = [wakers EXCEPT ![c] = Stopped(c)]
  /\ UNCHANGED <<entryVars, enqVars, cctx>>

\* The queue is empty and ctx is done: Dequeue returns its error.
DequeueError(c) ==
  /\ cons[c] \in {"calling", "locking"}
  /\ items = <<>>
  /\ cctx[c] = "done"
  /\ cons' = [cons EXCEPT ![c] = "error"]
  /\ wakers' = [wakers EXCEPT ![c] = Stopped(c)]
  /\ UNCHANGED <<entryVars, enqVars, cctx>>

\* Otherwise cond.Wait.  The waker was started when the call got tq.mu.
DequeueWait(c) ==
  /\ cons[c] \in {"calling", "locking"}
  /\ items = <<>>
  /\ cctx[c] = "live"
  /\ cons' = [cons EXCEPT ![c] = "asleep"]
  /\ wakers' = [wakers EXCEPT ![c] = IF cons[c] = "calling" THEN @ \cup {"current"} ELSE @]
  /\ UNCHANGED <<entryVars, enqVars, cctx>>

Dequeue(c) == DequeueItem(c) \/ DequeueError(c) \/ DequeueWait(c)

\* A waker sees ctx.Done(): lock and Broadcast, then it ends.  A stopped one may
\* do so too, its select finding both channels ready; "stopped" stands for any
\* number of them.
WakerBroadcasts(c, w) ==
  /\ w \in wakers[c]
  /\ cctx[c] = "done"
  /\ Broadcast
  /\ \/ wakers' = [wakers EXCEPT ![c] = @ \ {w}]
     \/ w = "stopped" /\ UNCHANGED wakers
  /\ UNCHANGED <<entryVars, enqVars, cctx>>

WakerStops(c) ==
  /\ "stopped" \in wakers[c]
  /\ wakers' = [wakers EXCEPT ![c] = @ \ {"stopped"}]
  /\ UNCHANGED <<entryVars, enqVars, cons, cctx>>

-----------------------------------------------------------------------------
Next ==
  \/ \E i \in Items : \/ CtxDone(i) \/ EnqueueCheck(i) \/ Enqueue(i)
                      \/ WatcherCancels(i) \/ WatcherEnds(i) \/ TicketCancel(i)
  \/ \E c \in Consumers : \/ ConsumerCtxDone(c) \/ DequeueCall(c) \/ Dequeue(c) \/ WakerStops(c)
                          \/ \E w \in {"current", "stopped"} : WakerBroadcasts(c, w)

Spec == Init /\ [][Next]_vars

(* Goroutines that can run do run: the watchers, the wakers and the callers *)
(* of Dequeue that compete for tq.mu.                                       *)
Fairness ==
  /\ \A i \in Items : WF_vars(WatcherCancels(i))
  /\ \A c \in Consumers : WF_vars(Dequeue(c)) /\ WF_vars(WakerBroadcasts(c, "current"))

FairSpec == Spec /\ Fairness

-----------------------------------------------------------------------------
TypeOK ==
  /\ items \in Seq(Items)
  /\ state \in [Items -> {"new", "queued", "delivered", "cancelled"}]
  /\ closed \in [Items -> Nat]
  /\ enq \in [Items -> {"idle", "refused", "append", "ticket", "given up"}]
  /\ ctx \in [Items -> {"live", "done"}]
  /\ watcher \in [Items -> {"none", "watching", "ended"}]
  /\ cons \in [Consumers -> {"idle", "calling", "asleep", "locking", "error"}]
  /\ cctx \in [Consumers -> {"live", "done"}]
  /\ wakers \in [Consumers -> SUBSET {"current", "stopped"}]

(* "items holds only still-queued entries in arrival order": the slice has *)
(* every queued entry once and no other, and settled is closed once, when  *)
(* the state leaves stateQueued (Dequeue closes it without looking).       *)
EntriesSettleOnce ==
  /\ \A n \in DOMAIN items : state[items[n]] = "queued"
  /\ \A m, n \in DOMAIN items : items[m] = items[n] => m = n
  /\ \A i \in Items : state[i] = "queued" => \E n \in DOMAIN items : items[n] = i
  /\ \A i \in Items : state[i] \in {"delivered", "cancelled"} => closed[i] = 1
  /\ \A i \in Items : state[i] \in {"new", "queued"} => closed[i] = 0
  /\ \A i \in Items : enq[i] \in {"idle", "refused", "append"} <=> state[i] = "new"

(* Delivered-XOR-cancelled, with the structure it rests on (inductive).    *)
QueueInv == TypeOK /\ EntriesSettleOnce

\* The consumers that will take tq.mu without anybody waking them.
Awake == {c \in Consumers : cons[c] \in {"calling", "locking"}}

(* No lost signal: whenever a Dequeue call sleeps, enough others are on    *)
(* their way to tq.mu to take every queued item.  It rests on Dequeue      *)
(* taking an item even when its own context is done: the one Signal of     *)
(* that item may have woken this caller.                                   *)
NoLostSignal == Asleep # {} => Cardinality(Awake) >= Len(items)

(* The queue contract of pkg/queue: see FifoQueue. *)
Fifo == INSTANCE FifoQueue WITH fifo <- items, fate <- state
FifoSpec == Fifo!Spec

(* An item whose context is done leaves the queue (Enqueue's watcher), so  *)
(* the depth the scaler sees is not inflated by requests that gave up.     *)
CancelledItemsLeave == \A i \in Items : ctx[i] = "done" /\ state[i] = "queued" ~> state[i] # "queued"

(* A Dequeue call whose context is done returns: the waker's broadcast     *)
(* cannot slip in between the ctx check and cond.Wait.                     *)
DequeueReturns == \A c \in Consumers : cctx[c] = "done" /\ cons[c] = "asleep" ~> cons[c] \in {"idle", "error"}


(* Whoever gives up leaves the queue: the item and the caller of Dequeue.  *)
QueueLive == CancelledItemsLeave /\ DequeueReturns
=============================================================================
