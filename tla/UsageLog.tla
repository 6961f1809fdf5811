------------------------------ MODULE UsageLog ------------------------------
(***************************************************************************)
(* The usage record of a proxied request (pkg/shim): the handler registers *)
(* the request with the correlator, forwards it, waits a moment for the    *)
(* trace that the tail worker posts, and emits one event; the emitter      *)
(* batches events and ships each batch to the hub on a stream of its own,  *)
(* or writes them to the pod log.  A step ends where the code releases a   *)
(* lock, blocks, or calls the hub.                                         *)
(*                                                                         *)
(* Time is left out: the wait of a handler, an entry's time to live and    *)
(* the flush tick may each end at any moment.                              *)
(***************************************************************************)
EXTENDS LogService, FiniteSets

CONSTANTS
  Proxied,       \* the requests, known by their request id
  LogsOf,        \* the console logs in the trace of a request
  MaxPosts,      \* how often the tail worker may post the trace of each request
  ChanSize,      \* the capacity of the emitter's channel
  BatchSize,     \* the events that force a flush
  NoEntry, NoBatch,
  UsageEnv       \* what may happen: "dial", "send", "break", "sink", "stop"

VARIABLES
  toHub,     \* whether a LogClient is configured (else: pod log)
  rq,        \* the handlers
  cor,       \* the correlator's map: request id -> its entry
  posts,     \* traces posted so far
  ch,        \* the emitter's channel
  dropped,   \* events dropped and not yet reported
  loop,      \* the emitter's goroutine: at, and the pending events
  wire,      \* the batch on the stream: its events and how far it got
  sink,      \* what the hub's sink (or the pod log) has received
  alive      \* the context of Run is not cancelled
\* History: what became of the events that did not arrive.
VARIABLES
  refused,   \* requests whose event found the channel full
  lost,      \* events of batches that failed, in the order they failed
  seen,      \* requests whose trace was posted before their wait was over
  swept      \* requests whose entry the janitor removed
usageVars == <<toHub, rq, cor, posts, ch, dropped, loop, wire, sink, alive,
               refused, lost, seen, swept>>

(* Events (what a sink holds of the logs may end in the marker), entries   *)
(* of the correlator, and batches on a stream.                             *)
UsageEvents == [id : Proxied, traced : BOOLEAN, logs : Seq(Nat \cup {Marker}),
                drops : Nat, n : 1..Cardinality(Proxied)]
CorEntries  == [trace : BOOLEAN, old : BOOLEAN]
Batches     == [events : Seq(UsageEvents), at : {"sent", "acked", "broken"}]

(* There are finitely many requests, and a batch is never empty.           *)
ASSUME UsageAssumption ==
  /\ IsFiniteSet(Proxied) /\ LogsOf \in [Proxied -> Seq(Nat)]
  /\ ChanSize \in Nat /\ BatchSize \in Nat \ {0}
  /\ NoEntry \notin CorEntries /\ NoBatch \notin Batches

Ids(events) == {events[i].id : i \in DOMAIN events}
RqAt(r, where) == rq[r].at = where
RqMove(r, where) == rq' = [rq EXCEPT ![r].at = where]

FreshEntry == [trace |-> FALSE, old |-> FALSE]
(* n, the place of the event among all events, is history.                 *)
Event(r) == [id |-> r, traced |-> rq[r].traced,
             logs |-> IF rq[r].traced THEN LogsOf[r] ELSE <<>>, drops |-> 0,
             n |-> Cardinality({q \in Proxied : RqAt(q, "done")}) + 1]

(* seized is the entry a waiting handler holds once the map has lost it.   *)
UsageInit ==
  /\ toHub \in BOOLEAN
  /\ rq = [r \in Proxied |-> [at |-> "new", traced |-> FALSE, seized |-> NoEntry]]
  /\ cor = [r \in Proxied |-> NoEntry]
  /\ posts = [r \in Proxied |-> 0]
  /\ ch = <<>> /\ dropped = 0
  /\ loop = [at |-> "select", pending |-> <<>>]
  /\ wire = NoBatch /\ sink = <<>> /\ alive = TRUE
  /\ refused = {} /\ lost = <<>> /\ seen = {} /\ swept = {}

-----------------------------------------------------------------------------
(* The handler.                                                            *)

emitterVars == <<toHub, ch, dropped, loop, wire, sink, alive, refused, lost>>

(* serveProxy, once the deployment is loaded: expect, then forward.        *)
ServeProxy(r) ==
  /\ RqAt(r, "new") /\ alive
  /\ cor' = [cor EXCEPT ![r] = IF @ = NoEntry THEN FreshEntry ELSE @]
  /\ RqMove(r, "forward")
  /\ UNCHANGED <<posts, seen, swept, emitterVars>>

(* The worker answered, or the transport failed: recordUsage.              *)
Forwarded(r) ==
  /\ RqAt(r, "forward")
  /\ RqMove(r, IF cor[r] = NoEntry THEN "emit" ELSE "wait")
  /\ UNCHANGED <<cor, posts, seen, swept, emitterVars>>

(* wait: the trace came, the wait timed out, or the client went away.      *)
WaitOver(r) ==
  LET held == IF rq[r].seized = NoEntry THEN cor[r] ELSE rq[r].seized IN
  /\ RqAt(r, "wait")
  /\ rq' = [rq EXCEPT ![r].at = "emit", ![r].traced = held.trace, ![r].seized = NoEntry]
  /\ cor' = [cor EXCEPT ![r] = NoEntry]
  /\ UNCHANGED <<posts, seen, swept, emitterVars>>

(* emit: the pod log, the channel, or the drop counter.                    *)
EmitUsage(r) ==
  /\ RqAt(r, "emit")
  /\ RqMove(r, "done")
  /\ \/ ~toHub /\ sink' = Append(sink, Event(r)) /\ UNCHANGED <<ch, dropped, refused>>
     \/ /\ toHub /\ Len(ch) < ChanSize
        /\ ch' = Append(ch, Event(r)) /\ UNCHANGED <<dropped, refused, sink>>
     \/ /\ toHub /\ Len(ch) >= ChanSize
        /\ dropped' = dropped + 1 /\ refused' = refused \cup {r} /\ UNCHANGED <<ch, sink>>
  /\ UNCHANGED <<toHub, cor, posts, loop, wire, alive, lost, seen, swept>>

-----------------------------------------------------------------------------
(* The correlator.                                                         *)

\* Mutant of Deliver: a trace that is early is not kept.
DeliverToWaiter(r) ==
  /\ rq[r].at # "new" /\ posts[r] < MaxPosts[r]
  /\ posts' = [posts EXCEPT ![r] = @ + 1]
  /\ cor' = IF RqAt(r, "wait") /\ cor[r] # NoEntry THEN [cor EXCEPT ![r].trace = TRUE] ELSE cor
  /\ seen' = IF rq[r].at \in {"forward", "wait"} THEN seen \cup {r} ELSE seen
  /\ UNCHANGED <<rq, swept, emitterVars>>

(* serveCollector: the first trace of a request wakes its waiter; one that *)
(* nobody expects gets an entry of its own.                                *)
Deliver(r) ==
  /\ rq[r].at # "new" /\ posts[r] < MaxPosts[r]
  /\ posts' = [posts EXCEPT ![r] = @ + 1]
  /\ cor' = [cor EXCEPT ![r] = IF @ = NoEntry THEN [FreshEntry EXCEPT !.trace = TRUE]
                                              ELSE [@ EXCEPT !.trace = TRUE]]
  /\ seen' = IF rq[r].at \in {"forward", "wait"} THEN seen \cup {r} ELSE seen
  /\ UNCHANGED <<rq, swept, emitterVars>>

(* An entry outlives corTTL.                                               *)
Outlive(r) ==
  /\ cor[r] # NoEntry /\ ~cor[r].old
  /\ cor' = [cor EXCEPT ![r].old = TRUE]
  /\ UNCHANGED <<rq, posts, seen, swept, emitterVars>>

\* Mutant of Janitor: entries with a trace stay.
JanitorUntraced ==
  LET old == {r \in Proxied : cor[r] # NoEntry /\ cor[r].old /\ ~cor[r].trace} IN
  /\ alive /\ old # {}
  /\ cor' = [r \in Proxied |-> IF r \in old THEN NoEntry ELSE cor[r]]
  /\ rq' = [r \in Proxied |->
              IF r \in old /\ RqAt(r, "wait") /\ rq[r].seized = NoEntry
                THEN [rq[r] EXCEPT !.seized = cor[r]] ELSE rq[r]]
  /\ swept' = swept \cup old
  /\ UNCHANGED <<posts, seen, emitterVars>>

(* janitor: a handler that waits on a swept entry still holds it.          *)
Janitor ==
  LET old == {r \in Proxied : cor[r] # NoEntry /\ cor[r].old} IN
  /\ alive /\ old # {}
  /\ cor' = [r \in Proxied |-> IF r \in old THEN NoEntry ELSE cor[r]]
  /\ rq' = [r \in Proxied |->
              IF r \in old /\ RqAt(r, "wait") /\ rq[r].seized = NoEntry
                THEN [rq[r] EXCEPT !.seized = cor[r]] ELSE rq[r]]
  /\ swept' = swept \cup old
  /\ UNCHANGED <<posts, seen, emitterVars>>

-----------------------------------------------------------------------------
(* The emitter's goroutine.                                                *)

requestVars == <<toHub, rq, cor, posts, refused, seen, swept>>

\* Mutant of TakeLine: the newest event goes first.
TakeLineInFront ==
  LET pending == <<Head(ch)>> \o loop.pending IN
  /\ toHub /\ loop.at = "select" /\ ch # <<>>
  /\ ch' = Tail(ch)
  /\ loop' = [at |-> IF Len(pending) >= BatchSize THEN "flush" ELSE "select",
              pending |-> pending]
  /\ UNCHANGED <<dropped, wire, sink, alive, lost, requestVars>>

TakeLine ==
  LET pending == Append(loop.pending, Head(ch)) IN
  /\ toHub /\ loop.at = "select" /\ ch # <<>>
  /\ ch' = Tail(ch)
  /\ loop' = [at |-> IF Len(pending) >= BatchSize THEN "flush" ELSE "select",
              pending |-> pending]
  /\ UNCHANGED <<dropped, wire, sink, alive, lost, requestVars>>

\* Mutant of FlushTick: only a full batch is flushed.
FlushFullOnly ==
  /\ loop.at = "select" /\ Len(loop.pending) >= BatchSize
  /\ loop' = [loop EXCEPT !.at = "flush"]
  /\ UNCHANGED <<ch, dropped, wire, sink, alive, lost, requestVars>>

FlushTick ==
  /\ loop.at = "select" /\ loop.pending # <<>>
  /\ loop' = [loop EXCEPT !.at = "flush"]
  /\ UNCHANGED <<ch, dropped, wire, sink, alive, lost, requestVars>>

Flushed == [at |-> "select", pending |-> <<>>]

(* flush: no stream.  It cannot be opened with a cancelled context.        *)
IngestFails ==
  /\ loop.at = "flush" /\ ("dial" \in UsageEnv \/ ~alive)
  /\ loop' = Flushed
  /\ lost' = lost \o loop.pending
  /\ UNCHANGED <<ch, dropped, wire, sink, alive, requestVars>>

\* Mutant of SendBatch: the drop counter is read, not swapped.
SendBatchLoads ==
  LET batch == [loop.pending EXCEPT ![1].drops = dropped] IN
  /\ loop.at = "flush" /\ alive
  /\ loop' = [at |-> "ack", pending |-> batch]
  /\ wire' = [events |-> batch, at |-> "sent"]
  /\ UNCHANGED <<ch, dropped, sink, alive, lost, requestVars>>

(* flush: the first event carries the drops since the last flush; a batch  *)
(* that cannot be sent takes them with it.                                 *)
SendBatch ==
  LET batch == [loop.pending EXCEPT ![1].drops = dropped] IN
  /\ loop.at = "flush" /\ alive
  /\ dropped' = 0
  /\ \/ /\ loop' = [at |-> "ack", pending |-> batch]
        /\ wire' = [events |-> batch, at |-> "sent"]
        /\ UNCHANGED lost
     \/ /\ "send" \in UsageEnv
        /\ loop' = Flushed
        /\ lost' = lost \o batch
        /\ UNCHANGED wire
  /\ UNCHANGED <<ch, sink, alive, requestVars>>

\* Mutant of RecvAck: a batch without an answer is sent again.
RecvAckRetries ==
  /\ loop.at = "ack" /\ (wire.at \in {"acked", "broken"} \/ ~alive)
  /\ loop' = IF wire.at = "acked" THEN Flushed ELSE [loop EXCEPT !.at = "flush"]
  /\ wire' = IF wire.at = "sent" THEN wire ELSE NoBatch
  /\ UNCHANGED <<ch, dropped, sink, alive, lost, requestVars>>

(* flush: whatever Recv returns, the batch is over.                        *)
RecvAck ==
  /\ loop.at = "ack" /\ (wire.at \in {"acked", "broken"} \/ ~alive)
  /\ loop' = Flushed
  /\ wire' = IF wire.at = "sent" THEN wire ELSE NoBatch
  /\ UNCHANGED <<ch, dropped, sink, alive, lost, requestVars>>

(* run: the context is done.  The pending events are flushed with that     *)
(* context, which fails, and the channel is left as it is.                 *)
EmitterStops ==
  /\ loop.at = "select" /\ ~alive /\ toHub
  /\ loop' = [at |-> "stopped", pending |-> <<>>]
  /\ lost' = lost \o loop.pending
  /\ UNCHANGED <<ch, dropped, wire, sink, alive, requestVars>>

-----------------------------------------------------------------------------
(* The hub and the process.                                                *)

(* Ingest: the batch reaches the sink, or as much of it as the sink takes. *)
Ingest ==
  LET batch == wire.events IN
  /\ wire # NoBatch /\ wire.at = "sent"
  /\ \E n \in 0..Len(batch) :
       /\ n < Len(batch) => "sink" \in UsageEnv
       /\ sink' = sink \o Written(processBatch(batch), n)
       /\ lost' = lost \o SubSeq(batch, n + 1, Len(batch))
  /\ wire' = [wire EXCEPT !.at = "acked"]
  /\ UNCHANGED <<ch, dropped, loop, alive, requestVars>>

(* The stream breaks before the hub has read the batch.                    *)
IngestBreaks ==
  /\ "break" \in UsageEnv
  /\ wire # NoBatch /\ wire.at = "sent"
  /\ lost' = lost \o wire.events
  /\ wire' = [wire EXCEPT !.at = "broken"]
  /\ UNCHANGED <<ch, dropped, loop, sink, alive, requestVars>>

StopShim ==
  /\ "stop" \in UsageEnv /\ alive
  /\ alive' = FALSE
  /\ UNCHANGED <<toHub, rq, cor, posts, ch, dropped, loop, wire, sink, refused, lost, seen, swept>>

Proxying(r) == ServeProxy(r) \/ Forwarded(r) \/ WaitOver(r) \/ EmitUsage(r)
Emitting == TakeLine \/ FlushTick \/ IngestFails \/ SendBatch \/ RecvAck \/ EmitterStops
UsageNext ==
  \/ \E r \in Proxied : Proxying(r) \/ Deliver(r) \/ Outlive(r)
  \/ Janitor \/ Emitting \/ Ingest \/ IngestBreaks \/ StopShim

UsageSpec == UsageInit /\ [][UsageNext]_usageVars

-----------------------------------------------------------------------------
UsageTypeOK ==
  /\ rq \in [Proxied -> [at : {"new", "forward", "wait", "emit", "done"}, traced : BOOLEAN,
                         seized : {NoEntry} \cup CorEntries]]
  /\ cor \in [Proxied -> {NoEntry} \cup CorEntries]
  /\ ch \in Seq(UsageEvents) /\ Len(ch) <= ChanSize /\ dropped \in Nat
  /\ loop \in [at : {"select", "flush", "ack", "stopped"}, pending : Seq(UsageEvents)]
  /\ Len(loop.pending) <= BatchSize /\ wire \in {NoBatch} \cup Batches
  /\ sink \in Seq(UsageEvents) /\ lost \in Seq(UsageEvents)
  /\ refused \subseteq Proxied /\ toHub \in BOOLEAN /\ alive \in BOOLEAN

OnWire == IF wire = NoBatch \/ wire.at # "sent" THEN <<>> ELSE wire.events
Pending == IF loop.at = "ack" THEN <<>> ELSE loop.pending

(* No event is billed twice and none disappears without a reason the code  *)
(* knows: the event of a finished request is in exactly one place, the     *)
(* channel, the batch being built, the stream, the sink, a failed batch or *)
(* the drop count, and the sink has it once.  Nothing is ever sent again,  *)
(* so delivery is at most once.                                            *)
EventsAccounted ==
  /\ \A i, j \in DOMAIN sink : sink[i].id = sink[j].id => i = j
  /\ \A r \in Proxied : RqAt(r, "done") =>
       Cardinality({k \in 1..6 :
         r \in <<Ids(ch), Ids(Pending), Ids(OnWire), Ids(sink), Ids(lost), refused>>[k]}) = 1

(* The drops that events report.                                           *)
Told(events) ==
  LET sum[k \in 0..Len(events)] == IF k = 0 THEN 0 ELSE sum[k - 1] + events[k].drops
  IN sum[Len(events)]

(* A drop is reported at most once: the drops told to the hub, those that  *)
(* went down with a batch and those still counted are the events that      *)
(* found the channel full, however emit and flush interleave.              *)
DropCountConserved ==
  Told(sink) + Told(OnWire) + Told(lost) + dropped = Cardinality(refused)

(* The sink receives events in the order the handlers emitted them, across *)
(* batches and failed streams.                                             *)
SinkInOrder == \A i, j \in DOMAIN sink : i < j => sink[i].n < sink[j].n

(* A trace that was posted before its handler stopped waiting is in the    *)
(* event, unless the janitor removed the entry, which takes a request      *)
(* longer than corTTL.                                                     *)
TraceNotMissed ==
  \A r \in seen \ swept : rq[r].at \in {"emit", "done"} => rq[r].traced

(* What the hub's sink has of a request's logs is a prefix of them within  *)
(* the caps, followed by the marker if and only if something was cut.      *)
LogsCutVisibly ==
  toHub => \A i \in DOMAIN sink :
    LET got == sink[i].logs
        all == IF sink[i].traced THEN LogsOf[sink[i].id] ELSE <<>>
        cut == got # <<>> /\ got[Len(got)] = Marker
        kept == IF cut THEN SubSeq(got, 1, Len(got) - 1) ELSE got
    IN  /\ Len(kept) <= MaxLogs /\ Bytes(kept) <= MaxLogBytes
        /\ kept = SubSeq(all, 1, Len(kept))
        /\ cut <=> Len(kept) < Len(all)

(* The usage of every request is told once, in order, with its trace and   *)
(* logs, or its loss is accounted for.                                     *)
UsageSound ==
  /\ EventsAccounted /\ DropCountConserved
  /\ SinkInOrder /\ TraceNotMissed /\ LogsCutVisibly

(* Handlers and the emitter run, a wait times out, entries age, the tick   *)
(* and the janitor come round, and the hub answers or the stream breaks.   *)
UsageFairness ==
  /\ \A r \in Proxied :
       /\ WF_usageVars(Forwarded(r) \/ WaitOver(r) \/ EmitUsage(r))
       /\ WF_usageVars(Outlive(r))
  /\ WF_usageVars(Janitor) /\ WF_usageVars(Emitting)
  /\ WF_usageVars(Ingest)

(* While the process lives, an emitted event does not stay in a buffer: it *)
(* reaches the sink, or it is lost or dropped for a reason.                *)
EventsSettle ==
  \A r \in Proxied :
    RqAt(r, "done") ~> r \in Ids(sink) \cup Ids(lost) \cup refused \/ ~alive

(* The correlator forgets every request, also one whose trace arrives      *)
(* after its handler has left.                                             *)
EntriesForgotten == \A r \in Proxied : cor[r] # NoEntry ~> cor[r] = NoEntry \/ ~alive
=============================================================================
