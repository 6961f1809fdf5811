------------------------------ MODULE AccessLog -----------------------------
(***************************************************************************)
(* The access records of static responses (pkg/router/log.go): logStatic   *)
(* appends to a bounded buffer that drops its oldest event, and a          *)
(* goroutine ships the buffer on one long-lived stream.  The stream        *)
(* outlives a broken connection until a Send fails on it.  In pod-log mode *)
(* an event is written at once.                                            *)
(***************************************************************************)
EXTENDS LogService, FiniteSets

CONSTANTS
  MaxAccess,       \* the static responses of a behaviour
  AccessBuffer,    \* the capacity of the buffer
  AccessBatch,     \* the events that wake the goroutine
  AccessEnv        \* what may happen: "dial", "break", "sink", "close"

ASSUME AccessAssumption == MaxAccess \in Nat /\ AccessBuffer \in Nat \ {0}

VARIABLES
  viaHub,     \* whether a LogClient is configured
  answered,   \* static responses so far; the i-th has event number i
  buf,
  discarded,  \* events dropped from a full buffer (the count is reported nowhere)
  wake,       \* the wake channel is full
  flusher,    \* the goroutine: at, and the batch it holds
  stream,     \* "none", "open" or "broken"
  sent,       \* batches sent and not yet read by the hub
  records,    \* what the sink or the pod log has received
  closing,
  gone        \* history: events of batches that were lost
accessVars == <<viaHub, answered, buf, discarded, wake, flusher, stream, sent, records,
                closing, gone>>

Flat(batches) ==
  LET join[k \in 0..Len(batches)] == IF k = 0 THEN <<>> ELSE join[k - 1] \o batches[k]
  IN join[Len(batches)]
Elements(events) == {events[i] : i \in DOMAIN events}

AccessInit ==
  /\ viaHub \in BOOLEAN /\ answered = 0 /\ buf = <<>> /\ discarded = {} /\ wake = FALSE
  /\ flusher = [at |-> "select", batch |-> <<>>]
  /\ stream = "none" /\ sent = <<>> /\ records = <<>> /\ closing = FALSE /\ gone = {}

\* Mutant of LogStatic: a full buffer refuses the new event.
LogStaticRefuses ==
  LET full == Len(buf) >= AccessBuffer
  IN  /\ answered < MaxAccess
      /\ answered' = answered + 1
      /\ \/ ~viaHub /\ records' = Append(records, answered') /\ UNCHANGED <<buf, discarded, wake>>
         \/ /\ viaHub
            /\ buf' = IF full THEN buf ELSE Append(buf, answered')
            /\ discarded' = IF full THEN discarded \cup {answered'} ELSE discarded
            /\ wake' = (wake \/ Len(buf') >= AccessBatch)
            /\ UNCHANGED records
      /\ UNCHANGED <<viaHub, flusher, stream, sent, closing, gone>>

(* logStatic and emit.                                                     *)
LogStatic ==
  LET full == Len(buf) >= AccessBuffer
      kept == IF full THEN Tail(buf) ELSE buf
  IN  /\ answered < MaxAccess
      /\ answered' = answered + 1
      /\ \/ ~viaHub /\ records' = Append(records, answered') /\ UNCHANGED <<buf, discarded, wake>>
         \/ /\ viaHub
            /\ buf' = Append(kept, answered')
            /\ discarded' = IF full THEN discarded \cup {Head(buf)} ELSE discarded
            /\ wake' = (wake \/ Len(buf') >= AccessBatch)
            /\ UNCHANGED records
      /\ UNCHANGED <<viaHub, flusher, stream, sent, closing, gone>>

\* Mutant of Take: no ticker.
TakeWoken(why) ==
  /\ viaHub /\ flusher.at = "select"
  /\ why # "tick"
  /\ why = "wake" => wake
  /\ why = "stop" => closing
  /\ wake' = (wake /\ why # "wake")
  /\ flusher' = [at |-> IF buf # <<>> THEN (IF why = "stop" THEN "last" ELSE "ship")
                        ELSE (IF why = "stop" THEN "finish" ELSE "select"),
                 batch |-> buf]
  /\ buf' = <<>>
  /\ UNCHANGED <<viaHub, answered, discarded, stream, sent, records, closing, gone>>

(* run, then flush: take the buffer.  A tick, the wake channel, or stop.   *)
Take(why) ==
  /\ viaHub /\ flusher.at = "select"
  /\ why = "tick" => buf # <<>>
  /\ why = "wake" => wake
  /\ why = "stop" => closing
  /\ wake' = (wake /\ why # "wake")
  /\ flusher' = [at |-> IF buf # <<>> THEN (IF why = "stop" THEN "last" ELSE "ship")
                        ELSE (IF why = "stop" THEN "finish" ELSE "select"),
                 batch |-> buf]
  /\ buf' = <<>>
  /\ UNCHANGED <<viaHub, answered, discarded, stream, sent, records, closing, gone>>

Shipped == flusher' = [at |-> IF flusher.at = "last" THEN "finish" ELSE "select", batch |-> <<>>]

(* flush: ensureStream, then Send; whatever fails takes the batch along.   *)
ShipBatch ==
  /\ flusher.at \in {"ship", "last"}
  /\ Shipped
  /\ \/ /\ stream \in {"none", "open"}
        /\ stream' = "open" /\ sent' = Append(sent, flusher.batch) /\ UNCHANGED gone
     \/ /\ stream = "none" /\ "dial" \in AccessEnv
        /\ gone' = gone \cup Elements(flusher.batch) /\ UNCHANGED <<stream, sent>>
     \/ /\ stream = "broken"
        /\ stream' = "none" /\ gone' = gone \cup Elements(flusher.batch) /\ UNCHANGED sent
  /\ UNCHANGED <<viaHub, answered, buf, discarded, wake, records, closing>>

(* close, after the goroutine is done: resetStream cancels the stream and  *)
(* with it what the hub has not read.                                      *)
ResetStream ==
  /\ flusher.at = "finish"
  /\ flusher' = [flusher EXCEPT !.at = "stopped"]
  /\ stream' = "none" /\ sent' = <<>>
  /\ gone' = gone \cup Elements(Flat(sent))
  /\ UNCHANGED <<viaHub, answered, buf, discarded, wake, records, closing>>

CloseLogger ==
  /\ "close" \in AccessEnv /\ viaHub /\ ~closing
  /\ closing' = TRUE
  /\ UNCHANGED <<viaHub, answered, buf, discarded, wake, flusher, stream, sent, records, gone>>

(* Ingest at the hub; the sink may fail part of the way.                   *)
IngestAccess ==
  LET batch == Head(sent) IN
  /\ sent # <<>>
  /\ sent' = Tail(sent)
  /\ \E n \in 0..Len(batch) :
       /\ n < Len(batch) => "sink" \in AccessEnv
       /\ records' = records \o Written(batch, n)
       /\ gone' = gone \cup Elements(SubSeq(batch, n + 1, Len(batch)))
  /\ UNCHANGED <<viaHub, answered, buf, discarded, wake, flusher, stream, closing>>

ConnectionBreaks ==
  /\ "break" \in AccessEnv /\ stream = "open"
  /\ stream' = "broken" /\ sent' = <<>>
  /\ gone' = gone \cup Elements(Flat(sent))
  /\ UNCHANGED <<viaHub, answered, buf, discarded, wake, flusher, records, closing>>

Flushing == (\E why \in {"tick", "wake", "stop"} : Take(why)) \/ ShipBatch \/ ResetStream
AccessNext == LogStatic \/ Flushing \/ CloseLogger \/ IngestAccess \/ ConnectionBreaks

AccessSpec == AccessInit /\ [][AccessNext]_accessVars

-----------------------------------------------------------------------------
AccessTypeOK ==
  /\ buf \in Seq(1..MaxAccess) /\ Len(buf) <= AccessBuffer
  /\ discarded \subseteq 1..MaxAccess /\ gone \subseteq 1..MaxAccess
  /\ flusher.at \in {"select", "ship", "last", "finish", "stopped"}
  /\ flusher.batch \in Seq(1..MaxAccess)
  /\ stream \in {"none", "open", "broken"} /\ sent \in Seq(Seq(1..MaxAccess))
  /\ records \in Seq(1..MaxAccess)
  /\ viaHub \in BOOLEAN /\ wake \in BOOLEAN /\ closing \in BOOLEAN

(* Every access record is in exactly one place: recorded, on its way,      *)
(* dropped from a full buffer or lost with a stream; and the ones that are *)
(* recorded or on their way are in the order of the responses, so that     *)
(* none is counted twice.  What a full buffer drops is older than all that *)
(* it keeps.                                                               *)
AccessAccounted ==
  LET way == records \o Flat(sent) \o flusher.batch \o buf IN
  /\ \A i \in 1..(Len(way) - 1) : way[i] < way[i + 1]
  /\ 1..answered = Elements(way) \cup discarded \cup gone
  /\ Elements(way) \cap (discarded \cup gone) = {} /\ discarded \cap gone = {}
  /\ \A d \in discarded : \A i \in DOMAIN buf : d < buf[i]

(* The goroutine runs and the tick comes round.                            *)
AccessFairness == WF_accessVars(Flushing)

(* An event does not stay in the buffer while the logger is open.          *)
BufferDrains ==
  \A e \in 1..MaxAccess : e \in Elements(buf) ~> e \notin Elements(buf) \/ closing
=============================================================================
