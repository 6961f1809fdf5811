----------------------------- MODULE LogService -----------------------------
(***************************************************************************)
(* What the hub does with a batch of usage events (pkg/hub/logservice.go): *)
(* cap the logs of every event and hand the batch to the sink, which       *)
(* writes one event after the other and stops at the first write that      *)
(* fails (pkg/hub/stdoutsink).  The hub acknowledges the batch in any case.*)
(* A log message is its size; Marker is the warning that logs were cut.    *)
(* The producers only send events they encoded themselves, so every event  *)
(* decodes.                                                                *)
(***************************************************************************)
EXTENDS Integers, Sequences

CONSTANTS
  MaxLogs,       \* the log entries an event keeps
  MaxLogBytes,   \* the message bytes an event keeps
  Marker

(* A marker is not a message.                                              *)
ASSUME CapsAssumption == MaxLogs \in Nat /\ MaxLogBytes \in Nat /\ Marker \notin Nat

Bytes(logs) ==
  LET sum[k \in 0..Len(logs)] == IF k = 0 THEN 0 ELSE sum[k - 1] + logs[k]
  IN sum[Len(logs)]

\* Mutant of capLogs: nothing says that logs were cut.
capLogsSilently(logs) ==
  LET fits == {n \in 0..Len(logs) : n <= MaxLogs /\ Bytes(SubSeq(logs, 1, n)) <= MaxLogBytes}
  IN SubSeq(logs, 1, CHOOSE n \in fits : \A m \in fits : m <= n)

(* The longest prefix within both caps, and the marker if it is not all.   *)
capLogs(logs) ==
  LET fits == {n \in 0..Len(logs) : n <= MaxLogs /\ Bytes(SubSeq(logs, 1, n)) <= MaxLogBytes}
      kept == CHOOSE n \in fits : \A m \in fits : m <= n
  IN SubSeq(logs, 1, kept) \o (IF kept < Len(logs) THEN <<Marker>> ELSE <<>>)

processBatch(batch) == [i \in DOMAIN batch |-> [batch[i] EXCEPT !.logs = capLogs(@)]]

(* What a sink that fails after n events has written.                      *)
Written(batch, n) == SubSeq(batch, 1, n)
=============================================================================
