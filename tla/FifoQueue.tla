----------------------------- MODULE FifoQueue -----------------------------
(***************************************************************************)
(* What the Queue extension point promises for one tenant (pkg/queue):     *)
(* items come out in the order they went in, each at most once, and an     *)
(* item that was cancelled never comes out.                                *)
(***************************************************************************)
EXTENDS Naturals, Sequences, SequencesExt

CONSTANT Items

VARIABLES
  fifo,  \* the items waiting, oldest first
  fate   \* item -> "new", "queued", "delivered" or "cancelled"

vars == <<fifo, fate>>

Init == fifo = <<>> /\ fate = [i \in Items |-> "new"]

Put(i) ==
  /\ fate[i] = "new"
  /\ fifo' = Append(fifo, i)
  /\ fate' = [fate EXCEPT ![i] = "queued"]

Take ==
  /\ fifo # <<>>
  /\ fifo' = Tail(fifo)
  /\ fate' = [fate EXCEPT ![Head(fifo)] = "delivered"]

Drop(n) ==
  /\ fifo' = RemoveAt(fifo, n)
  /\ fate' = [fate EXCEPT ![fifo[n]] = "cancelled"]

Next ==
  \/ \E i \in Items : Put(i)
  \/ Take
  \/ \E n \in DOMAIN fifo : Drop(n)

Spec == Init /\ [][Next]_vars
=============================================================================
