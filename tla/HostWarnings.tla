---------------------------- MODULE HostWarnings ----------------------------
(***************************************************************************)
(* The limiter of the unknown-host warning (logUnknownHost in pkg/router). *)
(* Handlers meet in two atomics; a step is one operation on one of them.   *)
(* warned and reported are history: the times of the warnings, and the     *)
(* suppressed requests they have told of.                                  *)
(***************************************************************************)
EXTENDS Integers, Sequences, FiniteSets

CONSTANTS
  Strays,       \* handlers of requests for unknown hosts
  Interval,     \* unknownHostLogInterval
  MaxClock      \* bound: the last instant

ASSUME WarningAssumption ==
  /\ Interval \in Nat \ {0} /\ MaxClock \in Nat
  /\ IsFiniteSet(Strays)

VARIABLES
  clock,        \* starts past Interval: it is a Unix time, and the atomics start at zero
  hostLast,     \* unknownHostLast
  suppressed,   \* unknownHostSuppressed
  stray,        \* handler -> where it is, the time it read, the last warning it saw
  warned, reported
warningVars == <<clock, hostLast, suppressed, stray, warned, reported>>

WarningTypeOK ==
  /\ {clock, hostLast, suppressed, reported} \subseteq Nat
  /\ stray \in [Strays -> [at : {"new", "now", "cas", "drop", "swap", "silent", "logged"},
                           now : Nat, last : Nat]]
  /\ warned \in Seq(Nat)

WarningInit ==
  /\ clock = Interval /\ hostLast = 0 /\ suppressed = 0
  /\ stray = [g \in Strays |-> [at |-> "new", now |-> 0, last |-> 0]]
  /\ warned = <<>> /\ reported = 0

StrayAt(g, where) == stray[g].at = where
StrayTo(g, where) == stray' = [stray EXCEPT ![g].at = where]

Tick ==
  /\ clock < MaxClock /\ clock' = clock + 1
  /\ UNCHANGED <<hostLast, suppressed, stray, warned, reported>>

ReadNow(g) ==
  /\ StrayAt(g, "new")
  /\ stray' = [stray EXCEPT ![g].at = "now", ![g].now = clock]
  /\ UNCHANGED <<clock, hostLast, suppressed, warned, reported>>

(* Load, and the comparison with the interval.                             *)
LoadLast(g) ==
  /\ StrayAt(g, "now")
  /\ stray' = [stray EXCEPT ![g].last = hostLast,
                 ![g].at = IF stray[g].now - hostLast < Interval THEN "drop" ELSE "cas"]
  /\ UNCHANGED <<clock, hostLast, suppressed, warned, reported>>

\* Mutant of SwapLast: a plain store.
StoreLast(g) ==
  /\ StrayAt(g, "cas")
  /\ hostLast' = stray[g].now /\ StrayTo(g, "swap")
  /\ UNCHANGED <<clock, suppressed, warned, reported>>

(* CompareAndSwap.                                                         *)
SwapLast(g) ==
  /\ StrayAt(g, "cas")
  /\ IF hostLast = stray[g].last
     THEN hostLast' = stray[g].now /\ StrayTo(g, "swap")
     ELSE UNCHANGED hostLast /\ StrayTo(g, "drop")
  /\ UNCHANGED <<clock, suppressed, warned, reported>>

Suppress(g) ==
  /\ StrayAt(g, "drop") /\ StrayTo(g, "silent")
  /\ suppressed' = suppressed + 1
  /\ UNCHANGED <<clock, hostLast, warned, reported>>

\* Mutant of Warn: the counter is read and left as it was.
WarnNoReset(g) ==
  /\ StrayAt(g, "swap") /\ StrayTo(g, "logged")
  /\ warned' = Append(warned, stray[g].now)
  /\ reported' = reported + suppressed
  /\ UNCHANGED <<clock, hostLast, suppressed>>

(* Swap(0), and the line with the count.                                   *)
Warn(g) ==
  /\ StrayAt(g, "swap") /\ StrayTo(g, "logged")
  /\ warned' = Append(warned, stray[g].now)
  /\ reported' = reported + suppressed /\ suppressed' = 0
  /\ UNCHANGED <<clock, hostLast>>

WarningNext ==
  \/ Tick
  \/ \E g \in Strays : ReadNow(g) \/ LoadLast(g) \/ SwapLast(g) \/ Suppress(g) \/ Warn(g)

WarningSpec == WarningInit /\ [][WarningNext]_warningVars

-----------------------------------------------------------------------------
(* However the handlers interleave, and however old the time one of them   *)
(* has read, the times of two warnings are an interval apart: the times    *)
(* their handlers read, a line may be written later (oplog.go:105-106).    *)
WarningsSpaced ==
  \A m, n \in 1..Len(warned) : m # n => warned[m] - warned[n] \notin (-Interval + 1)..(Interval - 1)

(* Every silent request is told of by exactly one warning, or by the next. *)
SuppressedConserved ==
  reported + suppressed = Cardinality({g \in Strays : StrayAt(g, "silent")})

(* The limiter neither warns too often nor loses count.                    *)
WarningsSound == WarningsSpaced /\ SuppressedConserved
=============================================================================
