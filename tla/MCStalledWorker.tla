--------------------------- MODULE MCStalledWorker ---------------------------
(***************************************************************************)
(* One worker may stop for good in the middle of a transaction with its    *)
(* connection open (a paused process, a partitioned client): it keeps its  *)
(* locks.  Everyone else executes its statements as OrderService says.     *)
(***************************************************************************)
EXTENDS MCOrderService

CONSTANT Stalled  \* the worker that may stop

StalledSpec == Spec /\ \A t \in Workers \ {Stalled} : WorkerFairness(t)

\* README.md:217: "`lock_timeout` bounds how long a contended request waits rather
\* than letting it hang."  Every request of another worker is answered.
ContendedRequestsFinish ==
  \A t \in Workers \ {Stalled} : pc[t] # "idle" ~> pc[t] = "idle"
=============================================================================
