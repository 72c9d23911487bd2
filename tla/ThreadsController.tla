------------------------- MODULE ThreadsController -------------------------
(***************************************************************************)
(* The barrier and the funnel that the threads of a transfer share         *)
(* (util/ThreadsController).  Each operation holds a mutex: one step.      *)
(***************************************************************************)
EXTENDS Naturals, FiniteSets

(* Barrier: numThreads_ counts down when a thread ends without having come *)
(* to the barrier.                                                         *)
NewBarrier(numThreads) == [threads |-> numThreads, hits |-> 0, complete |-> FALSE]

CheckForFinish(b) == [b EXCEPT !.complete = @ \/ b.hits = b.threads]

BarrierExecute(b) == CheckForFinish([b EXCEPT !.hits = @ + 1])

BarrierDeRegister(b) ==
    IF b.complete THEN b ELSE CheckForFinish([b EXCEPT !.threads = @ - 1])

(* Funnel: who finds it unused executes it, the others wait. *)
FunnelGetStatus(f) == IF f = "START" THEN "PROGRESS" ELSE f
=============================================================================
