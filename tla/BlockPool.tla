----------------------------- MODULE BlockPool -----------------------------
(***************************************************************************)
(* What the sender threads rely on when they share a queue of blocks: a    *)
(* block is with at most one thread, comes back or is settled, and a       *)
(* thread is told that nothing is left only once nothing can come but what *)
(* other threads still hold.                                               *)
(***************************************************************************)
CONSTANTS Threads, Blocks

VARIABLES
    pool,       \* the blocks nobody has
    held,       \* the blocks each thread has taken and not settled
    settled,    \* the blocks that were delivered or given up for good
    closed,     \* whether the last block has been added
    dismissed   \* the threads that were told that nothing is left

vars == <<pool, held, settled, closed, dismissed>>

Init ==
    /\ pool = {}
    /\ held = [t \in Threads |-> {}]
    /\ settled = {}
    /\ closed = FALSE
    /\ dismissed = {}

Known == pool \cup settled \cup UNION {held[t] : t \in Threads}

Add(S) ==
    /\ ~closed
    /\ S \cap Known = {}
    /\ pool' = pool \cup S
    /\ UNCHANGED <<held, settled, closed, dismissed>>

(* The last blocks come together with the news that no other will. *)
Close(S) ==
    /\ ~closed
    /\ S \cap Known = {}
    /\ pool' = pool \cup S
    /\ closed' = TRUE
    /\ UNCHANGED <<held, settled, dismissed>>

(* The pool may be replaced as long as nobody took anything out of it. *)
Replace(S) ==
    /\ pool = Known
    /\ dismissed = {}
    /\ pool' = S
    /\ UNCHANGED <<held, settled, closed, dismissed>>

Take(t, b) ==
    /\ b \in pool
    /\ pool' = pool \ {b}
    /\ held' = [held EXCEPT ![t] = @ \cup {b}]
    /\ UNCHANGED <<settled, closed, dismissed>>

Return(t) ==
    /\ pool' = pool \cup held[t]
    /\ held' = [held EXCEPT ![t] = {}]
    /\ dismissed' = dismissed \ {t}
    /\ UNCHANGED <<settled, closed>>

Settle(t, S) ==
    /\ S \subseteq held[t]
    /\ held' = [held EXCEPT ![t] = @ \ S]
    /\ settled' = settled \cup S
    /\ UNCHANGED <<pool, closed, dismissed>>

Dismiss(t) ==
    /\ closed
    /\ pool = {}
    /\ dismissed' = dismissed \cup {t}
    /\ UNCHANGED <<pool, held, settled, closed>>

Next ==
    \/ \E t \in Threads :
          \/ \E b \in pool : Take(t, b)
          \/ Return(t)
          \/ \E S \in SUBSET held[t] : Settle(t, S)
          \/ Dismiss(t)
    \/ \E S \in SUBSET Blocks : Add(S) \/ Close(S) \/ Replace(S)

Spec == Init /\ [][Next]_vars
=============================================================================
