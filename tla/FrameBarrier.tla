---------------------------- MODULE FrameBarrier ----------------------------
(***************************************************************************)
(* What takoyaki's ThreadPool promises to the framework, without the       *)
(* latch, the condition variable and the two kinds of queue that provide   *)
(* it: workers take tasks from a pool while they run; the framework may    *)
(* close the pool, gets exclusive access once no worker runs, and opens    *)
(* the pool again.  A worker never takes, holds or runs a task while the   *)
(* framework has exclusive access, and every task is taken at most once.   *)
(***************************************************************************)
CONSTANTS Workers,   \* the threads of the pool
          Tasks      \* every task that can ever be submitted

VARIABLES phase,     \* "open", "closing", "exclusive" or "stopped"
          running,   \* the workers that may take tasks
          pool,      \* the tasks submitted and not yet taken
          taken      \* history: the tasks some worker took

vars == <<phase, running, pool, taken>>

TypeOK == /\ phase \in {"open", "closing", "exclusive", "stopped"}
          /\ running \in SUBSET Workers
          /\ pool \in SUBSET Tasks
          /\ taken \in SUBSET Tasks

Init == /\ phase = "open"
        /\ running = {}
        /\ pool = {}
        /\ taken = {}

\* A thread starts, returns to work after the pool was opened again, or is let
\* out to terminate.
Run(w) == /\ phase \in {"open", "stopped"}
          /\ w \notin running
          /\ running' = running \cup {w}
          /\ UNCHANGED <<phase, pool, taken>>

\* Any thread may submit a task at any time.
Submit(t) == /\ t \notin pool \cup taken
             /\ pool' = pool \cup {t}
             /\ UNCHANGED <<phase, running, taken>>

\* Only a running worker takes a task.
Take(t) == /\ running # {}
           /\ t \in pool
           /\ pool' = pool \ {t}
           /\ taken' = taken \cup {t}
           /\ UNCHANGED <<phase, running>>

Close == /\ phase = "open"
         /\ phase' = "closing"
         /\ UNCHANGED <<running, pool, taken>>

\* A worker stops taking tasks only because the pool closed or stopped.
Park(w) == /\ phase \in {"closing", "stopped"}
           /\ running' = running \ {w}
           /\ UNCHANGED <<phase, pool, taken>>

\* The framework gets exclusive access only when no worker runs.
Enter == /\ phase = "closing"
         /\ running = {}
         /\ phase' = "exclusive"
         /\ UNCHANGED <<running, pool, taken>>

\* With exclusive access the framework may drop what is pending (clear).
Discard == /\ phase = "exclusive"
           /\ pool' = {}
           /\ UNCHANGED <<phase, running, taken>>

Open == /\ phase = "exclusive"
        /\ phase' = "open"
        /\ UNCHANGED <<running, pool, taken>>

\* The destructor, from an open pool or from one that was left closed.
Stop == /\ phase \in {"open", "exclusive"}
        /\ phase' = "stopped"
        /\ UNCHANGED <<running, pool, taken>>

Next == \/ \E w \in Workers : Run(w) \/ Park(w)
        \/ \E t \in Tasks : Submit(t) \/ Take(t)
        \/ Close \/ Enter \/ Discard \/ Open \/ Stop

Spec == Init /\ [][Next]_vars
=============================================================================
