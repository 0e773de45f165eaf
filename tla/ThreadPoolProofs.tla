--------------------------- MODULE ThreadPoolProofs ---------------------------
(***************************************************************************)
(* The safety of ThreadPool's barrier for any number of workers, clients,  *)
(* requests and calls.                                                     *)
(***************************************************************************)
EXTENDS ThreadPoolProperties, FiniteSetTheorems, SequenceTheorems, TLAPS

(***************************************************************************)
(* The inductive invariant, in named parts.                                *)
(***************************************************************************)

\* Where the framework's thread may be while the status is BARRIER.
Closed == mpc \in {"wait", "waiting"} \/ Exclusive

\* The latch counts who is missing; who arrived stays parked until the reset;
\* a worker about to count down is waited for.
LatchInv ==
    /\ latchCount = Cardinality(Workers \ counted)
    /\ \A w \in Workers : wpc[w] = "latch" => /\ w \notin counted
                                              /\ mpc \in {"wait", "waiting"}
    /\ \A w \in counted : Parked(w)
    /\ counted # {} => mpc \in {"wait", "waiting", "reset"}

\* The status is BARRIER exactly while the pool is closed, and nobody passes
\* the latch before everybody counted down.
BarrierInv ==
    /\ status = "BARRIER" <=> Closed
    /\ mpc = "reset" => counted = Workers
    /\ mpc = "waiting" /\ Main \notin latchWait => counted = Workers
    /\ WorkersParked

\* Every swap belongs to a call of its own, so the clock stays in its bound.
ClockInv ==
    /\ clock <= calls
    /\ \/ mpc = "swap"
       \/ call = "present" /\ mpc \in {"lock", "barrier", "wait", "waiting", "reset"}
       => clock < calls

ProtocolInv == TypeOK /\ LatchInv /\ BarrierInv /\ ClockInv

\* A task in slot s is due at most s swaps from now; one in a hand is due.
QueueDue(q, now) ==
    \A s \in Slots : \A i \in DOMAIN q[s] : q[s][i].due <= now + s
DueInv == QueueDue(gpu, clock) /\ QueueDue(gen, clock) /\ NeverEarly

\* A producer between two pushes holds the renderer's lock; the framework's
\* thread holds it alone, or runs terminate() with the producers at rest.
LockInv ==
    /\ \A c \in Clients : c \in readers => todo[c] # <<>>
    /\ \A c \in Producers : todo[c] # <<>> => c \in readers
    /\ Writing => readers = {}
    /\ call = "terminate" => \A c \in Producers : todo[c] = <<>>
    /\ mpc \in {"barrier", "wait", "waiting", "reset", "swap", "clear"}
          => Writing \/ call = "terminate"
    /\ mpc = "lock" => call \in {"present", "resize"}

-----------------------------------------------------------------------------
(***************************************************************************)
(* Lemmas about the constants and the work.                                *)
(***************************************************************************)

\* The number of workers is a positive number.
LEMMA WorkerCount == N \in Nat /\ N > 0 /\ N = Cardinality(Workers)
  BY PoolAssumption, FS_CardinalityType, FS_EmptySet DEF N

\* A set of workers that counted is finite, and so is the set of the others.
LEMMA Missing ==
  ASSUME NEW S \in SUBSET Workers
  PROVE  /\ IsFiniteSet(Workers \ S)
         /\ Cardinality(Workers \ S) \in 0..N
         /\ Cardinality(Workers \ S) = 0 <=> S = Workers
         /\ Workers \ {} = Workers
<1>1. IsFiniteSet(Workers) /\ IsFiniteSet(Workers \ S)
  BY PoolAssumption, FS_Subset
<1>2. Cardinality(Workers \ S) \in Nat /\ Cardinality(Workers \ S) <= Cardinality(Workers)
  BY <1>1, FS_Subset, FS_CardinalityType
<1>3. Cardinality(Workers \ S) = 0 <=> Workers \ S = {}
  BY <1>1, FS_EmptySet
<1>4. QED
  BY <1>1, <1>2, <1>3, WorkerCount

\* One more count-down takes one from the number of the missing.
LEMMA OneMore ==
  ASSUME NEW S \in SUBSET Workers, NEW w \in Workers, w \notin S
  PROVE  Cardinality(Workers \ (S \cup {w})) = Cardinality(Workers \ S) - 1
<1>1. Workers \ (S \cup {w}) = (Workers \ S) \ {w}
  OBVIOUS
<1>2. IsFiniteSet(Workers \ S) /\ w \in Workers \ S
  BY Missing
<1>3. QED
  BY <1>1, <1>2, FS_RemoveElement

\* What an API call pushes is a sequence of tasks.
LEMMA ScriptType ==
  ASSUME NEW k \in Kinds, NEW r \in Requests
  PROVE  [i \in DOMAIN Script[k] |-> [req |-> r, op |-> Script[k][i]]] \in Seq(Tasks)
<1>1. Kinds = {"buffer", "destroy", "command", "compile"}
  BY DEF Kinds, Script
<1>2. Script[k] \in Seq(Ops)
  <2>1. /\ BufferScript \in Seq(Ops) /\ DestroyScript \in Seq(Ops)
        /\ CommandScript \in Seq(Ops) /\ CompileScript \in Seq(Ops)
    BY DEF BufferScript, DestroyScript, CommandScript, CompileScript, Ops
  <2>2. /\ Script["buffer"] = BufferScript /\ Script["destroy"] = DestroyScript
        /\ Script["command"] = CommandScript /\ Script["compile"] = CompileScript
    BY DEF Script
  <2>3. QED
    BY <1>1, <2>1, <2>2
<1>3. DOMAIN Script[k] = 1..Len(Script[k]) /\ Len(Script[k]) \in Nat
  BY <1>2
<1>4. \A i \in DOMAIN Script[k] : [req |-> r, op |-> Script[k][i]] \in Tasks
  BY <1>2, <1>3 DEF Tasks
<1>5. QED
  BY <1>3, <1>4

\* A popped entry and a task to push have their types.
LEMMA HeadTail ==
  ASSUME NEW S, NEW q \in Seq(S), q # <<>>
  PROVE  Head(q) \in S /\ Tail(q) \in Seq(S)
  OBVIOUS

\* A pushed entry has its type, in a queue of its own slot.
LEMMA EnqueueType ==
  ASSUME NEW q \in [Slots -> Seq(Entries)], NEW t \in Tasks, clock \in 0..MaxCalls
  PROVE  Enqueue(q, t) \in [Slots -> Seq(Entries)]
<1>1. Slot(t.op) \in Slots
  BY DEF Slot, Slots
<1>2. [req |-> t.req, op |-> t.op, due |-> clock + Slot(t.op)] \in Entries
  BY <1>1, PoolAssumption DEF Entries, Tasks, Slots
<1>3. QED
  BY <1>1, <1>2 DEF Enqueue

\* A rotation only permutes the slots.
LEMMA RotatedType ==
  ASSUME NEW q \in [Slots -> Seq(Entries)]
  PROVE  /\ Rotated(q) \in [Slots -> Seq(Entries)]
         /\ Rotated(q)[0] = q[1] /\ Rotated(q)[1] = q[2] /\ Rotated(q)[2] = q[0]
  BY DEF Rotated, Slots

-----------------------------------------------------------------------------
(***************************************************************************)
(* Every step preserves the type invariant.  The latch stays in its range  *)
(* because it counts the missing workers, the clock because every swap     *)
(* belongs to a call.                                                      *)
(***************************************************************************)

\* Every step keeps every variable in its range.
LEMMA TypeStep == ASSUME ProtocolInv, [Next]_vars PROVE TypeOK'
<1> USE DEF ProtocolInv, TypeOK, Go, At, WorkerPCs, MainPCs, CallNames, sync, main,
        worker, queues, lists, clients, past
<1>1. ASSUME NEW w \in Workers, LoopTest(w) PROVE TypeOK'
  BY <1>1 DEF LoopTest
<1>2. ASSUME NEW w \in Workers, PopGPU(w) PROVE TypeOK'
  <2>1. 0 \in Slots /\ gpu[0] \in Seq(Entries)
    BY DEF Slots
  <2>2. CASE gpu[0] # <<>>
    <3>1. Head(gpu[0]) \in Entries /\ Tail(gpu[0]) \in Seq(Entries)
      BY <2>1, <2>2, HeadTail
    <3>2. hand' \in [Workers -> SUBSET Entries]
      <4>1. hand' = [hand EXCEPT ![w] = {Head(gpu[0])}]
        BY <1>2, <2>2 DEF PopGPU
      <4>2. {Head(gpu[0])} \in SUBSET Entries
        BY <3>1
      <4>3. QED
        BY <4>1, <4>2
    <3>3. gpu' \in [Slots -> Seq(Entries)]
      BY <1>2, <2>1, <2>2, <3>1 DEF PopGPU
    <3>4. QED
      BY <1>2, <2>2, <3>2, <3>3 DEF PopGPU
  <2>3. CASE gpu[0] = <<>>
    BY <1>2, <2>3 DEF PopGPU
  <2>4. QED
    BY <2>2, <2>3
<1>3. ASSUME NEW w \in Workers, Record(w) PROVE TypeOK'
  <2>1. \A e \in hand[w] : TaskOf(e) \in Tasks
    BY DEF TaskOf, Tasks, Entries
  <2>2. QED
    BY <1>3, <2>1 DEF Record
<1>4. ASSUME NEW w \in Workers, PopGeneric(w) PROVE TypeOK'
  <2>1. 0 \in Slots /\ gen[0] \in Seq(Entries)
    BY DEF Slots
  <2>2. CASE gen[0] # <<>>
    <3>1. Head(gen[0]) \in Entries /\ Tail(gen[0]) \in Seq(Entries)
      BY <2>1, <2>2, HeadTail
    <3>2. hand' \in [Workers -> SUBSET Entries]
      <4>1. hand' = [hand EXCEPT ![w] = {Head(gen[0])}]
        BY <1>4, <2>2 DEF PopGeneric
      <4>2. {Head(gen[0])} \in SUBSET Entries
        BY <3>1
      <4>3. QED
        BY <4>1, <4>2
    <3>3. gen' \in [Slots -> Seq(Entries)]
      BY <1>4, <2>1, <2>2, <3>1 DEF PopGeneric
    <3>4. QED
      BY <1>4, <2>2, <3>2, <3>3 DEF PopGeneric
  <2>3. CASE gen[0] = <<>>
    BY <1>4, <2>3 DEF PopGeneric
  <2>4. QED
    BY <2>2, <2>3
<1>5. ASSUME NEW w \in Workers, RunGeneric(w) PROVE TypeOK'
  <2>1. \A e \in hand[w] : TaskOf(e) \in Tasks
    BY DEF TaskOf, Tasks, Entries
  <2>2. QED
    BY <1>5, <2>1 DEF RunGeneric
<1>6. ASSUME NEW w \in Workers, CheckBarrier(w) PROVE TypeOK'
  BY <1>6 DEF CheckBarrier
<1>7. ASSUME NEW w \in Workers, CountDown(w) PROVE TypeOK'
  <2>1. w \notin counted /\ latchCount = Cardinality(Workers \ counted)
    BY <1>7 DEF CountDown, LatchInv
  <2>2. latchCount - 1 \in 0..N
    <3>1. Cardinality(Workers \ (counted \cup {w})) = latchCount - 1
      BY <2>1, OneMore
    <3>2. counted \cup {w} \in SUBSET Workers
      OBVIOUS
    <3>3. QED
      BY <3>1, <3>2, Missing
  <2>3. QED
    BY <1>7, <2>2 DEF CountDown
<1>8. ASSUME NEW w \in Workers, LatchReleased(w) PROVE TypeOK'
  BY <1>8 DEF LatchReleased
<1>9. ASSUME NEW w \in Workers, Predicate(w) PROVE TypeOK'
  BY <1>9 DEF Predicate
<1>10. ASSUME NEW w \in Workers, Block(w) PROVE TypeOK'
  BY <1>10 DEF Block
<1>11. ASSUME NEW w \in Workers, Wake(w) PROVE TypeOK'
  BY <1>11 DEF Wake
<1>12. ASSUME NEW w \in Workers, SpuriousWake(w) PROVE TypeOK'
  BY <1>12 DEF SpuriousWake
<1>13. ASSUME NEW c \in Clients, Push(c) PROVE TypeOK'
  <2>1. Head(todo[c]) \in Tasks /\ Tail(todo[c]) \in Seq(Tasks)
    BY <1>13, HeadTail DEF Push
  <2>2. /\ Enqueue(gpu, Head(todo[c])) \in [Slots -> Seq(Entries)]
        /\ Enqueue(gen, Head(todo[c])) \in [Slots -> Seq(Entries)]
    BY <2>1, EnqueueType
  <2>3. QED
    BY <1>13, <2>1, <2>2 DEF Push
<1>14. ASSUME NEW c \in Clients, NEW r \in Requests, NEW k \in Kinds, Begin(c, r, k)
      PROVE  TypeOK'
  BY <1>14, ScriptType DEF Begin
<1>15. ASSUME NEW name \in {"present", "resize"}, Call(name) PROVE TypeOK'
  BY <1>15, PoolAssumption DEF Call
<1>16. ASSUME NEW w \in Workers, StartWorker(w) PROVE TypeOK'
  BY <1>16 DEF StartWorker
<1>17. ASSUME NEW w \in Workers, MoveList(w) PROVE TypeOK'
  BY <1>17 DEF MoveList
<1>18. ASSUME Started PROVE TypeOK'
  BY <1>18 DEF Started
<1>19. ASSUME Lock PROVE TypeOK'
  BY <1>19 DEF Lock
<1>20. ASSUME CloseBarrier PROVE TypeOK'
  BY <1>20 DEF CloseBarrier
<1>21. ASSUME LatchWait PROVE TypeOK'
  BY <1>21 DEF LatchWait
<1>22. ASSUME LatchPassed PROVE TypeOK'
  BY <1>22 DEF LatchPassed
<1>23. ASSUME ResetLatch PROVE TypeOK'
  BY <1>23, WorkerCount DEF ResetLatch
<1>24. ASSUME SwapQueues PROVE TypeOK'
  BY <1>24, RotatedType, PoolAssumption DEF SwapQueues, ClockInv
<1>25. ASSUME ClearQueues PROVE TypeOK'
  BY <1>25 DEF ClearQueues
<1>26. ASSUME ClearWorkers PROVE TypeOK'
  BY <1>26 DEF ClearWorkers
<1>27. ASSUME Recreate PROVE TypeOK'
  BY <1>27 DEF Recreate
<1>28. ASSUME Resume PROVE TypeOK'
  BY <1>28 DEF Resume
<1>29. ASSUME Notify PROVE TypeOK'
  BY <1>29 DEF Notify
<1>30. ASSUME DropList PROVE TypeOK'
  BY <1>30 DEF DropList
<1>31. ASSUME Execute PROVE TypeOK'
  BY <1>31 DEF Execute
<1>32. ASSUME NotifyStop PROVE TypeOK'
  BY <1>32 DEF NotifyStop
<1>33. ASSUME Join PROVE TypeOK'
  BY <1>33 DEF Join
<1>34. ASSUME StartFails PROVE TypeOK'
  BY <1>34 DEF StartFails
<1>35. ASSUME Reorient PROVE TypeOK'
  BY <1>35, PoolAssumption DEF Reorient
<1>36. ASSUME Terminate PROVE TypeOK'
  BY <1>36 DEF Terminate
<1>37. ASSUME Stop PROVE TypeOK'
  BY <1>37 DEF Stop
<1>38. ASSUME UNCHANGED vars PROVE TypeOK'
  BY <1>38 DEF vars
<1>39. QED
  BY <1>1, <1>2, <1>3, <1>4, <1>5, <1>6, <1>7, <1>8, <1>9, <1>10, <1>11, <1>12, <1>13, <1>14, <1>15, <1>16, <1>17, <1>18, <1>19, <1>20, <1>21, <1>22, <1>23, <1>24, <1>25, <1>26, <1>27, <1>28, <1>29, <1>30, <1>31, <1>32, <1>33, <1>34, <1>35, <1>36, <1>37, <1>38
     DEF Next, WorkerStep, MainStep, AppStep

-----------------------------------------------------------------------------
(***************************************************************************)
(* Every step preserves the latch and barrier invariants.    *)
(***************************************************************************)

\* The latch: a count-down adds a new worker to those who arrived, the reset
\* finds all of them parked, and nobody counts down while the pool is open.
LEMMA LatchStep == ASSUME ProtocolInv, [Next]_vars PROVE LatchInv'
<1> USE DEF ProtocolInv, LatchInv, BarrierInv, WorkersParked, Closed, Exclusive, Parked, TypeOK,
        Go, At, sync, main, worker, queues,
        lists, clients, past
<1>1. ASSUME NEW w \in Workers, LoopTest(w) PROVE LatchInv'
  BY <1>1 DEF LoopTest
<1>2. ASSUME NEW w \in Workers, PopGPU(w) PROVE LatchInv'
  BY <1>2 DEF PopGPU
<1>3. ASSUME NEW w \in Workers, Record(w) PROVE LatchInv'
  BY <1>3 DEF Record
<1>4. ASSUME NEW w \in Workers, PopGeneric(w) PROVE LatchInv'
  BY <1>4 DEF PopGeneric
<1>5. ASSUME NEW w \in Workers, RunGeneric(w) PROVE LatchInv'
  BY <1>5 DEF RunGeneric
<1>6. ASSUME NEW w \in Workers, CheckBarrier(w) PROVE LatchInv'
  BY <1>6 DEF CheckBarrier
<1>7. ASSUME NEW w \in Workers, CountDown(w) PROVE LatchInv'
  <2>1. w \notin counted /\ mpc \in {"wait", "waiting"}
    BY <1>7 DEF CountDown
  <2>2. Cardinality(Workers \ (counted \cup {w})) = latchCount - 1
    BY <2>1, OneMore
  <2>3. latchCount' = Cardinality(Workers \ counted')
    BY <1>7, <2>2 DEF CountDown
  <2>4. wpc' \in [Workers -> {wpc[v] : v \in Workers} \cup {"pred", "latched"}]
        /\ Parked(w)' /\ \A v \in Workers \ {w} : wpc'[v] = wpc[v]
    BY <1>7 DEF CountDown
  <2>5. QED
    BY <1>7, <2>1, <2>3, <2>4 DEF CountDown
<1>8. ASSUME NEW w \in Workers, LatchReleased(w) PROVE LatchInv'
  BY <1>8 DEF LatchReleased
<1>9. ASSUME NEW w \in Workers, Predicate(w) PROVE LatchInv'
  BY <1>9 DEF Predicate
<1>10. ASSUME NEW w \in Workers, Block(w) PROVE LatchInv'
  BY <1>10 DEF Block
<1>11. ASSUME NEW w \in Workers, Wake(w) PROVE LatchInv'
  BY <1>11 DEF Wake
<1>12. ASSUME NEW w \in Workers, SpuriousWake(w) PROVE LatchInv'
  BY <1>12 DEF SpuriousWake
<1>13. ASSUME NEW c \in Clients, Push(c) PROVE LatchInv'
  BY <1>13 DEF Push
<1>14. ASSUME NEW c \in Clients, NEW r \in Requests, NEW k \in Kinds, Begin(c, r, k)
      PROVE  LatchInv'
  BY <1>14 DEF Begin
<1>15. ASSUME NEW name \in {"present", "resize"}, Call(name) PROVE LatchInv'
  BY <1>15 DEF Call, Idle
<1>16. ASSUME NEW w \in Workers, StartWorker(w) PROVE LatchInv'
  BY <1>16 DEF StartWorker
<1>17. ASSUME NEW w \in Workers, MoveList(w) PROVE LatchInv'
  BY <1>17 DEF MoveList
<1>18. ASSUME Started PROVE LatchInv'
  BY <1>18 DEF Started
<1>19. ASSUME Lock PROVE LatchInv'
  BY <1>19 DEF Lock
<1>20. ASSUME CloseBarrier PROVE LatchInv'
  BY <1>20 DEF CloseBarrier
<1>21. ASSUME LatchWait PROVE LatchInv'
  <2>1. latchCount = 0 => counted = Workers
    BY Missing
  <2>2. QED
    BY <1>21, <2>1 DEF LatchWait
<1>22. ASSUME LatchPassed PROVE LatchInv'
  BY <1>22 DEF LatchPassed
<1>23. ASSUME ResetLatch PROVE LatchInv'
  <2>1. latchCount' = Cardinality(Workers \ {}) /\ counted' = {}
    BY <1>23, WorkerCount, Missing DEF ResetLatch
  <2>2. QED
    BY <1>23, <2>1 DEF ResetLatch
<1>24. ASSUME SwapQueues PROVE LatchInv'
  BY <1>24 DEF SwapQueues
<1>25. ASSUME ClearQueues PROVE LatchInv'
  BY <1>25 DEF ClearQueues
<1>26. ASSUME ClearWorkers PROVE LatchInv'
  BY <1>26 DEF ClearWorkers
<1>27. ASSUME Recreate PROVE LatchInv'
  BY <1>27 DEF Recreate
<1>28. ASSUME Resume PROVE LatchInv'
  BY <1>28 DEF Resume
<1>29. ASSUME Notify PROVE LatchInv'
  BY <1>29 DEF Notify
<1>30. ASSUME DropList PROVE LatchInv'
  BY <1>30 DEF DropList
<1>31. ASSUME Execute PROVE LatchInv'
  BY <1>31 DEF Execute
<1>32. ASSUME NotifyStop PROVE LatchInv'
  BY <1>32 DEF NotifyStop
<1>33. ASSUME Join PROVE LatchInv'
  BY <1>33 DEF Join
<1>34. ASSUME StartFails PROVE LatchInv'
  BY <1>34 DEF StartFails
<1>35. ASSUME Reorient PROVE LatchInv'
  BY <1>35 DEF Reorient, Idle
<1>36. ASSUME Terminate PROVE LatchInv'
  BY <1>36 DEF Terminate, Idle
<1>37. ASSUME Stop PROVE LatchInv'
  BY <1>37 DEF Stop
<1>38. ASSUME UNCHANGED vars PROVE LatchInv'
  BY <1>38 DEF vars
<1>39. QED
  BY <1>1, <1>2, <1>3, <1>4, <1>5, <1>6, <1>7, <1>8, <1>9, <1>10,
     <1>11, <1>12, <1>13, <1>14, <1>15, <1>16, <1>17, <1>18, <1>19, <1>20,
     <1>21, <1>22, <1>23, <1>24, <1>25, <1>26, <1>27, <1>28, <1>29, <1>30,
     <1>31, <1>32, <1>33, <1>34, <1>35, <1>36, <1>37, <1>38
     DEF Next, WorkerStep, MainStep, AppStep

\* The barrier: nobody passes the latch before everybody counted down, and then
\* nobody leaves before the status changes.
LEMMA BarrierStep == ASSUME ProtocolInv, [Next]_vars PROVE BarrierInv'
<1> USE DEF ProtocolInv, LatchInv, BarrierInv, WorkersParked, Closed, Exclusive, Parked, TypeOK,
        Go, At, sync, main, worker, queues,
        lists, clients, past
<1>1. ASSUME NEW w \in Workers, LoopTest(w) PROVE BarrierInv'
  BY <1>1 DEF LoopTest
<1>2. ASSUME NEW w \in Workers, PopGPU(w) PROVE BarrierInv'
  BY <1>2 DEF PopGPU
<1>3. ASSUME NEW w \in Workers, Record(w) PROVE BarrierInv'
  BY <1>3 DEF Record
<1>4. ASSUME NEW w \in Workers, PopGeneric(w) PROVE BarrierInv'
  BY <1>4 DEF PopGeneric
<1>5. ASSUME NEW w \in Workers, RunGeneric(w) PROVE BarrierInv'
  BY <1>5 DEF RunGeneric
<1>6. ASSUME NEW w \in Workers, CheckBarrier(w) PROVE BarrierInv'
  BY <1>6 DEF CheckBarrier
<1>7. ASSUME NEW w \in Workers, CountDown(w) PROVE BarrierInv'
  <2>1. w \notin counted /\ mpc \in {"wait", "waiting"}
    BY <1>7 DEF CountDown
  <2>2. Cardinality(Workers \ (counted \cup {w})) = latchCount - 1
    BY <2>1, OneMore
  <2>3. latchCount = 1 => counted \cup {w} = Workers
    <3>1. counted \cup {w} \in SUBSET Workers
      OBVIOUS
    <3>2. Cardinality(Workers \ (counted \cup {w})) = 0 => counted \cup {w} = Workers
      BY <3>1, Missing
    <3>3. QED
      BY <2>2, <3>2
  <2>4. QED
    BY <1>7, <2>1, <2>3 DEF CountDown
<1>8. ASSUME NEW w \in Workers, LatchReleased(w) PROVE BarrierInv'
  BY <1>8 DEF LatchReleased
<1>9. ASSUME NEW w \in Workers, Predicate(w) PROVE BarrierInv'
  BY <1>9 DEF Predicate
<1>10. ASSUME NEW w \in Workers, Block(w) PROVE BarrierInv'
  BY <1>10 DEF Block
<1>11. ASSUME NEW w \in Workers, Wake(w) PROVE BarrierInv'
  BY <1>11 DEF Wake
<1>12. ASSUME NEW w \in Workers, SpuriousWake(w) PROVE BarrierInv'
  BY <1>12 DEF SpuriousWake
<1>13. ASSUME NEW c \in Clients, Push(c) PROVE BarrierInv'
  BY <1>13 DEF Push
<1>14. ASSUME NEW c \in Clients, NEW r \in Requests, NEW k \in Kinds, Begin(c, r, k)
      PROVE  BarrierInv'
  BY <1>14 DEF Begin
<1>15. ASSUME NEW name \in {"present", "resize"}, Call(name) PROVE BarrierInv'
  BY <1>15 DEF Call, Idle
<1>16. ASSUME NEW w \in Workers, StartWorker(w) PROVE BarrierInv'
  BY <1>16 DEF StartWorker
<1>17. ASSUME NEW w \in Workers, MoveList(w) PROVE BarrierInv'
  BY <1>17 DEF MoveList
<1>18. ASSUME Started PROVE BarrierInv'
  BY <1>18 DEF Started
<1>19. ASSUME Lock PROVE BarrierInv'
  BY <1>19 DEF Lock
<1>20. ASSUME CloseBarrier PROVE BarrierInv'
  BY <1>20 DEF CloseBarrier
<1>21. ASSUME LatchWait PROVE BarrierInv'
  <2>1. latchCount = 0 => counted = Workers
    BY Missing
  <2>2. QED
    BY <1>21, <2>1 DEF LatchWait
<1>22. ASSUME LatchPassed PROVE BarrierInv'
  BY <1>22 DEF LatchPassed
<1>23. ASSUME ResetLatch PROVE BarrierInv'
  BY <1>23 DEF ResetLatch
<1>24. ASSUME SwapQueues PROVE BarrierInv'
  BY <1>24 DEF SwapQueues
<1>25. ASSUME ClearQueues PROVE BarrierInv'
  BY <1>25 DEF ClearQueues
<1>26. ASSUME ClearWorkers PROVE BarrierInv'
  BY <1>26 DEF ClearWorkers
<1>27. ASSUME Recreate PROVE BarrierInv'
  BY <1>27 DEF Recreate
<1>28. ASSUME Resume PROVE BarrierInv'
  BY <1>28 DEF Resume
<1>29. ASSUME Notify PROVE BarrierInv'
  BY <1>29 DEF Notify
<1>30. ASSUME DropList PROVE BarrierInv'
  BY <1>30 DEF DropList
<1>31. ASSUME Execute PROVE BarrierInv'
  BY <1>31 DEF Execute
<1>32. ASSUME NotifyStop PROVE BarrierInv'
  BY <1>32 DEF NotifyStop
<1>33. ASSUME Join PROVE BarrierInv'
  BY <1>33 DEF Join
<1>34. ASSUME StartFails PROVE BarrierInv'
  BY <1>34 DEF StartFails
<1>35. ASSUME Reorient PROVE BarrierInv'
  BY <1>35 DEF Reorient, Idle
<1>36. ASSUME Terminate PROVE BarrierInv'
  BY <1>36 DEF Terminate, Idle
<1>37. ASSUME Stop PROVE BarrierInv'
  BY <1>37 DEF Stop
<1>38. ASSUME UNCHANGED vars PROVE BarrierInv'
  BY <1>38 DEF vars
<1>39. QED
  BY <1>1, <1>2, <1>3, <1>4, <1>5, <1>6, <1>7, <1>8, <1>9, <1>10,
     <1>11, <1>12, <1>13, <1>14, <1>15, <1>16, <1>17, <1>18, <1>19, <1>20,
     <1>21, <1>22, <1>23, <1>24, <1>25, <1>26, <1>27, <1>28, <1>29, <1>30,
     <1>31, <1>32, <1>33, <1>34, <1>35, <1>36, <1>37, <1>38
     DEF Next, WorkerStep, MainStep, AppStep

\* The clock: a swap is made once per call of present().
LEMMA ClockStep == ASSUME ProtocolInv, [Next]_vars PROVE ClockInv'
<1> USE DEF ProtocolInv, ClockInv, TypeOK, Go, At, sync, main, worker, queues,
        lists, clients, past
<1>1. ASSUME NEW w \in Workers, LoopTest(w) PROVE ClockInv'
  BY <1>1 DEF LoopTest
<1>2. ASSUME NEW w \in Workers, PopGPU(w) PROVE ClockInv'
  BY <1>2 DEF PopGPU
<1>3. ASSUME NEW w \in Workers, Record(w) PROVE ClockInv'
  BY <1>3 DEF Record
<1>4. ASSUME NEW w \in Workers, PopGeneric(w) PROVE ClockInv'
  BY <1>4 DEF PopGeneric
<1>5. ASSUME NEW w \in Workers, RunGeneric(w) PROVE ClockInv'
  BY <1>5 DEF RunGeneric
<1>6. ASSUME NEW w \in Workers, CheckBarrier(w) PROVE ClockInv'
  BY <1>6 DEF CheckBarrier
<1>7. ASSUME NEW w \in Workers, CountDown(w) PROVE ClockInv'
  BY <1>7 DEF CountDown
<1>8. ASSUME NEW w \in Workers, LatchReleased(w) PROVE ClockInv'
  BY <1>8 DEF LatchReleased
<1>9. ASSUME NEW w \in Workers, Predicate(w) PROVE ClockInv'
  BY <1>9 DEF Predicate
<1>10. ASSUME NEW w \in Workers, Block(w) PROVE ClockInv'
  BY <1>10 DEF Block
<1>11. ASSUME NEW w \in Workers, Wake(w) PROVE ClockInv'
  BY <1>11 DEF Wake
<1>12. ASSUME NEW w \in Workers, SpuriousWake(w) PROVE ClockInv'
  BY <1>12 DEF SpuriousWake
<1>13. ASSUME NEW c \in Clients, Push(c) PROVE ClockInv'
  BY <1>13 DEF Push
<1>14. ASSUME NEW c \in Clients, NEW r \in Requests, NEW k \in Kinds, Begin(c, r, k)
      PROVE  ClockInv'
  BY <1>14 DEF Begin
<1>15. ASSUME NEW name \in {"present", "resize"}, Call(name) PROVE ClockInv'
  BY <1>15 DEF Call
<1>16. ASSUME NEW w \in Workers, StartWorker(w) PROVE ClockInv'
  BY <1>16 DEF StartWorker
<1>17. ASSUME NEW w \in Workers, MoveList(w) PROVE ClockInv'
  BY <1>17 DEF MoveList
<1>18. ASSUME Started PROVE ClockInv'
  BY <1>18 DEF Started
<1>19. ASSUME Lock PROVE ClockInv'
  BY <1>19 DEF Lock
<1>20. ASSUME CloseBarrier PROVE ClockInv'
  BY <1>20 DEF CloseBarrier
<1>21. ASSUME LatchWait PROVE ClockInv'
  BY <1>21 DEF LatchWait
<1>22. ASSUME LatchPassed PROVE ClockInv'
  BY <1>22 DEF LatchPassed
<1>23. ASSUME ResetLatch PROVE ClockInv'
  BY <1>23 DEF ResetLatch
<1>24. ASSUME SwapQueues PROVE ClockInv'
  BY <1>24 DEF SwapQueues
<1>25. ASSUME ClearQueues PROVE ClockInv'
  BY <1>25 DEF ClearQueues
<1>26. ASSUME ClearWorkers PROVE ClockInv'
  BY <1>26 DEF ClearWorkers
<1>27. ASSUME Recreate PROVE ClockInv'
  BY <1>27 DEF Recreate
<1>28. ASSUME Resume PROVE ClockInv'
  BY <1>28 DEF Resume
<1>29. ASSUME Notify PROVE ClockInv'
  BY <1>29 DEF Notify
<1>30. ASSUME DropList PROVE ClockInv'
  BY <1>30 DEF DropList
<1>31. ASSUME Execute PROVE ClockInv'
  BY <1>31 DEF Execute
<1>32. ASSUME NotifyStop PROVE ClockInv'
  BY <1>32 DEF NotifyStop
<1>33. ASSUME Join PROVE ClockInv'
  BY <1>33 DEF Join
<1>34. ASSUME StartFails PROVE ClockInv'
  BY <1>34 DEF StartFails
<1>35. ASSUME Reorient PROVE ClockInv'
  BY <1>35 DEF Reorient
<1>36. ASSUME Terminate PROVE ClockInv'
  BY <1>36 DEF Terminate
<1>37. ASSUME Stop PROVE ClockInv'
  BY <1>37 DEF Stop
<1>38. ASSUME UNCHANGED vars PROVE ClockInv'
  BY <1>38 DEF vars
<1>39. QED
  BY <1>1, <1>2, <1>3, <1>4, <1>5, <1>6, <1>7, <1>8, <1>9, <1>10,
     <1>11, <1>12, <1>13, <1>14, <1>15, <1>16, <1>17, <1>18, <1>19, <1>20,
     <1>21, <1>22, <1>23, <1>24, <1>25, <1>26, <1>27, <1>28, <1>29, <1>30,
     <1>31, <1>32, <1>33, <1>34, <1>35, <1>36, <1>37, <1>38
     DEF Next, WorkerStep, MainStep, AppStep

-----------------------------------------------------------------------------
(***************************************************************************)
(* The theorems.                                                           *)
(***************************************************************************)
\* The initial state satisfies the inductive invariant.
LEMMA InitProtocol == Init => ProtocolInv
<1> SUFFICES ASSUME Init PROVE ProtocolInv
  OBVIOUS
<1>1. latchCount = N /\ N \in 0..N /\ latchCount = Cardinality(Workers \ counted)
  BY WorkerCount, Missing DEF Init
<1>2. <<>> \in Seq(Entries) /\ <<>> \in Seq(Tasks)
  OBVIOUS
<1>3. TypeOK
  BY <1>1, <1>2, PoolAssumption DEF Init, TypeOK, WorkerPCs, MainPCs, CallNames
<1>4. LatchInv /\ BarrierInv /\ ClockInv
  BY <1>1, PoolAssumption DEF Init, LatchInv, BarrierInv, ClockInv, Closed, Exclusive,
     WorkersParked, Parked
<1>5. QED
  BY <1>3, <1>4 DEF ProtocolInv

\* The inductive invariant holds in every reachable state.
THEOREM ProtocolInvariant == Spec => []ProtocolInv
<1>1. Init => ProtocolInv
  BY InitProtocol
<1>2. ProtocolInv /\ [Next]_vars => ProtocolInv'
  BY TypeStep, LatchStep, BarrierStep, ClockStep DEF ProtocolInv
<1>3. QED
  BY <1>1, <1>2, PTL DEF Spec

\* Every variable stays in its range; the latch in 0..numWorkers_.
THEOREM TypeCorrect == Spec => []TypeOK
<1>1. ProtocolInv => TypeOK
  BY DEF ProtocolInv
<1>2. QED
  BY <1>1, ProtocolInvariant, PTL

\* boost::latch's assertion cannot fail: the latch counts exactly the workers
\* that did not arrive since its last reset, and no worker arrives twice.
THEOREM LatchIsExact == Spec => []LatchExact
<1>1. ProtocolInv => LatchExact
  BY DEF ProtocolInv, LatchInv, LatchExact
<1>2. QED
  BY <1>1, ProtocolInvariant, PTL

\* swapQueues and clear run their unsynchronised part while every worker is
\* parked between its count-down and the end of its wait.
THEOREM BarrierExcludes == Spec => []WorkersParked
<1>1. ProtocolInv => WorkersParked
  BY DEF ProtocolInv, BarrierInv
<1>2. QED
  BY <1>1, ProtocolInvariant, PTL

-----------------------------------------------------------------------------
(***************************************************************************)
(* No task runs before its time.                                           *)
(***************************************************************************)

\* Pushing to slot s promises s swaps.
LEMMA EnqueueDue ==
  ASSUME NEW q \in [Slots -> Seq(Entries)], NEW t \in Tasks, clock \in 0..MaxCalls,
         QueueDue(q, clock)
  PROVE  QueueDue(Enqueue(q, t), clock)
<1> DEFINE e == [req |-> t.req, op |-> t.op, due |-> clock + Slot(t.op)]
<1>1. Slot(t.op) \in Slots /\ e \in Entries
  BY PoolAssumption DEF Slot, Slots, Entries, Tasks
<1>2. /\ Enqueue(q, t)[Slot(t.op)] = Append(q[Slot(t.op)], e)
      /\ \A s \in Slots : s # Slot(t.op) => Enqueue(q, t)[s] = q[s]
  BY <1>1 DEF Enqueue
<1>3. ASSUME NEW s \in Slots, NEW i \in DOMAIN Enqueue(q, t)[s]
      PROVE  Enqueue(q, t)[s][i].due <= clock + s
  <2>1. CASE s # Slot(t.op)
    BY <1>2, <1>3, <2>1 DEF QueueDue
  <2>2. CASE s = Slot(t.op)
    <3>1. /\ DOMAIN Append(q[s], e) = 1..(Len(q[s]) + 1)
          /\ Append(q[s], e)[Len(q[s]) + 1] = e
          /\ \A j \in DOMAIN q[s] : Append(q[s], e)[j] = q[s][j]
          /\ DOMAIN q[s] = 1..Len(q[s]) /\ Len(q[s]) \in Nat
      BY <1>1
    <3>2. CASE i = Len(q[s]) + 1
      <4>1. Enqueue(q, t)[s][i] = e /\ e.due = clock + s
        BY <1>2, <2>2, <3>1, <3>2
      <4>2. clock + s \in Int
        BY DEF Slots
      <4>3. QED
        BY <4>1, <4>2
    <3>3. CASE i # Len(q[s]) + 1
      <4>1. i \in 1..(Len(q[s]) + 1) /\ Enqueue(q, t)[s] = Append(q[s], e)
        BY <1>2, <1>3, <2>2, <3>1
      <4>2. i \in DOMAIN q[s]
        BY <3>1, <3>3, <4>1
      <4>3. Enqueue(q, t)[s][i] = q[s][i]
        BY <3>1, <4>1, <4>2
      <4>4. QED
        BY <4>2, <4>3 DEF QueueDue
    <3>4. QED
      BY <3>2, <3>3
  <2>3. QED
    BY <2>1, <2>2
<1>4. QED
  BY <1>3 DEF QueueDue

\* A swap moves every task one slot closer, and what was left in slot 0 to slot 2.
LEMMA RotatedDue ==
  ASSUME NEW q \in [Slots -> Seq(Entries)], clock \in 0..MaxCalls, QueueDue(q, clock)
  PROVE  QueueDue(Rotated(q), clock + 1)
<1>1. ASSUME NEW s \in Slots, NEW i \in DOMAIN Rotated(q)[s]
      PROVE  Rotated(q)[s][i].due <= clock + 1 + s
  <2>1. \A r \in Slots : \A j \in DOMAIN q[r] : q[r][j].due <= clock + r /\ q[r][j].due \in Int
    <3>1. ASSUME NEW r \in Slots, NEW j \in DOMAIN q[r]
          PROVE  q[r][j].due <= clock + r /\ q[r][j].due \in Int
      <4>1. q[r] \in Seq(Entries)
        OBVIOUS
      <4>2. q[r][j] \in Entries
        BY <4>1
      <4>3. QED
        BY <4>2, PoolAssumption DEF QueueDue, Entries
    <3>2. QED
      BY <3>1
  <2>2. 0 \in Slots /\ 1 \in Slots /\ 2 \in Slots
    BY DEF Slots
  <2>3. CASE s = 0
    BY <1>1, <2>1, <2>2, <2>3, RotatedType
  <2>4. CASE s = 1
    BY <1>1, <2>1, <2>2, <2>4, RotatedType
  <2>5. CASE s = 2
    BY <1>1, <2>1, <2>2, <2>5, RotatedType
  <2>6. QED
    BY <2>3, <2>4, <2>5 DEF Slots
<1>2. QED
  BY <1>1 DEF QueueDue

\* Every step keeps the dates.
LEMMA DueStep == ASSUME ProtocolInv, DueInv, [Next]_vars PROVE DueInv'
<1> USE DEF ProtocolInv, TypeOK, DueInv, QueueDue, NeverEarly, Go, At, sync, main, worker, queues,
        lists, clients, past
<1>1. ASSUME NEW w \in Workers, LoopTest(w) PROVE DueInv'
  BY <1>1 DEF LoopTest
<1>2. ASSUME NEW w \in Workers, PopGPU(w) PROVE DueInv'
  <2>1. 0 \in Slots /\ gpu[0] \in Seq(Entries)
    BY DEF Slots
  <2>2. CASE gpu[0] # <<>>
    <3>1. /\ hand' = [hand EXCEPT ![w] = {Head(gpu[0])}]
          /\ gpu' = [gpu EXCEPT ![0] = Tail(gpu[0])]
      <4>1. hand' = [hand EXCEPT ![w] = {Head(gpu[0])}]
        BY <1>2, <2>2 DEF PopGPU
      <4>2. gpu' = [gpu EXCEPT ![0] = Tail(gpu[0])]
        BY <1>2, <2>2 DEF PopGPU
      <4>3. QED
        BY <4>1, <4>2
    <3>2. 1 \in DOMAIN gpu[0] /\ Head(gpu[0]) = gpu[0][1]
      BY <2>1, <2>2
    <3>3. Head(gpu[0]).due <= clock + 0 /\ Head(gpu[0]) \in Entries
      BY <2>1, <2>2, <3>2
    <3>4. Head(gpu[0]).due <= clock
      BY <3>3 DEF Entries
    <3>5. NeverEarly'
      BY <1>2, <3>1, <3>4 DEF PopGPU
    <3>6. \A i \in DOMAIN gpu'[0] : gpu'[0][i].due <= clock + 0
      <4>1. gpu'[0] = Tail(gpu[0])
        <5>1. gpu \in [Slots -> Seq(Entries)]
          OBVIOUS
        <5>2. QED
          BY <2>1, <3>1, <5>1
      <4>2. \A i \in DOMAIN Tail(gpu[0]) : i + 1 \in DOMAIN gpu[0] /\ Tail(gpu[0])[i] = gpu[0][i + 1]
        BY <2>1, <2>2
      <4>3. QED
        BY <2>1, <4>1, <4>2
    <3>7. \A s \in Slots : s # 0 => gpu'[s] = gpu[s]
      BY <3>1
    <3>8. QueueDue(gpu, clock)'
      BY <1>2, <3>6, <3>7 DEF PopGPU
    <3>9. QueueDue(gen, clock)'
      BY <1>2 DEF PopGPU
    <3>10. QED
      BY <3>5, <3>8, <3>9
  <2>3. CASE gpu[0] = <<>>
    BY <1>2, <2>3 DEF PopGPU
  <2>4. QED
    BY <2>2, <2>3
<1>3. ASSUME NEW w \in Workers, Record(w) PROVE DueInv'
  BY <1>3 DEF Record
<1>4. ASSUME NEW w \in Workers, PopGeneric(w) PROVE DueInv'
  <2>1. 0 \in Slots /\ gen[0] \in Seq(Entries)
    BY DEF Slots
  <2>2. CASE gen[0] # <<>>
    <3>1. /\ hand' = [hand EXCEPT ![w] = {Head(gen[0])}]
          /\ gen' = [gen EXCEPT ![0] = Tail(gen[0])]
      <4>1. hand' = [hand EXCEPT ![w] = {Head(gen[0])}]
        BY <1>4, <2>2 DEF PopGeneric
      <4>2. gen' = [gen EXCEPT ![0] = Tail(gen[0])]
        BY <1>4, <2>2 DEF PopGeneric
      <4>3. QED
        BY <4>1, <4>2
    <3>2. 1 \in DOMAIN gen[0] /\ Head(gen[0]) = gen[0][1]
      BY <2>1, <2>2
    <3>3. Head(gen[0]).due <= clock + 0 /\ Head(gen[0]) \in Entries
      BY <2>1, <2>2, <3>2
    <3>4. Head(gen[0]).due <= clock
      BY <3>3 DEF Entries
    <3>5. NeverEarly'
      BY <1>4, <3>1, <3>4 DEF PopGeneric
    <3>6. \A i \in DOMAIN gen'[0] : gen'[0][i].due <= clock + 0
      <4>1. gen'[0] = Tail(gen[0])
        <5>1. gen \in [Slots -> Seq(Entries)]
          OBVIOUS
        <5>2. QED
          BY <2>1, <3>1, <5>1
      <4>2. \A i \in DOMAIN Tail(gen[0]) : i + 1 \in DOMAIN gen[0] /\ Tail(gen[0])[i] = gen[0][i + 1]
        BY <2>1, <2>2
      <4>3. QED
        BY <2>1, <4>1, <4>2
    <3>7. \A s \in Slots : s # 0 => gen'[s] = gen[s]
      BY <3>1
    <3>8. QueueDue(gen, clock)'
      BY <1>4, <3>6, <3>7 DEF PopGeneric
    <3>9. QueueDue(gpu, clock)'
      BY <1>4 DEF PopGeneric
    <3>10. QED
      BY <3>5, <3>8, <3>9
  <2>3. CASE gen[0] = <<>>
    BY <1>4, <2>3 DEF PopGeneric
  <2>4. QED
    BY <2>2, <2>3
<1>5. ASSUME NEW w \in Workers, RunGeneric(w) PROVE DueInv'
  BY <1>5 DEF RunGeneric
<1>6. ASSUME NEW w \in Workers, CheckBarrier(w) PROVE DueInv'
  BY <1>6 DEF CheckBarrier
<1>7. ASSUME NEW w \in Workers, CountDown(w) PROVE DueInv'
  BY <1>7 DEF CountDown
<1>8. ASSUME NEW w \in Workers, LatchReleased(w) PROVE DueInv'
  BY <1>8 DEF LatchReleased
<1>9. ASSUME NEW w \in Workers, Predicate(w) PROVE DueInv'
  BY <1>9 DEF Predicate
<1>10. ASSUME NEW w \in Workers, Block(w) PROVE DueInv'
  BY <1>10 DEF Block
<1>11. ASSUME NEW w \in Workers, Wake(w) PROVE DueInv'
  BY <1>11 DEF Wake
<1>12. ASSUME NEW w \in Workers, SpuriousWake(w) PROVE DueInv'
  BY <1>12 DEF SpuriousWake
<1>13. ASSUME NEW c \in Clients, Push(c) PROVE DueInv'
  <2>1. Head(todo[c]) \in Tasks
    BY <1>13, HeadTail DEF Push
  <2>2. QueueDue(Enqueue(gpu, Head(todo[c])), clock) /\ QueueDue(Enqueue(gen, Head(todo[c])), clock)
    BY <2>1, EnqueueDue
  <2>3. QED
    BY <1>13, <2>2 DEF Push
<1>14. ASSUME NEW c \in Clients, NEW r \in Requests, NEW k \in Kinds, Begin(c, r, k)
      PROVE  DueInv'
  BY <1>14 DEF Begin
<1>15. ASSUME NEW name \in {"present", "resize"}, Call(name) PROVE DueInv'
  BY <1>15 DEF Call, Idle
<1>16. ASSUME NEW w \in Workers, StartWorker(w) PROVE DueInv'
  BY <1>16 DEF StartWorker
<1>17. ASSUME NEW w \in Workers, MoveList(w) PROVE DueInv'
  BY <1>17 DEF MoveList
<1>18. ASSUME Started PROVE DueInv'
  BY <1>18 DEF Started
<1>19. ASSUME Lock PROVE DueInv'
  BY <1>19 DEF Lock
<1>20. ASSUME CloseBarrier PROVE DueInv'
  BY <1>20 DEF CloseBarrier
<1>21. ASSUME LatchWait PROVE DueInv'
  BY <1>21 DEF LatchWait
<1>22. ASSUME LatchPassed PROVE DueInv'
  BY <1>22 DEF LatchPassed
<1>23. ASSUME ResetLatch PROVE DueInv'
  BY <1>23 DEF ResetLatch
<1>24. ASSUME SwapQueues PROVE DueInv'
  <2>1. QueueDue(Rotated(gpu), clock + 1) /\ QueueDue(Rotated(gen), clock + 1)
    BY RotatedDue
  <2>2. \A w \in Workers : \A e \in hand[w] : e.due <= clock + 1
    BY DEF Entries
  <2>3. QED
    BY <1>24, <2>1, <2>2 DEF SwapQueues
<1>25. ASSUME ClearQueues PROVE DueInv'
  BY <1>25 DEF ClearQueues
<1>26. ASSUME ClearWorkers PROVE DueInv'
  BY <1>26 DEF ClearWorkers
<1>27. ASSUME Recreate PROVE DueInv'
  BY <1>27 DEF Recreate
<1>28. ASSUME Resume PROVE DueInv'
  BY <1>28 DEF Resume
<1>29. ASSUME Notify PROVE DueInv'
  BY <1>29 DEF Notify
<1>30. ASSUME DropList PROVE DueInv'
  BY <1>30 DEF DropList
<1>31. ASSUME Execute PROVE DueInv'
  BY <1>31 DEF Execute
<1>32. ASSUME NotifyStop PROVE DueInv'
  BY <1>32 DEF NotifyStop
<1>33. ASSUME Join PROVE DueInv'
  BY <1>33 DEF Join
<1>34. ASSUME StartFails PROVE DueInv'
  BY <1>34 DEF StartFails
<1>35. ASSUME Reorient PROVE DueInv'
  BY <1>35 DEF Reorient, Idle
<1>36. ASSUME Terminate PROVE DueInv'
  BY <1>36 DEF Terminate, Idle
<1>37. ASSUME Stop PROVE DueInv'
  BY <1>37 DEF Stop
<1>38. ASSUME UNCHANGED vars PROVE DueInv'
  BY <1>38 DEF vars
<1>39. QED
  BY <1>1, <1>2, <1>3, <1>4, <1>5, <1>6, <1>7, <1>8, <1>9, <1>10,
     <1>11, <1>12, <1>13, <1>14, <1>15, <1>16, <1>17, <1>18, <1>19, <1>20,
     <1>21, <1>22, <1>23, <1>24, <1>25, <1>26, <1>27, <1>28, <1>29, <1>30,
     <1>31, <1>32, <1>33, <1>34, <1>35, <1>36, <1>37, <1>38
     DEF Next, WorkerStep, MainStep, AppStep

\* A task never runs before the swaps it was submitted for.
THEOREM NothingRunsEarly == Spec => []NeverEarly
<1>1. Init => DueInv
  BY DEF Init, DueInv, QueueDue, NeverEarly
<1>2. ProtocolInv /\ DueInv /\ [Next]_vars => DueInv'
  BY DueStep
<1>3. DueInv => NeverEarly
  BY DEF DueInv
<1>4. QED
  BY <1>1, <1>2, <1>3, ProtocolInvariant, PTL DEF Spec

-----------------------------------------------------------------------------
(***************************************************************************)
(* The renderer's lock.                                                    *)
(***************************************************************************)

\* The last push leaves nothing to push.
LEMMA LastTail ==
  ASSUME NEW S, NEW q \in Seq(S), q # <<>>
  PROVE  Len(q) = 1 <=> Tail(q) = <<>>
<1>1. Tail(q) \in Seq(S) /\ Len(Tail(q)) = Len(q) - 1 /\ Len(q) \in Nat
  OBVIOUS
<1>2. Tail(q) = <<>> <=> Len(Tail(q)) = 0
  BY <1>1, EmptySeq
<1>3. QED
  BY <1>1, <1>2

\* Every API call pushes something.
LEMMA ScriptNotEmpty ==
  ASSUME NEW k \in Kinds, NEW r \in Requests
  PROVE  [i \in DOMAIN Script[k] |-> [req |-> r, op |-> Script[k][i]]] # <<>>
<1>1. Kinds = {"buffer", "destroy", "command", "compile"}
  BY DEF Kinds, Script
<1>2. 1 \in DOMAIN Script[k]
  BY <1>1 DEF Script, BufferScript, DestroyScript, CommandScript, CompileScript
<1>3. QED
  BY <1>2

\* Every step keeps the discipline of the lock.
LEMMA LockStep == ASSUME OffThreadKinds \subseteq LockedKinds, ProtocolInv, LockInv, [Next]_vars PROVE LockInv'
<1> USE DEF ProtocolInv, TypeOK, LockInv, Writing, Clients, Go, At,
        sync, main, worker, queues, lists, clients, past
<1>1. ASSUME NEW w \in Workers, LoopTest(w) PROVE LockInv'
  BY <1>1 DEF LoopTest
<1>2. ASSUME NEW w \in Workers, PopGPU(w) PROVE LockInv'
  BY <1>2 DEF PopGPU
<1>3. ASSUME NEW w \in Workers, Record(w) PROVE LockInv'
  BY <1>3 DEF Record
<1>4. ASSUME NEW w \in Workers, PopGeneric(w) PROVE LockInv'
  BY <1>4 DEF PopGeneric
<1>5. ASSUME NEW w \in Workers, RunGeneric(w) PROVE LockInv'
  BY <1>5 DEF RunGeneric
<1>6. ASSUME NEW w \in Workers, CheckBarrier(w) PROVE LockInv'
  BY <1>6 DEF CheckBarrier
<1>7. ASSUME NEW w \in Workers, CountDown(w) PROVE LockInv'
  BY <1>7 DEF CountDown
<1>8. ASSUME NEW w \in Workers, LatchReleased(w) PROVE LockInv'
  BY <1>8 DEF LatchReleased
<1>9. ASSUME NEW w \in Workers, Predicate(w) PROVE LockInv'
  BY <1>9 DEF Predicate
<1>10. ASSUME NEW w \in Workers, Block(w) PROVE LockInv'
  BY <1>10 DEF Block
<1>11. ASSUME NEW w \in Workers, Wake(w) PROVE LockInv'
  BY <1>11 DEF Wake
<1>12. ASSUME NEW w \in Workers, SpuriousWake(w) PROVE LockInv'
  BY <1>12 DEF SpuriousWake
<1>13. ASSUME NEW c \in Clients, Push(c) PROVE LockInv'
  <2>1. todo[c] \in Seq(Tasks) /\ todo[c] # <<>>
    BY <1>13 DEF Push
  <2>2. Len(todo[c]) = 1 <=> Tail(todo[c]) = <<>>
    BY <2>1, LastTail
  <2>3. QED
    BY <1>13, <2>1, <2>2 DEF Push, Clients
<1>14. ASSUME NEW c \in Clients, NEW r \in Requests, NEW k \in Kinds, Begin(c, r, k)
      PROVE  LockInv'
  <2>1. c \in Producers => k \in LockedKinds
    BY <1>14, PoolAssumption DEF Begin, MayCall, Clients
  <2>2. [i \in DOMAIN Script[k] |-> [req |-> r, op |-> Script[k][i]]] # <<>>
    BY ScriptNotEmpty
  <2>3. QED
    BY <1>14, <2>1, <2>2, PoolAssumption DEF Begin, MayCall, Serving, Clients
<1>15. ASSUME NEW name \in {"present", "resize"}, Call(name) PROVE LockInv'
  BY <1>15 DEF Call, Idle
<1>16. ASSUME NEW w \in Workers, StartWorker(w) PROVE LockInv'
  BY <1>16 DEF StartWorker
<1>17. ASSUME NEW w \in Workers, MoveList(w) PROVE LockInv'
  BY <1>17 DEF MoveList
<1>18. ASSUME Started PROVE LockInv'
  BY <1>18 DEF Started
<1>19. ASSUME Lock PROVE LockInv'
  BY <1>19 DEF Lock
<1>20. ASSUME CloseBarrier PROVE LockInv'
  BY <1>20 DEF CloseBarrier
<1>21. ASSUME LatchWait PROVE LockInv'
  BY <1>21 DEF LatchWait
<1>22. ASSUME LatchPassed PROVE LockInv'
  BY <1>22 DEF LatchPassed
<1>23. ASSUME ResetLatch PROVE LockInv'
  BY <1>23 DEF ResetLatch
<1>24. ASSUME SwapQueues PROVE LockInv'
  BY <1>24 DEF SwapQueues
<1>25. ASSUME ClearQueues PROVE LockInv'
  BY <1>25 DEF ClearQueues
<1>26. ASSUME ClearWorkers PROVE LockInv'
  BY <1>26 DEF ClearWorkers
<1>27. ASSUME Recreate PROVE LockInv'
  BY <1>27 DEF Recreate
<1>28. ASSUME Resume PROVE LockInv'
  BY <1>28 DEF Resume
<1>29. ASSUME Notify PROVE LockInv'
  BY <1>29 DEF Notify
<1>30. ASSUME DropList PROVE LockInv'
  BY <1>30 DEF DropList
<1>31. ASSUME Execute PROVE LockInv'
  BY <1>31 DEF Execute
<1>32. ASSUME NotifyStop PROVE LockInv'
  BY <1>32 DEF NotifyStop
<1>33. ASSUME Join PROVE LockInv'
  BY <1>33 DEF Join
<1>34. ASSUME StartFails PROVE LockInv'
  BY <1>34 DEF StartFails
<1>35. ASSUME Reorient PROVE LockInv'
  BY <1>35 DEF Reorient, Idle
<1>36. ASSUME Terminate PROVE LockInv'
  BY <1>36 DEF Terminate, Idle
<1>37. ASSUME Stop PROVE LockInv'
  BY <1>37 DEF Stop
<1>38. ASSUME UNCHANGED vars PROVE LockInv'
  BY <1>38 DEF vars
<1>39. QED
  BY <1>1, <1>2, <1>3, <1>4, <1>5, <1>6, <1>7, <1>8, <1>9, <1>10,
     <1>11, <1>12, <1>13, <1>14, <1>15, <1>16, <1>17, <1>18, <1>19, <1>20,
     <1>21, <1>22, <1>23, <1>24, <1>25, <1>26, <1>27, <1>28, <1>29, <1>30,
     <1>31, <1>32, <1>33, <1>34, <1>35, <1>36, <1>37, <1>38
     DEF Next, WorkerStep, MainStep, AppStep

\* When producers use only the calls that take the renderer's lock, no request
\* of theirs is in progress while the queues are swapped or cleared.
THEOREM LockKeepsPushesOut ==
  ASSUME OffThreadKinds \subseteq LockedKinds
  PROVE  Spec => []NoPushInside
<1>1. Init => LockInv
  BY PoolAssumption DEF Init, LockInv, Writing, Clients
<1>2. ProtocolInv /\ LockInv /\ [Next]_vars => LockInv'
  BY LockStep
<1>3. LockInv => NoPushInside
  BY DEF LockInv, NoPushInside, Clients
<1>4. QED
  BY <1>1, <1>2, <1>3, ProtocolInvariant, PTL DEF Spec

-----------------------------------------------------------------------------
(***************************************************************************)
(* What becomes of the tasks, for any number of workers, clients, requests *)
(* and calls: each is in one place at a time and so runs at most once,     *)
(* those of one request keep their distance, and the pool implements       *)
(* FrameBarrier.                                                           *)
(***************************************************************************)

\* The tasks of a kind of queue, in any slot.
In(q) == {t \in Tasks : \E s \in Slots : \E i \in DOMAIN q[s] : TaskOf(q[s][i]) = t}

\* No task is in it twice.
Distinct(q) == \A s, r \in Slots : \A i \in DOMAIN q[s], j \in DOMAIN q[r] :
                  TaskOf(q[s][i]) = TaskOf(q[r][j]) => s = r /\ i = j

\* A worker has a task in hand while it records or runs it.
Busy(w) == wpc[w] \in {"record", "run"}
HandInv == \A w \in Workers : \/ Busy(w) /\ \E e \in Entries : hand[w] = {e}
                              \/ ~ Busy(w) /\ hand[w] = {}

QueuesInv == /\ Distinct(gpu) /\ Distinct(gen)
             /\ Disjoint(In(gpu), In(gen))
             /\ Disjoint(In(gpu) \cup In(gen), Taken)

HeldInv == \A w \in Workers : /\ Disjoint(Held(w), ran)
                              /\ \A v \in Workers \ {w} : Disjoint(Held(w), Held(v))

\* A call's pushes are of one request, which is no other's, each once.
TodoInv == \A c, d \in Clients : \A i \in DOMAIN todo[c], j \in DOMAIN todo[d] :
              /\ todo[c][i].req = todo[d][j].req => c = d
              /\ c = d /\ todo[c][i] = todo[d][j] => i = j

\* What is still to be pushed, or belongs to a request not made yet, is nowhere.
NowhereInv ==
    LET there == In(gpu) \cup In(gen) \cup Taken
    IN  /\ \A c \in Clients : \A i \in DOMAIN todo[c] :
              todo[c][i] \notin there /\ todo[c][i].req \notin fresh
        /\ \A t \in there : t.req \notin fresh

TaskInv == HandInv /\ QueuesInv /\ HeldInv /\ TodoInv /\ NowhereInv

-----------------------------------------------------------------------------
(***************************************************************************)
(* What the operations of a queue do to its tasks.                         *)
(***************************************************************************)
\* Every entry stands for a task.
LEMMA EntryTask == \A e \in Entries : TaskOf(e) \in Tasks
  BY DEF TaskOf, Tasks, Entries

\* A push adds a task.
LEMMA EnqueueTasks ==
  ASSUME NEW q \in [Slots -> Seq(Entries)], NEW t \in Tasks, clock \in 0..MaxCalls,
         t \notin In(q)
  PROVE  In(Enqueue(q, t)) = In(q) \cup {t} /\ (Distinct(q) => Distinct(Enqueue(q, t)))
<1> DEFINE k == Slot(t.op)
           e == [req |-> t.req, op |-> t.op, due |-> clock + Slot(t.op)]
           longer == Enqueue(q, t)
<1>1. k \in Slots
  BY DEF Slot, Slots
<1>2. TaskOf(e) = t
  BY DEF TaskOf, Tasks
<1>3. longer = [q EXCEPT ![k] = Append(@, e)]
  BY DEF Enqueue
<1>4. q[k] \in Seq(Entries)
  BY <1>1
<1> HIDE DEF k, e, longer
<1>5. /\ \A s \in Slots \ {k} : longer[s] = q[s]
      /\ longer[k] = Append(q[k], e)
  BY <1>1, <1>3
<1>6. /\ DOMAIN longer[k] = DOMAIN q[k] \cup {Len(q[k]) + 1}
      /\ Len(q[k]) + 1 \notin DOMAIN q[k]
      /\ longer[k][Len(q[k]) + 1] = e
      /\ \A i \in DOMAIN q[k] : longer[k][i] = q[k][i]
  BY <1>4, <1>5
<1>7. In(longer) = In(q) \cup {t}
  <2>1. ASSUME NEW x \in In(longer) PROVE x \in In(q) \cup {t}
    BY <1>1, <1>2, <1>5, <1>6 DEF In
  <2>2. ASSUME NEW x \in In(q) PROVE x \in In(longer)
    BY <1>1, <1>5, <1>6 DEF In
  <2>3. t \in In(longer)
    BY <1>1, <1>2, <1>6 DEF In
  <2> QED
    BY <2>1, <2>2, <2>3
<1>8. ASSUME Distinct(q) PROVE Distinct(longer)
  <2> SUFFICES ASSUME NEW s \in Slots, NEW r \in Slots,
                      NEW i \in DOMAIN longer[s], NEW j \in DOMAIN longer[r],
                      TaskOf(longer[s][i]) = TaskOf(longer[r][j])
               PROVE  s = r /\ i = j
    BY DEF Distinct
  <2>1. \/ i \in DOMAIN q[s] /\ longer[s][i] = q[s][i]
        \/ s = k /\ i = Len(q[k]) + 1 /\ longer[s][i] = e
    BY <1>5, <1>6
  <2>2. \/ j \in DOMAIN q[r] /\ longer[r][j] = q[r][j]
        \/ r = k /\ j = Len(q[k]) + 1 /\ longer[r][j] = e
    BY <1>5, <1>6
  <2>3. \A u \in Slots : \A n \in DOMAIN q[u] : TaskOf(q[u][n]) # t
    BY DEF In
  <2> QED
    BY <1>2, <1>8, <2>1, <2>2, <2>3 DEF Distinct
<1> QED
  BY <1>7, <1>8 DEF longer

\* A pop takes one task away.
LEMMA PopTasks ==
  ASSUME NEW q \in [Slots -> Seq(Entries)], q[0] # <<>>, Distinct(q)
  PROVE  /\ Head(q[0]) \in Entries /\ TaskOf(Head(q[0])) \in In(q)
         /\ In([q EXCEPT ![0] = Tail(@)]) = In(q) \ {TaskOf(Head(q[0]))}
         /\ Distinct([q EXCEPT ![0] = Tail(@)])
<1> DEFINE first == Head(q[0])  rest == [q EXCEPT ![0] = Tail(@)]
<1>1. 0 \in Slots /\ q[0] \in Seq(Entries)
  BY DEF Slots
<1>2. /\ first = q[0][1] /\ 1 \in DOMAIN q[0] /\ first \in Entries
      /\ DOMAIN Tail(q[0]) = 1..(Len(q[0]) - 1) /\ DOMAIN q[0] = 1..Len(q[0])
      /\ Len(q[0]) \in Nat
      /\ \A i \in DOMAIN Tail(q[0]) : Tail(q[0])[i] = q[0][i + 1]
  BY <1>1
<1>3. rest[0] = Tail(q[0]) /\ \A s \in Slots \ {0} : rest[s] = q[s]
  BY <1>1
<1> HIDE DEF first, rest
<1>4. \A i \in DOMAIN rest[0] : i + 1 \in DOMAIN q[0] /\ i + 1 # 1 /\ rest[0][i] = q[0][i + 1]
  BY <1>2, <1>3
<1>5. \A i \in DOMAIN q[0] \ {1} : i - 1 \in DOMAIN rest[0] /\ rest[0][i - 1] = q[0][i]
  BY <1>2, <1>3
<1>6. TaskOf(first) \in In(q)
  BY <1>1, <1>2, EntryTask DEF In
<1>7. In(rest) = In(q) \ {TaskOf(first)}
  <2>1. ASSUME NEW x \in In(rest) PROVE x \in In(q) /\ x # TaskOf(first)
    <3>1. PICK s \in Slots : \E i \in DOMAIN rest[s] : TaskOf(rest[s][i]) = x
      BY <2>1 DEF In
    <3>2. PICK i \in DOMAIN rest[s] : TaskOf(rest[s][i]) = x
      BY <3>1
    <3>3. CASE s = 0
      <4>1. i + 1 \in DOMAIN q[0] /\ i + 1 # 1 /\ TaskOf(q[0][i + 1]) = x
        BY <1>4, <3>2, <3>3
      <4> QED
        BY <1>1, <1>2, <2>1, <4>1 DEF In, Distinct
    <3>4. CASE s # 0
      <4>1. i \in DOMAIN q[s] /\ TaskOf(q[s][i]) = x
        BY <1>3, <3>2, <3>4
      <4> QED
        BY <1>1, <1>2, <2>1, <3>4, <4>1 DEF In, Distinct
    <3> QED
      BY <3>3, <3>4
  <2>2. ASSUME NEW x \in In(q), x # TaskOf(first) PROVE x \in In(rest)
    <3>1. PICK s \in Slots : \E i \in DOMAIN q[s] : TaskOf(q[s][i]) = x
      BY <2>2 DEF In
    <3>2. PICK i \in DOMAIN q[s] : TaskOf(q[s][i]) = x
      BY <3>1
    <3>3. x \in Tasks
      BY DEF In
    <3>4. CASE s = 0
      <4>1. i # 1
        BY <1>2, <2>2, <3>2, <3>4
      <4>2. i - 1 \in DOMAIN rest[0] /\ TaskOf(rest[0][i - 1]) = x
        BY <1>5, <3>2, <3>4, <4>1
      <4> QED
        BY <1>1, <3>3, <4>2 DEF In
    <3>5. CASE s # 0
      BY <1>3, <3>2, <3>3, <3>5 DEF In
    <3> QED
      BY <3>4, <3>5
  <2> QED
    BY <2>1, <2>2
<1>8. Distinct(rest)
  <2> SUFFICES ASSUME NEW s \in Slots, NEW r \in Slots,
                      NEW i \in DOMAIN rest[s], NEW j \in DOMAIN rest[r],
                      TaskOf(rest[s][i]) = TaskOf(rest[r][j])
               PROVE  s = r /\ i = j
    BY DEF Distinct
  <2> DEFINE ii == IF s = 0 THEN i + 1 ELSE i  jj == IF r = 0 THEN j + 1 ELSE j
  <2>1. ii \in DOMAIN q[s] /\ rest[s][i] = q[s][ii]
    BY <1>3, <1>4
  <2>2. jj \in DOMAIN q[r] /\ rest[r][j] = q[r][jj]
    BY <1>3, <1>4
  <2>3. s = r /\ ii = jj
    <3> HIDE DEF ii, jj
    <3> QED
      BY <2>1, <2>2 DEF Distinct
  <2>4. DOMAIN rest[0] \subseteq Int
    BY <1>2, <1>3
  <2> QED
    BY <2>3, <2>4
<1> QED
  BY <1>2, <1>6, <1>7, <1>8 DEF first, rest

\* The rotation moves tasks between the slots.
LEMMA RotatedTasks ==
  ASSUME NEW q \in [Slots -> Seq(Entries)]
  PROVE  In(Rotated(q)) = In(q) /\ (Distinct(q) => Distinct(Rotated(q)))
<1> DEFINE new == Rotated(q)
<1>1. new[0] = q[1] /\ new[1] = q[2] /\ new[2] = q[0]
  BY RotatedType
<1>2. Slots = {0, 1, 2}
  BY DEF Slots
<1> HIDE DEF new
<1>3. ASSUME NEW x \in In(new) PROVE x \in In(q)
  BY <1>1, <1>2, <1>3 DEF In
<1>4. ASSUME NEW x \in In(q) PROVE x \in In(new)
  BY <1>1, <1>2, <1>4 DEF In
<1>5. ASSUME Distinct(q) PROVE Distinct(new)
  <2>1. \A s \in Slots : \E u \in Slots : new[s] = q[u] /\ s = (u + 2) % 3
    BY <1>1, <1>2
  <2> SUFFICES ASSUME NEW s \in Slots, NEW r \in Slots,
                      NEW i \in DOMAIN new[s], NEW j \in DOMAIN new[r],
                      TaskOf(new[s][i]) = TaskOf(new[r][j])
               PROVE  s = r /\ i = j
    BY DEF Distinct
  <2>3. PICK u \in Slots : new[s] = q[u] /\ s = (u + 2) % 3
    BY <2>1
  <2>4. PICK v \in Slots : new[r] = q[v] /\ r = (v + 2) % 3
    BY <2>1
  <2>5. u = v /\ i = j
    BY <1>5, <2>3, <2>4 DEF Distinct
  <2> QED
    BY <2>3, <2>4, <2>5
<1> QED
  BY <1>3, <1>4, <1>5 DEF new

\* The empty queues hold no task.
LEMMA NoTasks ==
  ASSUME NEW q, \A s \in Slots : q[s] = <<>>
  PROVE  In(q) = {} /\ Distinct(q)
  BY DEF In, Distinct

\* The tasks of both kinds of queue, as the properties speak of them.
Waiting(a, b) == UNION {{TaskOf(q[s][i]) : i \in DOMAIN q[s]} : s \in Slots, q \in {a, b}}

\* They are those of the one kind and of the other.
LEMMA QueuedIs ==
  ASSUME NEW a \in [Slots -> Seq(Entries)], NEW b \in [Slots -> Seq(Entries)]
  PROVE  Waiting(a, b) = In(a) \cup In(b)
<1> DEFINE F(q, s) == {TaskOf(q[s][i]) : i \in DOMAIN q[s]}
<1>0. Waiting(a, b) = UNION {F(q, s) : s \in Slots, q \in {a, b}}
  BY DEF Waiting
<1>1. ASSUME NEW q \in [Slots -> Seq(Entries)], NEW x
      PROVE  (\E s \in Slots : x \in F(q, s)) <=> x \in In(q)
  <2>1. \A s \in Slots : \A i \in DOMAIN q[s] : q[s][i] \in Entries
    OBVIOUS
  <2> QED
    BY <2>1, EntryTask DEF In
<1> HIDE DEF F
<1>2. ASSUME NEW x PROVE x \in Waiting(a, b) <=> x \in In(a) \cup In(b)
  <2>1. x \in Waiting(a, b) <=> \E s \in Slots, q \in {a, b} : x \in F(q, s)
    BY <1>0
  <2>2. x \in Waiting(a, b) <=> (\E s \in Slots : x \in F(a, s)) \/ (\E s \in Slots : x \in F(b, s))
    BY <2>1
  <2> QED
    BY <1>1, <2>2
<1> QED
  BY <1>2

-----------------------------------------------------------------------------
(***************************************************************************)
(* Which steps touch tasks.                                                *)
(***************************************************************************)
Quiet == /\ UNCHANGED <<gpu, gen, todo, fresh, ran, hand>>
         /\ \A w \in Workers : Busy(w)' <=> Busy(w)

TakesGPU(w)     == PopGPU(w) /\ gpu[0] # <<>>
TakesGeneric(w) == PopGeneric(w) /\ gen[0] # <<>>
Finishes(w)     == Record(w) \/ RunGeneric(w)

\* Every other step leaves the tasks where they are.
LEMMA StepKinds ==
  ASSUME TypeOK, [Next]_vars
  PROVE  \/ Quiet
         \/ \E w \in Workers : TakesGPU(w) \/ TakesGeneric(w) \/ Finishes(w)
         \/ \E c \in Clients : Push(c) \/ \E r \in Requests, k \in Kinds : Begin(c, r, k)
         \/ SwapQueues \/ ClearQueues
<1> USE DEF Quiet, Busy, Go, At, sync, main, worker, queues, lists, clients, past
<1>1. ASSUME NEW w \in Workers, WorkerStep(w) \/ SpuriousWake(w)
      PROVE  Quiet \/ TakesGPU(w) \/ TakesGeneric(w) \/ Finishes(w)
  <2>1. CASE LoopTest(w) \/ CheckBarrier(w) \/ LatchReleased(w) \/ Predicate(w) \/ Wake(w)
    BY <2>1 DEF LoopTest, CheckBarrier, LatchReleased, Predicate, Wake, TypeOK
  <2>2. CASE CountDown(w) \/ Block(w) \/ SpuriousWake(w)
    BY <2>2 DEF CountDown, Block, SpuriousWake, TypeOK
  <2>3. CASE PopGPU(w)
    BY <2>3 DEF PopGPU, TakesGPU, TypeOK
  <2>4. CASE PopGeneric(w)
    BY <2>4 DEF PopGeneric, TakesGeneric, TypeOK
  <2> QED
    BY <1>1, <2>1, <2>2, <2>3, <2>4 DEF WorkerStep, Finishes
<1>2. CASE MainStep
  <2>1. CASE \E w \in Workers : StartWorker(w) \/ MoveList(w)
    BY <2>1 DEF StartWorker, MoveList, TypeOK
  <2>2. CASE Started \/ Lock \/ CloseBarrier \/ LatchWait \/ LatchPassed \/ ResetLatch
    BY <2>2 DEF Started, Lock, CloseBarrier, LatchWait, LatchPassed, ResetLatch
  <2>3. CASE ClearWorkers \/ Recreate \/ Resume \/ Notify
    BY <2>3 DEF ClearWorkers, Recreate, Resume, Notify
  <2>4. CASE DropList \/ Execute \/ NotifyStop \/ Join
    BY <2>4 DEF DropList, Execute, NotifyStop, Join
  <2> QED
    BY <1>2, <2>1, <2>2, <2>3, <2>4 DEF MainStep
<1>3. CASE AppStep
  <2>1. CASE StartFails \/ Reorient \/ Terminate \/ Stop
    BY <2>1 DEF StartFails, Reorient, Terminate, Stop
  <2>2. CASE \E name \in {"present", "resize"} : Call(name)
    BY <2>2 DEF Call
  <2> QED
    BY <1>3, <2>1, <2>2 DEF AppStep
<1>4. CASE UNCHANGED vars
  BY <1>4 DEF vars
<1> QED
  BY <1>1, <1>2, <1>3, <1>4 DEF Next

\* What a worker does that takes a task ...
LEMMA HandTakes ==
  ASSUME TypeOK, HandInv, NEW w \in Workers, NEW e \in Entries, ~ Busy(w), UNCHANGED ran,
         hand' = [hand EXCEPT ![w] = {e}]
  PROVE  /\ Held(w)' = {TaskOf(e)} /\ Held(w) = {}
         /\ \A v \in Workers \ {w} : Held(v)' = Held(v)
         /\ Taken' = Taken \cup {TaskOf(e)}
<1>1. hand[w] = {} /\ hand'[w] = {e} /\ \A v \in Workers \ {w} : hand'[v] = hand[v]
  BY DEF HandInv, TypeOK
<1>2. Held(w)' = {TaskOf(e)} /\ Held(w) = {} /\ \A v \in Workers \ {w} : Held(v)' = Held(v)
  BY <1>1 DEF Held
<1> QED
  BY <1>2 DEF Taken

\* ... and when it finishes it.
LEMMA HandFinishes ==
  ASSUME TypeOK, HandInv, NEW w \in Workers, Finishes(w)
  PROVE  \E e \in Entries :
            /\ hand[w] = {e} /\ Held(w) = {TaskOf(e)} /\ Held(w)' = {}
            /\ ran' = ran \cup {TaskOf(e)}
            /\ \A v \in Workers \ {w} : Held(v)' = Held(v)
            /\ Taken' = Taken /\ HandInv'
<1>1. Busy(w) /\ ~ Busy(w)' /\ \A v \in Workers \ {w} : Busy(v)' <=> Busy(v)
  BY DEF Finishes, Record, RunGeneric, Busy, Go, TypeOK
<1>2. PICK e \in Entries : hand[w] = {e}
  BY <1>1 DEF HandInv
<1>3. ran' = ran \cup {TaskOf(e)} /\ hand' = [hand EXCEPT ![w] = {}]
  BY <1>2 DEF Finishes, Record, RunGeneric
<1>4. hand'[w] = {} /\ \A v \in Workers \ {w} : hand'[v] = hand[v]
  BY <1>3 DEF TypeOK
<1>5. Held(w) = {TaskOf(e)} /\ Held(w)' = {} /\ \A v \in Workers \ {w} : Held(v)' = Held(v)
  BY <1>2, <1>4 DEF Held
<1>6. Taken' = Taken
  BY <1>3, <1>5 DEF Taken
<1>7. HandInv'
  BY <1>1, <1>4 DEF HandInv
<1> QED
  BY <1>2, <1>3, <1>5, <1>6, <1>7

-----------------------------------------------------------------------------
\* Taking a task out of a queue, seen by TaskInv.
LEMMA TakeTask ==
  ASSUME TypeOK, TaskInv, NEW w \in Workers, NEW e \in Entries, ~ Busy(w), Busy(w)',
         \A v \in Workers \ {w} : Busy(v)' <=> Busy(v),
         hand' = [hand EXCEPT ![w] = {e}], UNCHANGED <<todo, fresh, ran>>,
         \/ /\ gen' = gen /\ TaskOf(e) \in In(gpu)
            /\ In(gpu') = In(gpu) \ {TaskOf(e)} /\ Distinct(gpu')
         \/ /\ gpu' = gpu /\ TaskOf(e) \in In(gen)
            /\ In(gen') = In(gen) \ {TaskOf(e)} /\ Distinct(gen')
  PROVE  TaskInv'
<1> DEFINE t == TaskOf(e)
<1>1. /\ Held(w)' = {t} /\ Held(w) = {} /\ \A v \in Workers \ {w} : Held(v)' = Held(v)
      /\ Taken' = Taken \cup {t}
  BY HandTakes DEF TaskInv
<1>2. t \in In(gpu) \cup In(gen) /\ t \notin Taken /\ Distinct(gpu') /\ Distinct(gen')
      /\ In(gpu') \cup In(gen') = (In(gpu) \cup In(gen)) \ {t}
      /\ Disjoint(In(gpu'), In(gen'))
  BY DEF TaskInv, QueuesInv, Disjoint
<1>3. HandInv'
  <2>1. hand'[w] = {e} /\ \A v \in Workers \ {w} : hand'[v] = hand[v]
    BY DEF TypeOK
  <2> QED
    BY <2>1 DEF TaskInv, HandInv
<1> HIDE DEF t
<1>4. ran \subseteq Taken /\ \A v \in Workers : Held(v) \subseteq Taken
  BY DEF Taken
<1>5. HeldInv'
  BY <1>1, <1>2, <1>4 DEF TaskInv, HeldInv, Disjoint
<1>6. QueuesInv'
  BY <1>1, <1>2 DEF TaskInv, QueuesInv, Disjoint
<1>7. In(gpu') \cup In(gen') \cup Taken' = In(gpu) \cup In(gen) \cup Taken
  BY <1>1, <1>2
<1>8. NowhereInv'
  BY <1>7 DEF TaskInv, NowhereInv
<1>9. TodoInv'
  BY DEF TaskInv, TodoInv
<1> QED
  BY <1>3, <1>5, <1>6, <1>8, <1>9 DEF TaskInv

\* A worker that takes a task finds it in slot 0.
LEMMA TakeStep ==
  ASSUME TypeOK, TaskInv, NEW w \in Workers, TakesGPU(w) \/ TakesGeneric(w)
  PROVE  TaskInv'
<1>1. ~ Busy(w) /\ Busy(w)' /\ \A v \in Workers \ {w} : Busy(v)' <=> Busy(v)
  BY DEF TakesGPU, TakesGeneric, PopGPU, PopGeneric, Busy, Go, TypeOK
<1>2. UNCHANGED <<todo, fresh, ran>>
  BY DEF TakesGPU, TakesGeneric, PopGPU, PopGeneric, clients, past
<1>3. /\ gpu \in [Slots -> Seq(Entries)] /\ gen \in [Slots -> Seq(Entries)]
      /\ Distinct(gpu) /\ Distinct(gen)
  BY DEF TypeOK, TaskInv, QueuesInv
<1>4. CASE TakesGPU(w)
  <2> DEFINE e == Head(gpu[0])
  <2>1. /\ gpu[0] # <<>> /\ hand' = [hand EXCEPT ![w] = {e}] /\ gen' = gen
        /\ gpu' = [gpu EXCEPT ![0] = Tail(@)]
    BY <1>4 DEF TakesGPU, PopGPU
  <2>2. e \in Entries /\ TaskOf(e) \in In(gpu) /\ In(gpu') = In(gpu) \ {TaskOf(e)}
        /\ Distinct(gpu')
    BY <1>3, <2>1, PopTasks
  <2> HIDE DEF e
  <2> QED
    BY <1>1, <1>2, <2>1, <2>2, TakeTask
<1>5. CASE TakesGeneric(w)
  <2> DEFINE e == Head(gen[0])
  <2>1. /\ gen[0] # <<>> /\ hand' = [hand EXCEPT ![w] = {e}] /\ gpu' = gpu
        /\ gen' = [gen EXCEPT ![0] = Tail(@)]
    BY <1>5 DEF TakesGeneric, PopGeneric
  <2>2. e \in Entries /\ TaskOf(e) \in In(gen) /\ In(gen') = In(gen) \ {TaskOf(e)}
        /\ Distinct(gen')
    BY <1>3, <2>1, PopTasks
  <2> HIDE DEF e
  <2> QED
    BY <1>1, <1>2, <2>1, <2>2, TakeTask
<1> QED
  BY <1>4, <1>5

\* A worker that finishes a task moves it from its hand to the past.
LEMMA FinishStep ==
  ASSUME TypeOK, TaskInv, NEW w \in Workers, Finishes(w)
  PROVE  TaskInv'
<1>1. PICK e \in Entries :
         /\ hand[w] = {e} /\ Held(w) = {TaskOf(e)} /\ Held(w)' = {}
         /\ ran' = ran \cup {TaskOf(e)}
         /\ \A v \in Workers \ {w} : Held(v)' = Held(v)
         /\ Taken' = Taken /\ HandInv'
  BY HandFinishes DEF TaskInv
<1>2. UNCHANGED <<gpu, gen, todo, fresh>>
  BY DEF Finishes, Record, RunGeneric, queues, clients
<1>3. HeldInv'
  BY <1>1 DEF TaskInv, HeldInv, Disjoint
<1> QED
  BY <1>1, <1>2, <1>3 DEF TaskInv, QueuesInv, NowhereInv, TodoInv

\* The start of a call takes a new request.
LEMMA BeginStep ==
  ASSUME TypeOK, TaskInv, NEW c \in Clients, NEW r \in Requests, NEW k \in Kinds,
         Begin(c, r, k)
  PROVE  TaskInv'
<1> DEFINE new == [i \in DOMAIN Script[k] |-> [req |-> r, op |-> Script[k][i]]]
<1>1. UNCHANGED <<gpu, gen, hand, ran, wpc>> /\ r \in fresh /\ todo[c] = <<>>
      /\ fresh' = fresh \ {r} /\ todo' = [todo EXCEPT ![c] = new]
  BY DEF Begin, worker, queues, past
<1>2. \A i \in DOMAIN new : new[i].req = r
  OBVIOUS
<1>3. \A i, j \in DOMAIN new : new[i] = new[j] => i = j
  <2>1. Kinds = {"buffer", "destroy", "command", "compile"}
    BY DEF Kinds, Script
  <2>2. \A i, j \in DOMAIN Script[k] : Script[k][i] = Script[k][j] => i = j
    BY <2>1 DEF Script, BufferScript, DestroyScript, CommandScript, CompileScript
  <2> QED
    BY <2>2
<1>4. \A i \in DOMAIN new : new[i] \in Tasks
  BY ScriptType DEF Tasks
<1> HIDE DEF new
<1>5. todo'[c] = new /\ \A d \in Clients \ {c} : todo'[d] = todo[d]
  BY <1>1 DEF TypeOK
<1>6. Taken' = Taken /\ \A w \in Workers : Held(w)' = Held(w)
  BY <1>1 DEF Taken, Held
<1>7. HandInv' /\ HeldInv' /\ QueuesInv'
  BY <1>1, <1>6 DEF TaskInv, HandInv, HeldInv, QueuesInv, Busy
<1>8. \A d \in Clients \ {c} : \A j \in DOMAIN todo[d] : todo[d][j].req # r
  BY <1>1 DEF TaskInv, NowhereInv
<1>9. TodoInv'
  <2> SUFFICES ASSUME NEW d \in Clients, NEW b \in Clients,
                      NEW i \in DOMAIN todo'[d], NEW j \in DOMAIN todo'[b]
               PROVE  /\ todo'[d][i].req = todo'[b][j].req => d = b
                      /\ d = b /\ todo'[d][i] = todo'[b][j] => i = j
    BY DEF TodoInv
  <2>1. CASE d = c /\ b = c
    BY <1>3, <1>5, <2>1
  <2>2. CASE d = c /\ b # c
    BY <1>2, <1>5, <1>8, <2>2
  <2>3. CASE d # c /\ b = c
    BY <1>2, <1>5, <1>8, <2>3
  <2>4. CASE d # c /\ b # c
    BY <1>5, <2>4 DEF TaskInv, TodoInv
  <2> QED
    BY <2>1, <2>2, <2>3, <2>4
<1>10. NowhereInv'
  <2> DEFINE there == In(gpu) \cup In(gen) \cup Taken
  <2>1. In(gpu') \cup In(gen') \cup Taken' = there
    BY <1>1, <1>6
  <2>2. \A t \in there : t.req \notin fresh
    BY DEF TaskInv, NowhereInv
  <2>3. \A d \in Clients : \A i \in DOMAIN todo[d] :
           todo[d][i] \notin there /\ todo[d][i].req \notin fresh
    BY DEF TaskInv, NowhereInv
  <2> HIDE DEF there
  <2>4. \A d \in Clients : \A i \in DOMAIN todo'[d] :
           todo'[d][i] \notin there /\ todo'[d][i].req \notin fresh'
    <3> TAKE d \in Clients
    <3>1. CASE d = c
      BY <1>1, <1>2, <1>5, <2>2, <3>1
    <3>2. CASE d # c
      BY <1>1, <1>5, <2>3, <3>2
    <3> QED
      BY <3>1, <3>2
  <2>5. \A t \in there : t.req \notin fresh'
    BY <1>1, <2>2
  <2> QED
    BY <2>1, <2>4, <2>5 DEF NowhereInv
<1> QED
  BY <1>7, <1>9, <1>10 DEF TaskInv

\* A push moves the first task of a call to the queues, where it was not.
LEMMA PushStep ==
  ASSUME TypeOK, TaskInv, NEW c \in Clients, Push(c)
  PROVE  /\ TaskInv'
         /\ Head(todo[c]) \in Tasks
         /\ Head(todo[c]) \notin In(gpu) \cup In(gen) \cup Taken
         /\ In(gpu') \cup In(gen') = In(gpu) \cup In(gen) \cup {Head(todo[c])}
         /\ Taken' = Taken
<1> DEFINE t == Head(todo[c])
<1>1. /\ UNCHANGED <<fresh, hand, ran, wpc>> /\ todo[c] # <<>>
      /\ todo' = [todo EXCEPT ![c] = Tail(@)]
      /\ \/ gpu' = Enqueue(gpu, t) /\ gen' = gen
         \/ gen' = Enqueue(gen, t) /\ gpu' = gpu
  BY DEF Push, worker, past
<1>2. /\ todo[c] \in Seq(Tasks) /\ clock \in 0..MaxCalls
      /\ gpu \in [Slots -> Seq(Entries)] /\ gen \in [Slots -> Seq(Entries)]
  BY DEF TypeOK
<1>3. t \in Tasks /\ 1 \in DOMAIN todo[c] /\ t = todo[c][1]
  BY <1>1, <1>2
<1> HIDE DEF t
<1>4. t \notin In(gpu) \cup In(gen) \cup Taken /\ t.req \notin fresh
  BY <1>3 DEF TaskInv, NowhereInv
<1>5. Taken' = Taken /\ \A w \in Workers : Held(w)' = Held(w)
  BY <1>1 DEF Taken, Held
<1>6. /\ In(gpu') \cup In(gen') = In(gpu) \cup In(gen) \cup {t}
      /\ Disjoint(In(gpu'), In(gen')) /\ Distinct(gpu') /\ Distinct(gen')
  <2>1. Disjoint(In(gpu), In(gen)) /\ Distinct(gpu) /\ Distinct(gen)
    BY DEF TaskInv, QueuesInv
  <2>2. CASE gpu' = Enqueue(gpu, t) /\ gen' = gen
    <3>1. In(gpu') = In(gpu) \cup {t} /\ Distinct(gpu')
      BY <1>2, <1>3, <1>4, <2>1, <2>2, EnqueueTasks
    <3> QED
      BY <1>4, <2>1, <2>2, <3>1 DEF Disjoint
  <2>3. CASE gen' = Enqueue(gen, t) /\ gpu' = gpu
    <3>1. In(gen') = In(gen) \cup {t} /\ Distinct(gen')
      BY <1>2, <1>3, <1>4, <2>1, <2>3, EnqueueTasks
    <3> QED
      BY <1>4, <2>1, <2>3, <3>1 DEF Disjoint
  <2> QED
    BY <1>1, <2>2, <2>3
<1>7. HandInv' /\ HeldInv'
  BY <1>1, <1>5 DEF TaskInv, HandInv, HeldInv, Busy
<1>8. QueuesInv'
  BY <1>4, <1>5, <1>6 DEF TaskInv, QueuesInv, Disjoint
<1>9. /\ \A d \in Clients \ {c} : todo'[d] = todo[d]
      /\ \A i \in DOMAIN todo'[c] : /\ i + 1 \in DOMAIN todo[c] /\ i + 1 # 1 /\ i \in Int
                                   /\ todo'[c][i] = todo[c][i + 1]
  <2>1. todo'[c] = Tail(todo[c]) /\ \A d \in Clients \ {c} : todo'[d] = todo[d]
    BY <1>1 DEF TypeOK
  <2>2. \A i \in DOMAIN Tail(todo[c]) :
           /\ i + 1 \in DOMAIN todo[c] /\ i + 1 # 1 /\ i \in Int
           /\ Tail(todo[c])[i] = todo[c][i + 1]
    BY <1>1, <1>2
  <2> QED
    BY <2>1, <2>2
<1>10. \A d \in Clients : \A i \in DOMAIN todo'[d] : \E k \in DOMAIN todo[d] :
          /\ todo'[d][i] = todo[d][k]
          /\ d = c => k = i + 1 /\ i \in Int /\ k # 1
          /\ d # c => k = i
  <2> TAKE d \in Clients
  <2>1. CASE d = c
    BY <1>9, <2>1
  <2>2. CASE d # c
    BY <1>9, <2>2
  <2> QED
    BY <2>1, <2>2
<1>11. TodoInv'
  <2> SUFFICES ASSUME NEW d \in Clients, NEW b \in Clients,
                      NEW i \in DOMAIN todo'[d], NEW j \in DOMAIN todo'[b]
               PROVE  /\ todo'[d][i].req = todo'[b][j].req => d = b
                      /\ d = b /\ todo'[d][i] = todo'[b][j] => i = j
    BY DEF TodoInv
  <2>1. PICK k \in DOMAIN todo[d] : /\ todo'[d][i] = todo[d][k]
                                    /\ d = c => k = i + 1 /\ i \in Int /\ k # 1
                                    /\ d # c => k = i
    BY <1>10
  <2>2. PICK l \in DOMAIN todo[b] : /\ todo'[b][j] = todo[b][l]
                                    /\ b = c => l = j + 1 /\ j \in Int /\ l # 1
                                    /\ b # c => l = j
    BY <1>10
  <2>3. /\ todo[d][k].req = todo[b][l].req => d = b
        /\ d = b /\ todo[d][k] = todo[b][l] => k = l
    BY DEF TaskInv, TodoInv
  <2>4. todo'[d][i].req = todo'[b][j].req => d = b
    BY <2>1, <2>2, <2>3
  <2>5. ASSUME d = b, todo'[d][i] = todo'[b][j] PROVE i = j
    <3>1. k = l
      BY <2>1, <2>2, <2>3, <2>5
    <3>2. CASE d = c
      BY <2>1, <2>2, <2>5, <3>1, <3>2
    <3>3. CASE d # c
      BY <2>1, <2>2, <2>5, <3>1, <3>3
    <3> QED
      BY <3>2, <3>3
  <2> QED
    BY <2>4, <2>5
<1>12. NowhereInv'
  <2> DEFINE there == In(gpu) \cup In(gen) \cup Taken
  <2>1. In(gpu') \cup In(gen') \cup Taken' = there \cup {t}
    BY <1>5, <1>6
  <2>2. \A x \in there \cup {t} : x.req \notin fresh'
    BY <1>1, <1>4 DEF TaskInv, NowhereInv
  <2>3. \A d \in Clients : \A k \in DOMAIN todo[d] :
           todo[d][k] \notin there /\ todo[d][k].req \notin fresh
    BY DEF TaskInv, NowhereInv
  <2> HIDE DEF there
  <2>4. \A d \in Clients : \A i \in DOMAIN todo'[d] :
           todo'[d][i] \notin there \cup {t} /\ todo'[d][i].req \notin fresh'
    <3> TAKE d \in Clients
    <3> TAKE i \in DOMAIN todo'[d]
    <3>1. PICK k \in DOMAIN todo[d] : /\ todo'[d][i] = todo[d][k]
                                      /\ d = c => k = i + 1 /\ i \in Int /\ k # 1
                                      /\ d # c => k = i
      BY <1>10
    <3>2. /\ todo[d][k].req = todo[c][1].req => d = c
          /\ d = c /\ todo[d][k] = todo[c][1] => k = 1
      BY <1>3 DEF TaskInv, TodoInv
    <3>3. todo[d][k] # t
      <4> SUFFICES ASSUME todo[d][k] = t PROVE FALSE
        OBVIOUS
      <4>1. d = c /\ k = 1
        BY <1>3, <3>2
      <4> QED
        BY <3>1, <4>1
    <3>4. todo[d][k] \notin there /\ todo[d][k].req \notin fresh
      BY <2>3
    <3> QED
      BY <1>1, <3>1, <3>3, <3>4
  <2> QED
    BY <2>1, <2>2, <2>4 DEF NowhereInv
<1>13. TaskInv'
  BY <1>7, <1>8, <1>11, <1>12 DEF TaskInv
<1> QED
  BY <1>3, <1>4, <1>5, <1>6, <1>13 DEF t

\* Steps that move tasks while everybody is parked, or touch none ...
LEMMA MoveStep ==
  ASSUME TypeOK, TaskInv, Quiet \/ SwapQueues
  PROVE  /\ TaskInv' /\ Taken' = Taken
         /\ In(gpu') \cup In(gen') = In(gpu) \cup In(gen)
<1>1. /\ UNCHANGED <<todo, fresh, ran, hand>>
      /\ \A w \in Workers : Busy(w)' <=> Busy(w)
  BY DEF Quiet, SwapQueues, worker, clients, past, Busy
<1>2. Taken' = Taken /\ \A w \in Workers : Held(w)' = Held(w)
  BY <1>1 DEF Taken, Held
<1>3. HandInv' /\ HeldInv' /\ TodoInv'
  BY <1>1, <1>2 DEF TaskInv, HandInv, HeldInv, TodoInv
<1>4. In(gpu') = In(gpu) /\ In(gen') = In(gen) /\ Distinct(gpu') /\ Distinct(gen')
  <2>1. CASE Quiet
    BY <2>1 DEF Quiet, TaskInv, QueuesInv
  <2>2. CASE SwapQueues
    <3>1. gpu' = Rotated(gpu) /\ gen' = Rotated(gen)
      BY <2>2 DEF SwapQueues
    <3> QED
      BY <3>1, RotatedTasks DEF TypeOK, TaskInv, QueuesInv
  <2> QED
    BY <2>1, <2>2
<1>5. QueuesInv' /\ NowhereInv'
  BY <1>1, <1>2, <1>4 DEF TaskInv, QueuesInv, NowhereInv
<1> QED
  BY <1>2, <1>3, <1>4, <1>5 DEF TaskInv

\* ... or drop them.
LEMMA ClearStep ==
  ASSUME TypeOK, TaskInv, ClearQueues
  PROVE  TaskInv' /\ Taken' = Taken /\ In(gpu') \cup In(gen') = {}
<1>1. /\ UNCHANGED <<todo, fresh, ran, hand, wpc>>
      /\ \A w \in Workers : Held(w)' = Held(w)
  BY DEF ClearQueues, worker, clients, past, Held
<1>2. Taken' = Taken
  BY <1>1 DEF Taken
<1>3. In(gpu') = {} /\ In(gen') = {} /\ Distinct(gpu') /\ Distinct(gen')
  BY NoTasks DEF ClearQueues
<1>4. HandInv' /\ HeldInv' /\ TodoInv'
  BY <1>1 DEF TaskInv, HandInv, HeldInv, TodoInv, Busy
<1>5. QueuesInv'
  BY <1>2, <1>3 DEF QueuesInv, Disjoint
<1>6. NowhereInv'
  BY <1>1, <1>2, <1>3 DEF TaskInv, NowhereInv
<1> QED
  BY <1>2, <1>3, <1>4, <1>5, <1>6 DEF TaskInv

\* Every step keeps every task in its one place.
LEMMA TaskStep == ASSUME TypeOK, TaskInv, [Next]_vars PROVE TaskInv'
  BY StepKinds, TakeStep, FinishStep, BeginStep, PushStep, MoveStep, ClearStep

\* Initially there is no task.
LEMMA TaskInit == Init => TaskInv
<1> SUFFICES ASSUME Init PROVE TaskInv
  OBVIOUS
<1>1. In(gpu) = {} /\ In(gen) = {} /\ Distinct(gpu) /\ Distinct(gen)
  BY NoTasks DEF Init
<1>2. Taken = {} /\ \A w \in Workers : Held(w) = {}
  BY DEF Init, Taken, Held
<1>3. HandInv
  BY DEF Init, HandInv, Busy
<1>4. TodoInv /\ NowhereInv
  BY <1>1, <1>2 DEF Init, TodoInv, NowhereInv
<1> QED
  BY <1>1, <1>2, <1>3, <1>4 DEF TaskInv, QueuesInv, HeldInv, Disjoint

\* Each task is in one place in every state.
THEOREM TasksInOnePlace == Spec => []TaskInv
<1>1. TypeOK /\ TaskInv /\ [Next]_vars => TaskInv'
  BY TaskStep
<1> QED
  BY <1>1, TaskInit, TypeCorrect, PTL DEF Spec

-----------------------------------------------------------------------------
(***************************************************************************)
(* What becomes of the commands the tasks record.                          *)
(***************************************************************************)
\* A recorded command comes from a task that ran, and is in one list.
ListsInv ==
    /\ \A w \in Workers : /\ cmdList[w] \subseteq ran
                          /\ Disjoint(cmdList[w], executed)
                          /\ w \notin cur => Disjoint(cmdList[w], devList)
                          /\ \A v \in Workers \ {w} : Disjoint(cmdList[w], cmdList[v])
    /\ devList \subseteq ran /\ executed \subseteq ran
    /\ Disjoint(devList, executed)
    /\ mpc # "drop" => cur = {}

\* A step that touches no list and does not leave "drop".
NoList == /\ UNCHANGED <<cmdList, devList, executed, cur>>
          /\ ran \subseteq ran'
          /\ mpc = "drop" => mpc' = "drop"

\* Six kinds of step touch a list.
LEMMA ListSteps ==
  ASSUME TypeOK, [Next]_vars
  PROVE  \/ NoList
         \/ \E w \in Workers : Record(w) \/ MoveList(w)
         \/ DropList \/ Execute \/ Recreate \/ ClearWorkers
<1> USE DEF NoList, Go, At, sync, main, worker, queues, lists, clients, past
<1>1. ASSUME NEW w \in Workers, WorkerStep(w) \/ SpuriousWake(w) PROVE NoList \/ Record(w)
  <2>1. CASE LoopTest(w) \/ CheckBarrier(w) \/ LatchReleased(w) \/ Predicate(w) \/ Wake(w)
    BY <2>1 DEF LoopTest, CheckBarrier, LatchReleased, Predicate, Wake
  <2>2. CASE CountDown(w) \/ Block(w) \/ SpuriousWake(w)
    BY <2>2 DEF CountDown, Block, SpuriousWake
  <2>3. CASE PopGPU(w) \/ PopGeneric(w)
    BY <2>3 DEF PopGPU, PopGeneric
  <2>4. CASE RunGeneric(w)
    BY <2>4 DEF RunGeneric
  <2> QED
    BY <1>1, <2>1, <2>2, <2>3, <2>4 DEF WorkerStep
<1>2. CASE MainStep
  <2>1. CASE \E w \in Workers : StartWorker(w)
    BY <2>1 DEF StartWorker
  <2>2. CASE Started \/ Lock \/ CloseBarrier \/ LatchWait \/ LatchPassed \/ ResetLatch
    BY <2>2 DEF Started, Lock, CloseBarrier, LatchWait, LatchPassed, ResetLatch
  <2>3. CASE SwapQueues \/ ClearQueues \/ Resume \/ Notify
    BY <2>3 DEF SwapQueues, ClearQueues, Resume, Notify
  <2>4. CASE NotifyStop \/ Join
    BY <2>4 DEF NotifyStop, Join
  <2> QED
    BY <1>2, <2>1, <2>2, <2>3, <2>4 DEF MainStep
<1>3. CASE AppStep \/ \E c \in Clients : Push(c)
  <2>1. CASE StartFails \/ Reorient \/ Terminate \/ Stop
    BY <2>1 DEF StartFails, Reorient, Terminate, Stop, Idle
  <2>2. CASE \E name \in {"present", "resize"} : Call(name)
    BY <2>2 DEF Call, Idle
  <2>3. CASE \E c \in Clients, r \in Requests, k \in Kinds : Begin(c, r, k)
    BY <2>3 DEF Begin
  <2>4. CASE \E c \in Clients : Push(c)
    BY <2>4 DEF Push
  <2> QED
    BY <1>3, <2>1, <2>2, <2>3, <2>4 DEF AppStep
<1>4. CASE UNCHANGED vars
  BY <1>4 DEF vars
<1> QED
  BY <1>1, <1>2, <1>3, <1>4 DEF Next

\* Every step keeps every command in one list.
LEMMA ListsStep == ASSUME TypeOK, TaskInv, ListsInv, [Next]_vars PROVE ListsInv'
<1>1. CASE NoList
  BY <1>1 DEF NoList, ListsInv, Disjoint
<1>2. ASSUME NEW w \in Workers, Record(w) PROVE ListsInv'
  <2>1. PICK e \in Entries : /\ hand[w] = {e} /\ Held(w) = {TaskOf(e)}
                             /\ ran' = ran \cup {TaskOf(e)}
    BY <1>2, HandFinishes DEF Finishes, TaskInv
  <2>2. TaskOf(e) \notin ran
    BY <2>1 DEF TaskInv, HeldInv, Disjoint
  <2>3. /\ UNCHANGED <<devList, executed, cur, mpc>>
        /\ \/ cmdList' = cmdList
           \/ cmdList' = [cmdList EXCEPT ![w] = @ \cup {TaskOf(e)}]
    BY <1>2, <2>1 DEF Record, main
  <2>4. /\ \A v \in Workers \ {w} : cmdList'[v] = cmdList[v]
        /\ cmdList'[w] \subseteq cmdList[w] \cup {TaskOf(e)}
    BY <2>3 DEF TypeOK
  <2>5. /\ \A v \in Workers : cmdList'[v] \subseteq ran' /\ Disjoint(cmdList'[v], executed)
        /\ \A v \in Workers : v \notin cur => Disjoint(cmdList'[v], devList)
    BY <2>1, <2>2, <2>4 DEF ListsInv, Disjoint
  <2>6. \A v \in Workers : \A u \in Workers \ {v} : Disjoint(cmdList'[v], cmdList'[u])
    BY <2>2, <2>4 DEF ListsInv, Disjoint
  <2> QED
    BY <2>1, <2>3, <2>5, <2>6 DEF ListsInv
<1>3. ASSUME NEW w \in Workers, MoveList(w) PROVE ListsInv'
  <2>1. /\ UNCHANGED <<cmdList, executed, ran>> /\ mpc = "submit" /\ cur = {}
        /\ devList' = devList \cup cmdList[w]
        /\ \/ cmdList[w] = {} /\ mpc' = mpc /\ cur' = cur
           \/ mpc' = "drop" /\ cur' = {w}
    BY <1>3 DEF MoveList, ListsInv, past
  <2> QED
    BY <2>1 DEF ListsInv, Disjoint
<1>4. CASE DropList \/ ClearWorkers
  <2>1. /\ UNCHANGED <<devList, executed, ran>> /\ cur' = {}
        /\ \A w \in Workers : cmdList'[w] \in {{}, cmdList[w]}
        /\ \A w \in Workers : w \in cur => cmdList'[w] = {}
    BY <1>4 DEF DropList, ClearWorkers, ListsInv, At, past
  <2> QED
    BY <2>1 DEF ListsInv, Disjoint
<1>5. CASE Execute
  <2>1. /\ UNCHANGED <<cmdList, ran, cur>> /\ cur = {}
        /\ executed' = executed \cup devList /\ devList' = {}
    BY <1>5 DEF Execute, ListsInv, At, past
  <2> QED
    BY <2>1 DEF ListsInv, Disjoint
<1>6. CASE Recreate
  <2>1. UNCHANGED <<cmdList, executed, ran, cur>> /\ cur = {} /\ devList' = {}
    BY <1>6 DEF Recreate, ListsInv, At, past
  <2> QED
    BY <2>1 DEF ListsInv, Disjoint
<1> QED
  BY <1>1, <1>2, <1>3, <1>4, <1>5, <1>6, ListSteps

\* A task runs at most once and its command is executed at most once.
THEOREM RunAtMostOnce == Spec => []AtMostOnce
<1>1. Init => ListsInv
  BY DEF Init, ListsInv, Disjoint
<1>2. TypeOK /\ TaskInv /\ ListsInv /\ [Next]_vars => ListsInv'
  BY ListsStep
<1>3. TypeOK /\ TaskInv /\ ListsInv => AtMostOnce
  <2> SUFFICES ASSUME TypeOK, TaskInv, ListsInv PROVE AtMostOnce
    OBVIOUS
  <2>1. gpu \in [Slots -> Seq(Entries)] /\ gen \in [Slots -> Seq(Entries)]
    BY DEF TypeOK
  <2>2. Queued = In(gpu) \cup In(gen)
    <3>1. Queued = Waiting(gpu, gen)
      BY DEF Queued, Waiting
    <3> QED
      BY <2>1, <3>1, QueuedIs
  <2>3. Distinct(gpu) /\ Distinct(gen) /\ Disjoint(In(gpu), In(gen))
    BY DEF TaskInv, QueuesInv
  <2>4. \A s \in Slots, q \in {gpu, gen} : \A i, j \in DOMAIN q[s] :
           TaskOf(q[s][i]) = TaskOf(q[s][j]) => i = j
    BY <2>3 DEF Distinct
  <2>5. \A q \in {gpu, gen}, s \in Slots : \A i \in DOMAIN q[s] : TaskOf(q[s][i]) \in In(q)
    <3>1. \A q \in {gpu, gen}, s \in Slots : \A i \in DOMAIN q[s] : q[s][i] \in Entries
      BY <2>1
    <3> QED
      BY <3>1, EntryTask DEF In
  <2>6. \A s, r \in Slots, q, p \in {gpu, gen} :
          (s # r \/ q # p) =>
             \A i \in DOMAIN q[s], j \in DOMAIN p[r] : TaskOf(q[s][i]) # TaskOf(p[r][j])
    <3> SUFFICES ASSUME NEW s \in Slots, NEW r \in Slots,
                        NEW q \in {gpu, gen}, NEW p \in {gpu, gen}, s # r \/ q # p,
                        NEW i \in DOMAIN q[s], NEW j \in DOMAIN p[r]
                 PROVE  TaskOf(q[s][i]) # TaskOf(p[r][j])
      OBVIOUS
    <3>1. CASE q = p
      BY <2>3, <3>1 DEF Distinct
    <3>2. CASE q # p
      <4>1. TaskOf(q[s][i]) \in In(q) /\ TaskOf(p[r][j]) \in In(p)
        BY <2>5
      <4> QED
        BY <2>3, <3>2, <4>1 DEF Disjoint
    <3> QED
      BY <3>1, <3>2
  <2>7. Disjoint(Queued, Taken)
    BY <2>2 DEF TaskInv, QueuesInv
  <2>8. ran \subseteq Taken /\ \A w \in Workers : Held(w) \subseteq Taken
    BY DEF Taken
  <2>9. \A w \in Workers : /\ Disjoint(Held(w), ran)
                           /\ \A v \in Workers \ {w} : Disjoint(Held(w), Held(v))
    BY DEF TaskInv, HeldInv
  <2>10. Disjoint(Queued, ran) /\ \A w \in Workers : Disjoint(Held(w), Queued \cup ran)
    BY <2>7, <2>8, <2>9 DEF Disjoint
  <2>11. /\ \A w \in Workers :
              /\ Disjoint(cmdList[w], executed)
              /\ w \notin cur => Disjoint(cmdList[w], devList)
              /\ \A v \in Workers \ {w} : Disjoint(cmdList[w], cmdList[v])
         /\ Disjoint(devList, executed)
    BY DEF ListsInv
  <2> QED
    BY <2>4, <2>6, <2>9, <2>10, <2>11 DEF AtMostOnce
<1>4. Spec => []ListsInv
  BY <1>1, <1>2, TypeCorrect, TasksInOnePlace, PTL DEF Spec
<1> QED
  BY <1>3, <1>4, TypeCorrect, TasksInOnePlace, PTL

-----------------------------------------------------------------------------
(***************************************************************************)
(* The tasks of one request keep their distance in frames.                 *)
(***************************************************************************)
\* The swap a request is counted from.
Base(e) == e.due - Slot(e.op)

\* The tasks of a request have one base; while the call still pushes, it is now.
AlignInv ==
    /\ RequestAligned
    /\ \A c \in Clients : \A i \in DOMAIN todo[c] : \A e \in Live :
          e.req = todo[c][i].req => Base(e) = clock
    /\ todo[Main] # <<>> => mpc \in {"app", "terminated"}

\* The entries of a queue, and those that wait or are in a hand.
Items(q) == UNION {{q[s][i] : i \in DOMAIN q[s]} : s \in Slots}

\* The entries of both kinds of queue.
Union(a, b) == UNION {{q[s][i] : i \in DOMAIN q[s]} : s \in Slots, q \in {a, b}}

\* They are those of the one and of the other.
LEMMA ItemsOf == \A a, b : Union(a, b) = Items(a) \cup Items(b)
<1> TAKE a, b
<1> DEFINE F(q, s) == {q[s][i] : i \in DOMAIN q[s]}
<1>0. /\ Union(a, b) = UNION {F(q, s) : s \in Slots, q \in {a, b}}
      /\ Items(a) = UNION {F(a, s) : s \in Slots} /\ Items(b) = UNION {F(b, s) : s \in Slots}
  BY DEF Union, Items
<1> HIDE DEF F
<1>1. ASSUME NEW x PROVE x \in Union(a, b) <=> x \in Items(a) \cup Items(b)
  <2>1. x \in Union(a, b) <=> \E s \in Slots, q \in {a, b} : x \in F(q, s)
    BY <1>0
  <2>2. x \in Union(a, b) <=> (\E s \in Slots : x \in F(a, s)) \/ (\E s \in Slots : x \in F(b, s))
    BY <2>1
  <2> QED
    BY <1>0, <2>2
<1> QED
  BY <1>1

\* The entries in some worker's hand.
InHand == UNION {hand[w] : w \in Workers}

\* The live entries are those in the queues and in the hands ...
LEMMA LiveIs == Live = Items(gpu) \cup Items(gen) \cup InHand
<1>1. Live = InHand \cup Union(gpu, gen)
  BY DEF Live, Union, InHand
<1> QED
  BY <1>1, ItemsOf

\* ... also after a step.
LEMMA LiveWillBe == Live' = Items(gpu') \cup Items(gen') \cup InHand'
<1>1. Live' = InHand' \cup Union(gpu', gen')
  BY DEF Live, Union, InHand
<1> QED
  BY <1>1, ItemsOf

\* A push adds an entry of its request, counted from now.
LEMMA EnqueueItems ==
  ASSUME NEW q \in [Slots -> Seq(Entries)], NEW t \in Tasks, clock \in 0..MaxCalls
  PROVE  \A e \in Items(Enqueue(q, t)) : e \in Items(q) \/ (e.req = t.req /\ Base(e) = clock)
<1> DEFINE k == Slot(t.op)
           e == [req |-> t.req, op |-> t.op, due |-> clock + Slot(t.op)]
           longer == Enqueue(q, t)
<1>1. k \in Slots /\ k \in Int /\ clock \in Int
  BY DEF Slot, Slots
<1>2. e.req = t.req /\ Base(e) = clock
  <2>1. Base(e) = (clock + k) - k
    BY DEF Base
  <2> HIDE DEF k, e
  <2> QED
    BY <1>1, <2>1 DEF e
<1>3. longer = [q EXCEPT ![k] = Append(@, e)] /\ q[k] \in Seq(Entries)
  BY <1>1 DEF Enqueue
<1> HIDE DEF k, e, longer
<1>4. /\ \A s \in Slots \ {k} : longer[s] = q[s]
      /\ \A i \in DOMAIN longer[k] : \/ longer[k][i] = e
                                     \/ i \in DOMAIN q[k] /\ longer[k][i] = q[k][i]
  BY <1>1, <1>3
<1>5. \A x \in Items(longer) : x \in Items(q) \/ x = e
  BY <1>1, <1>4 DEF Items
<1> QED
  BY <1>2, <1>5 DEF longer

\* A pop takes an entry out.
LEMMA PopItems ==
  ASSUME NEW q \in [Slots -> Seq(Entries)], q[0] # <<>>
  PROVE  /\ Head(q[0]) \in Items(q)
         /\ Items([q EXCEPT ![0] = Tail(@)]) \subseteq Items(q)
<1> DEFINE rest == [q EXCEPT ![0] = Tail(@)]
<1>1. 0 \in Slots /\ q[0] \in Seq(Entries)
  BY DEF Slots
<1>2. /\ Head(q[0]) = q[0][1] /\ 1 \in DOMAIN q[0]
      /\ \A i \in DOMAIN Tail(q[0]) : i + 1 \in DOMAIN q[0] /\ Tail(q[0])[i] = q[0][i + 1]
  BY <1>1
<1>3. rest[0] = Tail(q[0]) /\ \A s \in Slots \ {0} : rest[s] = q[s]
  BY <1>1
<1> HIDE DEF rest
<1>4. Items(rest) \subseteq Items(q)
  BY <1>1, <1>2, <1>3 DEF Items
<1> QED
  BY <1>1, <1>2, <1>4 DEF Items, rest

\* A rotation makes no entry.
LEMMA RotatedItems ==
  ASSUME NEW q \in [Slots -> Seq(Entries)]
  PROVE  Items(Rotated(q)) \subseteq Items(q)
<1> DEFINE new == Rotated(q)
<1>1. new[0] = q[1] /\ new[1] = q[2] /\ new[2] = q[0]
  BY RotatedType
<1> HIDE DEF new
<1>2. Items(new) \subseteq Items(q)
  BY <1>1 DEF Items, Slots
<1> QED
  BY <1>2 DEF new

\* Every entry there is stands for a task that is somewhere.
LEMMA LiveTasks ==
  ASSUME TypeOK, NEW e \in Live
  PROVE  e \in Entries /\ TaskOf(e) \in In(gpu) \cup In(gen) \cup Taken
<1>1. CASE \E w \in Workers : e \in hand[w]
  BY <1>1 DEF TypeOK, Taken, Held
<1>2. ASSUME NEW q \in [Slots -> Seq(Entries)], e \in Items(q)
      PROVE  e \in Entries /\ TaskOf(e) \in In(q)
  BY <1>2, EntryTask DEF Items, In
<1>3. gpu \in [Slots -> Seq(Entries)] /\ gen \in [Slots -> Seq(Entries)]
  BY DEF TypeOK
<1> QED
  BY <1>1, <1>2, <1>3, LiveIs DEF InHand

\* No new entry, no new push, and the same clock.
LEMMA AlignKept ==
  ASSUME AlignInv, Live' \subseteq Live, UNCHANGED <<todo, clock>>,
         todo[Main] # <<>> => mpc' \in {"app", "terminated"}
  PROVE  AlignInv'
<1>1. RequestAligned'
  BY DEF AlignInv, RequestAligned
<1>2. \A c \in Clients : \A i \in DOMAIN todo[c] : \A e \in Live' :
         e.req = todo[c][i].req => Base(e) = clock
  BY DEF AlignInv
<1> QED
  BY <1>1, <1>2 DEF AlignInv, Base

\* A step that is no push, no new call and no swap makes no new entry.
LEMMA LiveShrinks ==
  ASSUME TypeOK, TaskInv,
         \/ Quiet \/ ClearQueues
         \/ \E w \in Workers : TakesGPU(w) \/ TakesGeneric(w) \/ Finishes(w)
  PROVE  Live' \subseteq Live /\ todo' = todo
<1>0. /\ gpu \in [Slots -> Seq(Entries)] /\ gen \in [Slots -> Seq(Entries)]
      /\ \A w \in Workers : \A x : hand' = [hand EXCEPT ![w] = x] =>
            hand'[w] = x /\ \A v \in Workers \ {w} : hand'[v] = hand[v]
  BY DEF TypeOK
<1>1. CASE Quiet
  BY <1>1, LiveIs, LiveWillBe DEF Quiet, InHand
<1>2. CASE ClearQueues
  <2>1. gpu' = [s \in Slots |-> <<>>] /\ gen' = [s \in Slots |-> <<>>]
        /\ hand' = hand /\ todo' = todo
    BY <1>2 DEF ClearQueues, worker, clients
  <2>2. Items(gpu') = {} /\ Items(gen') = {}
    BY <2>1 DEF Items
  <2> QED
    BY <2>1, <2>2, LiveIs, LiveWillBe DEF InHand
<1>3. ASSUME NEW w \in Workers, TakesGPU(w) PROVE Live' \subseteq Live /\ todo' = todo
  <2>1. /\ gpu[0] # <<>> /\ hand' = [hand EXCEPT ![w] = {Head(gpu[0])}] /\ gen' = gen
        /\ gpu' = [gpu EXCEPT ![0] = Tail(@)] /\ todo' = todo
    BY <1>3 DEF TakesGPU, PopGPU, clients
  <2>2. Head(gpu[0]) \in Items(gpu) /\ Items(gpu') \subseteq Items(gpu)
    BY <1>0, <2>1, PopItems
  <2>3. \A v \in Workers : hand'[v] \subseteq hand[v] \cup Items(gpu)
    BY <1>0, <2>1, <2>2
  <2> QED
    BY <2>1, <2>2, <2>3, LiveIs, LiveWillBe DEF InHand
<1>4. ASSUME NEW w \in Workers, TakesGeneric(w) PROVE Live' \subseteq Live /\ todo' = todo
  <2>1. /\ gen[0] # <<>> /\ hand' = [hand EXCEPT ![w] = {Head(gen[0])}] /\ gpu' = gpu
        /\ gen' = [gen EXCEPT ![0] = Tail(@)] /\ todo' = todo
    BY <1>4 DEF TakesGeneric, PopGeneric, clients
  <2>2. Head(gen[0]) \in Items(gen) /\ Items(gen') \subseteq Items(gen)
    BY <1>0, <2>1, PopItems
  <2>3. \A v \in Workers : hand'[v] \subseteq hand[v] \cup Items(gen)
    BY <1>0, <2>1, <2>2
  <2> QED
    BY <2>1, <2>2, <2>3, LiveIs, LiveWillBe DEF InHand
<1>5. ASSUME NEW w \in Workers, Finishes(w) PROVE Live' \subseteq Live /\ todo' = todo
  <2>1. gpu' = gpu /\ gen' = gen /\ hand' = [hand EXCEPT ![w] = {}] /\ todo' = todo
    BY <1>5 DEF Finishes, Record, RunGeneric, queues, clients
  <2>2. \A v \in Workers : hand'[v] \subseteq hand[v]
    BY <1>0, <2>1
  <2> QED
    BY <2>1, <2>2, LiveIs, LiveWillBe DEF InHand
<1> QED
  BY <1>1, <1>2, <1>3, <1>4, <1>5

\* The framework's thread does not leave its loop within a call of its own.
LEMMA MainStays ==
  ASSUME TypeOK, [Next]_vars, todo[Main] # <<>>, mpc \in {"app", "terminated"}
  PROVE  mpc' = mpc /\ clock' = clock
<1> USE DEF At, sync, main, worker, queues, lists, clients, past, Clients
<1>1. CASE \E w \in Workers : WorkerStep(w) \/ SpuriousWake(w)
  BY <1>1 DEF WorkerStep, SpuriousWake, LoopTest, PopGPU, Record, PopGeneric, RunGeneric,
              CheckBarrier, CountDown, LatchReleased, Predicate, Block, Wake
<1>2. CASE \E c \in Clients : Push(c)
  BY <1>2 DEF Push
<1>3. ~ MainStep
  <2>1. ~ \E w \in Workers : StartWorker(w) \/ MoveList(w)
    BY DEF StartWorker, MoveList
  <2>2. ~ (Started \/ Lock \/ CloseBarrier \/ LatchWait \/ LatchPassed \/ ResetLatch)
    BY DEF Started, Lock, CloseBarrier, LatchWait, LatchPassed, ResetLatch
  <2>3. ~ (SwapQueues \/ ClearQueues \/ ClearWorkers \/ Recreate \/ Resume \/ Notify)
    BY DEF SwapQueues, ClearQueues, ClearWorkers, Recreate, Resume, Notify
  <2>4. ~ (DropList \/ Execute \/ NotifyStop \/ Join)
    BY DEF DropList, Execute, NotifyStop, Join
  <2> QED
    BY <2>1, <2>2, <2>3, <2>4 DEF MainStep
<1>4. CASE AppStep
  <2>1. ~ (StartFails \/ Reorient \/ Terminate \/ Stop)
    BY DEF StartFails, Reorient, Terminate, Stop, Idle
  <2>2. ~ \E name \in {"present", "resize"} : Call(name)
    BY DEF Call, Idle
  <2>3. (\E c \in Clients, r \in Requests, k \in Kinds : Begin(c, r, k)) => mpc' = mpc /\ clock' = clock
    BY DEF Begin
  <2> QED
    BY <1>4, <2>1, <2>2, <2>3 DEF AppStep
<1>5. CASE UNCHANGED vars
  BY <1>5 DEF vars
<1> QED
  BY <1>1, <1>2, <1>3, <1>4, <1>5 DEF Next

\* Only the swap of the queues changes the clock.
LEMMA ClockMoves ==
  ASSUME TypeOK, [Next]_vars, ~ SwapQueues
  PROVE  clock' = clock
<1> USE DEF sync, main, worker, queues, lists, clients, past
<1>1. CASE \E w \in Workers : WorkerStep(w) \/ SpuriousWake(w)
  BY <1>1 DEF WorkerStep, SpuriousWake, LoopTest, PopGPU, Record, PopGeneric, RunGeneric,
              CheckBarrier, CountDown, LatchReleased, Predicate, Block, Wake
<1>2. CASE \E c \in Clients : Push(c)
  BY <1>2 DEF Push
<1>3. CASE MainStep
  <2>1. CASE \E w \in Workers : StartWorker(w) \/ MoveList(w)
    BY <2>1 DEF StartWorker, MoveList
  <2>2. CASE Started \/ Lock \/ CloseBarrier \/ LatchWait \/ LatchPassed \/ ResetLatch
    BY <2>2 DEF Started, Lock, CloseBarrier, LatchWait, LatchPassed, ResetLatch
  <2>3. CASE ClearQueues \/ ClearWorkers \/ Recreate \/ Resume \/ Notify
    BY <2>3 DEF ClearQueues, ClearWorkers, Recreate, Resume, Notify
  <2>4. CASE DropList \/ Execute \/ NotifyStop \/ Join
    BY <2>4 DEF DropList, Execute, NotifyStop, Join
  <2> QED
    BY <1>3, <2>1, <2>2, <2>3, <2>4 DEF MainStep
<1>4. CASE AppStep
  BY <1>4 DEF AppStep, StartFails, Reorient, Terminate, Stop, Call, Begin
<1>5. CASE UNCHANGED vars
  BY <1>5 DEF vars
<1> QED
  BY <1>1, <1>2, <1>3, <1>4, <1>5 DEF Next

\* A push adds a task with the base of its call's other tasks.
LEMMA AlignPush ==
  ASSUME TypeOK, TaskInv, AlignInv, NEW c \in Clients, Push(c)
  PROVE  AlignInv'
<1> DEFINE t == Head(todo[c])
<1>1. /\ UNCHANGED <<hand, clock, mpc>> /\ todo[c] # <<>>
      /\ todo' = [todo EXCEPT ![c] = Tail(@)]
      /\ \/ gpu' = Enqueue(gpu, t) /\ gen' = gen
         \/ gen' = Enqueue(gen, t) /\ gpu' = gpu
  BY DEF Push, worker, past, main
<1>2. /\ todo[c] \in Seq(Tasks) /\ clock \in 0..MaxCalls
      /\ gpu \in [Slots -> Seq(Entries)] /\ gen \in [Slots -> Seq(Entries)]
  BY DEF TypeOK
<1>3. t \in Tasks /\ 1 \in DOMAIN todo[c] /\ t = todo[c][1]
  BY <1>1, <1>2
<1> HIDE DEF t
<1>4. \A e \in Live' : e \in Live \/ (e.req = t.req /\ Base(e) = clock)
  <2>1. CASE gpu' = Enqueue(gpu, t) /\ gen' = gen
    <3>1. \A e \in Items(gpu') : e \in Items(gpu) \/ (e.req = t.req /\ Base(e) = clock)
      BY <1>2, <1>3, <2>1, EnqueueItems
    <3> QED
      BY <1>1, <2>1, <3>1, LiveIs, LiveWillBe DEF InHand
  <2>2. CASE gen' = Enqueue(gen, t) /\ gpu' = gpu
    <3>1. \A e \in Items(gen') : e \in Items(gen) \/ (e.req = t.req /\ Base(e) = clock)
      BY <1>2, <1>3, <2>2, EnqueueItems
    <3> QED
      BY <1>1, <2>2, <3>1, LiveIs, LiveWillBe DEF InHand
  <2> QED
    BY <1>1, <2>1, <2>2
<1>5. \A e \in Live' : e.req = t.req => Base(e) = clock
  BY <1>3, <1>4 DEF AlignInv
<1>6. \A d \in Clients : \A i \in DOMAIN todo'[d] : \E k \in DOMAIN todo[d] : todo'[d][i] = todo[d][k]
  <2>1. todo'[c] = Tail(todo[c]) /\ \A d \in Clients \ {c} : todo'[d] = todo[d]
    BY <1>1 DEF TypeOK
  <2>2. \A i \in DOMAIN Tail(todo[c]) : i + 1 \in DOMAIN todo[c] /\ Tail(todo[c])[i] = todo[c][i + 1]
    BY <1>1, <1>2
  <2> QED
    BY <2>1, <2>2
<1>7. \A d \in Clients : \A i \in DOMAIN todo'[d] : \A e \in Live' :
         e.req = todo'[d][i].req => Base(e) = clock'
  BY <1>1, <1>4, <1>5, <1>6 DEF AlignInv
<1>8. \A e, f \in Live' : e.req = f.req => Base(e) = Base(f)
  BY <1>4, <1>5 DEF AlignInv, RequestAligned, Base
<1>9. todo'[Main] # <<>> => mpc' \in {"app", "terminated"}
  <2>1. todo'[Main] # <<>> => todo[Main] # <<>>
    <3>1. Main \in Clients
      BY DEF Clients
    <3>2. CASE c = Main
      BY <1>1, <3>2
    <3>3. CASE c # Main
      BY <1>1, <3>1, <3>3 DEF TypeOK
    <3> QED
      BY <3>2, <3>3
  <2> QED
    BY <1>1, <2>1 DEF AlignInv
<1> QED
  BY <1>7, <1>8, <1>9 DEF AlignInv, RequestAligned, Base

\* A new call has a new request, of which there is no task.
LEMMA AlignBegin ==
  ASSUME TypeOK, TaskInv, AlignInv, NEW c \in Clients, NEW r \in Requests, NEW k \in Kinds,
         Begin(c, r, k)
  PROVE  AlignInv'
<1> DEFINE new == [i \in DOMAIN Script[k] |-> [req |-> r, op |-> Script[k][i]]]
<1>1. UNCHANGED <<gpu, gen, hand, clock, mpc>> /\ r \in fresh
      /\ todo' = [todo EXCEPT ![c] = new] /\ MayCall(c, k)
  BY DEF Begin, worker, queues, past, main
<1>2. \A i \in DOMAIN new : new[i].req = r
  OBVIOUS
<1> HIDE DEF new
<1>3. todo'[c] = new /\ \A d \in Clients \ {c} : todo'[d] = todo[d]
  BY <1>1 DEF TypeOK
<1>4. Live' = Live
  BY <1>1, LiveIs, LiveWillBe DEF InHand
<1>5. \A e \in Live : e.req # r
  <2> TAKE e \in Live
  <2>1. TaskOf(e) \in In(gpu) \cup In(gen) \cup Taken /\ TaskOf(e).req = e.req
    BY LiveTasks DEF TaskOf
  <2> QED
    BY <1>1, <2>1 DEF TaskInv, NowhereInv
<1>6. \A d \in Clients : \A i \in DOMAIN todo'[d] : \A e \in Live' :
         e.req = todo'[d][i].req => Base(e) = clock'
  BY <1>1, <1>2, <1>3, <1>4, <1>5 DEF AlignInv
<1>7. todo'[Main] # <<>> => mpc' \in {"app", "terminated"}
  <2>1. CASE c = Main
    BY <1>1, <2>1 DEF MayCall
  <2>2. CASE c # Main
    <3>1. todo'[Main] = todo[Main]
      BY <1>3, <2>2 DEF Clients
    <3> QED
      BY <1>1, <3>1 DEF AlignInv
  <2> QED
    BY <2>1, <2>2
<1>8. RequestAligned'
  BY <1>4 DEF AlignInv, RequestAligned
<1> QED
  BY <1>6, <1>7, <1>8 DEF AlignInv, Base

\* No call is half pushed when the clock moves.
LEMMA AlignSwap ==
  ASSUME TypeOK, LockInv, AlignInv, SwapQueues
  PROVE  AlignInv'
<1>1. UNCHANGED <<hand, todo>> /\ mpc = "swap" /\ gpu' = Rotated(gpu) /\ gen' = Rotated(gen)
  BY DEF SwapQueues, At, worker, clients
<1>2. \A c \in Clients : todo[c] = <<>>
  BY <1>1 DEF LockInv, AlignInv, Clients
<1>3. Live' \subseteq Live
  <2>1. Items(gpu') \subseteq Items(gpu) /\ Items(gen') \subseteq Items(gen)
    BY <1>1, RotatedItems DEF TypeOK
  <2> QED
    BY <1>1, <2>1, LiveIs, LiveWillBe DEF InHand
<1>4. RequestAligned'
  BY <1>3 DEF AlignInv, RequestAligned
<1>5. Main \in Clients
  BY DEF Clients
<1> QED
  BY <1>1, <1>2, <1>4, <1>5 DEF AlignInv

\* Every step keeps the distances.
LEMMA AlignStep ==
  ASSUME TypeOK, TaskInv, LockInv, AlignInv, [Next]_vars
  PROVE  AlignInv'
<1>1. CASE \/ Quiet \/ ClearQueues
           \/ \E w \in Workers : TakesGPU(w) \/ TakesGeneric(w) \/ Finishes(w)
  <2>1. CASE SwapQueues
    BY <2>1, AlignSwap
  <2>2. CASE ~ SwapQueues
    <3>1. Live' \subseteq Live /\ todo' = todo
      BY <1>1, LiveShrinks
    <3>2. clock' = clock
      BY <2>2, ClockMoves
    <3>3. todo[Main] # <<>> => mpc' \in {"app", "terminated"}
      BY MainStays DEF AlignInv
    <3> QED
      BY <3>1, <3>2, <3>3, AlignKept
  <2> QED
    BY <2>1, <2>2
<1> QED
  BY <1>1, AlignPush, AlignBegin, AlignSwap, StepKinds

\* When producers use only the calls that take the renderer's lock, no swap
\* comes between two pushes of one call.
THEOREM RequestsKeepTheirFrames ==
  ASSUME OffThreadKinds \subseteq LockedKinds
  PROVE  Spec => []RequestAligned
<1>1. Init => LockInv
  BY PoolAssumption DEF Init, LockInv, Writing, Clients
<1>2. ProtocolInv /\ LockInv /\ [Next]_vars => LockInv'
  BY LockStep
<1>3. Init => AlignInv
  <2> SUFFICES ASSUME Init PROVE AlignInv
    OBVIOUS
  <2>1. Live = {}
    BY DEF Init, Live
  <2> QED
    BY <2>1 DEF Init, AlignInv, RequestAligned, Clients
<1>4. TypeOK /\ TaskInv /\ LockInv /\ AlignInv /\ [Next]_vars => AlignInv'
  BY AlignStep
<1>5. AlignInv => RequestAligned
  BY DEF AlignInv
<1> QED
  BY <1>1, <1>2, <1>3, <1>4, <1>5, ProtocolInvariant, TypeCorrect, TasksInOnePlace, PTL DEF Spec

-----------------------------------------------------------------------------
(***************************************************************************)
(* The pool implements FrameBarrier: every step maps to a step of it or to *)
(* none.                                                                   *)
(***************************************************************************)
Stopped == mpc \in {"unwind", "notifyStop", "join", "gone"}

\* The status that BarrierInv does not speak of.
StatusInv == status = "DONE" <=> Stopped

\* The status changes together with the place of the framework's thread.
LEMMA StatusStep == ASSUME ProtocolInv, StatusInv, [Next]_vars PROVE StatusInv'
<1> USE DEF ProtocolInv, BarrierInv, Closed, Exclusive, StatusInv, Stopped, At, sync, main
<1>1. ASSUME UNCHANGED <<status, mpc>> PROVE StatusInv'
  BY <1>1
<1>2. CASE \/ \E w \in Workers : WorkerStep(w) \/ SpuriousWake(w)
           \/ \E c \in Clients : Push(c)
           \/ \E c \in Clients, r \in Requests, k \in Kinds : Begin(c, r, k)
           \/ \E w \in Workers : StartWorker(w)
           \/ UNCHANGED vars
  <2>1. ASSUME NEW w \in Workers, WorkerStep(w) \/ SpuriousWake(w) PROVE UNCHANGED <<status, mpc>>
    BY <2>1 DEF WorkerStep, SpuriousWake, LoopTest, PopGPU, Record, PopGeneric, RunGeneric,
                CheckBarrier, CountDown, LatchReleased, Predicate, Block, Wake
  <2>2. UNCHANGED <<status, mpc>>
    BY <1>2, <2>1 DEF Push, Begin, StartWorker, vars
  <2> QED
    BY <1>1, <2>2
<1>3. CASE MainStep
  <2>1. CASE \E w \in Workers : StartWorker(w) \/ MoveList(w)
    BY <2>1 DEF StartWorker, MoveList
  <2>2. CASE Started \/ Lock \/ CloseBarrier \/ LatchWait \/ LatchPassed \/ ResetLatch
    BY <2>2 DEF Started, Lock, CloseBarrier, LatchWait, LatchPassed, ResetLatch
  <2>3. CASE SwapQueues \/ ClearQueues \/ ClearWorkers \/ Recreate \/ Resume \/ Notify
    BY <2>3 DEF SwapQueues, ClearQueues, ClearWorkers, Recreate, Resume, Notify
  <2>4. CASE DropList \/ Execute \/ NotifyStop \/ Join
    BY <2>4 DEF DropList, Execute, NotifyStop, Join
  <2> QED
    BY <1>3, <2>1, <2>2, <2>3, <2>4 DEF MainStep
<1>4. CASE StartFails \/ Reorient \/ Terminate \/ Stop \/ \E name \in {"present", "resize"} : Call(name)
  BY <1>4 DEF StartFails, Reorient, Terminate, Stop, Call, Idle
<1> QED
  BY <1>2, <1>3, <1>4 DEF Next, AppStep

\* The phase, told by where the framework's thread is.
LEMMA PhaseIs ==
  ASSUME ProtocolInv, StatusInv
  PROVE  Phase = IF Stopped THEN "stopped"
                 ELSE IF Exclusive THEN "exclusive"
                 ELSE IF mpc \in {"wait", "waiting"} THEN "closing" ELSE "open"
<1>1. /\ status = "DONE" <=> Stopped
      /\ status = "BARRIER" <=> mpc \in {"wait", "waiting"} \/ Exclusive
  BY DEF ProtocolInv, BarrierInv, Closed, StatusInv
<1>2. CASE status = "DONE"
  BY <1>1, <1>2 DEF Phase
<1>3. CASE status = "BARRIER"
  BY <1>1, <1>3 DEF Phase, Exclusive
<1>4. CASE status # "DONE" /\ status # "BARRIER"
  BY <1>1, <1>4 DEF Phase
<1> QED
  BY <1>2, <1>3, <1>4

\* The steps of FrameBarrier that concern the phase and the running workers.
Enters(w) == Phase \in {"open", "stopped"} /\ w \notin Inside /\ Inside' = Inside \cup {w}
Leaves(w) == Phase \in {"closing", "stopped"} /\ Inside' = Inside \ {w}
PhaseStep ==
    \/ Phase' = Phase /\ \/ Inside' = Inside
                         \/ \E w \in Workers : Enters(w) \/ Leaves(w)
    \/ /\ Inside' = Inside
       /\ \/ Phase = "open" /\ Phase' = "closing"
          \/ Phase = "closing" /\ Inside = {} /\ Phase' = "exclusive"
          \/ Phase = "exclusive" /\ Phase' = "open"
          \/ Phase \in {"open", "exclusive"} /\ Phase' = "stopped"

\* A worker starts and stops taking tasks in phases that allow it.
LEMMA WorkerPhase ==
  ASSUME ProtocolInv, StatusInv, NEW w \in Workers,
         WorkerStep(w) \/ SpuriousWake(w) \/ StartWorker(w)
  PROVE  /\ PhaseStep /\ Phase' = Phase
         /\ TakesGPU(w) \/ TakesGeneric(w) \/ Finishes(w) => Inside' = Inside /\ w \in Inside
<1> USE DEF Go, TypeOK, Inside, Parked
<1>1. UNCHANGED <<status, mpc>> /\ Phase' = Phase
  <2>1. UNCHANGED <<status, mpc>>
    BY DEF WorkerStep, SpuriousWake, StartWorker, LoopTest, PopGPU, Record, PopGeneric, RunGeneric,
           CheckBarrier, CountDown, LatchReleased, Predicate, Block, Wake, At, sync, main
  <2> QED
    BY <2>1 DEF Phase, Exclusive
<1>2. wpc \in [Workers -> WorkerPCs]
  BY DEF ProtocolInv
<1>3. CASE PopGPU(w) \/ Record(w) \/ PopGeneric(w) \/ RunGeneric(w) \/ CheckBarrier(w)
  <2>1. Inside' = Inside /\ w \in Inside
    BY <1>2, <1>3 DEF PopGPU, Record, PopGeneric, RunGeneric, CheckBarrier
  <2> QED
    BY <1>1, <2>1 DEF PhaseStep
<1>4. ASSUME LatchReleased(w) \/ Block(w) \/ Wake(w) \/ SpuriousWake(w) PROVE Inside' = Inside
  BY <1>2, <1>4 DEF LatchReleased, Block, Wake, SpuriousWake
<1>5. ASSUME LoopTest(w) PROVE Inside' = Inside \/ Leaves(w)
  <2>1. CASE status = "DONE"
    <3>1. Phase = "stopped"
      BY <2>1, PhaseIs DEF StatusInv
    <3>2. Inside' = Inside \ {w}
      BY <1>2, <1>5, <2>1 DEF LoopTest
    <3> QED
      BY <3>1, <3>2 DEF Leaves
  <2>2. CASE status # "DONE"
    BY <1>2, <1>5, <2>2 DEF LoopTest
  <2> QED
    BY <2>1, <2>2
<1>6. ASSUME CountDown(w) PROVE Leaves(w)
  <2>1. mpc \in {"wait", "waiting"}
    BY <1>6 DEF CountDown, ProtocolInv, LatchInv
  <2>2. Phase = "closing"
    BY <2>1, PhaseIs DEF Stopped, Exclusive
  <2>3. Inside' = Inside \ {w}
    BY <1>2, <1>6 DEF CountDown
  <2> QED
    BY <2>2, <2>3 DEF Leaves
<1>7. ASSUME Predicate(w) PROVE Inside' = Inside \/ Enters(w)
  <2>1. CASE status = "BARRIER"
    BY <1>2, <1>7, <2>1 DEF Predicate
  <2>2. CASE status # "BARRIER"
    <3>1. Phase \in {"open", "stopped"}
      BY <2>2, PhaseIs DEF ProtocolInv, BarrierInv, Closed
    <3>2. w \notin Inside /\ Inside' = Inside \cup {w}
      BY <1>2, <1>7, <2>2 DEF Predicate
    <3> QED
      BY <3>1, <3>2 DEF Enters
  <2> QED
    BY <2>1, <2>2
<1>8. ASSUME StartWorker(w) PROVE Enters(w)
  <2>1. Phase = "open"
    BY <1>8, PhaseIs DEF StartWorker, At, Stopped, Exclusive
  <2>2. w \notin Inside /\ Inside' = Inside \cup {w}
    BY <1>2, <1>8 DEF StartWorker
  <2> QED
    BY <2>1, <2>2 DEF Enters
<1>9. TakesGPU(w) \/ TakesGeneric(w) \/ Finishes(w)
        => PopGPU(w) \/ Record(w) \/ PopGeneric(w) \/ RunGeneric(w)
  BY DEF TakesGPU, TakesGeneric, Finishes
<1>10. ASSUME ~ (PopGPU(w) \/ Record(w) \/ PopGeneric(w) \/ RunGeneric(w) \/ CheckBarrier(w))
       PROVE  PhaseStep
  BY <1>1, <1>4, <1>5, <1>6, <1>7, <1>8, <1>10 DEF PhaseStep, WorkerStep
<1> QED
  BY <1>1, <1>3, <1>9, <1>10

\* The phase after a step, likewise.
LEMMA PhaseWillBe ==
  ASSUME ProtocolInv', StatusInv'
  PROVE  Phase' = IF Stopped' THEN "stopped"
                  ELSE IF Exclusive' THEN "exclusive"
                  ELSE IF mpc' \in {"wait", "waiting"} THEN "closing" ELSE "open"
<1>1. /\ status' = "DONE" <=> Stopped'
      /\ status' = "BARRIER" <=> mpc' \in {"wait", "waiting"} \/ Exclusive'
  BY DEF ProtocolInv, BarrierInv, Closed, StatusInv
<1>2. CASE status' = "DONE"
  BY <1>1, <1>2 DEF Phase
<1>3. CASE status' = "BARRIER"
  BY <1>1, <1>3 DEF Phase, Exclusive
<1>4. CASE status' # "DONE" /\ status' # "BARRIER"
  BY <1>1, <1>4 DEF Phase
<1> QED
  BY <1>2, <1>3, <1>4

\* The framework's thread gets exclusive access only when no worker runs.
LEMMA MainPhase ==
  ASSUME ProtocolInv, StatusInv, ProtocolInv', StatusInv', MainStep \/ AppStep,
         ~ \E w \in Workers : StartWorker(w)
  PROVE  PhaseStep
<1> USE DEF At, main, worker
<1>1. wpc' = wpc
  <2>1. CASE MainStep
    BY <2>1 DEF MainStep, MoveList, Started, Lock, CloseBarrier, LatchWait, LatchPassed, ResetLatch,
                SwapQueues, ClearQueues, ClearWorkers, Recreate, Resume, Notify, DropList, Execute,
                NotifyStop, Join
  <2>2. CASE AppStep
    BY <2>2 DEF AppStep, StartFails, Reorient, Terminate, Stop, Call, Begin
  <2> QED
    BY <2>1, <2>2
<1>2. Inside' = Inside
  BY <1>1 DEF Inside, Parked
<1>3. ASSUME counted = Workers PROVE Inside = {}
  BY <1>3 DEF Inside, ProtocolInv, LatchInv
<1>4. latchCount = 0 => counted = Workers
  BY Missing DEF ProtocolInv, LatchInv, TypeOK
<1> USE PhaseIs, PhaseWillBe DEF PhaseStep, Stopped, Exclusive
<1>5. ASSUME mpc' = mpc PROVE PhaseStep
  BY <1>2, <1>5
<1>6. CASE Started \/ Lock \/ CloseBarrier
  BY <1>2, <1>6 DEF Started, Lock, CloseBarrier
<1>7. CASE LatchWait
  BY <1>2, <1>3, <1>4, <1>7 DEF LatchWait
<1>8. CASE LatchPassed
  BY <1>2, <1>3, <1>8 DEF LatchPassed, ProtocolInv, BarrierInv
<1>9. CASE ResetLatch \/ SwapQueues \/ ClearQueues \/ ClearWorkers
  BY <1>2, <1>9 DEF ResetLatch, SwapQueues, ClearQueues, ClearWorkers
<1>10. CASE Recreate \/ Resume \/ Notify
  BY <1>2, <1>10 DEF Recreate, Resume, Notify
<1>11. CASE (\E w \in Workers : MoveList(w)) \/ DropList \/ Execute \/ NotifyStop \/ Join
  BY <1>2, <1>11 DEF MoveList, DropList, Execute, NotifyStop, Join
<1>12. CASE StartFails \/ Reorient \/ Terminate \/ Stop \/ \E name \in {"present", "resize"} : Call(name)
  BY <1>2, <1>12 DEF StartFails, Reorient, Terminate, Stop, Call, Idle
<1>13. CASE \E c \in Clients, r \in Requests, k \in Kinds : Begin(c, r, k)
  BY <1>5, <1>13 DEF Begin
<1> QED
  BY <1>6, <1>7, <1>8, <1>9, <1>10, <1>11, <1>12, <1>13 DEF MainStep, AppStep

\* A step that leaves the tasks alone, or a phase that stays, as FrameBarrier has it.
LEMMA PhaseSimulates ==
  ASSUME PhaseStep, Pending' = Pending, Taken' = Taken
  PROVE  [Barrier!Next]_(Barrier!vars)
  BY DEF PhaseStep, Enters, Leaves, Barrier!Next, Barrier!vars, Barrier!Run, Barrier!Park,
         Barrier!Close, Barrier!Enter, Barrier!Open, Barrier!Stop

\* Every step moves the phase as FrameBarrier does.
LEMMA AnyPhase ==
  ASSUME ProtocolInv, StatusInv, ProtocolInv', StatusInv', [Next]_vars
  PROVE  /\ PhaseStep
         /\ (\E c \in Clients : Push(c)) \/ ClearQueues => Phase' = Phase /\ Inside' = Inside
         /\ ClearQueues => Phase = "exclusive"
<1>1. (\E c \in Clients : Push(c)) \/ UNCHANGED vars => Phase' = Phase /\ Inside' = Inside
  BY DEF Push, Phase, Exclusive, Inside, Parked, vars, sync, main, worker
<1>2. ClearQueues => Phase = "exclusive" /\ Phase' = "exclusive" /\ Inside' = Inside
  <2> SUFFICES ASSUME ClearQueues
               PROVE  Phase = "exclusive" /\ Phase' = "exclusive" /\ Inside' = Inside
    OBVIOUS
  <2>1. mpc = "clear" /\ mpc' = "clearWorkers" /\ wpc' = wpc
    BY DEF ClearQueues, At, worker
  <2> QED
    BY <2>1, PhaseIs, PhaseWillBe DEF Stopped, Exclusive, Inside, Parked
<1>3. PhaseStep
  <2>1. CASE \E w \in Workers : WorkerStep(w) \/ SpuriousWake(w) \/ StartWorker(w)
    BY <2>1, WorkerPhase
  <2>2. CASE (MainStep \/ AppStep) /\ ~ \E w \in Workers : StartWorker(w)
    BY <2>2, MainPhase
  <2>3. CASE (\E c \in Clients : Push(c)) \/ UNCHANGED vars
    BY <1>1, <2>3 DEF PhaseStep
  <2> QED
    BY <2>1, <2>2, <2>3 DEF Next
<1> QED
  BY <1>1, <1>2, <1>3

\* What a worker takes leaves the queues.
LEMMA TakeMoves ==
  ASSUME TypeOK, TaskInv, NEW w \in Workers, TakesGPU(w) \/ TakesGeneric(w)
  PROVE  \E t \in Tasks : /\ t \in In(gpu) \cup In(gen)
                          /\ In(gpu') \cup In(gen') = (In(gpu) \cup In(gen)) \ {t}
                          /\ Taken' = Taken \cup {t}
<1>1. ~ Busy(w) /\ UNCHANGED ran
  BY DEF TakesGPU, TakesGeneric, PopGPU, PopGeneric, Busy, past
<1>2. /\ gpu \in [Slots -> Seq(Entries)] /\ gen \in [Slots -> Seq(Entries)]
      /\ Distinct(gpu) /\ Distinct(gen) /\ Disjoint(In(gpu), In(gen)) /\ HandInv
  BY DEF TypeOK, TaskInv, QueuesInv
<1>3. CASE TakesGPU(w)
  <2> DEFINE e == Head(gpu[0])
  <2>1. /\ gpu[0] # <<>> /\ hand' = [hand EXCEPT ![w] = {e}] /\ gen' = gen
        /\ gpu' = [gpu EXCEPT ![0] = Tail(@)]
    BY <1>3 DEF TakesGPU, PopGPU
  <2>2. e \in Entries /\ TaskOf(e) \in In(gpu) /\ In(gpu') = In(gpu) \ {TaskOf(e)}
    BY <1>2, <2>1, PopTasks
  <2> HIDE DEF e
  <2>3. Taken' = Taken \cup {TaskOf(e)}
    BY <1>1, <1>2, <2>1, <2>2, HandTakes
  <2> QED
    BY <1>2, <2>1, <2>2, <2>3, EntryTask DEF Disjoint
<1>4. CASE TakesGeneric(w)
  <2> DEFINE e == Head(gen[0])
  <2>1. /\ gen[0] # <<>> /\ hand' = [hand EXCEPT ![w] = {e}] /\ gpu' = gpu
        /\ gen' = [gen EXCEPT ![0] = Tail(@)]
    BY <1>4 DEF TakesGeneric, PopGeneric
  <2>2. e \in Entries /\ TaskOf(e) \in In(gen) /\ In(gen') = In(gen) \ {TaskOf(e)}
    BY <1>2, <2>1, PopTasks
  <2> HIDE DEF e
  <2>3. Taken' = Taken \cup {TaskOf(e)}
    BY <1>1, <1>2, <2>1, <2>2, HandTakes
  <2> QED
    BY <1>2, <2>1, <2>2, <2>3, EntryTask DEF Disjoint
<1> QED
  BY <1>3, <1>4

\* Every step of the pool is a step of FrameBarrier, or none.
LEMMA Simulation ==
  ASSUME ProtocolInv, StatusInv, TaskInv, ProtocolInv', StatusInv', [Next]_vars
  PROVE  [Barrier!Next]_(Barrier!vars)
<1>1. TypeOK /\ Pending = In(gpu) \cup In(gen) /\ Pending' = In(gpu') \cup In(gen')
  <2>1. TypeOK /\ TypeOK'
    BY DEF ProtocolInv
  <2>2. /\ gpu \in [Slots -> Seq(Entries)] /\ gen \in [Slots -> Seq(Entries)]
        /\ gpu' \in [Slots -> Seq(Entries)] /\ gen' \in [Slots -> Seq(Entries)]
    BY <2>1 DEF TypeOK
  <2>3. Pending = Waiting(gpu, gen) /\ Pending' = Waiting(gpu', gen')
    BY DEF Pending, Queued, Waiting
  <2> QED
    BY <2>1, <2>2, <2>3, QueuedIs
<1>2. PhaseStep
  BY AnyPhase
<1>3. CASE Quiet \/ SwapQueues
  BY <1>1, <1>2, <1>3, MoveStep, PhaseSimulates
<1>4. ASSUME NEW w \in Workers, TakesGPU(w) \/ TakesGeneric(w)
      PROVE  [Barrier!Next]_(Barrier!vars)
  <2>1. Phase' = Phase /\ Inside' = Inside /\ w \in Inside
    BY <1>4, WorkerPhase DEF TakesGPU, TakesGeneric, WorkerStep
  <2>2. PICK t \in Tasks : /\ t \in Pending /\ Pending' = Pending \ {t}
                           /\ Taken' = Taken \cup {t}
    BY <1>1, <1>4, TakeMoves
  <2>3. Barrier!Take(t)
    BY <2>1, <2>2 DEF Barrier!Take
  <2> QED
    BY <2>3 DEF Barrier!Next
<1>5. ASSUME NEW w \in Workers, Finishes(w) PROVE [Barrier!Next]_(Barrier!vars)
  <2>1. Taken' = Taken
    BY <1>1, <1>5, HandFinishes DEF TaskInv
  <2>2. Pending' = Pending
    BY <1>1, <1>5 DEF Finishes, Record, RunGeneric, queues
  <2> QED
    BY <1>2, <2>1, <2>2, PhaseSimulates
<1>6. ASSUME NEW c \in Clients, Push(c) PROVE [Barrier!Next]_(Barrier!vars)
  <2> DEFINE t == Head(todo[c])
  <2>1. /\ t \in Tasks /\ t \notin Pending \cup Taken
        /\ Pending' = Pending \cup {t} /\ Taken' = Taken
    BY <1>1, <1>6, PushStep
  <2>2. Phase' = Phase /\ Inside' = Inside
    BY <1>6, AnyPhase
  <2> HIDE DEF t
  <2>3. Barrier!Submit(t)
    BY <2>1, <2>2 DEF Barrier!Submit
  <2> QED
    BY <2>1, <2>3 DEF Barrier!Next
<1>7. ASSUME NEW c \in Clients, NEW r \in Requests, NEW k \in Kinds, Begin(c, r, k)
      PROVE  [Barrier!Next]_(Barrier!vars)
  <2>1. UNCHANGED <<gpu, gen, hand, ran>>
    BY <1>7 DEF Begin, worker, queues, past
  <2>2. Pending' = Pending /\ Taken' = Taken
    BY <1>1, <2>1 DEF Taken, Held
  <2> QED
    BY <1>2, <2>2, PhaseSimulates
<1>8. CASE ClearQueues
  <2>1. Pending' = {} /\ Taken' = Taken
    BY <1>1, <1>8, ClearStep
  <2>2. Phase = "exclusive" /\ Phase' = Phase /\ Inside' = Inside
    BY <1>8, AnyPhase
  <2>3. Barrier!Discard
    BY <2>1, <2>2 DEF Barrier!Discard
  <2> QED
    BY <2>3 DEF Barrier!Next
<1> QED
  BY <1>1, <1>3, <1>4, <1>5, <1>6, <1>7, <1>8, StepKinds

\* The initial states map to the abstract one.
LEMMA InitSimulates == Init => Barrier!Init
<1> SUFFICES ASSUME Init PROVE Barrier!Init
  OBVIOUS
<1>1. Phase = "open"
  BY DEF Init, Phase, Exclusive
<1>2. Inside = {} /\ Taken = {}
  BY DEF Init, Inside, Taken, Held
<1>3. Pending = {}
  <2>1. gpu \in [Slots -> Seq(Entries)] /\ gen \in [Slots -> Seq(Entries)]
    BY DEF Init
  <2>2. Pending = In(gpu) \cup In(gen)
    <3>1. Pending = Waiting(gpu, gen)
      BY DEF Pending, Queued, Waiting
    <3> QED
      BY <2>1, <3>1, QueuedIs
  <2>3. In(gpu) = {} /\ In(gen) = {}
    BY NoTasks DEF Init
  <2> QED
    BY <2>2, <2>3
<1> QED
  BY <1>1, <1>2, <1>3 DEF Barrier!Init

\* ThreadPool, its workers and the framework's calls implement FrameBarrier.
THEOREM ImplementsFrameBarrier == Spec => KeepsPromise
<1>1. Init => StatusInv
  BY DEF Init, StatusInv, Stopped
<1>2. ProtocolInv /\ StatusInv /\ [Next]_vars => StatusInv'
  BY StatusStep
<1>3. Spec => []StatusInv
  BY <1>1, <1>2, ProtocolInvariant, PTL DEF Spec
<1>4. ProtocolInv /\ StatusInv /\ TaskInv /\ ProtocolInv' /\ StatusInv' /\ [Next]_vars
        => [Barrier!Next]_(Barrier!vars)
  BY Simulation
<1> QED
  BY <1>3, <1>4, InitSimulates, ProtocolInvariant, TasksInOnePlace, PTL
     DEF Spec, KeepsPromise, Barrier!Spec
===============================================================================
