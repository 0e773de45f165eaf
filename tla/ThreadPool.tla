----------------------------- MODULE ThreadPool -----------------------------
(***************************************************************************)
(* The heart of takoyaki: ThreadPool (thread_pool.h/.cpp), the DX12Worker  *)
(* threads (dx12_worker.cpp), the three-slot work queues and the framework *)
(* calls that drive them (framework_impl.cpp), with the threads of the     *)
(* application that submit work through the renderer.                      *)
(*                                                                         *)
(* One action is one access to shared state: an atomic load or store of    *)
(* status_, one locked queue operation, one latch or condition variable    *)
(* operation.  The boost::latch and the std::condition_variable are        *)
(* modelled from how the code uses them.                                   *)
(***************************************************************************)
EXTENDS WorkQueues, Sequences, FiniteSets

CONSTANTS Workers,         \* the worker threads
          Producers,       \* application threads other than the framework's
          Main,            \* the thread that calls Framework
          Requests,        \* identities of API requests, each used once
          OffThreadKinds,  \* kinds of request Producers make
          MaxCalls         \* bound on the present/resize/reorient calls

ASSUME PoolAssumption ==
    /\ Workers # {} /\ IsFiniteSet(Workers)
    /\ Main \notin Workers \cup Producers
    /\ Workers \cap Producers = {}
    /\ MaxCalls \in Nat

Clients == Producers \cup {Main}
N == Cardinality(Workers)              \* numWorkers_

VARIABLES
    status,      \* ThreadPool::status_
    latchCount,  \* boost::latch count_
    latchWait,   \* threads blocked in the latch until its next generation
    condWait,    \* workers blocked in cond_
    wpc,         \* where each worker is in DX12Worker::main
    hand,        \* the task a worker popped (a set of at most one)
    cmdList,     \* DX12Worker::commandList_, per worker
    mpc,         \* where the framework's thread is
    call,        \* the Framework call it executes
    calls,       \* number of calls made, bounded by MaxCalls
    left, cur,   \* submitGPUCommandLists: workers to visit, worker visited
    devList,     \* DX12Device's command list of the current frame
    gpu, gen,    \* gpuQueues_ and genericWorkQueues_, slots 0..2
    todo,        \* the pushes a client's API call still has to make
    fresh,       \* requests not made yet
    readers,     \* clients that hold the renderer's mutex shared
    counted,     \* history: workers that counted down since the last reset
    clock,       \* history: number of queue swaps
    ran,         \* history: tasks run to the end
    executed     \* history: commands handed to the GPU

sync    == <<status, latchCount, latchWait, condWait, counted>>
main    == <<mpc, call, calls, left, cur>>
worker  == <<wpc, hand>>
queues  == <<gpu, gen>>
lists   == <<cmdList, devList, executed>>
clients == <<todo, fresh, readers>>
past    == <<clock, ran>>
vars == <<sync, main, worker, queues, lists, clients, past>>

-----------------------------------------------------------------------------
(***************************************************************************)
(* The work.  A request is one API call; the tasks it submits are named    *)
(* after the functions bound in dx12_context.cpp, each for one queue slot. *)
(***************************************************************************)
\* createBuffer: create now, discard the upload buffer one frame later, free
\* the CPU copy two frames later.
BufferScript == <<"create", "cleanupCreate", "cleanupIntermediate">>

\* destroyResource: discard now, erase the object one frame later.
DestroyScript == <<"destroyMain", "destroyDone">>

\* RendererImpl::buildCommand, from the destructor of a Command.
CommandScript == <<"buildCommand">>

\* compilePipelineStateObjects, with one pipeline state.
CompileScript == <<"compileMain">>

Script == [buffer  |-> BufferScript,  destroy |-> DestroyScript,
           command |-> CommandScript, compile |-> CompileScript]
Kinds == DOMAIN Script

\* The calls that take the renderer's shared lock; destroyResource and
\* buildCommand do not.
LockedKinds == {"buffer", "compile"}

Ops == {"create", "cleanupCreate", "cleanupIntermediate", "destroyMain",
        "destroyDone", "buildCommand", "compileMain"}
GPUOps == {"create", "cleanupCreate", "destroyMain", "buildCommand"}

Slot(op) == CASE op \in {"cleanupCreate", "destroyDone"} -> 1
              [] op = "cleanupIntermediate" -> 2
              [] OTHER -> 0

\* What a GPU task may return; only buildCommand can fail.
Results(op) == IF op = "buildCommand" THEN BOOLEAN ELSE {TRUE}

Tasks == [req : Requests, op : Ops]

\* A queued task; due is the number of swaps after which it is to run.
Entries == [req : Requests, op : Ops, due : 0..(MaxCalls + 2)]
TaskOf(e) == [req |-> e.req, op |-> e.op]

-----------------------------------------------------------------------------
Parked(w) == wpc[w] \in {"latched", "pred", "block", "asleep"}

\* The framework's thread holds the renderer's mutex exclusively.
Writing == /\ call \in {"present", "resize"}
           /\ mpc \in {"barrier", "wait", "waiting", "reset", "swap", "clear",
                       "clearWorkers", "recreate", "resume", "notify"}

\* The framework's thread is past the barrier and has not resumed the pool.
Exclusive == mpc \in {"reset", "swap", "clear", "clearWorkers", "recreate",
                      "resume", "terminated"}

Init == /\ status = "NONE"
        /\ latchCount = N /\ latchWait = {} /\ condWait = {} /\ counted = {}
        /\ wpc = [w \in Workers |-> "unborn"]
        /\ hand = [w \in Workers |-> {}]
        /\ cmdList = [w \in Workers |-> {}]
        /\ mpc = "spawn" /\ call = "none" /\ calls = 0
        /\ left = {} /\ cur = {}
        /\ devList = {} /\ executed = {}
        /\ gpu = [s \in Slots |-> <<>>]
        /\ gen = [s \in Slots |-> <<>>]
        /\ todo = [c \in Clients |-> <<>>]
        /\ fresh = Requests /\ readers = {}
        /\ clock = 0 /\ ran = {}

-----------------------------------------------------------------------------
(***************************************************************************)
(* Worker threads: DX12Worker::main.                                       *)
(***************************************************************************)
Go(w, to) == wpc' = [wpc EXCEPT ![w] = to]

\* The loop condition.
LoopTest(w) ==
    /\ wpc[w] = "loop"
    /\ Go(w, IF status = "DONE" THEN "done" ELSE "gpu")
    /\ UNCHANGED <<sync, main, hand, queues, lists, clients, past>>

\* tryPopGPUTask.
PopGPU(w) ==
    /\ wpc[w] = "gpu"
    /\ IF gpu[0] # <<>>
       THEN /\ hand' = [hand EXCEPT ![w] = {Head(gpu[0])}]
            /\ gpu' = [gpu EXCEPT ![0] = Tail(@)]
            /\ Go(w, "record")
       ELSE Go(w, "gen") /\ UNCHANGED <<hand, gpu>>
    /\ UNCHANGED <<sync, main, gen, lists, clients, past>>

\* The GPU task builds a command list, which the worker keeps if the task says
\* so and closes otherwise.
Record(w) ==
    /\ wpc[w] = "record"
    /\ \E e \in hand[w] :
         /\ \E ok \in Results(e.op) :
              cmdList' = IF ok THEN [cmdList EXCEPT ![w] = @ \cup {TaskOf(e)}]
                               ELSE cmdList
         /\ ran' = ran \cup {TaskOf(e)}
    /\ hand' = [hand EXCEPT ![w] = {}]
    /\ Go(w, "loop")
    /\ UNCHANGED <<sync, main, queues, devList, executed, clients, clock>>

\* tryPopGenericTask, after the GPU queue was found empty.
PopGeneric(w) ==
    /\ wpc[w] = "gen"
    /\ IF gen[0] # <<>>
       THEN /\ hand' = [hand EXCEPT ![w] = {Head(gen[0])}]
            /\ gen' = [gen EXCEPT ![0] = Tail(@)]
            /\ Go(w, "run")
       ELSE Go(w, "check") /\ UNCHANGED <<hand, gen>>
    /\ UNCHANGED <<sync, main, gpu, lists, clients, past>>

RunGeneric(w) ==
    /\ wpc[w] = "run"
    /\ \E e \in hand[w] : ran' = ran \cup {TaskOf(e)}
    /\ hand' = [hand EXCEPT ![w] = {}]
    /\ Go(w, "loop")
    /\ UNCHANGED <<sync, main, queues, lists, clients, clock>>

\* Both queues were empty some time ago: is it a barrier?
CheckBarrier(w) ==
    /\ wpc[w] = "check"
    /\ Go(w, IF status = "BARRIER" THEN "latch" ELSE "loop")
    /\ UNCHANGED <<sync, main, hand, queues, lists, clients, past>>

\* CountDown without the new generation (a mutant).
CountDownSilent(w) ==
    /\ wpc[w] = "latch"
    /\ latchCount' = latchCount - 1
    /\ counted' = counted \cup {w}
    /\ latchWait' = latchWait \cup {w} /\ Go(w, "latched")
    /\ UNCHANGED <<status, condWait, main, hand, queues, lists, clients, past>>

\* latch_.count_down_and_wait(): the last one starts a new generation, which
\* releases everybody who waits.
CountDown(w) ==
    /\ wpc[w] = "latch"
    /\ latchCount' = latchCount - 1
    /\ counted' = counted \cup {w}
    /\ IF latchCount = 1
       THEN latchWait' = {} /\ Go(w, "pred")
       ELSE latchWait' = latchWait \cup {w} /\ Go(w, "latched")
    /\ UNCHANGED <<status, condWait, main, hand, queues, lists, clients, past>>

LatchReleased(w) ==
    /\ wpc[w] = "latched"
    /\ w \notin latchWait
    /\ Go(w, "pred")
    /\ UNCHANGED <<sync, main, hand, queues, lists, clients, past>>

\* A wait that does not ask why it woke up (a mutant).
PredicateNot(w) ==
    /\ wpc[w] = "pred"
    /\ Go(w, "loop")
    /\ UNCHANGED <<sync, main, hand, queues, lists, clients, past>>

\* cond_.wait with a predicate evaluates the predicate first.
Predicate(w) ==
    /\ wpc[w] = "pred"
    /\ Go(w, IF status # "BARRIER" THEN "loop" ELSE "block")
    /\ UNCHANGED <<sync, main, hand, queues, lists, clients, past>>

\* The predicate was false, so the worker blocks.  The notifier does not hold
\* the worker's mutex_: a notification before this step is lost.
Block(w) ==
    /\ wpc[w] = "block"
    /\ condWait' = condWait \cup {w}
    /\ Go(w, "asleep")
    /\ UNCHANGED <<status, latchCount, latchWait, counted, main, hand, queues,
                   lists, clients, past>>

Wake(w) ==
    /\ wpc[w] = "asleep"
    /\ w \notin condWait
    /\ Go(w, "pred")
    /\ UNCHANGED <<sync, main, hand, queues, lists, clients, past>>

\* A condition variable may wake up on its own.
SpuriousWake(w) ==
    /\ wpc[w] = "asleep"
    /\ w \in condWait
    /\ condWait' = condWait \ {w}
    /\ Go(w, "pred")
    /\ UNCHANGED <<status, latchCount, latchWait, counted, main, hand, queues,
                   lists, clients, past>>

WorkerStep(w) ==
    \/ LoopTest(w) \/ PopGPU(w) \/ Record(w) \/ PopGeneric(w) \/ RunGeneric(w)
    \/ CheckBarrier(w) \/ CountDown(w) \/ LatchReleased(w) \/ Predicate(w)
    \/ Block(w) \/ Wake(w)

-----------------------------------------------------------------------------
(***************************************************************************)
(* Clients: API calls that submit tasks.                                   *)
(***************************************************************************)

\* Producers are at work only while the framework is: an application stops
\* them before it calls terminate() or destroys the framework.
Serving == /\ call # "terminate"
           /\ mpc \notin {"spawn", "unwind", "notifyStop", "join", "gone"}

MayCall(c, k) == IF c = Main THEN mpc \in {"app", "terminated"}
                 ELSE Serving /\ k \in OffThreadKinds

\* Begin that forgets the shared lock (a mutant).
BeginUnlocked(c, r, k) ==
    /\ r \in fresh
    /\ todo[c] = <<>>
    /\ MayCall(c, k)
    /\ todo' = [todo EXCEPT ![c] =
                  [i \in DOMAIN Script[k] |-> [req |-> r, op |-> Script[k][i]]]]
    /\ fresh' = fresh \ {r}
    /\ UNCHANGED <<readers, sync, main, worker, queues, lists, past>>

\* The API call starts: a locked kind waits for a present or a resize to end.
Begin(c, r, k) ==
    /\ r \in fresh
    /\ todo[c] = <<>>
    /\ MayCall(c, k)
    /\ k \in LockedKinds => ~Writing
    /\ readers' = IF k \in LockedKinds THEN readers \cup {c} ELSE readers
    /\ todo' = [todo EXCEPT ![c] =
                  [i \in DOMAIN Script[k] |-> [req |-> r, op |-> Script[k][i]]]]
    /\ fresh' = fresh \ {r}
    /\ UNCHANGED <<sync, main, worker, queues, lists, past>>

Enqueue(queue, t) ==
    [queue EXCEPT ![Slot(t.op)] =
        Append(@, [req |-> t.req, op |-> t.op, due |-> clock + Slot(t.op)])]

\* submitGPU or submitGeneric; after the last one the shared lock is released.
Push(c) ==
    /\ todo[c] # <<>>
    /\ LET t == Head(todo[c])
       IN  IF t.op \in GPUOps
           THEN gpu' = Enqueue(gpu, t) /\ UNCHANGED gen
           ELSE gen' = Enqueue(gen, t) /\ UNCHANGED gpu
    /\ todo' = [todo EXCEPT ![c] = Tail(@)]
    /\ readers' = IF Len(todo[c]) = 1 THEN readers \ {c} ELSE readers
    /\ UNCHANGED <<sync, main, worker, lists, fresh, past>>

-----------------------------------------------------------------------------
(***************************************************************************)
(* The framework's thread.                                                 *)
(***************************************************************************)
At(from, to) == mpc = from /\ mpc' = to

\* ThreadPool::initialize starts one thread after the other ...
StartWorker(w) ==
    /\ At("spawn", "spawn")
    /\ wpc[w] = "unborn"
    /\ Go(w, "loop")
    /\ UNCHANGED <<call, calls, left, cur, sync, hand, queues, lists, clients, past>>

\* ... and opens the pool when all of them exist.
Started ==
    /\ At("spawn", "app")
    /\ \A w \in Workers : wpc[w] # "unborn"
    /\ status' = "RUNNING"
    /\ UNCHANGED <<call, calls, left, cur, latchCount, latchWait, condWait, counted,
                   worker, queues, lists, clients, past>>

\* A thread could not be created: the exception reaches the application, which
\* destroys the framework.
StartFails ==
    /\ At("spawn", "unwind")
    /\ \E w \in Workers : wpc[w] = "unborn"
    /\ status' = "DONE"
    /\ UNCHANGED <<call, calls, left, cur, latchCount, latchWait, condWait, counted,
                   worker, queues, lists, clients, past>>

Idle == mpc = "app" /\ todo[Main] = <<>>

\* present() and setWindowSize() first take the renderer's lock.
Call(name) ==
    /\ Idle /\ calls < MaxCalls
    /\ call' = name /\ calls' = calls + 1
    /\ mpc' = "lock"
    /\ UNCHANGED <<left, cur, sync, worker, queues, lists, clients, past>>

Lock ==
    /\ At("lock", "barrier")
    /\ readers = {}
    /\ UNCHANGED <<call, calls, left, cur, sync, worker, queues, lists, clients, past>>

\* setWindowOrientation and setWindowDpi go straight to the device.
Reorient ==
    /\ Idle /\ calls < MaxCalls
    /\ call' = "reorient" /\ calls' = calls + 1
    /\ mpc' = "reorient"
    /\ UNCHANGED <<left, cur, sync, worker, queues, lists, clients, past>>

\* terminate() takes no lock.
Terminate ==
    /\ Idle
    /\ \A c \in Clients : todo[c] = <<>>
    /\ call' = "terminate"
    /\ mpc' = "barrier"
    /\ UNCHANGED <<calls, left, cur, sync, worker, queues, lists, clients, past>>

\* ThreadPool::barrier: close, wait on the latch, reset it.
CloseBarrier ==
    /\ At("barrier", "wait")
    /\ status' = "BARRIER"
    /\ UNCHANGED <<call, calls, left, cur, latchCount, latchWait, condWait, counted,
                   worker, queues, lists, clients, past>>

\* A latch that blocks although everybody has counted down (a mutant).
LatchWaitAlways ==
    /\ mpc = "wait"
    /\ mpc' = "waiting" /\ latchWait' = latchWait \cup {Main}
    /\ UNCHANGED <<call, calls, left, cur, status, latchCount, condWait, counted,
                   worker, queues, lists, clients, past>>

\* LatchWait that is content with one worker missing (a mutant).
LatchWaitShort ==
    /\ mpc = "wait"
    /\ IF latchCount <= 1
       THEN mpc' = "reset" /\ UNCHANGED latchWait
       ELSE mpc' = "waiting" /\ latchWait' = latchWait \cup {Main}
    /\ UNCHANGED <<call, calls, left, cur, status, latchCount, condWait, counted,
                   worker, queues, lists, clients, past>>

LatchWait ==
    /\ mpc = "wait"
    /\ IF latchCount = 0
       THEN mpc' = "reset" /\ UNCHANGED latchWait
       ELSE mpc' = "waiting" /\ latchWait' = latchWait \cup {Main}
    /\ UNCHANGED <<call, calls, left, cur, status, latchCount, condWait, counted,
                   worker, queues, lists, clients, past>>

LatchPassed ==
    /\ At("waiting", "reset")
    /\ Main \notin latchWait
    /\ UNCHANGED <<call, calls, left, cur, sync, worker, queues, lists, clients, past>>

\* ResetLatch that forgets the reset (a mutant).
ResetLatchNot ==
    /\ mpc = "reset"
    /\ counted' = {}
    /\ mpc' = IF call = "present" THEN "swap" ELSE "clear"
    /\ UNCHANGED <<call, calls, left, cur, status, latchCount, latchWait, condWait,
                   worker, queues, lists, clients, past>>

ResetLatch ==
    /\ mpc = "reset"
    /\ latchCount' = N /\ counted' = {}
    /\ mpc' = IF call = "present" THEN "swap" ELSE "clear"
    /\ UNCHANGED <<call, calls, left, cur, status, latchWait, condWait,
                   worker, queues, lists, clients, past>>

\* swapQueues after its barrier; one step, because nobody else may touch a
\* queue here (WorkersParked, NoPushInside).
SwapQueues ==
    /\ At("swap", "resume")
    /\ gpu' = Rotated(gpu) /\ gen' = Rotated(gen)
    /\ clock' = clock + 1
    /\ UNCHANGED <<call, calls, left, cur, sync, worker, lists, clients, ran>>

\* clear() after its barrier: first the queues ...
ClearQueues ==
    /\ At("clear", "clearWorkers")
    /\ gpu' = [s \in Slots |-> <<>>] /\ gen' = [s \in Slots |-> <<>>]
    /\ UNCHANGED <<call, calls, left, cur, sync, worker, lists, clients, past>>

\* ... then the workers' command lists.  terminate() ends here and leaves the
\* pool closed.
ClearWorkers ==
    /\ mpc = "clearWorkers"
    /\ cmdList' = [w \in Workers |-> {}]
    /\ mpc' = IF call = "resize" THEN "recreate" ELSE "terminated"
    /\ UNCHANGED <<call, calls, left, cur, sync, worker, queues, devList, executed,
                   clients, past>>

\* The device recreates its swap chain, for which it waits for the GPU and so
\* drops the command lists of the current frame.
Recreate ==
    /\ \/ At("recreate", "resume")
       \/ At("reorient", "app")
    /\ devList' = {}
    /\ UNCHANGED <<call, calls, left, cur, sync, worker, queues, cmdList, executed,
                   clients, past>>

\* resume(), and the end of swapQueues: store, then notify.
Resume ==
    /\ At("resume", "notify")
    /\ status' = "RUNNING"
    /\ UNCHANGED <<call, calls, left, cur, latchCount, latchWait, condWait, counted,
                   worker, queues, lists, clients, past>>

Notify ==
    /\ mpc = "notify"
    /\ condWait' = {}
    /\ IF call = "present" THEN mpc' = "submit" /\ left' = Workers
                           ELSE mpc' = "app" /\ UNCHANGED left
    /\ UNCHANGED <<call, calls, cur, status, latchCount, latchWait, counted,
                   worker, queues, lists, clients, past>>

\* submitGPUCommandLists visits the workers; a list that is not empty is moved
\* to the device ...
MoveList(w) ==
    /\ mpc = "submit"
    /\ w \in left /\ left' = left \ {w}
    /\ devList' = devList \cup cmdList[w]
    /\ IF cmdList[w] = {} THEN UNCHANGED <<mpc, cur>>
                          ELSE mpc' = "drop" /\ cur' = {w}
    /\ UNCHANGED <<call, calls, sync, worker, queues, cmdList, executed, clients, past>>

\* A moved list that is kept (a mutant).
DropListNot ==
    /\ At("drop", "submit")
    /\ cur' = {}
    /\ UNCHANGED <<call, calls, left, sync, worker, queues, lists, clients, past>>

\* ... and then cleared, with whatever the worker added in between.
DropList ==
    /\ At("drop", "submit")
    /\ cmdList' = [w \in Workers |-> IF w \in cur THEN {} ELSE cmdList[w]]
    /\ cur' = {}
    /\ UNCHANGED <<call, calls, left, sync, worker, queues, devList, executed,
                   clients, past>>

\* DX12Device::executeCommandList and present.
Execute ==
    /\ At("submit", "app")
    /\ left = {}
    /\ executed' = executed \cup devList
    /\ devList' = {}
    /\ UNCHANGED <<call, calls, left, cur, sync, worker, queues, cmdList, clients, past>>

\* The destructor: from the application's loop, after terminate() or when
\* initialize() threw.
Stop ==
    /\ mpc \in {"app", "terminated", "unwind"}
    /\ \A c \in Clients : todo[c] = <<>>
    /\ mpc' = "notifyStop"
    /\ status' = "DONE"
    /\ UNCHANGED <<call, calls, left, cur, latchCount, latchWait, condWait, counted,
                   worker, queues, lists, clients, past>>

NotifyStop ==
    /\ At("notifyStop", "join")
    /\ condWait' = {}
    /\ UNCHANGED <<call, calls, left, cur, status, latchCount, latchWait, counted,
                   worker, queues, lists, clients, past>>

Join ==
    /\ At("join", "gone")
    /\ \A w \in Workers : wpc[w] \in {"done", "unborn"}
    /\ UNCHANGED <<call, calls, left, cur, sync, worker, queues, lists, clients, past>>

\* What the framework's thread does on its own once a call was made.
MainStep ==
    \/ \E w \in Workers : StartWorker(w) \/ MoveList(w)
    \/ Started \/ Lock \/ CloseBarrier \/ LatchWait \/ LatchPassed \/ ResetLatch
    \/ SwapQueues \/ ClearQueues \/ ClearWorkers \/ Recreate \/ Resume \/ Notify
    \/ DropList \/ Execute \/ NotifyStop \/ Join

\* What the application decides.
AppStep ==
    \/ StartFails \/ Reorient \/ Terminate \/ Stop
    \/ \E name \in {"present", "resize"} : Call(name)
    \/ \E c \in Clients, r \in Requests, k \in Kinds : Begin(c, r, k)

Next == \/ \E w \in Workers : WorkerStep(w) \/ SpuriousWake(w)
        \/ \E c \in Clients : Push(c)
        \/ MainStep
        \/ AppStep

Spec == Init /\ [][Next]_vars

\* The operating system runs every thread that can run.  Nothing makes the
\* application call again, and nothing wakes a worker up spuriously.
FairSpec == /\ Spec
            /\ WF_vars(MainStep)
            /\ \A w \in Workers : WF_vars(WorkerStep(w))
            /\ \A c \in Clients : WF_vars(Push(c))
=============================================================================
