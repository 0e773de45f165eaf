---------------------------- MODULE DX12Context -----------------------------
(***************************************************************************)
(* The life of a buffer or texture in DX12Context (dx12_context.cpp): its  *)
(* object in a map, the handle the application holds, the tasks that       *)
(* create, clean up and destroy it in the frames that follow, and the      *)
(* commands that use it.                                                   *)
(*                                                                         *)
(* The pool is the one of module ThreadPool seen from its tasks: a worker  *)
(* takes the head of a queue and runs it later; the slots rotate or are    *)
(* emptied while no worker holds a task.  As there, a task pushed while    *)
(* the barrier is raised may still be in slot 0 when they rotate.          *)
(***************************************************************************)
EXTENDS WorkQueues, Sequences, FiniteSets

CONSTANTS Workers,     \* the worker threads
          Ids,         \* identities drawn from uidGenerator_
          MaxFrames,   \* bound on the calls of present()
          MaxClears,   \* bound on the calls of setWindowSize()
          MaxDraws     \* bound on the commands that use a resource

ASSUME ContextAssumption == /\ MaxFrames \in Nat
                            /\ MaxClears \in Nat
                            /\ MaxDraws \in Nat

Kinds == {"INDEX_BUFFER", "VERTEX_BUFFER", "TEXTURE"}
BufferKinds == Kinds \ {"TEXTURE"}

VARIABLES
    maps,          \* indexBuffers_, vertexBuffers_ and textures_: the ids in each
    kindOf,        \* the kind a resource was created with
    handles,       \* resources whose API object still exists
    fresh,         \* identities not drawn yet
    destroyQueue,  \* destroyQueue_
    gpu, gen,      \* the pool's queues, slots 0..2
    hand,          \* the task a worker runs (a set of at most one)
    crashed,       \* the task that threw and so ended the program, or "none"
    clock,         \* history: number of rotations
    clears, draws, \* numbers of calls made, for their bounds
    droppedAt      \* history: the rotation at which a handle was given up

objects == <<maps, kindOf, handles, fresh, droppedAt>>
queues  == <<gpu, gen>>
bounds  == <<clock, clears, draws>>
vars == <<objects, destroyQueue, queues, hand, crashed, bounds>>

-----------------------------------------------------------------------------
\* A task bound to one object, one that finds its object in destroyQueue_, and
\* what such a task has left to do after it took the object's entry.
Bound(op, kind, id) == [op |-> op, kind |-> kind, id |-> id, at |-> clock]
Unbound(op)         == [op |-> op]
After(op, entry)    == [op |-> op, kind |-> entry.kind, id |-> entry.id]

\* The type under which a handle's destructor asks for destruction:
\* IndexBufferImpl's says VERTEX_BUFFER.
DestroyedAs(kind) == IF kind = "INDEX_BUFFER" THEN "VERTEX_BUFFER" ELSE kind

\* destroyDone in the frame of the call (a mutant).
DoneSlotNow == 0

\* destroyDone runs one frame after destroyMain.
DoneSlot == 1

Put(queue, slot, task) == [queue EXCEPT ![slot] = Append(@, task)]

Init == /\ maps = [k \in Kinds |-> {}]
        /\ kindOf = [i \in Ids |-> "TEXTURE"]
        /\ handles = {} /\ fresh = Ids
        /\ destroyQueue = <<>>
        /\ gpu = [s \in Slots |-> <<>>] /\ gen = [s \in Slots |-> <<>>]
        /\ hand = [w \in Workers |-> {}]
        /\ crashed = "none"
        /\ clock = 0 /\ clears = 0 /\ draws = 0
        /\ droppedAt = [i \in Ids |-> 0]

-----------------------------------------------------------------------------
(***************************************************************************)
(* The application.  A call is one step: no rotation comes between its     *)
(* pushes (ThreadPool's RequestAligned), and the tasks of the later slots  *)
(* cannot be taken yet.                                                    *)
(***************************************************************************)

\* uidGenerator_ read without the increment (a mutant).
DrawnAgain(id) == id \in Ids \ handles /\ UNCHANGED fresh

\* uidGenerator_.fetch_add(1).
Drawn(id) == id \in fresh /\ fresh' = fresh \ {id}

New(id, kind) == /\ Drawn(id)
                 /\ maps' = [maps EXCEPT ![kind] = @ \cup {id}]
                 /\ kindOf' = [kindOf EXCEPT ![id] = kind]
                 /\ handles' = handles \cup {id}

CreateBuffer(id, kind) ==
    /\ New(id, kind)
    /\ gpu' = Put(Put(gpu, 0, Bound("create", kind, id)),
                  1, Bound("cleanupCreate", kind, id))
    /\ gen' = Put(gen, 2, Bound("cleanupIntermediate", kind, id))
    /\ UNCHANGED <<droppedAt, destroyQueue, hand, bounds>>

\* A texture gets its memory at once and submits nothing.
CreateTexture(id) ==
    /\ New(id, "TEXTURE")
    /\ UNCHANGED <<droppedAt, destroyQueue, queues, hand, bounds>>

\* The destructor of a handle.
DestroyResource(id) ==
    /\ id \in handles /\ handles' = handles \ {id}
    /\ destroyQueue' = Append(destroyQueue,
                              [kind |-> DestroyedAs(kindOf[id]), id |-> id])
    /\ gpu' = Put(gpu, 0, Unbound("destroyMain"))
    /\ gen' = Put(gen, DoneSlot, Unbound("destroyDone"))
    /\ droppedAt' = [droppedAt EXCEPT ![id] = clock]
    /\ UNCHANGED <<maps, kindOf, fresh, hand, bounds>>

\* A command that uses a resource by the number of its handle.
Draw(id) ==
    /\ draws < MaxDraws /\ draws' = draws + 1
    /\ id \in handles
    /\ gpu' = Put(gpu, 0, Bound("draw", kindOf[id], id))
    /\ UNCHANGED <<objects, destroyQueue, gen, hand, clock, clears>>

\* swapQueues and clear, while every worker is parked.
Parked == \A w \in Workers : hand[w] = {}

Present ==
    /\ Parked
    /\ clock < MaxFrames /\ clock' = clock + 1
    /\ gpu' = Rotated(gpu) /\ gen' = Rotated(gen)
    /\ UNCHANGED <<objects, destroyQueue, hand, clears, draws>>

Clear ==
    /\ Parked
    /\ clears < MaxClears /\ clears' = clears + 1
    /\ gpu' = [s \in Slots |-> <<>>] /\ gen' = [s \in Slots |-> <<>>]
    /\ UNCHANGED <<objects, destroyQueue, hand, clock, draws>>

-----------------------------------------------------------------------------
(***************************************************************************)
(* The workers.                                                            *)
(***************************************************************************)
Done(w) == hand' = [hand EXCEPT ![w] = {}]
Gets(w, task) == hand' = [hand EXCEPT ![w] = {task}]

\* A worker takes a GPU task, or on finding none goes on to the generic queue.
TakeGPU(w) ==
    /\ hand[w] = {}
    /\ IF gpu[0] # <<>>
       THEN Gets(w, Head(gpu[0])) /\ gpu' = [gpu EXCEPT ![0] = Tail(@)]
       ELSE Gets(w, Unbound("tryPopGeneric")) /\ UNCHANGED gpu
    /\ UNCHANGED <<objects, destroyQueue, gen, crashed, bounds>>

TakeGeneric(w) ==
    /\ hand[w] = {Unbound("tryPopGeneric")}
    /\ IF gen[0] # <<>>
       THEN Gets(w, Head(gen[0])) /\ gen' = [gen EXCEPT ![0] = Tail(@)]
       ELSE Done(w) /\ UNCHANGED gen
    /\ UNCHANGED <<objects, destroyQueue, gpu, crashed, bounds>>

Throw(task) == crashed' = task

\* DX12VertexBuffer and DX12IndexBuffer: create fills the GPU's memory, the
\* clean-ups release what was only needed for that.  All work on the object
\* they were bound to.
RunBound(w, t) ==
    /\ t.op \in {"create", "cleanupCreate", "cleanupIntermediate"}
    /\ Done(w)
    /\ UNCHANGED <<objects, destroyQueue, crashed>>

\* buildCommand looks the resource up, without a lock, and throws if it is gone.
RunDraw(w, t) ==
    /\ t.op = "draw"
    /\ IF t.id \in maps[t.kind] THEN UNCHANGED crashed ELSE Throw("draw")
    /\ Done(w)
    /\ UNCHANGED <<objects, destroyQueue>>

\* The front of the queue is taken (a mutant).
FrontTaken == Tail(destroyQueue)
Front == destroyQueue

\* destroyMain looks at the front of the queue, which throws if there is none,
\* and records the discard of that object's memory if it is in its map.
DestroyMain(w, t) ==
    /\ t.op = "destroyMain"
    /\ IF destroyQueue = <<>>
       THEN Throw("destroyMain") /\ UNCHANGED destroyQueue
       ELSE destroyQueue' = Front /\ UNCHANGED crashed
    /\ Done(w)
    /\ UNCHANGED objects

\* What a worker holds once it took the front entry; keeping the task as well
\* is a mutant.
HoldsBoth(w, t) == hand[w] \cup {t}
Holds(w, t) == {t}

\* destroyDone takes the front of the queue, and throws if there is none ...
DestroyDone(w, t) ==
    /\ t.op = "destroyDone"
    /\ IF destroyQueue = <<>>
       THEN Throw("destroyDone") /\ Done(w) /\ UNCHANGED destroyQueue
       ELSE /\ hand' = [hand EXCEPT ![w] = Holds(w, After("erase", Head(destroyQueue)))]
            /\ destroyQueue' = Tail(destroyQueue)
            /\ UNCHANGED crashed
    /\ UNCHANGED objects

\* ... and erases the object from the map the entry names.
Erase(w, t) ==
    /\ t.op = "erase"
    /\ maps' = [maps EXCEPT ![t.kind] = @ \ {t.id}]
    /\ Done(w)
    /\ UNCHANGED <<kindOf, handles, fresh, droppedAt, destroyQueue, crashed>>

Run(w) == /\ \E t \in hand[w] : \/ RunBound(w, t) \/ RunDraw(w, t)
                                \/ DestroyMain(w, t)
                                \/ DestroyDone(w, t) \/ Erase(w, t)
          /\ UNCHANGED <<queues, bounds>>

Application ==
    /\ \/ \E id \in Ids : \/ \E kind \in BufferKinds : CreateBuffer(id, kind)
                          \/ CreateTexture(id) \/ DestroyResource(id) \/ Draw(id)
       \/ Present \/ Clear
    /\ UNCHANGED crashed

\* An exception on a worker thread ends the program.
Next == /\ crashed = "none"
        /\ Application \/ \E w \in Workers : TakeGPU(w) \/ TakeGeneric(w) \/ Run(w)

Spec == Init /\ [][Next]_vars

-----------------------------------------------------------------------------
Entries == [kind : Kinds, id : Ids]
QueuedTasks == [op : {"create", "cleanupCreate", "cleanupIntermediate", "draw"},
                kind : Kinds, id : Ids, at : 0..MaxFrames]
               \cup [op : {"destroyMain", "destroyDone"}]
HeldTasks == QueuedTasks \cup [op : {"tryPopGeneric"}]
             \cup [op : {"erase"}, kind : Kinds, id : Ids]

\* Every variable stays in its range, and a worker holds at most one task.
TypeOK == /\ maps \in [Kinds -> SUBSET Ids]
          /\ kindOf \in [Ids -> Kinds]
          /\ handles \subseteq Ids /\ fresh \subseteq Ids
          /\ destroyQueue \in Seq(Entries)
          /\ gpu \in [Slots -> Seq(QueuedTasks)]
          /\ gen \in [Slots -> Seq(QueuedTasks)]
          /\ hand \in [Workers -> SUBSET HeldTasks]
          /\ \A w \in Workers : \A t, u \in hand[w] : t = u
          /\ crashed \in {"none", "draw", "destroyMain", "destroyDone"}
          /\ clock \in 0..MaxFrames /\ clears \in 0..MaxClears /\ draws \in 0..MaxDraws
          /\ droppedAt \in [Ids -> 0..MaxFrames]

\* However destructions are delayed, mixed up by type or lost by a resize, no
\* object is erased while the application holds a handle to it.
LiveStay == \A id \in handles : id \in maps[kindOf[id]]

\* destroyDone throws when it finds the queue empty (dx12_context.cpp:229): that
\* never happens, because nobody else takes an entry, and a resize only drops
\* tasks.
DoneFindsEntry == crashed # "destroyDone"

\* "destruction is deferred" (dx12_context.cpp:280).  destroyDone takes whatever
\* is in front of the queue, not the entry it was submitted with; still no object
\* is erased in the frame in which its handle was given up.
EraseDeferred == \A w \in Workers : \A t \in hand[w] :
                     t.op = "erase" => droppedAt[t.id] < clock

\* dx12_command_builder.cpp:40: "at this stage shouldn't need to lock to access
\* resources anymore".  A command that is built in the frame it was recorded in
\* finds the resources its handles stood for, even if they were given up since.
DrawFinds == \A w \in Workers : \A t \in hand[w] :
                 (t.op = "draw" /\ t.at = clock) => t.id \in maps[t.kind]
=============================================================================
