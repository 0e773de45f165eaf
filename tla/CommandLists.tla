---------------------------- MODULE CommandLists ----------------------------
(***************************************************************************)
(* Command lists from the call that asks for one to the GPU that executes  *)
(* it: the commands of the application (command_impl.cpp), what a worker   *)
(* records for them (dx12_command_builder.cpp) and for the creation, the   *)
(* clean-up and the destruction of a resource, in an allocator of the      *)
(* frame it last saw (dx12_worker.cpp), the frame's hand-over and its      *)
(* execution by priority (dx12_device.cpp), and the states the GPU's       *)
(* resources go through.                                                   *)
(*                                                                         *)
(* A copy's destination gets no barrier and is left to Direct3D's implicit *)
(* promotion.  Calls that only set state of the pipeline (viewport,        *)
(* scissor, topology, root signature) touch no resource and are left out,  *)
(* and so is what Direct3D does with a list that was not closed.           *)
(***************************************************************************)
EXTENDS WorkQueues, Sequences, FiniteSets

CONSTANTS Workers,        \* the worker threads
          NumFrames,      \* bufferCount_: swap chain textures have the ids 0..NumFrames-1
          Textures,       \* ids of textures the application may create
          Buffers,        \* ids of vertex and index buffers it may create
          IndexBuffers,   \* those of them that are index buffers
          Default,        \* names the default render target: the current frame's
          Descs,          \* the commands the application may ask for
          Usages,         \* usages of textures it may ask for
          MaxCalls,       \* bound on its calls that create, destroy, command or resize
          MaxFrames       \* bound on the calls of present()

EUsageType == {"GPU_ONLY", "CPU_WRITE", "CPU_READ"}

ASSUME ListsAssumption == /\ Usages \subseteq EUsageType
                          /\ NumFrames \in Nat /\ NumFrames >= 2
                          /\ IndexBuffers \subseteq Buffers
                          /\ Textures \cap Buffers = {}
                          /\ (Textures \cup Buffers) \cap (0..NumFrames) = {}
                          /\ Default \notin (0..NumFrames) \cup Textures \cup Buffers
                          /\ MaxCalls \in Nat /\ MaxFrames \in Nat

Targets == Textures \cup {Default}

\* The calls of a command that touch a resource.  A handle is looked up among the
\* objects of its kind, so it names one of that kind.
CommandCalls == [op : {"CLEAR_COLOR"}]
                \cup [op : {"SET_BUFFER"}, id : Buffers]
                \cup [op : {"SET_ROOT_SIGNATURE_CONSTANT_BUFFER"}]
                \cup [op : {"COPY_REGION_TEXTURE2D"}, src : Targets, dst : Targets]

ASSUME DescsAssumption ==
    \A d \in Descs : d.target \in Targets /\ d.calls \in Seq(CommandCalls)

Frames == 0..(NumFrames - 1)
Objects == Textures \cup Buffers
Resources == Frames \cup Objects

VARIABLES
    frame,         \* DX12Device::currentFrame_
    pc,            \* where the framework's thread is in present()
    pending,       \* commandLists_[currentFrame_]: handed over, not executed yet
    toSubmit,      \* workers whose lists submitGPUCommandLists has still to take
    gpu, gen,      \* the pool's queues
    destroyQueue,  \* DX12Context::destroyQueue_
    live,          \* objects in the context's maps
    initial,       \* initialState_ of a texture, state a buffer is created in
    handles,       \* objects the application holds a handle to
    newborn,       \* buffers created in this frame ...
    settled,       \* ... and those whose first frame was presented
    wpc, hand,     \* where a worker is in its loop, and the task it runs
    seen,          \* prevFrame: the frame whose allocator the worker records in
    lists,         \* commandList_ of each worker
    state,         \* the GPU: the state a resource is in ...
    upload,        \* ... and what the upload buffer of a buffer holds
    crashed,       \* a task threw, which ended the program
    calls, frames,  \* numbers of calls, for their bounds
    proper,        \* history: no command named a resource in a wrong way
    late,          \* history: tasks were left when the queues rotated
    hasty          \* history: a task ran while present() was under way

device  == <<frame, pc, pending, toSubmit>>
queues  == <<gpu, gen>>
objects == <<destroyQueue, live, initial, handles, newborn, settled>>
workers == <<wpc, hand, seen, lists>>
memory  == <<state, upload>>
bounds  == <<calls, frames>>
history == <<proper, late, hasty>>
vars == <<device, queues, objects, workers, memory, crashed, bounds, history>>

Nothing == [s \in Slots |-> <<>>]
Put(queue, slot, task) == [queue EXCEPT ![slot] = Append(@, task)]

Init == /\ frame = 0 /\ pc = "idle" /\ pending = {} /\ toSubmit = {}
        /\ gpu = Nothing /\ gen = Nothing
        /\ destroyQueue = <<>> /\ live = Frames /\ handles = {}
        /\ initial = [r \in Resources |-> IF r \in Frames THEN "PRESENT" ELSE "none"]
        /\ newborn = {} /\ settled = {}
        /\ wpc = [w \in Workers |-> "top"] /\ hand = [w \in Workers |-> {}]
        /\ seen = [w \in Workers |-> 0] /\ lists = [w \in Workers |-> {}]
        /\ state = [r \in Resources |-> IF r \in Frames THEN "PRESENT" ELSE "none"]
        /\ upload = [b \in Buffers |-> "none"]
        /\ crashed = FALSE /\ calls = 0 /\ frames = 0
        /\ proper = TRUE /\ late = FALSE /\ hasty = FALSE

-----------------------------------------------------------------------------
(***************************************************************************)
(* The application.                                                        *)
(***************************************************************************)

\* createTexture's initial state, by usage.
InitialState(usage) == IF usage = "CPU_READ" THEN "COPY_DEST" ELSE "COMMON"

Created(id, init) == /\ id \notin live /\ initial[id] = "none"
                     /\ live' = live \cup {id} /\ handles' = handles \cup {id}
                     /\ initial' = [initial EXCEPT ![id] = init]
                     /\ UNCHANGED <<destroyQueue, settled>>

\* A texture gets its memory at once.
CreateTexture(id, usage) ==
    /\ Created(id, InitialState(usage))
    /\ state' = [state EXCEPT ![id] = InitialState(usage)]
    /\ UNCHANGED <<newborn, upload, queues, proper>>

\* Given up in the frame of the upload (a mutant).
CleanupSlotNow == 0
\* A buffer's upload buffer is given up one frame after the upload.
CleanupSlot == 1

\* A buffer gets its memory from a task.
CreateBuffer(id) ==
    /\ Created(id, "COPY_DEST")
    /\ newborn' = newborn \cup {id}
    /\ gpu' = Put(Put(gpu, 0, [op |-> "create", id |-> id]),
                  CleanupSlot, [op |-> "cleanupCreate", id |-> id])
    /\ UNCHANGED <<gen, memory, proper>>

\* The destructor of a handle.
DestroyResource(id) ==
    /\ id \in handles /\ handles' = handles \ {id}
    /\ destroyQueue' = Append(destroyQueue, id)
    /\ gpu' = Put(gpu, 0, [op |-> "destroyMain", id |-> id])
    /\ gen' = Put(gen, 1, [op |-> "destroyDone"])
    /\ UNCHANGED <<live, initial, newborn, settled, memory, proper>>

\* The render target a command names, and the objects its calls name.
Target(d, f) == IF d.target = Default THEN f ELSE d.target
Source(call, f) == IF call.src = Default THEN f ELSE call.src
Calls(d, op) == {c \in {d.calls[i] : i \in 1..Len(d.calls)} : c.op = op}
Named(d) == {d.target} \cup {c.src : c \in Calls(d, "COPY_REGION_TEXTURE2D")}
                       \cup {c.dst : c \in Calls(d, "COPY_REGION_TEXTURE2D")}
                       \cup {c.id : c \in Calls(d, "SET_BUFFER")}

\* What the builder takes for granted: a command draws with buffers of earlier
\* frames, clears only the default target, and copies from it only while it draws
\* to it, and from no other texture it draws to.
Proper(d) == /\ {c.id : c \in Calls(d, "SET_BUFFER")} \subseteq settled
             /\ d.target # Default => Calls(d, "CLEAR_COLOR") = {}
             /\ \A c \in Calls(d, "COPY_REGION_TEXTURE2D") :
                    IF c.src = Default THEN d.target = Default ELSE c.src # d.target

\* CommandImpl collects the calls; its destructor submits them.  The handle of
\* the default render target is the number of the current frame.
SubmitCommand(d) ==
    /\ Named(d) \subseteq handles \cup {Default}
    /\ gpu' = Put(gpu, 0, [op |-> "command", id |-> calls, desc |-> d, asked |-> frame])
    /\ proper' = (proper /\ Proper(d))
    /\ UNCHANGED <<gen, objects, memory>>

Application ==
    /\ pc = "idle"
    /\ calls < MaxCalls /\ calls' = calls + 1
    /\ \/ \E id \in Textures : \E usage \in Usages : CreateTexture(id, usage)
       \/ \E id \in Buffers : CreateBuffer(id)
       \/ \E id \in Objects : DestroyResource(id)
       \/ \E d \in Descs : SubmitCommand(d)
    /\ UNCHANGED <<device, workers, crashed, frames, late, hasty>>

-----------------------------------------------------------------------------
(***************************************************************************)
(* What a worker records.                                                  *)
(***************************************************************************)
Transition(res, before, after) == [res |-> res, before |-> before, after |-> after]
Use(res, needed) == Transition(res, needed, needed)

Input(id) == IF id \in IndexBuffers THEN "INDEX_BUFFER" ELSE "VERTEX_AND_CONSTANT_BUFFER"

\* A buffer's view holds its address once the buffer has memory.
View(id) == Use(id, IF state[id] = "none" THEN "no address" ELSE Input(id))

\* The state a copy announces for its source: any swap chain texture is taken for
\* the target of the command.
SourceState(src) == IF src \in Frames THEN "RENDER_TARGET" ELSE initial[src]

\* A call's accesses; clearing always clears the default render target.
Steps(call, t) ==
    CASE call.op = "CLEAR_COLOR" -> <<Use(frame, "RENDER_TARGET")>>
      [] call.op = "SET_BUFFER" -> <<View(call.id)>>
      [] call.op = "COPY_REGION_TEXTURE2D" ->
            LET src == Source(call, t.asked)
            IN  <<Transition(src, SourceState(src), "COPY_SOURCE"),
                  Transition(src, "COPY_SOURCE", SourceState(src))>>
      [] OTHER -> <<>>

\* The barrier behind the commands forgotten (a mutant).
RestoredNot(rt) == <<>>
Restored(rt) == <<Transition(rt, "RENDER_TARGET", initial[rt])>>

Recorded(t) ==
    LET rt == Target(t.desc, frame)
        upTo[i \in 0..Len(t.desc.calls)] ==
            IF i = 0 THEN <<Transition(rt, initial[rt], "RENDER_TARGET")>>
                     ELSE upTo[i - 1] \o Steps(t.desc.calls[i], t)
    IN  upTo[Len(t.desc.calls)] \o Restored(rt)

\* A list as it is pushed to commandList_.
List(w, t, priority, closed, steps, uses) ==
    [op |-> t.op, id |-> t.id, by |-> w, alloc |-> seen[w], priority |-> priority,
     closed |-> closed, steps |-> steps, uses |-> uses]

Push(w, list) == lists' = [lists EXCEPT ![w] = @ \cup {list}]

\* buildCommand throws when it does not find what a command names.
BuildThrows(w, t) ==
    /\ t.op = "command"
    /\ ~ Named(t.desc) \subseteq live \cup {Default}
    /\ crashed' = TRUE
    /\ UNCHANGED <<lists, memory>>

\* It gives up when a constant buffer is not ready yet, maybe before it looks for
\* the rest: the list is closed and dropped.
BuildGivesUp(w, t) ==
    /\ t.op = "command"
    /\ t.desc.target \in live \cup {Default}
    /\ Calls(t.desc, "SET_ROOT_SIGNATURE_CONSTANT_BUFFER") # {}
    /\ UNCHANGED <<lists, memory, crashed>>

BuildCommand(w, t) ==
    /\ t.op = "command"
    /\ Named(t.desc) \subseteq live \cup {Default}
    /\ Push(w, List(w, t, t.desc.priority, TRUE, Recorded(t), Named(t.desc) \cap Objects))
    /\ UNCHANGED <<memory, crashed>>

\* DX12Buffer::create, with the state the buffer was constructed with.
Allocated(id) == [state EXCEPT ![id] = initial[id]]

\* The barrier behind the copy from the upload buffer.
Uploaded(id) == <<Transition(id, "COPY_DEST", Input(id))>>

\* create of a vertex or index buffer: memory for the buffer and for its upload,
\* which holds the data, and the list that copies it.
CreateMemory(w, t) ==
    /\ t.op = "create"
    /\ state' = Allocated(t.id)
    /\ upload' = [upload EXCEPT ![t.id] = "data"]
    /\ Push(w, List(w, t, 0, TRUE, Uploaded(t.id), {t.id}))
    /\ UNCHANGED crashed

\* A list that discards a resource and does nothing else.
Discard(w, t, id, closed) == List(w, t, 0, closed, <<>>, {id})

\* cleanupCreate: the upload buffer's content is discarded.
CleanupCreate(w, t) ==
    /\ t.op = "cleanupCreate"
    /\ Push(w, Discard(w, t, t.id, TRUE))
    /\ UNCHANGED <<memory, crashed>>

\* The handle of an index buffer asks for the destruction of a vertex buffer.
Found(id) == id \in live /\ id \notin IndexBuffers

\* destroyMain discards the object in front of the queue, or finds none and
\* leaves the list open.
DestroyMain(w, t) ==
    /\ t.op = "destroyMain"
    /\ IF destroyQueue = <<>>
       THEN crashed' = TRUE /\ UNCHANGED lists
       ELSE /\ Push(w, Discard(w, t, Head(destroyQueue), Found(Head(destroyQueue))))
            /\ UNCHANGED crashed
    /\ UNCHANGED memory

Record(w, t) == /\ \/ BuildThrows(w, t) \/ BuildGivesUp(w, t) \/ BuildCommand(w, t)
                   \/ CreateMemory(w, t) \/ CleanupCreate(w, t) \/ DestroyMain(w, t)
                /\ UNCHANGED objects

\* destroyDone looks at the front entry and leaves it (a mutant).
RestNotPopped(queue) == queue
Rest(queue) == Tail(queue)

Erased(queue) == IF Found(Head(queue)) THEN {Head(queue)} ELSE {}

DestroyDone(w, t) ==
    /\ t.op = "destroyDone"
    /\ IF destroyQueue = <<>>
       THEN crashed' = TRUE /\ UNCHANGED <<destroyQueue, live>>
       ELSE /\ live' = live \ Erased(destroyQueue)
            /\ destroyQueue' = Rest(destroyQueue)
            /\ UNCHANGED crashed
    /\ UNCHANGED <<initial, handles, newborn, settled, lists, memory>>

-----------------------------------------------------------------------------
(***************************************************************************)
(* The loop of a worker.                                                   *)
(***************************************************************************)
At(w, from, to) == wpc[w] = from /\ wpc' = [wpc EXCEPT ![w] = to]

\* The allocator of the frame before is reset (a mutant).
ResetPrevious(w) == IF frame = seen[w] THEN {} ELSE {seen[w]}

\* The allocators that the top of the loop resets: "frame changed, release memory
\* used by previous allocator".
Reset(w) == IF frame = seen[w] THEN {} ELSE {frame}

LoopTop(w) == /\ At(w, "top", "pop")
              /\ seen' = [seen EXCEPT ![w] = frame]
              /\ UNCHANGED <<queues, objects, hand, lists, memory, crashed>>

Takes(w, queue) == At(w, "pop", "run") /\ hand' = [hand EXCEPT ![w] = {Head(queue[0])}]
Popped(queue) == [queue EXCEPT ![0] = Tail(@)]

TakeGPU(w) == /\ gpu[0] # <<>>
              /\ Takes(w, gpu) /\ gpu' = Popped(gpu)
              /\ UNCHANGED <<gen, objects, seen, lists, memory, crashed>>

\* One step with the look at the empty GPU queue: what is pushed to that queue
\* in between does not change what this worker finds in the other.
TakeGeneric(w) == /\ gpu[0] = <<>> /\ gen[0] # <<>>
                  /\ Takes(w, gen) /\ gen' = Popped(gen)
                  /\ UNCHANGED <<gpu, objects, seen, lists, memory, crashed>>

TakeNothing(w) == /\ gpu[0] = <<>> /\ gen[0] = <<>>
                  /\ At(w, "pop", "top")
                  /\ UNCHANGED <<queues, objects, hand, seen, lists, memory, crashed>>

Run(w) == /\ At(w, "run", "top") /\ hand' = [hand EXCEPT ![w] = {}]
          /\ \E t \in hand[w] : Record(w, t) \/ DestroyDone(w, t)
          /\ UNCHANGED <<queues, seen>>

Worker(w) == /\ LoopTop(w) \/ TakeGPU(w) \/ TakeGeneric(w) \/ TakeNothing(w) \/ Run(w)
             /\ hasty' = (hasty \/ (wpc[w] = "run" /\ pc # "idle"))
             /\ UNCHANGED <<device, bounds, proper, late>>

-----------------------------------------------------------------------------
(***************************************************************************)
(* present() and setWindowSize().  The workers are released when the       *)
(* queues have rotated, before the lists are taken.                        *)
(***************************************************************************)
Parked == \A w \in Workers : wpc[w] = "top"

Swap == /\ pc = "idle" /\ pc' = "submit" /\ Parked
        /\ frames < MaxFrames /\ frames' = frames + 1
        /\ gpu' = Rotated(gpu) /\ gen' = Rotated(gen)
        /\ late' = (late \/ gpu[0] # <<>> \/ gen[0] # <<>>)
        /\ toSubmit' = Workers
        /\ UNCHANGED <<frame, pending, objects, workers, memory, crashed, calls, proper, hasty>>

SubmitCommandList(w) ==
    /\ pc = "submit" /\ w \in toSubmit
    /\ toSubmit' = toSubmit \ {w}
    /\ pending' = pending \cup lists[w]
    /\ lists' = [lists EXCEPT ![w] = {}]
    /\ pc' = IF toSubmit' = {} THEN "execute" ELSE pc
    /\ UNCHANGED <<frame, queues, objects, wpc, hand, seen, memory, crashed, bounds, history>>

\* Sorted by priority; the sort is not stable.
Ready == {l \in pending : \A m \in pending : l.priority <= m.priority}

\* The state of every resource after the first i steps of a list.
StateAfter(l) ==
    LET after[i \in 0..Len(l.steps)] ==
            IF i = 0 THEN state
                     ELSE [after[i - 1] EXCEPT ![l.steps[i].res] = l.steps[i].after]
    IN  after

Execute(l) ==
    /\ pc = "execute" /\ l \in Ready
    /\ pending' = pending \ {l}
    /\ state' = StateAfter(l)[Len(l.steps)]
    /\ upload' = IF l.op = "cleanupCreate" THEN [upload EXCEPT ![l.id] = "discarded"]
                                           ELSE upload
    /\ UNCHANGED <<frame, pc, toSubmit, queues, objects, workers, crashed, bounds, history>>

NextFrame == (frame + 1) % NumFrames

\* waitForGpu returned; DX12Device::present.
Advance == /\ pc = "execute" /\ pending = {} /\ pc' = "idle"
           /\ frame' = NextFrame
           /\ settled' = settled \cup newborn /\ newborn' = {}
           /\ UNCHANGED <<pending, toSubmit, queues, destroyQueue, live, initial, handles>>
           /\ UNCHANGED <<workers, memory, crashed, bounds, history>>

\* DX12Worker::clear; commandLists_ and the workers' lists are dropped.
NoLists == [w \in Workers |-> {}]

\* clear() and createSwapChain(), while the workers are parked.
Resize == /\ pc = "idle" /\ Parked
          /\ calls < MaxCalls /\ calls' = calls + 1
          /\ gpu' = Nothing /\ gen' = Nothing
          /\ lists' = NoLists
          /\ frame' = 0
          /\ state' = [r \in Resources |-> IF r \in Frames THEN "PRESENT" ELSE state[r]]
          /\ newborn' = {}
          /\ UNCHANGED <<pc, pending, toSubmit, destroyQueue, live, initial, handles, settled>>
          /\ UNCHANGED <<wpc, hand, seen, upload, crashed, frames, history>>

\* An exception on a worker ends the program.
Next == /\ ~ crashed
        /\ \/ Application \/ Swap \/ Advance \/ Resize
           \/ \E w \in Workers : Worker(w) \/ SubmitCommandList(w)
           \/ \E l \in pending : Execute(l)

Spec == Init /\ [][Next]_vars

-----------------------------------------------------------------------------
\* dx12_worker.cpp:67: "frame changed, release memory used by previous allocator".
\* Workers run on while the frame is executed, notice a new frame late or not at
\* all, and keep lists for a later frame; still no allocator is reset while a list
\* recorded in it waits to be executed.
AllocatorsIdle ==
    \A w \in Workers : wpc[w] = "top" =>
        \A l \in lists[w] \cup {m \in pending : m.by = w} : l.alloc \notin Reset(w)

\* A list about to be executed finds every resource in the state its barriers
\* announce and its calls need, in whatever order lists of one priority come,
\* because each puts its target back into the initial state; and a buffer has its
\* memory, its address and its data.  It holds for the commands the builder is made
\* for (Proper), while no tasks were left at a barrier.
StatesAsAnnounced ==
    (pc = "execute" /\ proper /\ ~ late) =>
        \A l \in Ready : \A i \in 1..Len(l.steps) :
            StateAfter(l)[i - 1][l.steps[i].res] = l.steps[i].before

\* destroyMain returns true also when it found nothing to destroy, and its list is
\* handed to the GPU without having been closed (dx12_context.cpp:275).  However
\* destructions are delayed, and whatever a resize drops, this happens to index
\* buffers only, which ask for destruction under the wrong type.
OpenOnlyForIndexBuffers ==
    \A l \in pending \cup UNION {lists[w] : w \in Workers} :
        ~ l.closed => l.uses \subseteq IndexBuffers

\* An upload buffer keeps its data, and an object its memory, until the GPU has done
\* with the lists that use them, provided that workers leave the tasks of the next
\* frame alone until present() is through, and tasks were not left behind.  Lists that only
\* discard are the exception: cleanupCreate's of a buffer given up in its first frame,
\* and destroyMain's, which discards what is in front of the queue, whose turn to be
\* erased may come in this frame.
MemoryOutlivesLists ==
    (~ hasty /\ ~ late) =>
        \A l \in pending : /\ l.op = "create" => upload[l.id] = "data"
                           /\ l.op = "command" => l.uses \subseteq live
=============================================================================
