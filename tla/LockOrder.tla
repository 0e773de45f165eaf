------------------------------ MODULE LockOrder ------------------------------
(***************************************************************************)
(* Who waits for whose lock.  Each call of the application and each task   *)
(* of a worker is the sequence of locks it takes and gives back: the       *)
(* renderer's lock, the device's, those of the descriptor collections, and *)
(* those of the context's maps (rwlock_map.h), some of which a handle      *)
(* holds for as long as it lives.  Between two frames the framework waits  *)
(* for the workers with the renderer locked.                               *)
(*                                                                         *)
(* The maps' locks are std::shared_timed_mutex as the compiler the project *)
(* is built with has it: a writer first shuts new readers out, then waits  *)
(* for the present ones.  GPU and generic tasks are in one queue: which    *)
(* goes first does not matter here.  A collection of descriptors is taken  *)
(* to allocate a heap each time, and a constant buffer to make one view.   *)
(***************************************************************************)
EXTENDS WorkQueues, Sequences

CONSTANTS Clients,   \* threads of the application
          Workers,   \* worker threads
          Ops,       \* calls the application makes
          MaxCalls   \* bound on their number

\* The calls that take locks or submit tasks.
Operations == {"createConstantBuffer", "createInputLayout", "createRootSignature",
               "createPipelineState", "compile", "createTexture", "createBuffer",
               "destroyTexture", "command", "present", "resize"}

ASSUME LockAssumption == Ops \subseteq Operations /\ MaxCalls \in Nat

Named    == {"constantBuffers", "inputLayouts", "rootSignatures"}
Maps     == Named \cup {"pipelineStates", "textures", "vertexBuffers"}
Shared   == Maps \cup {"renderer"}
Mutexes  == {"device", "rtvHeaps", "srvHeaps"}
Locks    == Shared \cup Mutexes
Threads  == Clients \cup Workers

VARIABLES
    todo,     \* what a thread has still to do in its call or task
    readers,  \* how often a thread has a lock shared
    writer,   \* the thread that has it, or has reserved it, for itself
    handles,  \* the maps of which a thread keeps a handle
    queue,    \* the pool's tasks
    parked,   \* the workers are at the barrier
    calls,    \* number of calls, for their bound
    careless  \* history: an object was asked for while a handle of its kind lived

vars == <<todo, readers, writer, handles, queue, parked, calls, careless>>

-----------------------------------------------------------------------------
(***************************************************************************)
(* Steps and scripts.                                                      *)
(***************************************************************************)
Step(do, of) == <<[do |-> do, of |-> of]>>

Reading(l, inner) == Step("read", l) \o inner \o Step("free", l)
Writing(l, inner) == Step("reserve", l) \o Step("drain", l) \o inner \o Step("free", l)
Locking(l, inner) == Step("reserve", l) \o inner \o Step("free", l)

\* DX12DescriptorHeapCollection, with allocateHeap.
Descriptor(heaps) == Locking(heaps, Locking("device", <<>>))

\* getConstantBuffer, getInputLayout, getRootSignature: "Transfer the lock".
Handle(map) == Step("read", map) \o Step("keep", map)

\* getTexture, getVertexBuffer: the lock ends with the lookup, the reference does not.
GetObject(map) == Reading(map, <<>>)

\* getPipelineState, whose caller drops the lock at the end of the statement.
GetPipelineState == Reading("pipelineStates", <<>>)

\* createConstanBuffer unlocks its map before it creates the buffer.
CreateConstantBuffer ==
    Writing("constantBuffers", <<>>) \o Descriptor("srvHeaps")
        \o Locking("device", <<>>) \o Handle("constantBuffers")

CompileStates ==
    Reading("renderer",
            Locking("device",
                    Reading("rootSignatures", <<>>)
                        \o Reading("pipelineStates", Step("submit", "compileMain"))))

\* createTexture, createIndexBuffer, createVertexBuffer: insert and look up.
CreateObject(map, tasks) ==
    Reading("renderer", Writing(map, tasks) \o GetObject(map))

\* setWindowSize; the first swap chain's textures are already in the map.
Resize == Writing("renderer",
                  Step("park", "") \o Step("clear", "")
                      \o GetObject("textures") \o Step("open", ""))

Script(op) ==
    CASE op = "createConstantBuffer" -> CreateConstantBuffer
      [] op = "createInputLayout"    -> Writing("inputLayouts", <<>>) \o Handle("inputLayouts")
      [] op = "createRootSignature"  -> Writing("rootSignatures", <<>>) \o Handle("rootSignatures")
      [] op = "createPipelineState"  -> Writing("pipelineStates", <<>>)
      [] op = "compile"              -> CompileStates
      [] op = "createTexture"        -> CreateObject("textures", <<>>)
      [] op = "createBuffer"         -> CreateObject("vertexBuffers", Step("submit", "upload"))
      [] op = "destroyTexture"       -> Step("submit", "destroyMain") \o Step("later", "destroyDone")
      [] op = "command"              -> Step("submit", "command")
      [] op = "present"              -> Writing("renderer", Step("park", "") \o Step("swap", ""))
      [] op = "resize"               -> Resize

\* main() looks the pipeline state up, frees its map, and locks the device to make
\* the command list ...
Recording == GetPipelineState \o Locking("device", <<>>)

\* ... for which it would keep the map locked (a mutant).
RecordKeeping(inner) == Reading("pipelineStates", Locking("device", <<>>)) \o inner
Record(inner) == Recording \o inner

\* "at this stage shouldn't need to lock to access resources anymore".
BuildCommand == Step("look", "textures") \o Descriptor("rtvHeaps")
                    \o Step("look", "rootSignatures") \o Reading("constantBuffers", <<>>)
                    \o Step("look", "vertexBuffers")

Task(task) ==
    CASE task = "command"     -> Record(BuildCommand)
      [] task = "upload"      -> Record(Locking("device", <<>>))
      [] task = "destroyMain" -> Record(GetObject("textures"))
      [] task = "destroyDone" -> Writing("textures", Locking("rtvHeaps", <<>>))
      [] task = "compileMain" -> Reading("pipelineStates", Reading("rootSignatures", <<>>)
                                                           \o Reading("inputLayouts", <<>>))

-----------------------------------------------------------------------------
Init == /\ todo = [t \in Threads |-> <<>>]
        /\ readers = [l \in Shared |-> [t \in Threads |-> 0]]
        /\ writer = [l \in Locks |-> {}]
        /\ handles = [t \in Clients |-> {}]
        /\ queue = [s \in Slots |-> <<>>] /\ parked = FALSE
        /\ calls = 0 /\ careless = FALSE

Idle(t) == todo[t] = <<>>
Next1(t) == Head(todo[t])
At(t, do) == ~ Idle(t) /\ Next1(t).do = do
Lock(t) == Next1(t).of

\* lock_shared.
Read(t) == /\ At(t, "read") /\ writer[Lock(t)] = {}
           /\ readers' = [readers EXCEPT ![Lock(t)][t] = @ + 1]
           /\ UNCHANGED <<writer, handles, queue, parked>>

\* lock, of a mutex or up to where new readers are shut out ...
Reserve(t) == /\ At(t, "reserve") /\ writer[Lock(t)] = {}
              /\ writer' = [writer EXCEPT ![Lock(t)] = {t}]
              /\ UNCHANGED <<readers, handles, queue, parked>>

\* The writer goes on while there are readers (a mutant).
DrainedNot(l) == TRUE
\* ... and when the readers are gone.
Drained(l) == \A t \in Threads : readers[l][t] = 0

Drain(t) == /\ At(t, "drain") /\ Drained(Lock(t))
            /\ UNCHANGED <<readers, writer, handles, queue, parked>>

\* unlock or unlock_shared.
Free(t) == /\ At(t, "free")
           /\ IF t \in writer[Lock(t)]
              THEN writer' = [writer EXCEPT ![Lock(t)] = {}] /\ UNCHANGED readers
              ELSE readers' = [readers EXCEPT ![Lock(t)][t] = @ - 1] /\ UNCHANGED writer
           /\ UNCHANGED <<handles, queue, parked>>

Transferred(t) == UNCHANGED readers

\* The lock moves into the handle, which has it "to avoid removal while user is
\* still using it".
Keep(t) == /\ At(t, "keep") /\ Transferred(t)
           /\ handles' = [handles EXCEPT ![t] = @ \cup {Lock(t)}]
           /\ UNCHANGED <<writer, queue, parked>>

\* A look into a map, without its lock.
Look(t) == At(t, "look") /\ UNCHANGED <<readers, writer, handles, queue, parked>>

Put(slot, task) == [queue EXCEPT ![slot] = Append(@, task)]

Submit(t) == /\ \/ At(t, "submit") /\ queue' = Put(0, Next1(t).of)
                \/ At(t, "later") /\ queue' = Put(1, Next1(t).of)
             /\ UNCHANGED <<readers, writer, handles, parked>>

\* The barrier: every worker has run out of tasks.
Park(t) == /\ At(t, "park") /\ queue[0] = <<>> /\ \A w \in Workers : Idle(w)
           /\ parked' = TRUE
           /\ UNCHANGED <<readers, writer, handles, queue>>

Swap(t) == /\ At(t, "swap") /\ queue' = Rotated(queue) /\ parked' = FALSE
           /\ UNCHANGED <<readers, writer, handles>>

Clear(t) == /\ At(t, "clear") /\ queue' = [s \in Slots |-> <<>>]
            /\ UNCHANGED <<readers, writer, handles, parked>>

Open(t) == /\ At(t, "open") /\ parked' = FALSE
           /\ UNCHANGED <<readers, writer, handles, queue>>

Continue(t) ==
    /\ \/ Read(t) \/ Reserve(t) \/ Drain(t) \/ Free(t) \/ Keep(t) \/ Look(t)
       \/ Submit(t) \/ Park(t) \/ Swap(t) \/ Clear(t) \/ Open(t)
    /\ todo' = [todo EXCEPT ![t] = Tail(@)]
    /\ UNCHANGED <<calls, careless>>

\* A worker takes a task.
Take(w) == /\ Idle(w) /\ ~ parked /\ queue[0] # <<>>
           /\ todo' = [todo EXCEPT ![w] = Task(Head(queue[0]))]
           /\ queue' = [queue EXCEPT ![0] = Tail(@)]
           /\ UNCHANGED <<readers, writer, handles, parked, calls, careless>>

\* The map of which an operation returns a handle.
HandleOf(op) == CASE op = "createConstantBuffer" -> {"constantBuffers"}
                  [] op = "createInputLayout"    -> {"inputLayouts"}
                  [] op = "createRootSignature"  -> {"rootSignatures"}
                  [] OTHER                       -> {}

\* A thread keeps a handle of the map, or is about to.
InUse(map) == \E t \in Clients : \/ map \in handles[t]
                                 \/ \E i \in 1..Len(todo[t]) : todo[t][i] = [do |-> "keep", of |-> map]

\* No second object of a kind, by any thread, while a handle of that kind lives: what
\* the locks take for granted, though nothing says so.
Careful(op) == \A map \in HandleOf(op) : ~ InUse(map)

\* The framework's calls come from one thread at a time.
OneFramework(op) ==
    op \in {"present", "resize"} =>
        \A u \in Clients : \A i \in 1..Len(todo[u]) : todo[u][i].do # "park"

Call(t) == /\ Idle(t) /\ calls < MaxCalls /\ calls' = calls + 1
           /\ \E op \in Ops : /\ OneFramework(op)
                             /\ todo' = [todo EXCEPT ![t] = Script(op)]
                             /\ careless' = (careless \/ ~ Careful(op))
           /\ UNCHANGED <<readers, writer, handles, queue, parked>>

\* The destructor of a handle.
Drop(t) == /\ Idle(t)
           /\ \E map \in handles[t] :
                 /\ handles' = [handles EXCEPT ![t] = @ \ {map}]
                 /\ readers' = [readers EXCEPT ![map][t] = @ - 1]
           /\ UNCHANGED <<todo, writer, queue, parked, calls, careless>>

Next == \/ \E t \in Threads : Continue(t)
        \/ \E w \in Workers : Take(w)
        \/ \E t \in Clients : Call(t) \/ Drop(t)

Spec == Init /\ [][Next]_vars

\* A thread whose next step is possible takes it; nobody need ever call again.
FairSpec == /\ Spec
            /\ \A t \in Threads : WF_vars(Continue(t))
            /\ \A w \in Workers : WF_vars(Take(w))

-----------------------------------------------------------------------------
\* t is between lock and unlock of a writer.
Inside(t, l) == t \in writer[l] /\ ~ (At(t, "drain") /\ Lock(t) = l)

\* constant_buffer_impl.h:46: "to avoid removal while user is still using it".  No
\* thread changes a map while a handle of one of its objects lives, although the
\* handle's lock was taken in another function and by way of three moves.
HandlesProtect == \A t \in Clients : \A map \in handles[t] :
                      \A u \in Threads : ~ Inside(u, map)

\* No call and no task waits for ever, on its own lock or in a circle with others,
\* whatever the application's threads and the workers do at the same time, unless
\* somebody asks for a second object while a handle of its kind lives.
EveryCallReturns == \A t \in Threads : ~ Idle(t) ~> (Idle(t) \/ careless)

-----------------------------------------------------------------------------
\* dx12_command_builder.cpp:40: "at this stage shouldn't need to lock to access
\* resources anymore".  Nobody changes a map that a worker looks into.
LookupsAlone == \A t \in Workers : At(t, "look") =>
                    \A u \in Threads : ~ Inside(u, Lock(t))
=============================================================================
