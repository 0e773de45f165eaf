------------------------- MODULE CommandListsProofs -------------------------
(***************************************************************************)
(* CommandLists: for any number of workers, frames, objects and commands,  *)
(* no allocator is reset under a list, a list that was left open tried to  *)
(* destroy an index buffer, what a list uses outlives it while tasks keep  *)
(* to their frame, and what it announces of resources is what the GPU      *)
(* finds.                                                                  *)
(***************************************************************************)
EXTENDS CommandLists, FiniteSetTheorems, WellFoundedInduction, TLAPS

PendingOf(w) == {l \in pending : l.by = w}

\* The frame's number, and where present() is.
FrameOK == /\ frame \in Frames
           /\ pc \in {"idle", "submit", "execute"}
           /\ pc = "idle" => pending = {}
           /\ pc = "execute" => toSubmit = {}

\* A worker that has not seen the current frame has no list in its allocator.
FrameUnseen == \A w \in Workers :
    seen[w] # frame => \A l \in lists[w] \cup PendingOf(w) : l.alloc # frame

\* While present() is under way, a worker that has started has seen the frame, and
\* one whose lists were taken has lists of this frame only.
SeenInPresent == \A w \in Workers : pc # "idle" =>
    /\ wpc[w] # "top" => seen[w] = frame
    /\ w \notin toSubmit => \A l \in lists[w] : l.alloc = frame

Signed == \A w \in Workers : \A l \in lists[w] : l.by = w

Functions == /\ lists = [w \in Workers |-> lists[w]]
             /\ wpc = [w \in Workers |-> wpc[w]]
             /\ seen = [w \in Workers |-> seen[w]]

FrameInv == FrameOK /\ FrameUnseen /\ SeenInPresent /\ Signed /\ Functions

-----------------------------------------------------------------------------
\* Two frames in a row are different.
LEMMA NextFrameDiffers ==
  ASSUME frame \in Frames PROVE NextFrame \in Frames /\ NextFrame # frame
<1>1. frame \in Nat /\ NumFrames \in Nat /\ NumFrames >= 2 /\ frame < NumFrames
  BY ListsAssumption DEF Frames
<1>2. CASE frame + 1 < NumFrames
  <2>1. (frame + 1) % NumFrames = frame + 1
    BY <1>1, <1>2
  <2>2. QED
    BY <1>1, <1>2, <2>1 DEF NextFrame, Frames
<1>3. CASE frame + 1 = NumFrames
  <2>1. (frame + 1) % NumFrames = 0
    BY <1>1, <1>3
  <2>2. QED
    BY <1>1, <1>3, <2>1 DEF NextFrame, Frames
<1>4. QED
  BY <1>1, <1>2, <1>3

\* What a task records is a list of its worker, in the allocator the worker uses.
LEMMA RunRecords ==
  ASSUME NEW w \in Workers, Run(w)
  PROVE  \/ UNCHANGED lists
         \/ \E l : /\ lists' = [lists EXCEPT ![w] = @ \cup {l}]
                   /\ l.alloc = seen[w] /\ l.by = w
<1>1. PICK t \in hand[w] : Record(w, t) \/ DestroyDone(w, t)
  BY DEF Run
<1>2. CASE DestroyDone(w, t)
  BY <1>2 DEF DestroyDone
<1>3. CASE Record(w, t)
  <2>1. \A p, c, s, u : /\ List(w, t, p, c, s, u).alloc = seen[w]
                         /\ List(w, t, p, c, s, u).by = w
    BY DEF List
  <2>2. ASSUME NEW p, NEW c, NEW s, NEW u, Push(w, List(w, t, p, c, s, u))
        PROVE  \E l : /\ lists' = [lists EXCEPT ![w] = @ \cup {l}]
                      /\ l.alloc = seen[w] /\ l.by = w
    <3> DEFINE new == List(w, t, p, c, s, u)
    <3>1. lists' = [lists EXCEPT ![w] = @ \cup {new}] /\ new.alloc = seen[w] /\ new.by = w
      BY <2>1, <2>2 DEF Push
    <3> HIDE DEF new
    <3>2. QED
      BY <3>1
  <2>3. CASE BuildThrows(w, t) \/ BuildGivesUp(w, t)
    BY <2>3 DEF BuildThrows, BuildGivesUp
  <2>4. CASE BuildCommand(w, t)
    BY <2>2, <2>4 DEF BuildCommand
  <2>5. CASE CreateMemory(w, t)
    BY <2>2, <2>5 DEF CreateMemory
  <2>6. CASE CleanupCreate(w, t)
    BY <2>2, <2>6 DEF CleanupCreate, Discard
  <2>7. CASE DestroyMain(w, t)
    BY <2>2, <2>7 DEF DestroyMain, Discard
  <2>8. QED
    BY <1>3, <2>3, <2>4, <2>5, <2>6, <2>7 DEF Record
<1>4. QED
  BY <1>1, <1>2, <1>3

-----------------------------------------------------------------------------
\* A worker's step keeps the invariant.
LEMMA WorkerKeepsFrame ==
  ASSUME FrameInv, NEW w \in Workers, Worker(w) PROVE FrameInv'
<1> USE DEF FrameInv, FrameOK, FrameUnseen, SeenInPresent, Signed, Functions, PendingOf
<1>1. UNCHANGED <<frame, pc, pending, toSubmit>>
  BY DEF Worker, device
<1>2. CASE LoopTop(w)
  BY <1>1, <1>2 DEF LoopTop, At
<1>3. CASE TakeGPU(w) \/ TakeGeneric(w) \/ TakeNothing(w)
  <2>1. /\ UNCHANGED <<lists, seen>>
        /\ wpc[w] = "pop"
        /\ \E to : wpc' = [wpc EXCEPT ![w] = to]
    BY <1>3 DEF TakeGPU, TakeGeneric, TakeNothing, Takes, At
  <2>2. QED
    BY <1>1, <2>1
<1>4. CASE Run(w)
  <2>1. wpc[w] = "run" /\ wpc' = [wpc EXCEPT ![w] = "top"] /\ UNCHANGED seen
    BY <1>4 DEF Run, At
  <2>2. CASE UNCHANGED lists
    BY <1>1, <2>1, <2>2
  <2>3. ASSUME NEW l, lists' = [lists EXCEPT ![w] = @ \cup {l}],
               l.alloc = seen[w], l.by = w
        PROVE  FrameInv'
    BY <1>1, <2>1, <2>3
  <2>4. QED
    BY <1>4, <2>2, <2>3, RunRecords
<1>5. QED
  BY <1>2, <1>3, <1>4 DEF Worker

\* So does every step of present() and of a resize.
LEMMA FrameStep == ASSUME FrameInv, [Next]_vars PROVE FrameInv'
<1> USE DEF FrameInv, FrameOK, FrameUnseen, SeenInPresent, Signed, Functions, PendingOf
<1>1. CASE Application
  BY <1>1 DEF Application, device, workers
<1>2. CASE Swap
  BY <1>2 DEF Swap, Parked, workers
<1>3. ASSUME NEW w \in Workers, SubmitCommandList(w) PROVE FrameInv'
  <2>1. /\ pc = "submit" /\ w \in toSubmit /\ toSubmit' = toSubmit \ {w}
        /\ pending' = pending \cup lists[w] /\ lists' = [lists EXCEPT ![w] = {}]
        /\ pc' \in {"submit", "execute"} /\ (pc' = "execute" => toSubmit' = {})
        /\ UNCHANGED <<frame, wpc, seen>>
    BY <1>3 DEF SubmitCommandList
  <2>2. FrameUnseen'
    <3>1. ASSUME NEW v \in Workers, seen[v] # frame, NEW l \in lists'[v] \cup PendingOf(v)'
          PROVE  l.alloc # frame
      BY <2>1, <3>1
    <3>2. QED
      BY <2>1, <3>1
  <2>3. QED
    BY <2>1, <2>2
<1>4. ASSUME NEW l \in pending, Execute(l) PROVE FrameInv'
  BY <1>4 DEF Execute, workers
<1>5. CASE Advance
  BY <1>5, NextFrameDiffers DEF Advance, workers
<1>6. CASE Resize
  <2>1. 0 \in Frames
    BY ListsAssumption DEF Frames
  <2>2. QED
    BY <1>6, <2>1 DEF Resize, NoLists
<1>7. CASE UNCHANGED vars
  BY <1>7 DEF vars, device, workers
<1>8. QED
  BY <1>1, <1>2, <1>3, <1>4, <1>5, <1>6, <1>7, WorkerKeepsFrame DEF Next

\* What was said of the allocators: no list waits in one that is being reset.
THEOREM AllocatorsStayIdle == Spec => []AllocatorsIdle
<1>1. Init => FrameInv
  <2>1. 0 \in Frames
    BY ListsAssumption DEF Frames
  <2>2. QED
    BY <2>1 DEF Init, FrameInv, FrameOK, FrameUnseen, SeenInPresent, Signed, Functions,
                PendingOf
<1>2. FrameInv => AllocatorsIdle
  BY DEF FrameInv, FrameUnseen, AllocatorsIdle, Reset, PendingOf
<1>3. QED
  BY <1>1, <1>2, FrameStep, PTL DEF Spec

-----------------------------------------------------------------------------
(***************************************************************************)
(* Destruction.  A request waits in destroyQueue_ for an object that is    *)
(* still in its map and has no handle any more, so none waits twice: the   *)
(* object in front is found, unless it is looked for in the wrong map.     *)
(***************************************************************************)
Waiting == {destroyQueue[i] : i \in 1..Len(destroyQueue)}

QueueOK == /\ destroyQueue \in Seq(Objects)
           /\ \A i, j \in 1..Len(destroyQueue) :
                 destroyQueue[i] = destroyQueue[j] => i = j

Awaited == Waiting \subseteq live /\ Waiting \cap handles = {} /\ handles \subseteq live \cap Objects

\* Where lists are, between the worker and the GPU.
OpenAreIndexed ==
    \A l \in pending \cup UNION {lists[w] : w \in Workers} :
        ~ l.closed => l.uses \subseteq IndexBuffers

DestroyInv == QueueOK /\ Awaited /\ OpenAreIndexed

\* The lists after one more, which is closed or uses index buffers only.
LEMMA OneMoreList ==
  ASSUME FrameInv, OpenAreIndexed, NEW w \in Workers, NEW l,
         lists' = [lists EXCEPT ![w] = @ \cup {l}], UNCHANGED pending,
         ~ l.closed => l.uses \subseteq IndexBuffers
  PROVE  OpenAreIndexed'
BY DEF OpenAreIndexed, FrameInv, Functions

\* A task that leaves its list open leaves that of an index buffer's destruction.
LEMMA RunOpensIndexed ==
  ASSUME FrameInv, DestroyInv, NEW w \in Workers, Run(w), UNCHANGED pending
  PROVE  OpenAreIndexed'
<1>1. PICK t \in hand[w] : Record(w, t) \/ DestroyDone(w, t)
  BY DEF Run
<1>2. CASE UNCHANGED lists
  BY <1>2 DEF DestroyInv, OpenAreIndexed
<1>3. ASSUME NEW p, NEW c, NEW s, NEW u, Push(w, List(w, t, p, c, s, u)),
             ~ c => u \subseteq IndexBuffers
      PROVE  OpenAreIndexed'
  <2> DEFINE new == List(w, t, p, c, s, u)
  <2>1. lists' = [lists EXCEPT ![w] = @ \cup {new}]
    BY <1>3 DEF Push
  <2>2. new.closed = c /\ new.uses = u
    BY DEF List
  <2> HIDE DEF new
  <2>3. QED
    BY <1>3, <2>1, <2>2, OneMoreList DEF DestroyInv
<1>4. CASE BuildThrows(w, t) \/ BuildGivesUp(w, t) \/ DestroyDone(w, t)
  BY <1>2, <1>4 DEF BuildThrows, BuildGivesUp, DestroyDone
<1>5. CASE BuildCommand(w, t)
  BY <1>3, <1>5 DEF BuildCommand
<1>6. CASE CreateMemory(w, t)
  BY <1>3, <1>6 DEF CreateMemory
<1>7. CASE CleanupCreate(w, t)
  BY <1>3, <1>7 DEF CleanupCreate, Discard
<1>8. CASE DestroyMain(w, t)
  <2>1. CASE destroyQueue = <<>>
    BY <1>2, <1>8, <2>1 DEF DestroyMain
  <2>2. CASE destroyQueue # <<>>
    <3>1. Head(destroyQueue) = destroyQueue[1] /\ 1 \in 1..Len(destroyQueue)
      BY <2>2 DEF DestroyInv, QueueOK
    <3>2. Head(destroyQueue) \in live
      BY <3>1 DEF DestroyInv, Awaited, Waiting
    <3>3. ~ Found(Head(destroyQueue)) => {Head(destroyQueue)} \subseteq IndexBuffers
      BY <3>2 DEF Found
    <3>4. Push(w, List(w, t, 0, Found(Head(destroyQueue)), <<>>, {Head(destroyQueue)}))
      BY <1>8, <2>2 DEF DestroyMain, Discard
    <3>5. QED
      BY <1>3, <3>3, <3>4
  <2>3. QED
    BY <2>1, <2>2
<1>9. QED
  BY <1>1, <1>4, <1>5, <1>6, <1>7, <1>8 DEF Record

\* The rest of the queue, when the object in front leaves its map.
LEMMA DoneKeepsQueue ==
  ASSUME QueueOK, Awaited, NEW w \in Workers, NEW t, DestroyDone(w, t)
  PROVE  (QueueOK /\ Awaited)'
<1>1. CASE destroyQueue = <<>>
  BY <1>1 DEF DestroyDone, QueueOK, Awaited, Waiting
<1>2. CASE destroyQueue # <<>>
  <2>1. /\ destroyQueue' = Tail(destroyQueue)
        /\ live' = live \ Erased(destroyQueue) /\ UNCHANGED handles
        /\ Erased(destroyQueue) \subseteq {destroyQueue[1]}
    BY <1>2 DEF DestroyDone, Rest, Erased, QueueOK
  <2>2. /\ destroyQueue' \in Seq(Objects)
        /\ Len(destroyQueue') = Len(destroyQueue) - 1
        /\ \A i \in 1..Len(destroyQueue') : destroyQueue'[i] = destroyQueue[i + 1]
    BY <1>2, <2>1 DEF QueueOK
  <2>3. Len(destroyQueue) \in Nat \ {0} /\ 1 \in 1..Len(destroyQueue)
    BY <1>2 DEF QueueOK
  <2>4. \A i \in 1..Len(destroyQueue') :
           i + 1 \in 1..Len(destroyQueue) /\ destroyQueue'[i] # destroyQueue[1]
    <3> SUFFICES ASSUME NEW i \in 1..Len(destroyQueue')
                 PROVE  i + 1 \in 1..Len(destroyQueue) /\ destroyQueue'[i] # destroyQueue[1]
      OBVIOUS
    <3>1. i + 1 \in 1..Len(destroyQueue) /\ i + 1 # 1
      BY <2>2, <2>3
    <3>2. QED
      BY <2>2, <2>3, <3>1 DEF QueueOK
  <2>5. QueueOK'
    <3>1. \A i, j \in 1..Len(destroyQueue') :
             destroyQueue'[i] = destroyQueue'[j] => i + 1 = j + 1
      BY <2>2, <2>4 DEF QueueOK
    <3>2. QED
      BY <2>2, <2>3, <3>1 DEF QueueOK
  <2>6. Waiting' \subseteq Waiting \ {destroyQueue[1]}
    BY <2>2, <2>4 DEF Waiting
  <2>7. destroyQueue[1] \in Waiting
    BY <2>3 DEF Waiting
  <2>8. Awaited'
    BY <2>1, <2>6, <2>7 DEF Awaited
  <2>9. QED
    BY <2>5, <2>8
<1>3. QED
  BY <1>1, <1>2

\* A new object, and the destructor of a handle.
LEMMA ApplicationKeepsQueue ==
  ASSUME QueueOK, Awaited, Application PROVE (QueueOK /\ Awaited)'
<1>1. ASSUME NEW id \in Objects, NEW init, Created(id, init) PROVE (QueueOK /\ Awaited)'
  <2>1. UNCHANGED destroyQueue /\ live' = live \cup {id} /\ handles' = handles \cup {id}
        /\ id \notin live
    BY <1>1 DEF Created
  <2>2. QED
    BY <1>1, <2>1 DEF QueueOK, Awaited, Waiting
<1>2. ASSUME NEW id \in Objects, DestroyResource(id) PROVE (QueueOK /\ Awaited)'
  <2>1. /\ destroyQueue' = Append(destroyQueue, id) /\ UNCHANGED live
        /\ handles' = handles \ {id} /\ id \in handles
    BY <1>2 DEF DestroyResource
  <2>2. /\ destroyQueue' \in Seq(Objects)
        /\ Len(destroyQueue') = Len(destroyQueue) + 1 /\ Len(destroyQueue) \in Nat
        /\ \A i \in 1..Len(destroyQueue') :
              destroyQueue'[i] = IF i = Len(destroyQueue) + 1 THEN id ELSE destroyQueue[i]
    BY <2>1 DEF QueueOK
  <2>3. \A i \in 1..Len(destroyQueue) : destroyQueue[i] # id
    BY <2>1 DEF Awaited, Waiting
  <2>4. QueueOK'
    BY <2>2, <2>3 DEF QueueOK
  <2>5. Waiting' \subseteq Waiting \cup {id}
    BY <2>2 DEF Waiting
  <2>6. Awaited'
    BY <2>1, <2>5 DEF Awaited
  <2>7. QED
    BY <2>4, <2>6
<1>3. ASSUME NEW d \in Descs, SubmitCommand(d) PROVE (QueueOK /\ Awaited)'
  BY <1>3 DEF SubmitCommand, objects, QueueOK, Awaited, Waiting
<1>4. QED
  BY <1>1, <1>2, <1>3 DEF Application, CreateTexture, CreateBuffer, Objects

\* Every step keeps what is known of the queue of destructions.
LEMMA DestroyStep == ASSUME FrameInv, DestroyInv, [Next]_vars PROVE DestroyInv'
<1>1. CASE Application
  <2>1. UNCHANGED <<pending, lists>>
    BY <1>1 DEF Application, device, workers
  <2>2. QED
    BY <1>1, <2>1, ApplicationKeepsQueue DEF DestroyInv, OpenAreIndexed
<1>2. ASSUME NEW w \in Workers, Worker(w) PROVE DestroyInv'
  <2>1. UNCHANGED pending
    BY <1>2 DEF Worker, device
  <2>2. CASE Run(w)
    <3>1. PICK t \in hand[w] : Record(w, t) \/ DestroyDone(w, t)
      BY <2>2 DEF Run
    <3>2. (QueueOK /\ Awaited)'
      BY <3>1, DoneKeepsQueue DEF DestroyInv, Record, objects, QueueOK, Awaited, Waiting
    <3>3. QED
      BY <2>1, <2>2, <3>2, RunOpensIndexed DEF DestroyInv
  <2>3. CASE ~ Run(w)
    BY <1>2, <2>1, <2>3 DEF Worker, LoopTop, TakeGPU, TakeGeneric, TakeNothing, objects,
          DestroyInv, QueueOK, Awaited, Waiting, OpenAreIndexed
  <2>4. QED
    BY <2>2, <2>3
<1>3. CASE \/ Swap \/ Advance \/ Resize \/ UNCHANGED vars
           \/ (\E w \in Workers : SubmitCommandList(w)) \/ \E l \in pending : Execute(l)
  <2>1. UNCHANGED <<destroyQueue, live, handles>>
    BY <1>3 DEF Swap, Advance, Resize, vars, SubmitCommandList, Execute, objects
  <2>2. pending' \cup UNION {lists'[w] : w \in Workers}
            \subseteq pending \cup UNION {lists[w] : w \in Workers}
    BY <1>3 DEF Swap, Advance, Resize, vars, SubmitCommandList, Execute, workers, device,
          NoLists, FrameInv, Functions
  <2>3. QED
    BY <2>1, <2>2 DEF DestroyInv, QueueOK, Awaited, Waiting, OpenAreIndexed
<1>4. QED
  BY <1>1, <1>2, <1>3 DEF Next

\* However destructions are put off and whatever a resize drops, a list that is
\* handed over without having been closed concerns an index buffer.
THEOREM OpenListsIndexed == Spec => []OpenOnlyForIndexBuffers
<1>1. Init => FrameInv /\ DestroyInv
  <2>1. 0 \in Frames
    BY ListsAssumption DEF Frames
  <2>2. QED
    BY <2>1 DEF Init, FrameInv, FrameOK, FrameUnseen, SeenInPresent, Signed, Functions,
                PendingOf, DestroyInv, QueueOK, Awaited, Waiting, OpenAreIndexed
<1>2. DestroyInv => OpenOnlyForIndexBuffers
  BY DEF DestroyInv, OpenAreIndexed, OpenOnlyForIndexBuffers
<1>3. QED
  BY <1>1, <1>2, FrameStep, DestroyStep, PTL DEF Spec

-----------------------------------------------------------------------------
(***************************************************************************)
(* Memory.  While no tasks are left behind and none runs inside            *)
(* present(), what a worker records belongs to the frame in which it was   *)
(* asked for, and is taken at its end.  So the GPU has executed a list     *)
(* before the clean-up of the same upload buffer, and the destruction of   *)
(* an object given up in the same frame, can come to their turn.           *)
(***************************************************************************)
GPUTasks == [op : {"create", "cleanupCreate", "destroyMain"}, id : Objects]
            \cup [op : {"command"}, id : Nat, desc : Descs, asked : Frames]
Done     == [op |-> "destroyDone"]

Elements(q) == {q[i] : i \in 1..Len(q)}
InSlot(s) == Elements(gpu[s])
InHand    == UNION {hand[w] : w \in Workers}
Near      == InSlot(0) \cup InHand
AllLists  == pending \cup UNION {lists[w] : w \in Workers}
Asked     == InSlot(0) \cup InSlot(1) \cup InSlot(2) \cup InHand \cup AllLists

TasksOK ==
    /\ gpu \in [Slots -> Seq(GPUTasks)] /\ gen \in [Slots -> Seq({Done})]
    /\ calls \in Nat
    /\ hand = [w \in Workers |-> hand[w]]
    /\ \A w \in Workers :
          \/ wpc[w] = "run" /\ \E t \in GPUTasks \cup {Done} : hand[w] = {t}
          \/ wpc[w] # "run" /\ hand[w] = {}

\* Whatever makes a buffer or cleans up after it concerns one that was created.
Known(t) == t.op \in {"create", "cleanupCreate"} => t.id \in Buffers /\ initial[t.id] # "none"
Born ==
    /\ \A t \in Asked : Known(t)
    /\ initial = [r \in Resources |-> initial[r]]
    /\ upload = [b \in Buffers |-> upload[b]]

\* Every destroyDone has its entry in the queue of destructions.
Enders == {w \in Workers : \E t \in hand[w] : t.op = "destroyDone"}
Counted ==
    /\ IsFiniteSet(Enders)
    /\ Len(gen[0]) + Len(gen[1]) + Len(gen[2]) + Cardinality(Enders) <= Len(destroyQueue)

\* The entries made in this frame, which are the last.
Recent == {destroyQueue[i] : i \in {j \in 1..Len(destroyQueue) :
                                       j > Len(destroyQueue) - Len(gen[1])}}

\* What is asked for in a frame is recorded in it, and taken at its end.
OfFrame(t) == t.op \in {"create", "command"}
InFrame ==
    /\ \A t \in InSlot(1) \cup InSlot(2) : ~ OfFrame(t)
    /\ gen[2] = <<>>
    /\ pc # "idle" => /\ \A t \in Near : ~ OfFrame(t)
                      /\ gen[1] = <<>>
                      /\ \A w \in Workers \ toSubmit : lists[w] = {}

\* An upload is not cleaned up before the GPU has done with it.
Creating(id) == \E t \in Near \cup AllLists : t.op = "create" /\ t.id = id
CleansUp(t, id) == t.op = "cleanupCreate" /\ t.id = id
Uploads ==
    /\ \A l \in AllLists : l.op = "create" => upload[l.id] = "data"
    /\ \A id \in Buffers : Creating(id) =>
          /\ \A l \in AllLists : ~ CleansUp(l, id)
          /\ pc = "idle" => \A t \in Near : ~ CleansUp(t, id)

\* The objects of a command were held when its frame ended, or given up in it.
Uses ==
    /\ \A t \in Near : t.op = "command" => Named(t.desc) \cap Objects \subseteq handles \cup Recent
    /\ \A l \in AllLists : l.op = "command" =>
          /\ l.uses \subseteq live
          /\ pc = "idle" => l.uses \subseteq handles \cup Recent

Orderly == ~ hasty /\ ~ late
MemoryInv == TasksOK /\ Born /\ Counted /\ (Orderly => InFrame /\ Uploads /\ Uses)

-----------------------------------------------------------------------------
\* The elements of a queue's tail, and of a queue with one more.
LEMMA ElementsOf ==
  ASSUME NEW S, NEW q \in Seq(S)
  PROVE  /\ Elements(<<>>) = {}
         /\ \A t \in S : Elements(Append(q, t)) = Elements(q) \cup {t}
         /\ q # <<>> => /\ Head(q) \in Elements(q) /\ Elements(Tail(q)) \subseteq Elements(q)
                        /\ Head(q) \in S /\ Tail(q) \in Seq(S) /\ Len(Tail(q)) = Len(q) - 1
                        /\ Elements(q) = {Head(q)} \cup Elements(Tail(q))
<1>1. Elements(<<>>) = {}
  BY DEF Elements
<1>2. ASSUME NEW t \in S PROVE Elements(Append(q, t)) = Elements(q) \cup {t}
  <2>1. /\ Len(Append(q, t)) = Len(q) + 1 /\ Len(q) \in Nat
        /\ \A i \in 1..(Len(q) + 1) : Append(q, t)[i] = IF i = Len(q) + 1 THEN t ELSE q[i]
    OBVIOUS
  <2>2. Append(q, t)[Len(q) + 1] = t /\ \A i \in 1..Len(q) : Append(q, t)[i] = q[i]
    BY <2>1
  <2>3. 1..(Len(q) + 1) = 1..Len(q) \cup {Len(q) + 1}
    BY <2>1
  <2>4. QED
    BY <2>1, <2>2, <2>3 DEF Elements
<1>3. ASSUME q # <<>>
      PROVE  /\ Head(q) \in Elements(q) /\ Elements(Tail(q)) \subseteq Elements(q)
             /\ Head(q) \in S /\ Tail(q) \in Seq(S) /\ Len(Tail(q)) = Len(q) - 1
             /\ Elements(q) = {Head(q)} \cup Elements(Tail(q))
  <2>1. Len(q) \in Nat \ {0} /\ Head(q) = q[1] /\ Len(Tail(q)) = Len(q) - 1 /\ Tail(q) \in Seq(S)
    BY <1>3
  <2>2. \A i \in 1..Len(Tail(q)) : Tail(q)[i] = q[i + 1] /\ i + 1 \in 1..Len(q)
    BY <1>3, <2>1
  <2>3. ASSUME NEW i \in 1..Len(q), i # 1 PROVE q[i] \in Elements(Tail(q))
    <3>1. i - 1 \in 1..Len(Tail(q)) /\ (i - 1) + 1 = i
      BY <2>1, <2>3
    <3>2. Tail(q)[i - 1] = q[i]
      BY <2>2, <3>1
    <3>3. QED
      BY <3>1, <3>2 DEF Elements
  <2>4. Head(q) \in Elements(q) /\ Elements(Tail(q)) \subseteq Elements(q)
    BY <2>1, <2>2 DEF Elements
  <2>5. \A u \in Elements(q) : u = Head(q) \/ u \in Elements(Tail(q))
    BY <2>1, <2>3 DEF Elements
  <2>6. Elements(q) = {Head(q)} \cup Elements(Tail(q))
    BY <2>4, <2>5
  <2>7. QED
    BY <2>1, <2>4, <2>6
<1>4. QED
  BY <1>1, <1>2, <1>3

\* One more task in a slot.
LEMMA Putting ==
  ASSUME NEW q \in [Slots -> Seq(GPUTasks)], NEW k \in Slots, NEW t \in GPUTasks
  PROVE  /\ Put(q, k, t) \in [Slots -> Seq(GPUTasks)]
         /\ Elements(Put(q, k, t)[k]) = Elements(q[k]) \cup {t}
         /\ \A s \in Slots \ {k} : Put(q, k, t)[s] = q[s]
<1>1. q[k] \in Seq(GPUTasks)
  OBVIOUS
<1>2. Elements(Append(q[k], t)) = Elements(q[k]) \cup {t} /\ Append(q[k], t) \in Seq(GPUTasks)
  BY <1>1, ElementsOf
<1>3. QED
  BY <1>2 DEF Put

\* What was asked for stays known while no buffer is forgotten.
LEMMA StillKnown ==
  ASSUME Born, \A t \in Asked' : t \in Asked \/ Known(t)',
         \A r \in Buffers : initial[r] # "none" => initial'[r] # "none",
         initial' = [r \in Resources |-> initial'[r]],
         upload' = [b \in Buffers |-> upload'[b]]
  PROVE  Born'
BY DEF Born, Known

\* The invariants of the uploads and of the uses, when no task of a frame is added.
LEMMA UploadsRest ==
  ASSUME Uploads, AllLists' \subseteq AllLists, UNCHANGED upload,
         \A t \in Near' : t \in Near \/ t.op \notin {"create", "cleanupCreate"},
         pc' = "idle" => pc = "idle"
  PROVE  Uploads'
<1>1. \A id : Creating(id)' => Creating(id)
  BY DEF Creating
<1>2. QED
  BY <1>1 DEF Uploads, CleansUp

\* The same of the objects that commands name.
LEMMA UsesRest ==
  ASSUME Uses, AllLists' \subseteq AllLists, live \subseteq live',
         handles \cup Recent \subseteq (handles \cup Recent)',
         \A t \in Near' : t \in Near \/ t.op # "command",
         pc' = "idle" => pc = "idle"
  PROVE  Uses'
BY DEF Uses

-----------------------------------------------------------------------------
(***************************************************************************)
(* The application's calls, which come between two frames.                 *)
(***************************************************************************)
Kept == UNCHANGED <<pending, lists, hand, wpc, pc, late, hasty>>

\* A new texture.
LEMMA CreateTextureKeeps ==
  ASSUME MemoryInv, NEW id \in Textures, NEW usage \in Usages, CreateTexture(id, usage),
         Kept, calls' \in Nat, pc = "idle"
  PROVE  MemoryInv'
<1> USE DEF Kept, MemoryInv
<1>1. /\ UNCHANGED <<upload, gpu, gen, destroyQueue>>
      /\ live' = live \cup {id} /\ handles' = handles \cup {id}
      /\ initial' = [initial EXCEPT ![id] = InitialState(usage)]
  BY DEF CreateTexture, Created, queues
<1>2. /\ UNCHANGED <<InSlot(0), InSlot(1), InSlot(2), InHand, AllLists, Enders>>
      /\ UNCHANGED <<Near, Recent, Asked>>
  BY <1>1 DEF InSlot, InHand, AllLists, Enders, Near, Recent, Asked
<1>3. TasksOK' /\ Counted'
  BY <1>1, <1>2 DEF TasksOK, Counted
<1>4. Born'
  <2>1. \A b \in Buffers : initial'[b] = initial[b]
    BY <1>1, ListsAssumption DEF Born
  <2>2. initial' = [r \in Resources |-> initial'[r]] /\ upload' = [b \in Buffers |-> upload'[b]]
    BY <1>1 DEF Born
  <2>3. QED
    BY <1>2, <2>1, <2>2, StillKnown
<1>5. ASSUME Orderly' PROVE (InFrame /\ Uploads /\ Uses)'
  <2>1. InFrame /\ Uploads /\ Uses
    BY <1>5 DEF Orderly
  <2>2. InFrame'
    BY <1>1, <1>2, <2>1 DEF InFrame, InSlot
  <2>3. Uploads' /\ Uses'
    BY <1>1, <1>2, <2>1, UploadsRest, UsesRest
  <2>4. QED
    BY <2>2, <2>3
<1>6. QED
  BY <1>3, <1>4, <1>5

\* A new buffer, with the task that makes it and the one that cleans up after it.
LEMMA CreateBufferKeeps ==
  ASSUME MemoryInv, NEW id \in Buffers, CreateBuffer(id), Kept, calls' \in Nat, pc = "idle"
  PROVE  MemoryInv'
<1> USE DEF Kept, MemoryInv
<1> DEFINE make == [op |-> "create", id |-> id]
           clean == [op |-> "cleanupCreate", id |-> id]
<1>1. /\ UNCHANGED <<upload, gen, destroyQueue>>
      /\ gpu' = Put(Put(gpu, 0, make), 1, clean)
      /\ live' = live \cup {id} /\ handles' = handles \cup {id}
      /\ initial[id] = "none" /\ initial' = [initial EXCEPT ![id] = "COPY_DEST"]
  BY DEF CreateBuffer, Created, CleanupSlot, memory
<1>2. /\ make \in GPUTasks /\ clean \in GPUTasks
      /\ make.op = "create" /\ clean.op = "cleanupCreate" /\ make.id = id /\ clean.id = id
  BY DEF GPUTasks, Objects
<1> HIDE DEF make, clean
<1>3. /\ gpu' \in [Slots -> Seq(GPUTasks)]
      /\ InSlot(0)' = InSlot(0) \cup {make}
      /\ InSlot(1)' = InSlot(1) \cup {clean}
      /\ InSlot(2)' = InSlot(2)
  <2>1. 0 \in Slots /\ 1 \in Slots /\ 2 \in Slots /\ gpu \in [Slots -> Seq(GPUTasks)]
    BY DEF Slots, TasksOK
  <2> DEFINE once == Put(gpu, 0, make)
             twice == Put(once, 1, clean)
  <2>2. /\ once \in [Slots -> Seq(GPUTasks)]
        /\ Elements(once[0]) = Elements(gpu[0]) \cup {make}
        /\ \A s \in Slots \ {0} : once[s] = gpu[s]
    BY <1>2, <2>1, Putting
  <2> HIDE DEF once
  <2>3. /\ twice \in [Slots -> Seq(GPUTasks)]
        /\ Elements(twice[1]) = Elements(once[1]) \cup {clean}
        /\ \A s \in Slots \ {1} : twice[s] = once[s]
    BY <1>2, <2>1, <2>2, Putting
  <2> HIDE DEF twice
  <2>4. once[1] = gpu[1] /\ once[2] = gpu[2] /\ twice[0] = once[0] /\ twice[2] = once[2]
    BY <2>1, <2>2, <2>3
  <2>5. gpu' = twice
    BY <1>1 DEF once, twice
  <2>6. QED
    BY <2>2, <2>3, <2>4, <2>5 DEF InSlot
<1>4. /\ UNCHANGED <<InHand, AllLists, Enders, Recent>>
      /\ Near' = Near \cup {make} /\ Asked' = Asked \cup {make, clean}
  BY <1>1, <1>3 DEF InHand, AllLists, Enders, Near, Recent, Asked
<1>5. TasksOK' /\ Counted'
  BY <1>1, <1>3, <1>4 DEF TasksOK, Counted
<1>6. Born'
  <2>1. id \in Resources
    BY DEF Resources, Objects
  <2>2. initial'[id] = "COPY_DEST" /\ \A b \in Buffers : b # id => initial'[b] = initial[b]
    BY <1>1, <2>1 DEF Born
  <2>3. \A t \in {make, clean} : Known(t)'
    BY <1>2, <2>2 DEF Known
  <2>4. initial' = [r \in Resources |-> initial'[r]] /\ upload' = [b \in Buffers |-> upload'[b]]
    BY <1>1 DEF Born
  <2>5. \A b \in Buffers : initial[b] # "none" => initial'[b] # "none"
    BY <2>2
  <2>6. \A t \in Asked' : t \in Asked \/ Known(t)'
    BY <1>4, <2>3
  <2>7. QED
    BY <2>4, <2>5, <2>6, StillKnown
<1>7. ASSUME Orderly' PROVE (InFrame /\ Uploads /\ Uses)'
  <2>1. InFrame /\ Uploads /\ Uses
    BY <1>7 DEF Orderly
  <2>2. InFrame'
    BY <1>1, <1>2, <1>3, <2>1 DEF InFrame, OfFrame
  <2>3. \A t \in Near \cup AllLists : ~ CleansUp(t, id)
    BY <1>1 DEF Born, Asked, Near, Known, CleansUp
  <2>4. \A b : Creating(b)' => Creating(b) \/ b = id
    BY <1>2, <1>4 DEF Creating
  <2>5. \A b : ~ CleansUp(make, b)
    BY <1>2 DEF CleansUp
  <2>6. \A t \in Near' : t \in Near \/ t = make
    BY <1>4
  <2>7. Uploads'
    <3>1. \A l \in AllLists' : l.op = "create" => upload'[l.id] = "data"
      BY <1>1, <1>4, <2>1 DEF Uploads
    <3>2. ASSUME NEW b \in Buffers, Creating(b)'
          PROVE  /\ \A l \in AllLists' : ~ CleansUp(l, b)
                 /\ pc' = "idle" => \A t \in Near' : ~ CleansUp(t, b)
      <4>1. \A l \in AllLists \cup Near : ~ CleansUp(l, b)
        BY <2>1, <2>3, <2>4, <3>2 DEF Uploads
      <4>2. QED
        BY <1>4, <2>5, <2>6, <4>1
    <3>3. QED
      BY <3>1, <3>2 DEF Uploads, CleansUp
  <2>8. Uses'
    <3>1. make.op # "command"
      BY <1>2
    <3>2. live \subseteq live' /\ handles \cup Recent \subseteq (handles \cup Recent)'
      BY <1>1, <1>4
    <3>3. QED
      BY <1>4, <2>1, <2>6, <3>1, <3>2, UsesRest
  <2>9. QED
    BY <2>2, <2>7, <2>8
<1>8. QED
  BY <1>5, <1>6, <1>7

\* A handle given up: one entry more, and one destroyDone.
LEMMA DestroyResourceKeeps ==
  ASSUME MemoryInv, QueueOK, NEW id \in Objects, DestroyResource(id), Kept, calls' \in Nat,
         pc = "idle"
  PROVE  MemoryInv'
<1> USE DEF Kept, MemoryInv
<1> DEFINE main == [op |-> "destroyMain", id |-> id]
<1>1. /\ UNCHANGED <<upload, initial, live>>
      /\ gpu' = Put(gpu, 0, main) /\ gen' = [gen EXCEPT ![1] = Append(@, Done)]
      /\ handles' = handles \ {id} /\ destroyQueue' = Append(destroyQueue, id)
  BY DEF DestroyResource, memory, Put, Done
<1>2. main \in GPUTasks /\ main.op = "destroyMain"
  BY DEF GPUTasks
<1> HIDE DEF main
<1>3. 0 \in Slots /\ 1 \in Slots /\ 2 \in Slots
  BY DEF Slots
<1>4. /\ gpu' \in [Slots -> Seq(GPUTasks)]
      /\ InSlot(0)' = InSlot(0) \cup {main} /\ InSlot(1)' = InSlot(1) /\ InSlot(2)' = InSlot(2)
  <2>1. gpu \in [Slots -> Seq(GPUTasks)]
    BY DEF TasksOK
  <2> DEFINE once == Put(gpu, 0, main)
  <2>2. /\ once \in [Slots -> Seq(GPUTasks)]
        /\ Elements(once[0]) = Elements(gpu[0]) \cup {main}
        /\ \A s \in Slots \ {0} : once[s] = gpu[s]
    BY <1>2, <1>3, <2>1, Putting
  <2>3. gpu' = once
    BY <1>1
  <2> HIDE DEF once
  <2>4. once[1] = gpu[1] /\ once[2] = gpu[2]
    BY <1>3, <2>2
  <2>5. QED
    BY <2>2, <2>3, <2>4 DEF InSlot
<1>5. /\ gen' \in [Slots -> Seq({Done})] /\ gen[1] \in Seq({Done})
      /\ gen'[0] = gen[0] /\ gen'[2] = gen[2] /\ gen'[1] = Append(gen[1], Done)
  BY <1>1, <1>3 DEF TasksOK
<1>6. /\ Len(gen'[1]) = Len(gen[1]) + 1 /\ Len(gen[1]) \in Nat
      /\ Len(destroyQueue') = Len(destroyQueue) + 1 /\ Len(destroyQueue) \in Nat
      /\ destroyQueue'[Len(destroyQueue) + 1] = id
      /\ \A i \in 1..Len(destroyQueue) : destroyQueue'[i] = destroyQueue[i]
  BY <1>1, <1>5 DEF QueueOK
<1>7. /\ UNCHANGED <<InHand, AllLists, Enders>>
      /\ Near' = Near \cup {main} /\ Asked' = Asked \cup {main}
  BY <1>1, <1>4 DEF InHand, AllLists, Enders, Near, Asked
<1>8. Recent' = Recent \cup {id}
  <2> DEFINE n == Len(destroyQueue)
             k == Len(gen[1])
             J == {j \in 1..n : j > n - k}
  <2>1. n \in Nat /\ k \in Nat
    BY <1>6
  <2>2. Recent' = {destroyQueue'[i] : i \in {j \in 1..(n + 1) : j > (n + 1) - (k + 1)}}
    BY <1>6 DEF Recent
  <2>3. Recent = {destroyQueue[i] : i \in J}
    BY DEF Recent
  <2>4. \A i \in 1..n : destroyQueue'[i] = destroyQueue[i]
    BY <1>6
  <2>5. destroyQueue'[n + 1] = id
    BY <1>6
  <2> HIDE DEF n, k
  <2>6. {j \in 1..(n + 1) : j > (n + 1) - (k + 1)} = J \cup {n + 1}
    BY <2>1
  <2>7. \A j \in J : destroyQueue'[j] = destroyQueue[j]
    BY <2>4
  <2> HIDE DEF J
  <2>8. QED
    BY <2>2, <2>3, <2>5, <2>6, <2>7
<1>9. TasksOK'
  BY <1>1, <1>4, <1>5 DEF TasksOK
<1>10. Counted'
  <2>1. Len(gen[0]) \in Nat /\ Len(gen[2]) \in Nat /\ Cardinality(Enders) \in Nat
    BY <1>3, FS_CardinalityType DEF TasksOK, Counted
  <2>2. Len(gen'[0]) = Len(gen[0]) /\ Len(gen'[2]) = Len(gen[2])
    BY <1>5
  <2> DEFINE a == Len(gen[0])
             b == Len(gen[1])
             c == Len(gen[2])
             e == Cardinality(Enders)
             n == Len(destroyQueue)
  <2>3. a + b + c + e <= n
    BY DEF Counted
  <2>4. a \in Nat /\ b \in Nat /\ c \in Nat /\ e \in Nat /\ n \in Nat
    BY <1>6, <2>1
  <2>5. /\ Len(gen'[0]) = a /\ Len(gen'[1]) = b + 1 /\ Len(gen'[2]) = c
        /\ Cardinality(Enders)' = e /\ Len(destroyQueue') = n + 1
    BY <1>6, <1>7, <2>2
  <2>6. IsFiniteSet(Enders)'
    BY <1>7 DEF Counted
  <2> HIDE DEF a, b, c, e, n
  <2>7. a + (b + 1) + c + e <= n + 1
    BY <2>3, <2>4
  <2>8. QED
    BY <2>5, <2>6, <2>7 DEF Counted
<1>11. Born'
  <2>1. Known(main)'
    BY <1>2 DEF Known
  <2>2. initial' = [r \in Resources |-> initial'[r]] /\ upload' = [b \in Buffers |-> upload'[b]]
    BY <1>1 DEF Born
  <2>3. \A t \in Asked' : t \in Asked \/ Known(t)'
    BY <1>7, <2>1
  <2>4. QED
    BY <1>1, <2>2, <2>3, StillKnown
<1>12. ASSUME Orderly' PROVE (InFrame /\ Uploads /\ Uses)'
  <2>1. InFrame /\ Uploads /\ Uses
    BY <1>12 DEF Orderly
  <2>2. InFrame'
    BY <1>4, <1>5, <2>1 DEF InFrame
  <2>3. \A t \in Near' : t \in Near \/ t.op = "destroyMain"
    BY <1>2, <1>7
  <2>4. Uploads'
    BY <1>1, <1>7, <2>1, <2>3, UploadsRest
  <2>5. live \subseteq live' /\ handles \cup Recent \subseteq (handles \cup Recent)'
    BY <1>1, <1>8
  <2>6. Uses'
    BY <1>7, <2>1, <2>3, <2>5, UsesRest
  <2>7. QED
    BY <2>2, <2>4, <2>6
<1>13. QED
  BY <1>9, <1>10, <1>11, <1>12

\* A command, which names objects that are held.
LEMMA SubmitCommandKeeps ==
  ASSUME MemoryInv, frame \in Frames, NEW d \in Descs, SubmitCommand(d), Kept, calls' \in Nat,
         pc = "idle"
  PROVE  MemoryInv'
<1> USE DEF Kept, MemoryInv
<1> DEFINE com == [op |-> "command", id |-> calls, desc |-> d, asked |-> frame]
<1>1. /\ UNCHANGED <<upload, initial, live, gen, handles, destroyQueue>>
      /\ gpu' = Put(gpu, 0, com)
      /\ Named(d) \subseteq handles \cup {Default}
  BY DEF SubmitCommand, memory, objects
<1>2. com \in GPUTasks /\ com.op = "command" /\ com.desc = d
  BY DEF GPUTasks, TasksOK
<1> HIDE DEF com
<1>3. 0 \in Slots /\ 1 \in Slots /\ 2 \in Slots
  BY DEF Slots
<1>4. /\ gpu' \in [Slots -> Seq(GPUTasks)]
      /\ InSlot(0)' = InSlot(0) \cup {com} /\ InSlot(1)' = InSlot(1) /\ InSlot(2)' = InSlot(2)
  <2>1. gpu \in [Slots -> Seq(GPUTasks)]
    BY DEF TasksOK
  <2> DEFINE once == Put(gpu, 0, com)
  <2>2. /\ once \in [Slots -> Seq(GPUTasks)]
        /\ Elements(once[0]) = Elements(gpu[0]) \cup {com}
        /\ \A s \in Slots \ {0} : once[s] = gpu[s]
    BY <1>2, <1>3, <2>1, Putting
  <2>3. gpu' = once
    BY <1>1
  <2> HIDE DEF once
  <2>4. once[1] = gpu[1] /\ once[2] = gpu[2]
    BY <1>3, <2>2
  <2>5. QED
    BY <2>2, <2>3, <2>4 DEF InSlot
<1>5. /\ UNCHANGED <<InHand, AllLists, Enders, Recent>>
      /\ Near' = Near \cup {com} /\ Asked' = Asked \cup {com}
  BY <1>1, <1>4 DEF InHand, AllLists, Enders, Recent, Near, Asked
<1>6. TasksOK' /\ Counted'
  BY <1>1, <1>4, <1>5 DEF TasksOK, Counted
<1>7. Born'
  <2>1. \A t : t = com => Known(t)'
    BY <1>2 DEF Known
  <2>2. \A t \in Asked' : t \in Asked \/ Known(t)'
    BY <1>5, <2>1
  <2>3. initial' = [r \in Resources |-> initial'[r]] /\ upload' = [b \in Buffers |-> upload'[b]]
    BY <1>1 DEF Born
  <2>4. QED
    BY <1>1, <2>2, <2>3, StillKnown
<1>8. ASSUME Orderly' PROVE (InFrame /\ Uploads /\ Uses)'
  <2>1. InFrame /\ Uploads /\ Uses
    BY <1>8 DEF Orderly
  <2>2. InFrame'
    BY <1>1, <1>4, <2>1 DEF InFrame
  <2>3. \A t \in Near' : t \in Near \/ t = com
    BY <1>5
  <2>4. Uploads'
    BY <1>1, <1>2, <1>5, <2>1, <2>3, UploadsRest
  <2>5. Named(d) \cap Objects \subseteq handles
    BY <1>1, ListsAssumption DEF Objects
  <2>6. Uses'
    <3>1. \A t \in Near' : t.op = "command" => Named(t.desc) \cap Objects \subseteq (handles \cup Recent)'
      BY <1>1, <1>2, <1>5, <2>1, <2>3, <2>5 DEF Uses
    <3>2. QED
      BY <1>1, <1>5, <2>1, <3>1 DEF Uses
  <2>7. QED
    BY <2>2, <2>4, <2>6
<1>9. QED
  BY <1>6, <1>7, <1>8

\* The application's calls keep the invariant.
LEMMA ApplicationKeepsMemory ==
  ASSUME FrameInv, DestroyInv, MemoryInv, Application PROVE MemoryInv'
<1>1. /\ pc = "idle" /\ Kept /\ calls' = calls + 1
      /\ \/ \E id \in Textures : \E usage \in Usages : CreateTexture(id, usage)
         \/ \E id \in Buffers : CreateBuffer(id)
         \/ \E id \in Objects : DestroyResource(id)
         \/ \E d \in Descs : SubmitCommand(d)
  BY DEF Application, Kept, device, workers
<1>2. calls' \in Nat /\ frame \in Frames /\ QueueOK
  BY <1>1 DEF MemoryInv, TasksOK, FrameInv, FrameOK, DestroyInv
<1>3. QED
  BY <1>1, <1>2, CreateTextureKeeps, CreateBufferKeeps, DestroyResourceKeeps, SubmitCommandKeeps

-----------------------------------------------------------------------------
(***************************************************************************)
(* The workers.                                                            *)
(***************************************************************************)

\* A worker that starts its loop, or finds nothing to do.
LEMMA IdleKeepsMemory ==
  ASSUME FrameInv, MemoryInv, NEW w \in Workers, LoopTop(w) \/ TakeNothing(w), Worker(w)
  PROVE  MemoryInv'
<1> USE DEF MemoryInv
<1>1. /\ UNCHANGED <<gpu, gen, hand, lists, pending, toSubmit, pc, upload, initial, live, handles,
                     destroyQueue, calls, late>>
      /\ hasty => hasty'
  BY DEF LoopTop, TakeNothing, Worker, queues, objects, memory, device, bounds
<1>2. \E to \in {"pop", "top"} : wpc' = [wpc EXCEPT ![w] = to] /\ wpc[w] # "run"
  BY DEF LoopTop, TakeNothing, At
<1>3. UNCHANGED <<InSlot(0), InSlot(1), InSlot(2), InHand, AllLists, Enders, Recent, Near, Asked>>
  BY <1>1 DEF InSlot, InHand, AllLists, Enders, Recent, Near, Asked
<1>4. TasksOK'
  <2>1. \A v \in Workers : wpc'[v] = "run" <=> wpc[v] = "run"
    BY <1>2 DEF FrameInv, Functions
  <2>2. QED
    BY <1>1, <2>1 DEF TasksOK
<1>5. Counted'
  BY <1>1, <1>3 DEF Counted
<1>6. Born'
  BY <1>1, <1>3 DEF Born, Known
<1>7. ASSUME Orderly' PROVE (InFrame /\ Uploads /\ Uses)'
  <2>1. InFrame /\ Uploads /\ Uses
    BY <1>1, <1>7 DEF Orderly
  <2>2. InFrame'
    BY <1>1, <1>3, <2>1 DEF InFrame
  <2>3. Uploads'
    BY <1>1, <1>3, <2>1, UploadsRest
  <2>4. Uses'
    BY <1>1, <1>3, <2>1, UsesRest
  <2>5. QED
    BY <2>2, <2>3, <2>4
<1>8. QED
  BY <1>4, <1>5, <1>6, <1>7

\* A worker that takes a task: the task stays near, a destroyDone is still counted.
LEMMA TakeKeepsMemory ==
  ASSUME FrameInv, MemoryInv, NEW w \in Workers, TakeGPU(w) \/ TakeGeneric(w), Worker(w)
  PROVE  MemoryInv'
<1> USE DEF MemoryInv
<1>1. /\ UNCHANGED <<lists, pending, toSubmit, pc, upload, initial, live, handles,
                     destroyQueue, calls, late>>
      /\ hasty => hasty'
  BY DEF TakeGPU, TakeGeneric, Worker, objects, memory, device, bounds
<1>2. wpc[w] = "pop" /\ wpc' = [wpc EXCEPT ![w] = "run"] /\ hand[w] = {}
  BY DEF TakeGPU, TakeGeneric, Takes, At, TasksOK
<1>3. 0 \in Slots /\ 1 \in Slots /\ 2 \in Slots
  BY DEF Slots
<1>4. gpu[0] \in Seq(GPUTasks) /\ gen[0] \in Seq({Done})
  BY <1>3 DEF TasksOK
<1>5. \E t \in GPUTasks \cup {Done} :
         /\ hand' = [hand EXCEPT ![w] = {t}]
         /\ \/ /\ t \in GPUTasks /\ t \in InSlot(0) /\ gen' = gen
               /\ gpu' = [gpu EXCEPT ![0] = Tail(@)] /\ gpu[0] # <<>>
            \/ /\ t = Done /\ gpu' = gpu
               /\ gen' = [gen EXCEPT ![0] = Tail(@)] /\ gen[0] # <<>>
  <2>1. CASE TakeGPU(w)
    <3>1. Head(gpu[0]) \in GPUTasks /\ Head(gpu[0]) \in InSlot(0)
      BY <1>4, <2>1, ElementsOf DEF TakeGPU, InSlot
    <3>2. QED
      BY <2>1, <3>1 DEF TakeGPU, Takes, Popped
  <2>2. CASE TakeGeneric(w)
    <3>1. Head(gen[0]) = Done
      BY <1>4, <2>2, ElementsOf DEF TakeGeneric
    <3>2. QED
      BY <2>2, <3>1 DEF TakeGeneric, Takes, Popped
  <2>3. QED
    BY <2>1, <2>2
<1>6. PICK t \in GPUTasks \cup {Done} :
         /\ hand' = [hand EXCEPT ![w] = {t}]
         /\ \/ /\ t \in GPUTasks /\ t \in InSlot(0) /\ gen' = gen
               /\ gpu' = [gpu EXCEPT ![0] = Tail(@)] /\ gpu[0] # <<>>
            \/ /\ t = Done /\ gpu' = gpu
               /\ gen' = [gen EXCEPT ![0] = Tail(@)] /\ gen[0] # <<>>
  BY <1>5
<1>7. /\ hand'[w] = {t} /\ \A v \in Workers : v # w => hand'[v] = hand[v]
      /\ hand' = [v \in Workers |-> hand'[v]]
  BY <1>6 DEF TasksOK
<1>8. /\ gpu' \in [Slots -> Seq(GPUTasks)] /\ gen' \in [Slots -> Seq({Done})]
      /\ gpu'[1] = gpu[1] /\ gpu'[2] = gpu[2] /\ gen'[1] = gen[1] /\ gen'[2] = gen[2]
      /\ Elements(gpu'[0]) \subseteq Elements(gpu[0])
  <2>1. gpu \in [Slots -> Seq(GPUTasks)] /\ gen \in [Slots -> Seq({Done})]
    BY DEF TasksOK
  <2>2. CASE gen' = gen /\ gpu' = [gpu EXCEPT ![0] = Tail(@)] /\ gpu[0] # <<>>
    <3>1. Tail(gpu[0]) \in Seq(GPUTasks) /\ Elements(Tail(gpu[0])) \subseteq Elements(gpu[0])
      BY <1>4, <2>2, ElementsOf
    <3>2. gpu'[0] = Tail(gpu[0]) /\ gpu'[1] = gpu[1] /\ gpu'[2] = gpu[2]
      BY <1>3, <2>1, <2>2
    <3>3. gpu' \in [Slots -> Seq(GPUTasks)]
      BY <2>1, <2>2, <3>1
    <3>4. QED
      BY <2>1, <2>2, <3>1, <3>2, <3>3
  <2>3. CASE gpu' = gpu /\ gen' = [gen EXCEPT ![0] = Tail(@)] /\ gen[0] # <<>>
    <3>1. Tail(gen[0]) \in Seq({Done})
      BY <1>4, <2>3, ElementsOf
    <3>2. gen'[1] = gen[1] /\ gen'[2] = gen[2]
      BY <1>3, <2>1, <2>3
    <3>3. gen' \in [Slots -> Seq({Done})]
      BY <2>1, <2>3, <3>1
    <3>4. QED
      BY <2>1, <2>3, <3>2, <3>3
  <2>4. QED
    BY <1>6, <2>2, <2>3
<1>9. TasksOK'
  <2>1. \A v \in Workers : \/ wpc'[v] = "run" /\ \E u \in GPUTasks \cup {Done} : hand'[v] = {u}
                           \/ wpc'[v] # "run" /\ hand'[v] = {}
    <3>1. \A v \in Workers : v # w => wpc'[v] = wpc[v]
      BY <1>2 DEF FrameInv, Functions
    <3>2. wpc'[w] = "run"
      BY <1>2 DEF FrameInv, Functions
    <3>3. QED
      BY <1>6, <1>7, <3>1, <3>2 DEF TasksOK
  <2>2. QED
    BY <1>1, <1>7, <1>8, <2>1 DEF TasksOK
<1>10. /\ UNCHANGED <<InSlot(1), InSlot(2), AllLists, Recent>>
       /\ InSlot(0)' \subseteq InSlot(0) /\ InHand' \subseteq InHand \cup {t}
       /\ t \in InSlot(0) \/ t = Done
  BY <1>1, <1>2, <1>6, <1>7, <1>8 DEF InSlot, InHand, AllLists, Recent
<1>11. /\ \A u \in Near' : u \in Near \/ u.op = "destroyDone"
       /\ \A u \in Asked' : u \in Asked \/ u.op = "destroyDone"
  BY <1>10 DEF Near, Asked, Done
<1>12. Born'
  <2>1. \A u \in Asked' : u \in Asked \/ Known(u)'
    BY <1>11 DEF Known
  <2>2. initial' = [r \in Resources |-> initial'[r]] /\ upload' = [b \in Buffers |-> upload'[b]]
    BY <1>1 DEF Born
  <2>3. QED
    BY <1>1, <2>1, <2>2, StillKnown
<1>13. Counted'
  <2>1. Enders' = IF t = Done THEN Enders \cup {w} ELSE Enders
    <3>1. t.op = "destroyDone" <=> t = Done
      BY DEF Done, GPUTasks
    <3>2. QED
      BY <1>2, <1>7, <3>1 DEF Enders
  <2>2. w \notin Enders
    BY <1>2 DEF Enders
  <2>3. /\ IsFiniteSet(Enders') /\ IsFiniteSet(Enders)
        /\ Cardinality(Enders') = IF t = Done THEN Cardinality(Enders) + 1 ELSE Cardinality(Enders)
    BY <2>1, <2>2, FS_AddElement DEF Counted
  <2>4. Len(gen'[0]) = IF t = Done THEN Len(gen[0]) - 1 ELSE Len(gen[0])
    <3>1. t \in GPUTasks => t # Done
      BY DEF Done, GPUTasks
    <3>2. gen[0] # <<>> => Len(Tail(gen[0])) = Len(gen[0]) - 1
      BY <1>4, ElementsOf
    <3>3. t = Done => gen'[0] = Tail(gen[0]) /\ gen[0] # <<>>
      BY <1>3, <1>6, <3>1 DEF TasksOK
    <3>4. t # Done => gen' = gen
      BY <1>6
    <3>5. QED
      BY <3>2, <3>3, <3>4
  <2> DEFINE a == Len(gen[0])
             b == Len(gen[1])
             c == Len(gen[2])
             e == Cardinality(Enders)
  <2>5. a + b + c + e <= Len(destroyQueue)
    BY DEF Counted
  <2>6. a \in Nat /\ b \in Nat /\ c \in Nat /\ e \in Nat
    BY <1>3, <2>3, FS_CardinalityType DEF TasksOK
  <2>7. /\ Len(gen'[0]) = (IF t = Done THEN a - 1 ELSE a) /\ Len(gen'[1]) = b /\ Len(gen'[2]) = c
        /\ Cardinality(Enders') = (IF t = Done THEN e + 1 ELSE e)
    BY <1>8, <2>3, <2>4
  <2> HIDE DEF a, b, c, e
  <2>8. Len(gen'[0]) + Len(gen'[1]) + Len(gen'[2]) + Cardinality(Enders') <= Len(destroyQueue)
    BY <2>5, <2>6, <2>7
  <2>9. QED
    BY <1>1, <2>3, <2>8 DEF Counted
<1>14. ASSUME Orderly' PROVE (InFrame /\ Uploads /\ Uses)'
  <2>1. InFrame /\ Uploads /\ Uses
    BY <1>1, <1>14 DEF Orderly
  <2>2. InFrame'
    BY <1>1, <1>8, <1>10, <1>11, <2>1 DEF InFrame, OfFrame
  <2>3. Uploads'
    BY <1>1, <1>10, <1>11, <2>1, UploadsRest
  <2>4. Uses'
    BY <1>1, <1>10, <1>11, <2>1, UsesRest
  <2>5. QED
    BY <2>2, <2>3, <2>4
<1>15. QED
  BY <1>9, <1>12, <1>13, <1>14

\* What a task records: nothing, or one list with the operation and the object of the
\* task, and the data of the upload when a buffer is made.
LEMMA WhatRunRecords ==
  ASSUME NEW w \in Workers, NEW t, Record(w, t)
  PROVE  \/ UNCHANGED <<lists, upload>>
         \/ \E l : /\ lists' = [lists EXCEPT ![w] = @ \cup {l}]
                   /\ l.op = t.op /\ l.id = t.id
                   /\ \/ /\ t.op = "command" /\ UNCHANGED upload
                         /\ l.uses = Named(t.desc) \cap Objects
                         /\ Named(t.desc) \subseteq live \cup {Default}
                      \/ t.op = "create" /\ upload' = [upload EXCEPT ![t.id] = "data"]
                      \/ t.op \in {"cleanupCreate", "destroyMain"} /\ UNCHANGED upload
<1>1. ASSUME NEW p, NEW c, NEW s, NEW u, Push(w, List(w, t, p, c, s, u))
      PROVE  \E l : /\ lists' = [lists EXCEPT ![w] = @ \cup {l}]
                    /\ l.op = t.op /\ l.id = t.id /\ l.uses = u
  <2> DEFINE new == List(w, t, p, c, s, u)
  <2>1. /\ lists' = [lists EXCEPT ![w] = @ \cup {new}]
        /\ new.op = t.op /\ new.id = t.id /\ new.uses = u
    BY <1>1 DEF Push, List
  <2> HIDE DEF new
  <2>2. QED
    BY <2>1
<1>2. CASE BuildThrows(w, t) \/ BuildGivesUp(w, t)
  BY <1>2 DEF BuildThrows, BuildGivesUp, memory
<1>3. CASE BuildCommand(w, t)
  <2> DEFINE new == List(w, t, t.desc.priority, TRUE, Recorded(t), Named(t.desc) \cap Objects)
  <2>1. /\ t.op = "command" /\ UNCHANGED upload /\ Named(t.desc) \subseteq live \cup {Default}
        /\ lists' = [lists EXCEPT ![w] = @ \cup {new}]
    BY <1>3 DEF BuildCommand, memory, Push
  <2>2. new.op = t.op /\ new.id = t.id /\ new.uses = Named(t.desc) \cap Objects
    BY DEF List
  <2> HIDE DEF new
  <2>3. QED
    BY <2>1, <2>2
<1>4. CASE CreateMemory(w, t)
  <2>1. /\ t.op = "create" /\ upload' = [upload EXCEPT ![t.id] = "data"]
        /\ Push(w, List(w, t, 0, TRUE, Uploaded(t.id), {t.id}))
    BY <1>4 DEF CreateMemory
  <2>2. \E l : /\ lists' = [lists EXCEPT ![w] = @ \cup {l}]
               /\ l.op = t.op /\ l.id = t.id
    BY <1>1, <2>1
  <2>3. QED
    BY <2>1, <2>2
<1>5. CASE CleanupCreate(w, t)
  <2>1. /\ t.op = "cleanupCreate" /\ UNCHANGED upload
        /\ Push(w, List(w, t, 0, TRUE, <<>>, {t.id}))
    BY <1>5 DEF CleanupCreate, Discard, memory
  <2>2. \E l : /\ lists' = [lists EXCEPT ![w] = @ \cup {l}]
               /\ l.op = t.op /\ l.id = t.id
    BY <1>1, <2>1
  <2>3. QED
    BY <2>1, <2>2
<1>6. CASE DestroyMain(w, t)
  BY <1>1, <1>6 DEF DestroyMain, Discard, memory
<1>7. QED
  BY <1>2, <1>3, <1>4, <1>5, <1>6 DEF Record

\* A worker that has run its task has none.
LEMMA RunLetsGo ==
  ASSUME FrameInv, MemoryInv, NEW w \in Workers, Run(w), Worker(w), NEW t \in hand[w]
  PROVE  /\ UNCHANGED <<gpu, gen, calls, pending, toSubmit, pc, late>>
         /\ hand' = [v \in Workers |-> IF v = w THEN {} ELSE hand[v]]
         /\ hand[w] = {t} /\ t \in GPUTasks \cup {Done}
         /\ Near' \subseteq Near /\ t \in Near
         /\ UNCHANGED <<InSlot(0), InSlot(1), InSlot(2)>>
         /\ TasksOK'
         /\ Orderly' => Orderly /\ pc = "idle"
<1>1. /\ UNCHANGED <<gpu, gen, calls, pending, toSubmit, pc, late>>
      /\ hasty' = (hasty \/ pc # "idle")
      /\ hand' = [hand EXCEPT ![w] = {}] /\ wpc[w] = "run" /\ wpc' = [wpc EXCEPT ![w] = "top"]
  BY DEF Run, At, Worker, device, queues, bounds
<1>2. hand' = [v \in Workers |-> IF v = w THEN {} ELSE hand[v]]
  BY <1>1 DEF MemoryInv, TasksOK
<1>3. hand[w] = {t} /\ t \in GPUTasks \cup {Done}
  BY <1>1 DEF MemoryInv, TasksOK
<1>4. UNCHANGED <<InSlot(0), InSlot(1), InSlot(2)>>
  BY <1>1 DEF InSlot
<1>5. Near' \subseteq Near /\ t \in Near
  BY <1>2, <1>3, <1>4 DEF Near, InHand
<1>6. TasksOK'
  <2>1. wpc'[w] = "top" /\ \A v \in Workers : v # w => wpc'[v] = wpc[v]
    BY <1>1 DEF FrameInv, Functions
  <2>2. hand'[w] = {} /\ \A v \in Workers : v # w => hand'[v] = hand[v]
    BY <1>2
  <2>3. \A v \in Workers : \/ wpc'[v] = "run" /\ \E u \in GPUTasks \cup {Done} : hand'[v] = {u}
                           \/ wpc'[v] # "run" /\ hand'[v] = {}
    BY <2>1, <2>2 DEF MemoryInv, TasksOK
  <2>4. hand' = [v \in Workers |-> hand'[v]]
    BY <1>2
  <2>5. QED
    BY <1>1, <2>3, <2>4 DEF MemoryInv, TasksOK
<1>7. QED
  BY <1>1, <1>2, <1>3, <1>4, <1>5, <1>6 DEF Orderly

\* A task for the GPU, run between two frames.
LEMMA RecordKeepsMemory ==
  ASSUME FrameInv, DestroyInv, MemoryInv, NEW w \in Workers, Run(w), Worker(w),
         NEW t \in hand[w], Record(w, t)
  PROVE  MemoryInv'
<1> USE DEF MemoryInv
<1>1. /\ UNCHANGED <<gpu, gen, calls, pending, toSubmit, pc, late>>
      /\ hand' = [v \in Workers |-> IF v = w THEN {} ELSE hand[v]]
      /\ hand[w] = {t} /\ t \in GPUTasks \cup {Done}
      /\ Near' \subseteq Near /\ t \in Near
      /\ UNCHANGED <<InSlot(0), InSlot(1), InSlot(2)>>
      /\ TasksOK'
      /\ Orderly' => Orderly /\ pc = "idle"
  BY RunLetsGo
<1>2. UNCHANGED <<destroyQueue, live, initial, handles>>
  BY DEF Record, objects
<1>3. \/ UNCHANGED <<lists, upload>>
      \/ \E l : /\ lists' = [lists EXCEPT ![w] = @ \cup {l}]
                /\ l.op = t.op /\ l.id = t.id
                /\ \/ /\ t.op = "command" /\ UNCHANGED upload
                      /\ l.uses = Named(t.desc) \cap Objects
                      /\ Named(t.desc) \subseteq live \cup {Default}
                   \/ t.op = "create" /\ upload' = [upload EXCEPT ![t.id] = "data"]
                   \/ t.op \in {"cleanupCreate", "destroyMain"} /\ UNCHANGED upload
  BY WhatRunRecords
<1>4. t.op # "destroyDone" /\ t \in GPUTasks
  <2>1. t.op # "destroyDone"
    BY DEF Record, BuildThrows, BuildGivesUp, BuildCommand, CreateMemory, CleanupCreate, DestroyMain
  <2>2. QED
    BY <1>1, <2>1 DEF Done
<1>5. Counted'
  <2>1. Enders' = Enders
    BY <1>1, <1>4 DEF Enders
  <2>2. QED
    BY <1>1, <1>2, <2>1 DEF Counted
<1>6. UNCHANGED Recent /\ InHand' \subseteq InHand /\ t \in InHand
  BY <1>1, <1>2 DEF Recent, InHand
<1>7. CASE UNCHANGED <<lists, upload>>
  <2>1. UNCHANGED AllLists
    BY <1>1, <1>7 DEF AllLists
  <2>2. Asked' \subseteq Asked
    BY <1>1, <1>6, <2>1 DEF Asked
  <2>3. Born'
    BY <1>2, <1>7, <2>2 DEF Born, Known
  <2>4. ASSUME Orderly' PROVE (InFrame /\ Uploads /\ Uses)'
    <3>1. InFrame /\ Uploads /\ Uses /\ pc = "idle" /\ pc' = "idle"
      BY <1>1, <2>4
    <3>2. InFrame'
      BY <1>1, <3>1 DEF InFrame
    <3>3. Uploads'
      BY <1>1, <1>7, <2>1, <3>1, UploadsRest
    <3>4. Uses'
      BY <1>1, <1>2, <1>6, <2>1, <3>1, UsesRest
    <3>5. QED
      BY <3>2, <3>3, <3>4
  <2>5. QED
    BY <1>1, <1>5, <2>3, <2>4
<1>8. ASSUME NEW l, lists' = [lists EXCEPT ![w] = @ \cup {l}],
             l.op = t.op, l.id = t.id,
             \/ /\ t.op = "command" /\ UNCHANGED upload
                /\ l.uses = Named(t.desc) \cap Objects
                /\ Named(t.desc) \subseteq live \cup {Default}
             \/ t.op = "create" /\ upload' = [upload EXCEPT ![t.id] = "data"]
             \/ t.op \in {"cleanupCreate", "destroyMain"} /\ UNCHANGED upload
      PROVE  MemoryInv'
  <2>1. AllLists' = AllLists \cup {l}
    BY <1>1, <1>8 DEF AllLists, FrameInv, Functions
  <2>2. Known(t)
    BY <1>6 DEF Born, Asked
  <2>3. Born'
    <3>1. Known(l)'
      BY <1>2, <1>8, <2>2 DEF Known
    <3>2. \A u \in Asked' : u \in Asked \/ Known(u)'
      BY <1>1, <1>6, <2>1, <3>1 DEF Asked
    <3>3. initial' = [r \in Resources |-> initial'[r]] /\ upload' = [b \in Buffers |-> upload'[b]]
      BY <1>2, <1>8 DEF Born
    <3>4. QED
      BY <1>2, <3>2, <3>3, StillKnown
  <2>4. ASSUME Orderly' PROVE (InFrame /\ Uploads /\ Uses)'
    <3>1. InFrame /\ Uploads /\ Uses /\ pc = "idle" /\ pc' = "idle"
      BY <1>1, <2>4
    <3>2. InFrame'
      BY <1>1, <3>1 DEF InFrame
    <3>3. \A b : Creating(b)' => Creating(b)
      BY <1>1, <1>8, <2>1 DEF Creating
    <3>4. Uploads'
      <4>1. ASSUME NEW m \in AllLists', m.op = "create" PROVE upload'[m.id] = "data"
        <5>1. m.id \in Buffers
          BY <2>1, <2>2, <4>1, <1>8 DEF Born, Asked, Known
        <5>2. m = l \/ upload[m.id] = "data"
          BY <2>1, <3>1, <4>1 DEF Uploads
        <5>3. CASE t.op = "create"
          BY <1>8, <5>1, <5>2, <5>3 DEF Born
        <5>4. CASE t.op # "create"
          BY <1>8, <4>1, <5>2, <5>4
        <5>5. QED
          BY <5>3, <5>4
      <4>2. ASSUME NEW b \in Buffers, Creating(b)'
            PROVE  /\ \A m \in AllLists' : ~ CleansUp(m, b)
                   /\ \A u \in Near' : ~ CleansUp(u, b)
        <5>1. (\A m \in AllLists : ~ CleansUp(m, b)) /\ \A u \in Near : ~ CleansUp(u, b)
          BY <3>1, <3>3, <4>2 DEF Uploads
        <5>2. ~ CleansUp(l, b)
          BY <1>1, <1>8, <5>1 DEF CleansUp
        <5>3. QED
          BY <1>1, <2>1, <5>1, <5>2
      <4>3. QED
        BY <4>1, <4>2 DEF Uploads, CleansUp
    <3>5. Uses'
      <4>1. l.op = "command" => l.uses \subseteq live /\ l.uses \subseteq handles \cup Recent
        <5>1. Default \notin Objects
          BY ListsAssumption DEF Objects
        <5>2. t.op = "command" => Named(t.desc) \cap Objects \subseteq handles \cup Recent
          BY <1>1, <3>1 DEF Uses
        <5>3. CASE l.op # "command"
          BY <5>3
        <5>4. CASE l.op = "command"
          <6>1. /\ l.uses = Named(t.desc) \cap Objects
                /\ Named(t.desc) \subseteq live \cup {Default}
            BY <1>8, <5>4
          <6>2. QED
            BY <1>8, <5>1, <5>2, <5>4, <6>1
        <5>5. QED
          BY <5>3, <5>4
      <4>2. \A u \in Near' : u.op = "command" => Named(u.desc) \cap Objects \subseteq (handles \cup Recent)'
        BY <1>1, <1>2, <1>6, <3>1 DEF Uses
      <4>3. \A m \in AllLists' : m.op = "command" =>
               m.uses \subseteq live' /\ m.uses \subseteq (handles \cup Recent)'
        BY <1>2, <1>6, <2>1, <3>1, <4>1 DEF Uses
      <4>4. QED
        BY <4>2, <4>3 DEF Uses
    <3>6. QED
      BY <3>2, <3>4, <3>5
  <2>5. QED
    BY <1>1, <1>5, <2>3, <2>4
<1>9. QED
  BY <1>3, <1>7, <1>8

\* A destroyDone takes the entry in front, which is one of an earlier frame: what the
\* commands of this frame use stays where it is.
LEMMA DoneKeepsMemory ==
  ASSUME FrameInv, DestroyInv, MemoryInv, NEW w \in Workers, Run(w), Worker(w),
         NEW t \in hand[w], DestroyDone(w, t)
  PROVE  MemoryInv'
<1> USE DEF MemoryInv
<1>1. /\ UNCHANGED <<gpu, gen, calls, pending, toSubmit, pc, late>>
      /\ hand' = [v \in Workers |-> IF v = w THEN {} ELSE hand[v]]
      /\ hand[w] = {t}
      /\ Near' \subseteq Near /\ t \in Near
      /\ UNCHANGED <<InSlot(0), InSlot(1), InSlot(2)>>
      /\ TasksOK'
      /\ Orderly' => Orderly /\ pc = "idle"
  BY RunLetsGo
<1>2. t.op = "destroyDone" /\ UNCHANGED <<initial, handles, lists, upload>>
  BY DEF DestroyDone, memory
<1>3. Enders' = Enders \ {w} /\ w \in Enders
  BY <1>1, <1>2 DEF Enders
<1>4. /\ IsFiniteSet(Enders') /\ Cardinality(Enders') = Cardinality(Enders) - 1
      /\ Cardinality(Enders') \in Nat /\ Cardinality(Enders) \in Nat
  BY <1>3, FS_RemoveElement, FS_CardinalityType DEF Counted
<1>5. Len(gen[0]) \in Nat /\ Len(gen[1]) \in Nat /\ Len(gen[2]) \in Nat /\ Len(destroyQueue) \in Nat
  <2>1. 0 \in Slots /\ 1 \in Slots /\ 2 \in Slots
    BY DEF Slots
  <2>2. gen[0] \in Seq({Done}) /\ gen[1] \in Seq({Done}) /\ gen[2] \in Seq({Done})
    BY <2>1 DEF TasksOK
  <2>3. destroyQueue \in Seq(Objects)
    BY DEF DestroyInv, QueueOK
  <2>4. QED
    BY <2>2, <2>3
<1>6. /\ Len(gen[1]) < Len(destroyQueue)
      /\ Len(gen[0]) + Len(gen[1]) + Len(gen[2]) + Cardinality(Enders')
            <= Len(destroyQueue) - 1
  <2> DEFINE a == Len(gen[0])
             b == Len(gen[1])
             c == Len(gen[2])
             e == Cardinality(Enders)
             f == Cardinality(Enders')
             n == Len(destroyQueue)
  <2>1. a + b + c + e <= n
    BY DEF Counted
  <2>2. a \in Nat /\ b \in Nat /\ c \in Nat /\ e \in Nat /\ n \in Nat /\ f \in Nat /\ f = e - 1
    BY <1>4, <1>5
  <2> HIDE DEF a, b, c, e, f, n
  <2>3. b < n /\ a + b + c + f <= n - 1
    BY <2>1, <2>2
  <2>4. QED
    BY <2>3 DEF a, b, c, f, n
<1>7. destroyQueue # <<>> /\ destroyQueue \in Seq(Objects)
  BY <1>5, <1>6 DEF DestroyInv, QueueOK
<1>8. /\ destroyQueue' = Tail(destroyQueue)
      /\ live' = live \ Erased(destroyQueue) /\ Erased(destroyQueue) \subseteq {destroyQueue[1]}
  BY <1>7 DEF DestroyDone, Rest, Erased
<1>9. /\ Len(destroyQueue') = Len(destroyQueue) - 1
      /\ \A i \in 1..(Len(destroyQueue) - 1) : destroyQueue'[i] = destroyQueue[i + 1]
  BY <1>7, <1>8
<1>10. Recent' = Recent /\ destroyQueue[1] \notin Recent
  <2> DEFINE n == Len(destroyQueue)
             k == Len(gen[1])
             J == {j \in 1..n : j > n - k}
             K == {j \in 1..(n - 1) : j > (n - 1) - k}
  <2>1. n \in Nat /\ k \in Nat /\ k < n
    BY <1>5, <1>6
  <2>2. Recent = {destroyQueue[j] : j \in J} /\ Recent' = {destroyQueue'[j] : j \in K}
    BY <1>1, <1>9 DEF Recent
  <2>3. \A j \in 1..(n - 1) : destroyQueue'[j] = destroyQueue[j + 1]
    BY <1>9
  <2>4. \A i, j \in 1..n : destroyQueue[i] = destroyQueue[j] => i = j
    BY DEF DestroyInv, QueueOK
  <2> HIDE DEF n, k
  <2>5. \A j \in K : j + 1 \in J /\ destroyQueue'[j] = destroyQueue[j + 1]
    BY <2>1, <2>3
  <2>6. \A j \in J : j - 1 \in K /\ (j - 1) + 1 = j /\ j \in 1..n /\ j # 1
    BY <2>1
  <2>7. 1 \in 1..n
    BY <2>1
  <2> HIDE DEF J, K
  <2>8. destroyQueue[1] \notin Recent
    BY <2>2, <2>4, <2>6, <2>7
  <2>9. \A x : x \in Recent => x \in Recent'
    <3>1. SUFFICES ASSUME NEW j \in J PROVE destroyQueue[j] \in Recent'
      BY <2>2
    <3>2. destroyQueue'[j - 1] = destroyQueue[j] /\ j - 1 \in K
      BY <2>5, <2>6
    <3>3. QED
      BY <2>2, <3>2
  <2>10. \A x : x \in Recent' => x \in Recent
    BY <2>2, <2>5
  <2>11. QED
    BY <2>8, <2>9, <2>10
<1>11. Counted'
  BY <1>1, <1>4, <1>6, <1>9 DEF Counted
<1>12. AllLists' = AllLists /\ InHand' \subseteq InHand
  BY <1>1, <1>2 DEF AllLists, InHand
<1>13. Born'
  <2>1. Asked' \subseteq Asked
    BY <1>1, <1>12 DEF Asked
  <2>2. QED
    BY <1>2, <2>1 DEF Born, Known
<1>14. ASSUME Orderly' PROVE (InFrame /\ Uploads /\ Uses)'
  <2>1. InFrame /\ Uploads /\ Uses /\ pc = "idle" /\ pc' = "idle"
    BY <1>1, <1>14
  <2>2. InFrame'
    BY <1>1, <2>1 DEF InFrame
  <2>3. Uploads'
    BY <1>1, <1>2, <1>12, <2>1, UploadsRest
  <2>4. Uses'
    <3>1. destroyQueue[1] \notin handles
      <4>1. destroyQueue[1] \in Waiting
        BY <1>7 DEF Waiting
      <4>2. QED
        BY <4>1 DEF DestroyInv, Awaited
    <3>2. \A S : S \subseteq live /\ S \subseteq handles \cup Recent => S \subseteq live'
      BY <1>8, <1>10, <3>1
    <3>3. \A u \in Near' : u.op = "command" => Named(u.desc) \cap Objects \subseteq (handles \cup Recent)'
      BY <1>1, <1>2, <1>10, <2>1 DEF Uses
    <3>4. \A l \in AllLists' : l.op = "command" =>
             l.uses \subseteq live' /\ l.uses \subseteq (handles \cup Recent)'
      <4>1. \A l \in AllLists : l.op = "command" =>
               l.uses \subseteq live /\ l.uses \subseteq handles \cup Recent
        BY <2>1 DEF Uses
      <4>2. QED
        BY <1>2, <1>10, <1>12, <3>2, <4>1
    <3>5. QED
      BY <3>3, <3>4 DEF Uses
  <2>5. QED
    BY <2>2, <2>3, <2>4
<1>15. QED
  BY <1>1, <1>11, <1>13, <1>14

\* Every step of a worker keeps the invariant.
LEMMA WorkerKeepsMemory ==
  ASSUME FrameInv, DestroyInv, MemoryInv, NEW w \in Workers, Worker(w) PROVE MemoryInv'
<1>1. CASE Run(w)
  <2>1. PICK t \in hand[w] : Record(w, t) \/ DestroyDone(w, t)
    BY <1>1 DEF Run
  <2>2. QED
    BY <1>1, <2>1, RecordKeepsMemory, DoneKeepsMemory
<1>2. CASE LoopTop(w) \/ TakeNothing(w)
  BY <1>2, IdleKeepsMemory
<1>3. CASE TakeGPU(w) \/ TakeGeneric(w)
  BY <1>3, TakeKeepsMemory
<1>4. QED
  BY <1>1, <1>2, <1>3 DEF Worker

-----------------------------------------------------------------------------
(***************************************************************************)
(* present() and a resize.                                                 *)
(***************************************************************************)

\* The queues rotate over parked workers: when the slot of the frame was empty, nothing
\* of that frame is left but its lists.
LEMMA SwapKeepsMemory ==
  ASSUME FrameInv, MemoryInv, Swap PROVE MemoryInv'
<1> USE DEF MemoryInv
<1>1. /\ UNCHANGED <<lists, pending, hand, wpc, upload, initial, live, handles, destroyQueue, calls,
                     hasty>>
      /\ pc = "idle" /\ pc' = "submit" /\ toSubmit' = Workers
      /\ gpu' = Rotated(gpu) /\ gen' = Rotated(gen)
      /\ late' = (late \/ gpu[0] # <<>> \/ gen[0] # <<>>)
      /\ \A w \in Workers : wpc[w] = "top"
  BY DEF Swap, Parked, objects, workers, memory
<1>2. /\ gpu' \in [Slots -> Seq(GPUTasks)] /\ gen' \in [Slots -> Seq({Done})]
      /\ gpu'[0] = gpu[1] /\ gpu'[1] = gpu[2] /\ gpu'[2] = gpu[0]
      /\ gen'[0] = gen[1] /\ gen'[1] = gen[2] /\ gen'[2] = gen[0]
  <2>1. 0 \in Slots /\ 1 \in Slots /\ 2 \in Slots /\ \A s \in Slots : s \in {0, 1, 2}
    BY DEF Slots
  <2>2. (0 + 1) % 3 = 1 /\ (1 + 1) % 3 = 2 /\ (2 + 1) % 3 = 0
    OBVIOUS
  <2>3. \A s \in Slots : (s + 1) % 3 \in Slots
    BY <2>1, <2>2
  <2>4. gpu \in [Slots -> Seq(GPUTasks)] /\ gen \in [Slots -> Seq({Done})]
    BY DEF TasksOK
  <2>5. /\ \A s \in Slots : gpu'[s] = gpu[(s + 1) % 3] /\ gen'[s] = gen[(s + 1) % 3]
        /\ gpu' \in [Slots -> Seq(GPUTasks)] /\ gen' \in [Slots -> Seq({Done})]
    BY <1>1, <2>3, <2>4 DEF Rotated
  <2>6. QED
    BY <2>1, <2>2, <2>5
<1>3. /\ UNCHANGED <<InHand, AllLists, Enders>>
      /\ InSlot(0)' = InSlot(1) /\ InSlot(1)' = InSlot(2) /\ InSlot(2)' = InSlot(0)
      /\ UNCHANGED Asked
  BY <1>1, <1>2 DEF InHand, AllLists, Enders, InSlot, Asked
<1>4. TasksOK'
  BY <1>1, <1>2 DEF TasksOK
<1>5. Born'
  BY <1>1, <1>3 DEF Born, Known
<1>6. Counted'
  <2> DEFINE a == Len(gen[0])
             b == Len(gen[1])
             c == Len(gen[2])
             e == Cardinality(Enders)
  <2>1. a + b + c + e <= Len(destroyQueue) /\ IsFiniteSet(Enders)
    BY DEF Counted
  <2>2. 0 \in Slots /\ 1 \in Slots /\ 2 \in Slots
    BY DEF Slots
  <2>3. a \in Nat /\ b \in Nat /\ c \in Nat /\ e \in Nat
    BY <2>1, <2>2, FS_CardinalityType DEF TasksOK
  <2>4. Len(gen'[0]) = b /\ Len(gen'[1]) = c /\ Len(gen'[2]) = a /\ Cardinality(Enders)' = e
    BY <1>2, <1>3
  <2> HIDE DEF a, b, c, e
  <2>5. b + c + a + e <= Len(destroyQueue)
    BY <2>1, <2>3
  <2>6. QED
    BY <1>1, <1>3, <2>1, <2>4, <2>5 DEF Counted
<1>7. ASSUME Orderly' PROVE (InFrame /\ Uploads /\ Uses)'
  <2>1. InFrame /\ Uploads /\ Uses /\ gpu[0] = <<>> /\ gen[0] = <<>>
    BY <1>1, <1>7 DEF Orderly
  <2>2. InHand' = {} /\ InSlot(0) = {}
    BY <1>1, <1>3, <2>1 DEF TasksOK, InHand, InSlot, Elements
  <2>3. \A t \in Near' : ~ OfFrame(t)
    BY <1>3, <2>1, <2>2 DEF Near, InFrame
  <2>4. InFrame'
    BY <1>1, <1>2, <1>3, <2>1, <2>2, <2>3 DEF InFrame
  <2>5. pc' # "idle"
    BY <1>1
  <2>6. Uploads'
    <3>1. \A b : Creating(b)' => Creating(b)
      BY <1>3, <2>3 DEF Creating, OfFrame
    <3>2. QED
      BY <1>1, <1>3, <2>1, <2>5, <3>1 DEF Uploads, CleansUp
  <2>7. Uses'
    BY <1>1, <1>3, <2>1, <2>3, <2>5 DEF Uses, OfFrame
  <2>8. QED
    BY <2>4, <2>6, <2>7
<1>8. QED
  BY <1>4, <1>5, <1>6, <1>7

\* While present() hands the lists over and executes them, they only become fewer.
LEMMA PresentKeepsMemory ==
  ASSUME FrameInv, MemoryInv,
         \/ \E w \in Workers : SubmitCommandList(w)
         \/ \E l \in pending : Execute(l)
         \/ Advance
         \/ UNCHANGED vars
  PROVE  MemoryInv'
<1> USE DEF MemoryInv
<1>1. UNCHANGED <<gpu, gen, hand, wpc, initial, live, handles, destroyQueue, calls, late, hasty>>
  BY DEF SubmitCommandList, Execute, Advance, vars, queues, objects, workers, bounds, history
<1>2. UNCHANGED <<InSlot(0), InSlot(1), InSlot(2), InHand, Enders, Recent, Near>>
  BY <1>1 DEF InSlot, InHand, Enders, Recent, Near
<1>3. TasksOK' /\ Counted'
  BY <1>1, <1>2 DEF TasksOK, Counted
<1>4. CASE \E w \in Workers : SubmitCommandList(w)
  <2>1. PICK w \in Workers : SubmitCommandList(w)
    BY <1>4
  <2>2. /\ pc = "submit" /\ pc' \in {"submit", "execute"} /\ toSubmit' = toSubmit \ {w}
        /\ pending' = pending \cup lists[w] /\ lists' = [lists EXCEPT ![w] = {}]
        /\ UNCHANGED upload
    BY <2>1 DEF SubmitCommandList, memory
  <2>3. /\ lists'[w] = {} /\ \A v \in Workers : v # w => lists'[v] = lists[v]
    BY <2>2 DEF FrameInv, Functions
  <2>4. UNCHANGED AllLists
    BY <2>2, <2>3 DEF AllLists
  <2>5. Born'
    BY <1>1, <1>2, <2>2, <2>4 DEF Born, Known, Asked
  <2>6. ASSUME Orderly' PROVE (InFrame /\ Uploads /\ Uses)'
    <3>1. InFrame /\ Uploads /\ Uses
      BY <1>1, <2>6 DEF Orderly
    <3>2. InFrame'
      BY <1>1, <1>2, <2>2, <2>3, <3>1 DEF InFrame
    <3>3. Uploads'
      BY <1>2, <2>2, <2>4, <3>1, UploadsRest
    <3>4. Uses'
      BY <1>1, <1>2, <2>2, <2>4, <3>1, UsesRest
    <3>5. QED
      BY <3>2, <3>3, <3>4
  <2>7. QED
    BY <1>3, <2>5, <2>6
<1>5. CASE \E l \in pending : Execute(l)
  <2>1. PICK l \in pending : Execute(l)
    BY <1>5
  <2>2. /\ pending' = pending \ {l} /\ UNCHANGED <<pc, toSubmit, lists>> /\ pc = "execute"
        /\ upload' = IF l.op = "cleanupCreate" THEN [upload EXCEPT ![l.id] = "discarded"]
                                               ELSE upload
    BY <2>1 DEF Execute, workers
  <2>3. AllLists' \subseteq AllLists /\ l \in AllLists
    BY <2>2 DEF AllLists
  <2>4. Born'
    BY <1>1, <1>2, <2>2, <2>3 DEF Born, Known, Asked
  <2>5. ASSUME Orderly' PROVE (InFrame /\ Uploads /\ Uses)'
    <3>1. InFrame /\ Uploads /\ Uses
      BY <1>1, <2>5 DEF Orderly
    <3>2. InFrame'
      BY <1>1, <1>2, <2>2, <3>1 DEF InFrame
    <3>3. Uploads'
      <4>1. \A b : Creating(b)' => Creating(b)
        BY <1>2, <2>3 DEF Creating
      <4>2. ASSUME NEW m \in AllLists', m.op = "create" PROVE upload'[m.id] = "data"
        <5>1. m \in AllLists /\ upload[m.id] = "data"
          BY <2>3, <3>1, <4>2 DEF Uploads
        <5>2. Known(m)
          BY <5>1 DEF Born, Asked
        <5>3. m.id \in Buffers /\ Creating(m.id)
          BY <4>2, <5>1, <5>2 DEF Known, Creating
        <5>4. ~ CleansUp(l, m.id)
          BY <2>3, <3>1, <5>3 DEF Uploads
        <5>5. l.op = "cleanupCreate" => l.id # m.id
          BY <5>4 DEF CleansUp
        <5>6. QED
          BY <2>2, <5>1, <5>3, <5>5 DEF Born
      <4>3. QED
        BY <1>2, <2>2, <2>3, <3>1, <4>1, <4>2 DEF Uploads, CleansUp
    <3>4. Uses'
      BY <1>1, <1>2, <2>2, <2>3, <3>1, UsesRest
    <3>5. QED
      BY <3>2, <3>3, <3>4
  <2>6. QED
    BY <1>3, <2>4, <2>5
<1>6. CASE Advance
  <2>1. pc = "execute" /\ pending = {} /\ pc' = "idle" /\ UNCHANGED <<pending, lists, upload, toSubmit>>
    BY <1>6 DEF Advance, workers, memory
  <2>2. UNCHANGED AllLists
    BY <2>1 DEF AllLists
  <2>3. Born'
    BY <1>1, <1>2, <2>1, <2>2 DEF Born, Known, Asked
  <2>4. ASSUME Orderly' PROVE (InFrame /\ Uploads /\ Uses)'
    <3>1. InFrame /\ Uploads /\ Uses
      BY <1>1, <2>4 DEF Orderly
    <3>2. toSubmit = {}
      BY <2>1 DEF FrameInv, FrameOK
    <3>3. AllLists = {}
      BY <2>1, <3>1, <3>2 DEF AllLists, InFrame
    <3>4. \A t \in Near : ~ OfFrame(t)
      BY <2>1, <3>1 DEF InFrame
    <3>5. InFrame'
      BY <1>1, <1>2, <2>1, <3>1 DEF InFrame
    <3>6. Uploads'
      BY <1>2, <2>2, <3>3, <3>4 DEF Uploads, Creating, OfFrame
    <3>7. Uses'
      BY <1>2, <2>2, <3>3, <3>4 DEF Uses, OfFrame
    <3>8. QED
      BY <3>5, <3>6, <3>7
  <2>5. QED
    BY <1>3, <2>3, <2>4
<1>7. CASE UNCHANGED vars
  <2>1. UNCHANGED <<pc, pending, lists, upload, toSubmit>>
    BY <1>7 DEF vars, device, workers, memory
  <2>2. UNCHANGED AllLists
    BY <2>1 DEF AllLists
  <2>3. Born'
    BY <1>1, <1>2, <2>1, <2>2 DEF Born, Known, Asked
  <2>4. ASSUME Orderly' PROVE (InFrame /\ Uploads /\ Uses)'
    <3>1. InFrame /\ Uploads /\ Uses
      BY <1>1, <2>4 DEF Orderly
    <3>2. InFrame'
      BY <1>1, <1>2, <2>1, <3>1 DEF InFrame
    <3>3. Uploads' /\ Uses'
      BY <1>1, <1>2, <2>1, <2>2, <3>1, UploadsRest, UsesRest
    <3>4. QED
      BY <3>2, <3>3
  <2>5. QED
    BY <1>3, <2>3, <2>4
<1>8. QED
  BY <1>4, <1>5, <1>6, <1>7

\* A resize drops every task and every list.
LEMMA ResizeKeepsMemory ==
  ASSUME FrameInv, DestroyInv, MemoryInv, Resize PROVE MemoryInv'
<1> USE DEF MemoryInv
<1>1. /\ UNCHANGED <<pc, pending, hand, wpc, upload, initial, destroyQueue>>
      /\ gpu' = Nothing /\ gen' = Nothing /\ calls' = calls + 1 /\ pc = "idle"
      /\ lists' = NoLists /\ \A w \in Workers : wpc[w] = "top"
  BY DEF Resize, Parked
<1>2. pending = {} /\ \A w \in Workers : hand[w] = {}
  BY <1>1 DEF FrameInv, FrameOK, TasksOK
<1>3. /\ Nothing \in [Slots -> Seq(GPUTasks)] /\ Nothing \in [Slots -> Seq({Done})]
      /\ Nothing[0] = <<>> /\ Nothing[1] = <<>> /\ Nothing[2] = <<>>
  <2>1. <<>> \in Seq(GPUTasks) /\ <<>> \in Seq({Done})
    OBVIOUS
  <2>2. QED
    BY <2>1 DEF Nothing, Slots
<1>4. /\ InSlot(0)' = {} /\ InSlot(1)' = {} /\ InSlot(2)' = {}
      /\ InHand' = {} /\ AllLists' = {} /\ Enders' = {}
  BY <1>1, <1>2, <1>3 DEF InSlot, Elements, InHand, AllLists, Enders, NoLists
<1>5. TasksOK'
  BY <1>1, <1>3 DEF TasksOK
<1>6. Born'
  BY <1>1, <1>4 DEF Born, Asked
<1>7. Counted'
  <2>1. IsFiniteSet({}) /\ Cardinality({}) = 0
    BY FS_EmptySet
  <2>2. Len(<<>>) = 0
    OBVIOUS
  <2>3. Len(destroyQueue) \in Nat
    BY DEF DestroyInv, QueueOK
  <2>4. Len(gen'[0]) = 0 /\ Len(gen'[1]) = 0 /\ Len(gen'[2]) = 0 /\ Cardinality(Enders') = 0
    BY <1>1, <1>3, <1>4, <2>1, <2>2
  <2>5. IsFiniteSet(Enders') /\ 0 + 0 + 0 + 0 <= Len(destroyQueue')
    BY <1>1, <1>4, <2>1, <2>3
  <2>6. QED
    BY <2>4, <2>5 DEF Counted
<1>8. (InFrame /\ Uploads /\ Uses)'
  <2>1. Near' = {}
    BY <1>4 DEF Near
  <2>2. InFrame'
    BY <1>1, <1>3, <1>4, <2>1 DEF InFrame
  <2>3. Uploads' /\ Uses'
    BY <1>4, <2>1 DEF Uploads, Creating, Uses
  <2>4. QED
    BY <2>2, <2>3
<1>9. QED
  BY <1>5, <1>6, <1>7, <1>8

-----------------------------------------------------------------------------
\* Every step keeps what is known of tasks, lists and memory.
LEMMA MemoryStep == ASSUME FrameInv, DestroyInv, MemoryInv, [Next]_vars PROVE MemoryInv'
BY ApplicationKeepsMemory, WorkerKeepsMemory, SwapKeepsMemory, PresentKeepsMemory,
   ResizeKeepsMemory DEF Next

\* In the first state nothing is queued, recorded or waited for.
LEMMA MemoryBegins == ASSUME Init PROVE MemoryInv
<1>1. /\ Nothing \in [Slots -> Seq(GPUTasks)] /\ Nothing \in [Slots -> Seq({Done})]
      /\ Nothing[0] = <<>> /\ Nothing[1] = <<>> /\ Nothing[2] = <<>>
  <2>1. <<>> \in Seq(GPUTasks) /\ <<>> \in Seq({Done})
    OBVIOUS
  <2>2. QED
    BY <2>1 DEF Nothing, Slots
<1>2. /\ InSlot(0) = {} /\ InSlot(1) = {} /\ InSlot(2) = {}
      /\ InHand = {} /\ AllLists = {} /\ Enders = {} /\ Near = {} /\ Asked = {}
  BY <1>1 DEF Init, InSlot, Elements, InHand, AllLists, Enders, Near, Asked
<1>3. TasksOK
  BY <1>1 DEF Init, TasksOK
<1>4. Born
  BY <1>2 DEF Init, Born
<1>5. Counted
  <2>1. IsFiniteSet({}) /\ Cardinality({}) = 0 /\ Len(<<>>) = 0
    BY FS_EmptySet
  <2>2. gen = Nothing /\ destroyQueue = <<>>
    BY DEF Init
  <2>3. Len(gen[0]) = 0 /\ Len(gen[1]) = 0 /\ Len(gen[2]) = 0 /\ Cardinality(Enders) = 0
    BY <1>1, <1>2, <2>1, <2>2
  <2>4. IsFiniteSet(Enders) /\ 0 + 0 + 0 + 0 <= Len(destroyQueue)
    BY <1>2, <2>1, <2>2
  <2>5. QED
    BY <2>3, <2>4 DEF Counted
<1>6. InFrame /\ Uploads /\ Uses
  BY <1>1, <1>2 DEF Init, InFrame, Uploads, Creating, Uses
<1>7. QED
  BY <1>3, <1>4, <1>5, <1>6 DEF MemoryInv

\* An upload buffer keeps its data, and an object its memory, until the GPU has done
\* with the lists that use them, while tasks are not left behind and run outside
\* present().
THEOREM MemoryStays == Spec => []MemoryOutlivesLists
<1>1. Init => FrameInv /\ DestroyInv
  <2>1. 0 \in Frames
    BY ListsAssumption DEF Frames
  <2>2. QED
    BY <2>1 DEF Init, FrameInv, FrameOK, FrameUnseen, SeenInPresent, Signed, Functions,
                PendingOf, DestroyInv, QueueOK, Awaited, Waiting, OpenAreIndexed
<1>2. MemoryInv => MemoryOutlivesLists
  BY DEF MemoryInv, Orderly, Uploads, Uses, AllLists, MemoryOutlivesLists
<1>3. QED
  BY <1>1, <1>2, MemoryBegins, FrameStep, DestroyStep, MemoryStep, PTL DEF Spec

-----------------------------------------------------------------------------
(***************************************************************************)
(* The states of resources.  The steps of a list are a sequence of any     *)
(* length, so that what they do is shown by induction.                     *)
(***************************************************************************)

\* A set of numbers that is not empty has a least.
LEMMA LeastNumber ==
  ASSUME NEW S, S \subseteq Nat, S # {}
  PROVE  \E m \in S : \A k \in S : m <= k
<1>1. PICK R : R = OpToRel(<, Nat)
  OBVIOUS
<1>2. IsWellFoundedOn(R, Nat)
  BY <1>1, NatLessThanWellFounded
<1>3. PICK m \in S : \A y \in S : <<y, m>> \notin R
  BY <1>2, WFMin
<1>4. \A y \in Nat : y < m => <<y, m>> \in R
  BY <1>1, <1>3 DEF OpToRel
<1>5. \A k \in S : k \in Nat /\ m \in Nat /\ ~ (k < m)
  BY <1>3, <1>4
<1>6. m \in S /\ \A k \in S : m <= k
  BY <1>3, <1>5
<1>7. QED
  BY <1>6

\* Induction on sets of numbers.
LEMMA Induction ==
  ASSUME NEW S, 0 \in S, \A n \in Nat : n \in S => n + 1 \in S
  PROVE  Nat \subseteq S
<1>1. SUFFICES ASSUME Nat \ S # {} PROVE FALSE
  OBVIOUS
<1>2. PICK m \in Nat \ S : \A k \in Nat \ S : m <= k
  BY <1>1, LeastNumber
<1>3. m - 1 \in Nat /\ m - 1 \in S
  BY <1>2
<1>4. QED
  BY <1>2, <1>3

-----------------------------------------------------------------------------
(***************************************************************************)
(* The steps of a list.  Fits(s, a, b): from the states a on, every step   *)
(* of s finds the state it announces, and the last leaves the states b.    *)
(***************************************************************************)
Leads(s, tr) == \A i \in 1..Len(s) :
    /\ tr[i - 1][s[i].res] = s[i].before
    /\ tr[i] = [tr[i - 1] EXCEPT ![s[i].res] = s[i].after]
Fits(s, a, b) == \E tr : Leads(s, tr) /\ tr[0] = a /\ tr[Len(s)] = b

\* No step.
LEMMA FitsEmpty == ASSUME NEW a PROVE Fits(<<>>, a, a)
<1> DEFINE tr == [i \in {0} |-> a]
<1>1. Len(<<>>) = 0 /\ tr[0] = a
  OBVIOUS
<1>2. Leads(<<>>, tr)
  BY <1>1 DEF Leads
<1>3. QED
  BY <1>1, <1>2 DEF Fits

\* One step.
LEMMA FitsOne ==
  ASSUME NEW x, NEW a, a[x.res] = x.before
  PROVE  Fits(<<x>>, a, [a EXCEPT ![x.res] = x.after])
<1> DEFINE b == [a EXCEPT ![x.res] = x.after]
           tr == [i \in {0, 1} |-> IF i = 0 THEN a ELSE b]
<1>1. Len(<<x>>) = 1 /\ <<x>>[1] = x /\ tr[0] = a /\ tr[1] = b
  OBVIOUS
<1>2. b = [a EXCEPT ![x.res] = x.after]
  OBVIOUS
<1> HIDE DEF b, tr
<1>3. Leads(<<x>>, tr)
  <2>1. ASSUME NEW i \in 1..Len(<<x>>)
        PROVE  /\ tr[i - 1][<<x>>[i].res] = <<x>>[i].before
               /\ tr[i] = [tr[i - 1] EXCEPT ![<<x>>[i].res] = <<x>>[i].after]
    <3>1. i = 1
      BY <1>1
    <3>2. i - 1 = 0
      BY <3>1
    <3>3. QED
      BY <1>1, <1>2, <3>1, <3>2
  <2>2. QED
    BY <2>1 DEF Leads
<1>4. QED
  BY <1>1, <1>2, <1>3 DEF Fits

\* Some steps and then some more.
LEMMA FitsBoth ==
  ASSUME NEW S, NEW s \in Seq(S), NEW u \in Seq(S), NEW a, NEW b, NEW c,
         Fits(s, a, b), Fits(u, b, c)
  PROVE  Fits(s \o u, a, c)
<1>1. PICK tr : Leads(s, tr) /\ tr[0] = a /\ tr[Len(s)] = b
  BY DEF Fits
<1>2. PICK tu : Leads(u, tu) /\ tu[0] = b /\ tu[Len(u)] = c
  BY DEF Fits
<1> DEFINE m == Len(s)
           n == Len(u)
           z == s \o u
           all == [i \in 0..(m + n) |-> IF i <= m THEN tr[i] ELSE tu[i - m]]
<1>3. /\ m \in Nat /\ n \in Nat /\ Len(z) = m + n
      /\ \A i \in 1..(m + n) : z[i] = IF i <= m THEN s[i] ELSE u[i - m]
  OBVIOUS
<1>4. \A i \in 0..(m + n) : all[i] = IF i <= m THEN tr[i] ELSE tu[i - m]
  OBVIOUS
<1>5. tr[m] = b /\ m = Len(s) /\ n = Len(u) /\ tu[n] = c
  BY <1>1, <1>2
<1> HIDE DEF m, n, z, all
<1>6. all[0] = a /\ all[m + n] = c
  <2>1. 0 \in 0..(m + n) /\ m + n \in 0..(m + n) /\ 0 <= m
    BY <1>3
  <2>2. all[0] = tr[0]
    BY <1>4, <2>1
  <2>3. CASE n = 0
    <3>1. m + n = m
      BY <1>3, <2>3
    <3>2. all[m] = tr[m]
      BY <1>3, <1>4, <2>1, <3>1
    <3>3. b = c
      BY <1>2, <1>5, <2>3
    <3>4. QED
      BY <1>1, <1>5, <2>2, <3>1, <3>2, <3>3
  <2>4. CASE n # 0
    <3>1. ~ (m + n <= m) /\ (m + n) - m = n
      BY <1>3, <2>4
    <3>2. all[m + n] = tu[n]
      BY <1>4, <2>1, <3>1
    <3>3. QED
      BY <1>1, <1>5, <2>2, <3>2
  <2>5. QED
    BY <2>3, <2>4
<1>7. Leads(z, all)
  <2>1. ASSUME NEW i \in 1..(m + n)
        PROVE  /\ all[i - 1][z[i].res] = z[i].before
               /\ all[i] = [all[i - 1] EXCEPT ![z[i].res] = z[i].after]
    <3>1. i \in Int /\ i \in 0..(m + n) /\ i - 1 \in 0..(m + n)
      BY <1>3
    <3>2. CASE i <= m
      <4>1. i \in 1..m /\ i - 1 <= m
        BY <1>3, <3>1, <3>2
      <4>2. z[i] = s[i] /\ all[i] = tr[i] /\ all[i - 1] = tr[i - 1]
        BY <1>3, <1>4, <3>1, <3>2, <4>1
      <4>3. QED
        BY <1>1, <1>5, <4>1, <4>2 DEF Leads
    <3>3. CASE ~ (i <= m)
      <4>1. i - m \in 1..n /\ (i - m) - 1 = (i - 1) - m
        BY <1>3, <3>1, <3>3
      <4>2. z[i] = u[i - m] /\ all[i] = tu[i - m]
        BY <1>3, <1>4, <3>1, <3>3
      <4>3. all[i - 1] = tu[(i - m) - 1]
        <5>1. CASE i = m + 1
          <6>1. i - 1 = m /\ (i - m) - 1 = 0 /\ i - 1 <= m
            BY <1>3, <3>1, <5>1
          <6>2. all[i - 1] = tr[m]
            BY <1>4, <3>1, <6>1
          <6>3. QED
            BY <1>2, <1>5, <6>1, <6>2
        <5>2. CASE i # m + 1
          <6>1. ~ (i - 1 <= m)
            BY <1>3, <3>1, <3>3, <5>2
          <6>2. QED
            BY <1>4, <3>1, <4>1, <6>1
        <5>3. QED
          BY <5>1, <5>2
      <4>4. /\ tu[(i - m) - 1][u[i - m].res] = u[i - m].before
            /\ tu[i - m] = [tu[(i - m) - 1] EXCEPT ![u[i - m].res] = u[i - m].after]
        BY <1>2, <1>5, <4>1 DEF Leads
      <4>5. QED
        BY <4>2, <4>3, <4>4
    <3>4. QED
      BY <3>2, <3>3
  <2>2. QED
    BY <1>3, <2>1 DEF Leads
<1>8. Fits(z, a, c)
  BY <1>3, <1>6, <1>7 DEF Fits
<1>9. QED
  BY <1>8 DEF z

\* StateAfter is defined: there is a function with its equations ...
LEMMA StateAfterSteps ==
  ASSUME NEW l, Len(l.steps) \in Nat
  PROVE  \A i \in 0..Len(l.steps) :
            StateAfter(l)[i] = IF i = 0 THEN state
                               ELSE [StateAfter(l)[i - 1] EXCEPT ![l.steps[i].res] = l.steps[i].after]
<1> DEFINE Solves(g, n) ==
              g = [i \in 0..n |->
                     IF i = 0 THEN state
                     ELSE [g[i - 1] EXCEPT ![l.steps[i].res] = l.steps[i].after]]
           S == {n \in Nat : \E g : Solves(g, n)}
<1>1. 0 \in S
  <2> DEFINE g == [i \in 0..0 |-> state]
  <2>1. Solves(g, 0)
    OBVIOUS
  <2>2. QED
    BY <2>1
<1>2. ASSUME NEW n \in Nat, n \in S PROVE n + 1 \in S
  <2>1. PICK g : Solves(g, n)
    BY <1>2
  <2> DEFINE h == [i \in 0..(n + 1) |->
                     IF i = n + 1
                     THEN [g[n] EXCEPT ![l.steps[n + 1].res] = l.steps[n + 1].after] ELSE g[i]]
  <2>2. \A i \in 0..n : g[i] = IF i = 0 THEN state
                               ELSE [g[i - 1] EXCEPT ![l.steps[i].res] = l.steps[i].after]
    BY <2>1
  <2>3. /\ \A i \in 0..n : h[i] = g[i]
        /\ h[n + 1] = [g[n] EXCEPT ![l.steps[n + 1].res] = l.steps[n + 1].after]
    OBVIOUS
  <2>4. h = [i \in 0..(n + 1) |-> h[i]]
    OBVIOUS
  <2> HIDE DEF h
  <2>5. ASSUME NEW i \in 0..(n + 1)
        PROVE  h[i] = IF i = 0 THEN state
                      ELSE [h[i - 1] EXCEPT ![l.steps[i].res] = l.steps[i].after]
    <3>1. CASE i = n + 1
      <4>1. i # 0 /\ i - 1 = n /\ n \in 0..n
        BY <3>1
      <4>2. QED
        BY <2>3, <3>1, <4>1
    <3>2. CASE i # n + 1
      <4>1. i \in 0..n /\ (i # 0 => i - 1 \in 0..n)
        BY <3>2
      <4>2. CASE i = 0
        BY <2>2, <2>3, <4>1, <4>2
      <4>3. CASE i # 0
        <5>1. h[i] = g[i] /\ h[i - 1] = g[i - 1]
          BY <2>3, <4>1, <4>3
        <5>2. QED
          BY <2>2, <4>1, <4>3, <5>1
      <4>4. QED
        BY <4>2, <4>3
    <3>3. QED
      BY <3>1, <3>2
  <2>6. Solves(h, n + 1)
    BY <2>4, <2>5
  <2>7. QED
    BY <2>6
<1>3. Nat \subseteq S
  <2> HIDE DEF S
  <2>1. QED
    BY <1>1, <1>2, Induction
<1>4. PICK g : g = [i \in 0..Len(l.steps) |->
                     IF i = 0 THEN state
                     ELSE [g[i - 1] EXCEPT ![l.steps[i].res] = l.steps[i].after]]
  BY <1>3
<1>5. StateAfter(l) = [i \in 0..Len(l.steps) |->
                     IF i = 0 THEN state
                     ELSE [StateAfter(l)[i - 1] EXCEPT ![l.steps[i].res] = l.steps[i].after]]
  BY <1>4 DEF StateAfter
<1> DEFINE F == StateAfter(l)
<1>6. F = [i \in 0..Len(l.steps) |->
                     IF i = 0 THEN state
                     ELSE [F[i - 1] EXCEPT ![l.steps[i].res] = l.steps[i].after]]
  BY <1>5
<1> HIDE DEF F
<1>7. \A i \in 0..Len(l.steps) :
            F[i] = IF i = 0 THEN state
                   ELSE [F[i - 1] EXCEPT ![l.steps[i].res] = l.steps[i].after]
  BY <1>6
<1>8. QED
  BY <1>7 DEF F

\* ... and it is what the steps lead through.
LEMMA FitsIsStateAfter ==
  ASSUME NEW l, Len(l.steps) \in Nat, NEW b, Fits(l.steps, state, b)
  PROVE  /\ StateAfter(l)[Len(l.steps)] = b
         /\ \A i \in 1..Len(l.steps) : StateAfter(l)[i - 1][l.steps[i].res] = l.steps[i].before
<1> DEFINE F == StateAfter(l)
           n == Len(l.steps)
<1>1. PICK tr : Leads(l.steps, tr) /\ tr[0] = state /\ tr[n] = b
  BY DEF Fits
<1>2. \A i \in 0..n : F[i] = IF i = 0 THEN state
                             ELSE [F[i - 1] EXCEPT ![l.steps[i].res] = l.steps[i].after]
  BY StateAfterSteps
<1>3. \A i \in 1..n : /\ tr[i - 1][l.steps[i].res] = l.steps[i].before
                      /\ tr[i] = [tr[i - 1] EXCEPT ![l.steps[i].res] = l.steps[i].after]
  BY <1>1 DEF Leads
<1>4. n \in Nat
  OBVIOUS
<1> HIDE DEF F, n
<1> DEFINE S == {i \in Nat : i <= n => F[i] = tr[i]}
<1>5. 0 \in S
  <2>1. 0 \in 0..n
    BY <1>4
  <2>2. F[0] = state
    BY <1>2, <2>1
  <2>3. QED
    BY <1>1, <2>2
<1>6. ASSUME NEW i \in Nat, i \in S PROVE i + 1 \in S
  <2>1. SUFFICES ASSUME i + 1 <= n PROVE F[i + 1] = tr[i + 1]
    OBVIOUS
  <2>2. i + 1 \in 1..n /\ i + 1 \in 0..n /\ i + 1 # 0 /\ (i + 1) - 1 = i /\ i <= n
    BY <1>4, <2>1
  <2>3. F[i] = tr[i]
    BY <1>6, <2>2
  <2>4. F[i + 1] = [F[i] EXCEPT ![l.steps[i + 1].res] = l.steps[i + 1].after]
    BY <1>2, <2>2
  <2>5. tr[i + 1] = [tr[i] EXCEPT ![l.steps[i + 1].res] = l.steps[i + 1].after]
    BY <1>3, <2>2
  <2>6. QED
    BY <2>3, <2>4, <2>5
<1>7. Nat \subseteq S
  <2> HIDE DEF S
  <2>1. QED
    BY <1>5, <1>6, Induction
<1>8. \A i \in Nat : i <= n => F[i] = tr[i]
  BY <1>7
<1>9. F[n] = b
  BY <1>1, <1>4, <1>8
<1>10. ASSUME NEW i \in 1..n PROVE F[i - 1][l.steps[i].res] = l.steps[i].before
  <2>1. i - 1 \in Nat /\ i - 1 <= n
    BY <1>4
  <2>2. QED
    BY <1>3, <1>8, <2>1
<1>11. QED
  BY <1>9, <1>10 DEF F, n

-----------------------------------------------------------------------------
(***************************************************************************)
(* What is recorded for a command leaves every resource as it was, when    *)
(* the resources it names are at home: a buffer is the input of draws, a   *)
(* texture and a frame in the initial state.                               *)
(***************************************************************************)
Firm == Frames \cup settled \cup {r \in Textures : initial[r] # "none"}
Home(r) == IF r \in Buffers THEN Input(r) ELSE initial[r]
AreHome(f) == f = [r \in Resources |-> f[r]] /\ \A r \in Firm : f[r] = Home(r)

StateNames == {initial[r] : r \in Resources} \cup {Input(b) : b \in Buffers}
              \cup {"RENDER_TARGET", "COPY_SOURCE"}
Transitions == [res : Resources, before : StateNames, after : StateNames]

\* A use of a resource in the state it is in.
LEMMA FitsUse ==
  ASSUME NEW a, a = [r \in Resources |-> a[r]], NEW r \in Resources, NEW x, a[r] = x
  PROVE  Fits(<<Use(r, x)>>, a, a)
<1> DEFINE u == Use(r, x)
<1>1. u.res = r /\ u.before = x /\ u.after = x
  BY DEF Use, Transition
<1> HIDE DEF u
<1>2. Fits(<<u>>, a, [a EXCEPT ![u.res] = u.after])
  BY <1>1, FitsOne
<1>3. [a EXCEPT ![u.res] = u.after] = a
  BY <1>1
<1>4. QED
  BY <1>2, <1>3 DEF u

\* A transition and the one back.
LEMMA FitsThereAndBack ==
  ASSUME NEW a, a = [r \in Resources |-> a[r]], NEW r \in Resources, NEW x, NEW y, a[r] = x
  PROVE  Fits(<<Transition(r, x, y), Transition(r, y, x)>>, a, a)
<1> DEFINE u == Transition(r, x, y)
           v == Transition(r, y, x)
           b == [a EXCEPT ![r] = y]
<1>1. /\ u.res = r /\ u.before = x /\ u.after = y
      /\ v.res = r /\ v.before = y /\ v.after = x
  BY DEF Transition
<1>2. b = [a EXCEPT ![r] = y] /\ b[r] = y /\ [b EXCEPT ![r] = x] = a
  OBVIOUS
<1>3. <<u, v>> = <<u>> \o <<v>> /\ <<u>> \in Seq({u, v}) /\ <<v>> \in Seq({u, v})
  OBVIOUS
<1> HIDE DEF u, v, b
<1>4. /\ a[u.res] = u.before /\ [a EXCEPT ![u.res] = u.after] = b
      /\ b[v.res] = v.before /\ [b EXCEPT ![v.res] = v.after] = a
  BY <1>1, <1>2
<1>5. Fits(<<u>>, a, b) /\ Fits(<<v>>, b, a)
  BY <1>4, FitsOne
<1>6. Fits(<<u>> \o <<v>>, a, a)
  BY <1>3, <1>5, FitsBoth
<1>7. QED
  BY <1>3, <1>6 DEF u, v

\* The resources of a command, drawing to rt, are where its calls expect them.
Expects(call, t, rt) ==
    /\ call.op = "CLEAR_COLOR" => rt = frame
    /\ call.op = "SET_BUFFER" => call.id \in settled /\ state[call.id] # "none"
    /\ call.op = "COPY_REGION_TEXTURE2D" =>
          IF call.src = Default THEN rt = frame /\ t.asked = frame
                                ELSE call.src \in Firm /\ call.src # rt

\* A call while the command draws to rt.
LEMMA StepsFit ==
  ASSUME NEW t, NEW call \in CommandCalls, NEW rt \in Firm, rt \notin Buffers, frame \in Frames,
         settled \subseteq Buffers, NEW f, AreHome(f), Expects(call, t, rt)
  PROVE  /\ Steps(call, t) \in Seq(Transitions)
         /\ Fits(Steps(call, t), [f EXCEPT ![rt] = "RENDER_TARGET"],
                                 [f EXCEPT ![rt] = "RENDER_TARGET"])
<1> DEFINE mid == [f EXCEPT ![rt] = "RENDER_TARGET"]
<1>1. Firm \subseteq Resources /\ Frames \cap Buffers = {} /\ Textures \cap Buffers = {}
      /\ Textures \cap Frames = {}
  BY ListsAssumption DEF Firm, Resources, Objects, Frames
<1>2. /\ mid = [r \in Resources |-> mid[r]] /\ mid[rt] = "RENDER_TARGET"
      /\ \A r \in Firm : r # rt => mid[r] = Home(r)
  BY <1>1 DEF AreHome
<1> HIDE DEF mid
<1>3. /\ call.op \in {"CLEAR_COLOR", "SET_BUFFER", "SET_ROOT_SIGNATURE_CONSTANT_BUFFER",
                      "COPY_REGION_TEXTURE2D"}
      /\ call.op = "SET_BUFFER" => call.id \in Buffers
      /\ call.op = "COPY_REGION_TEXTURE2D" => call.src \in Targets
  BY DEF CommandCalls
<1>4. CASE call.op = "CLEAR_COLOR"
  <2>1. rt = frame /\ Steps(call, t) = <<Use(rt, "RENDER_TARGET")>>
    BY <1>4 DEF Expects, Steps
  <2>2. Fits(<<Use(rt, "RENDER_TARGET")>>, mid, mid)
    BY <1>1, <1>2, FitsUse
  <2>3. Use(rt, "RENDER_TARGET") \in Transitions
    BY <1>1 DEF Use, Transition, Transitions, StateNames
  <2>4. QED
    BY <2>1, <2>2, <2>3 DEF mid
<1>5. CASE call.op = "SET_BUFFER"
  <2>1. /\ call.id \in Firm /\ call.id \in Buffers /\ call.id # rt
        /\ Steps(call, t) = <<Use(call.id, Input(call.id))>>
    BY <1>5 DEF Expects, Steps, View, Firm
  <2>2. mid[call.id] = Input(call.id)
    BY <1>2, <2>1 DEF Home
  <2>3. Fits(<<Use(call.id, Input(call.id))>>, mid, mid)
    BY <1>1, <1>2, <2>1, <2>2, FitsUse
  <2>4. Use(call.id, Input(call.id)) \in Transitions
    BY <1>1, <2>1 DEF Use, Transition, Transitions, StateNames
  <2>5. QED
    BY <2>1, <2>3, <2>4 DEF mid
<1>6. CASE call.op = "COPY_REGION_TEXTURE2D"
  <2> DEFINE src == Source(call, t.asked)
             s == SourceState(src)
  <2>1. Steps(call, t) = <<Transition(src, s, "COPY_SOURCE"), Transition(src, "COPY_SOURCE", s)>>
    BY <1>6 DEF Steps
  <2>2. src \in Firm /\ src \in Resources /\ s \in StateNames /\ mid[src] = s
    <3>1. CASE call.src = Default
      <4>1. src = rt /\ rt \in Frames
        BY <1>6, <3>1 DEF Expects, Source
      <4>2. s = "RENDER_TARGET"
        BY <4>1 DEF SourceState
      <4>3. QED
        BY <1>1, <1>2, <4>1, <4>2 DEF StateNames
    <3>2. CASE call.src # Default
      <4>1. src = call.src /\ src \in Textures /\ src \in Firm /\ src # rt
        BY <1>3, <1>6, <3>2 DEF Expects, Source, Targets
      <4>2. s = initial[src] /\ mid[src] = initial[src]
        BY <1>1, <1>2, <4>1 DEF SourceState, Home
      <4>3. QED
        BY <1>1, <4>1, <4>2 DEF StateNames
    <3>3. QED
      BY <3>1, <3>2
  <2> HIDE DEF src, s
  <2>3. Fits(<<Transition(src, s, "COPY_SOURCE"), Transition(src, "COPY_SOURCE", s)>>, mid, mid)
    BY <1>2, <2>2, FitsThereAndBack
  <2>4. Transition(src, s, "COPY_SOURCE") \in Transitions /\ Transition(src, "COPY_SOURCE", s) \in Transitions
    BY <2>2 DEF Transition, Transitions, StateNames
  <2>5. QED
    BY <2>1, <2>3, <2>4 DEF mid
<1>7. CASE call.op = "SET_ROOT_SIGNATURE_CONSTANT_BUFFER"
  <2>1. Steps(call, t) = <<>>
    BY <1>7 DEF Steps
  <2>2. QED
    BY <2>1, FitsEmpty
<1>8. QED
  BY <1>3, <1>4, <1>5, <1>6, <1>7

\* What is recorded for a command, call by call.
LEMMA RecordedSteps ==
  ASSUME NEW t, Len(t.desc.calls) \in Nat
  PROVE  \E up :
            /\ up[0] = <<Transition(Target(t.desc, frame), initial[Target(t.desc, frame)],
                                    "RENDER_TARGET")>>
            /\ \A i \in 1..Len(t.desc.calls) : up[i] = up[i - 1] \o Steps(t.desc.calls[i], t)
            /\ Recorded(t) = up[Len(t.desc.calls)] \o Restored(Target(t.desc, frame))
<1> DEFINE rt == Target(t.desc, frame)
           Solves(g, n) ==
              g = [i \in 0..n |->
                     IF i = 0 THEN <<Transition(rt, initial[rt], "RENDER_TARGET")>>
                              ELSE g[i - 1] \o Steps(t.desc.calls[i], t)]
           S == {n \in Nat : \E g : Solves(g, n)}
<1>1. 0 \in S
  <2> DEFINE g == [i \in 0..0 |-> <<Transition(rt, initial[rt], "RENDER_TARGET")>>]
  <2>1. Solves(g, 0)
    OBVIOUS
  <2>2. QED
    BY <2>1
<1>2. ASSUME NEW n \in Nat, n \in S PROVE n + 1 \in S
  <2>1. PICK g : Solves(g, n)
    BY <1>2
  <2> DEFINE h == [i \in 0..(n + 1) |->
                     IF i = n + 1 THEN g[n] \o Steps(t.desc.calls[n + 1], t) ELSE g[i]]
  <2>2. \A i \in 0..n : g[i] = IF i = 0 THEN <<Transition(rt, initial[rt], "RENDER_TARGET")>>
                                        ELSE g[i - 1] \o Steps(t.desc.calls[i], t)
    BY <2>1
  <2>3. /\ \A i \in 0..n : h[i] = g[i]
        /\ h[n + 1] = g[n] \o Steps(t.desc.calls[n + 1], t)
    OBVIOUS
  <2>4. h = [i \in 0..(n + 1) |-> h[i]]
    OBVIOUS
  <2> HIDE DEF h
  <2>5. ASSUME NEW i \in 0..(n + 1)
        PROVE  h[i] = IF i = 0 THEN <<Transition(rt, initial[rt], "RENDER_TARGET")>>
                               ELSE h[i - 1] \o Steps(t.desc.calls[i], t)
    <3>1. CASE i = n + 1
      <4>1. i # 0 /\ i - 1 = n /\ n \in 0..n
        BY <3>1
      <4>2. QED
        BY <2>3, <3>1, <4>1
    <3>2. CASE i # n + 1
      <4>1. i \in 0..n /\ (i # 0 => i - 1 \in 0..n)
        BY <3>2
      <4>2. CASE i = 0
        BY <2>2, <2>3, <4>1, <4>2
      <4>3. CASE i # 0
        <5>1. h[i] = g[i] /\ h[i - 1] = g[i - 1]
          BY <2>3, <4>1, <4>3
        <5>2. QED
          BY <2>2, <4>1, <4>3, <5>1
      <4>4. QED
        BY <4>2, <4>3
    <3>3. QED
      BY <3>1, <3>2
  <2>6. Solves(h, n + 1)
    BY <2>4, <2>5
  <2>7. \E k : Solves(k, n + 1)
    BY <2>6
  <2> HIDE DEF Solves
  <2>8. QED
    BY <2>7
<1>3. Nat \subseteq S
  <2> HIDE DEF S
  <2>1. QED
    BY <1>1, <1>2, Induction
<1>4. PICK g : Solves(g, Len(t.desc.calls))
  BY <1>3
<1> DEFINE up == CHOOSE upTo :
                   upTo = [i \in 0..Len(t.desc.calls) |->
                      IF i = 0 THEN <<Transition(rt, initial[rt], "RENDER_TARGET")>>
                               ELSE upTo[i - 1] \o Steps(t.desc.calls[i], t)]
<1>5. Recorded(t) = up[Len(t.desc.calls)] \o Restored(rt)
  BY DEF Recorded
<1>6. up = [i \in 0..Len(t.desc.calls) |->
                      IF i = 0 THEN <<Transition(rt, initial[rt], "RENDER_TARGET")>>
                               ELSE up[i - 1] \o Steps(t.desc.calls[i], t)]
  BY <1>4
<1> HIDE DEF up
<1>7. \A i \in 0..Len(t.desc.calls) :
         up[i] = IF i = 0 THEN <<Transition(rt, initial[rt], "RENDER_TARGET")>>
                          ELSE up[i - 1] \o Steps(t.desc.calls[i], t)
  BY <1>6
<1>8. /\ up[0] = <<Transition(rt, initial[rt], "RENDER_TARGET")>>
      /\ \A i \in 1..Len(t.desc.calls) : up[i] = up[i - 1] \o Steps(t.desc.calls[i], t)
  <2>1. 0 \in 0..Len(t.desc.calls)
    OBVIOUS
  <2>2. \A i \in 1..Len(t.desc.calls) : i \in 0..Len(t.desc.calls) /\ i # 0
    OBVIOUS
  <2>3. QED
    BY <1>7, <2>1, <2>2
<1>9. QED
  BY <1>5, <1>8

\* A command whose resources are where it expects them.
Expected(t) ==
    LET rt == Target(t.desc, frame)
    IN  /\ rt \in Firm /\ rt \notin Buffers
        /\ t.desc.calls \in Seq(CommandCalls)
        /\ \A i \in 1..Len(t.desc.calls) : Expects(t.desc.calls[i], t, rt)

\* Its list leaves them there.
LEMMA RecordedFits ==
  ASSUME NEW t, Expected(t), frame \in Frames, settled \subseteq Buffers
  PROVE  /\ Len(Recorded(t)) \in Nat
         /\ \A f : AreHome(f) => Fits(Recorded(t), f, f)
<1> DEFINE rt == Target(t.desc, frame)
           n == Len(t.desc.calls)
           before == <<Transition(rt, initial[rt], "RENDER_TARGET")>>
<1>1. /\ rt \in Firm /\ rt \notin Buffers /\ n \in Nat
      /\ \A i \in 1..n : t.desc.calls[i] \in CommandCalls /\ Expects(t.desc.calls[i], t, rt)
  BY DEF Expected
<1>2. PICK up : /\ up[0] = before
                /\ \A i \in 1..n : up[i] = up[i - 1] \o Steps(t.desc.calls[i], t)
                /\ Recorded(t) = up[n] \o Restored(rt)
  BY <1>1, RecordedSteps
<1> HIDE DEF rt, n
<1>3. rt \in Resources
  BY <1>1 DEF Firm, Resources, Objects
<1>4. before \in Seq(Transitions) /\ Restored(rt) \in Seq(Transitions)
  <2>1. \A x, y \in StateNames : Transition(rt, x, y) \in Transitions
    BY <1>3 DEF Transition, Transitions
  <2>2. initial[rt] \in StateNames /\ "RENDER_TARGET" \in StateNames
    BY <1>3 DEF StateNames
  <2>3. Transition(rt, initial[rt], "RENDER_TARGET") \in Transitions
        /\ Transition(rt, "RENDER_TARGET", initial[rt]) \in Transitions
    BY <2>1, <2>2
  <2>4. QED
    BY <2>3 DEF Restored
<1> HIDE DEF before
<1>5. ASSUME NEW f, AreHome(f)
      PROVE  up[n] \in Seq(Transitions) /\ Fits(Recorded(t), f, f)
  <2> DEFINE mid == [f EXCEPT ![rt] = "RENDER_TARGET"]
  <2>1. f = [r \in Resources |-> f[r]] /\ f[rt] = initial[rt] /\ mid[rt] = "RENDER_TARGET"
        /\ [mid EXCEPT ![rt] = initial[rt]] = f
    BY <1>1, <1>3, <1>5 DEF AreHome, Home
  <2>2. mid = [f EXCEPT ![rt] = "RENDER_TARGET"]
    OBVIOUS
  <2>3. \A i \in 1..n : /\ Steps(t.desc.calls[i], t) \in Seq(Transitions)
                        /\ Fits(Steps(t.desc.calls[i], t), mid, mid)
    BY <1>1, <1>5, StepsFit
  <2> HIDE DEF mid
  <2>4. Fits(before, f, mid)
    <3> DEFINE u == Transition(rt, initial[rt], "RENDER_TARGET")
    <3>1. u.res = rt /\ u.before = initial[rt] /\ u.after = "RENDER_TARGET"
      BY DEF Transition
    <3> HIDE DEF u
    <3>2. f[u.res] = u.before /\ [f EXCEPT ![u.res] = u.after] = mid
      BY <2>1, <2>2, <3>1
    <3>3. Fits(<<u>>, f, mid)
      BY <3>2, FitsOne
    <3>4. QED
      BY <3>3 DEF u, before
  <2>5. Fits(Restored(rt), mid, f)
    <3> DEFINE u == Transition(rt, "RENDER_TARGET", initial[rt])
    <3>1. u.res = rt /\ u.before = "RENDER_TARGET" /\ u.after = initial[rt]
      BY DEF Transition
    <3> HIDE DEF u
    <3>2. mid[u.res] = u.before /\ [mid EXCEPT ![u.res] = u.after] = f
      BY <2>1, <3>1
    <3>3. Fits(<<u>>, mid, f)
      BY <3>2, FitsOne
    <3>4. QED
      BY <3>3 DEF u, Restored
  <2> DEFINE S == {i \in Nat : i <= n => up[i] \in Seq(Transitions) /\ Fits(up[i], f, mid)}
  <2>6. 0 \in S
    BY <1>2, <1>4, <2>4
  <2>7. ASSUME NEW i \in Nat, i \in S PROVE i + 1 \in S
    <3>1. SUFFICES ASSUME i + 1 <= n
                   PROVE  up[i + 1] \in Seq(Transitions) /\ Fits(up[i + 1], f, mid)
      OBVIOUS
    <3>2. i + 1 \in 1..n /\ (i + 1) - 1 = i /\ i <= n
      BY <1>1, <3>1
    <3>3. up[i] \in Seq(Transitions) /\ Fits(up[i], f, mid)
      BY <2>7, <3>2
    <3> DEFINE more == Steps(t.desc.calls[i + 1], t)
    <3>4. up[i + 1] = up[i] \o more /\ more \in Seq(Transitions) /\ Fits(more, mid, mid)
      BY <1>2, <2>3, <3>2
    <3> HIDE DEF more
    <3>5. up[i] \o more \in Seq(Transitions)
      BY <3>3, <3>4
    <3>6. Fits(up[i] \o more, f, mid)
      BY <3>3, <3>4, FitsBoth
    <3>7. QED
      BY <3>4, <3>5, <3>6
  <2>8. Nat \subseteq S
    <3> HIDE DEF S
    <3>1. QED
      BY <2>6, <2>7, Induction
  <2>9. up[n] \in Seq(Transitions) /\ Fits(up[n], f, mid)
    BY <1>1, <2>8
  <2>10. Fits(up[n] \o Restored(rt), f, f)
    BY <1>4, <2>5, <2>9, FitsBoth
  <2>11. QED
    BY <1>2, <2>9, <2>10
<1>6. Len(Recorded(t)) \in Nat
  <2> DEFINE f == [r \in Resources |-> Home(r)]
  <2>1. AreHome(f)
    BY ListsAssumption DEF AreHome, Firm, Resources, Objects
  <2>2. up[n] \in Seq(Transitions)
    BY <1>5, <2>1
  <2>3. Recorded(t) \in Seq(Transitions)
    BY <1>2, <1>4, <2>2
  <2>4. QED
    BY <2>3
<1>7. QED
  BY <1>5, <1>6

-----------------------------------------------------------------------------
(***************************************************************************)
(* The invariant.  Between two frames every resource that a command may    *)
(* name is at home; a buffer of this frame has its one creation on the way *)
(* or done; and every other list leaves resources as they were.            *)
(***************************************************************************)
Timely == proper /\ ~ late

Kinds == /\ newborn \subseteq Buffers /\ settled \subseteq Buffers /\ newborn \cap settled = {}
         /\ \A b \in newborn \cup settled : initial[b] # "none"
         /\ \A b \in Buffers : initial[b] \in {"none", "COPY_DEST"}
         /\ \A f \in Frames : initial[f] = "PRESENT"
         /\ handles \subseteq Objects /\ \A r \in handles : initial[r] # "none"

InTime == /\ \A t \in InSlot(1) \cup InSlot(2) : ~ OfFrame(t)
          /\ pc # "idle" => /\ \A t \in Near : ~ OfFrame(t)
                            /\ \A w \in Workers \ toSubmit : \A l \in lists[w] : ~ OfFrame(l)

\* A buffer is created once.
Same(t, u) == t.op = "create" /\ u.op = "create" /\ t.id = u.id
Single(q) == \A i, j \in 1..Len(q) : Same(q[i], q[j]) => i = j
Once == /\ Single(gpu[0])
        /\ \A v, w \in Workers : v # w => \A t \in hand[v], u \in hand[w] : ~ Same(t, u)
        /\ \A t \in InSlot(0), u \in InHand : ~ Same(t, u)
        /\ \A t \in Near, l \in AllLists : ~ Same(t, l)
        /\ \A l, m \in AllLists : Same(l, m) => l = m

Uploading ==
    /\ \A t \in Near : t.op = "create" => t.id \in newborn
    /\ \A l \in AllLists : l.op = "create" =>
          l.id \in newborn /\ l.steps = Uploaded(l.id) /\ state[l.id] = "COPY_DEST"
    /\ \A b \in newborn : Creating(b) \/ state[b] = Input(b)

Commands == \A t \in Near : t.op = "command" =>
    t.asked = frame /\ Proper(t.desc) /\ Named(t.desc) \cap Textures \subseteq Firm

Harmless(l) == Len(l.steps) \in Nat /\ \A f : AreHome(f) => Fits(l.steps, f, f)
ListsFit == \A l \in AllLists : l.op # "create" => Harmless(l)

StatesOK == InTime /\ Once /\ Uploading /\ Commands /\ AreHome(state) /\ ListsFit
StatesInv == Kinds /\ (Timely => StatesOK)

\* Resources of different kinds are different.
LEMMA Disjoint ==
  /\ Frames \cap Objects = {} /\ Textures \cap Buffers = {} /\ Default \notin Resources
  /\ Frames \subseteq Resources /\ Textures \subseteq Resources /\ Buffers \subseteq Resources
BY ListsAssumption DEF Frames, Objects, Resources

\* A list with no steps is harmless.
LEMMA EmptyHarmless == ASSUME NEW l, l.steps = <<>> PROVE Harmless(l)
<1>1. Len(<<>>) \in Nat
  OBVIOUS
<1>2. QED
  BY <1>1, FitsEmpty DEF Harmless

\* What executing a list does.
LEMMA ListExecutes ==
  ASSUME Uploading, AreHome(state), ListsFit, Kinds, NEW l \in AllLists
  PROVE  /\ StateAfter(l)[Len(l.steps)] = IF l.op = "create" THEN [state EXCEPT ![l.id] = Input(l.id)]
                                                            ELSE state
         /\ \A i \in 1..Len(l.steps) : StateAfter(l)[i - 1][l.steps[i].res] = l.steps[i].before
<1>1. CASE l.op = "create"
  <2> DEFINE u == Transition(l.id, "COPY_DEST", Input(l.id))
             b == [state EXCEPT ![l.id] = Input(l.id)]
  <2>1. l.steps = <<u>> /\ state[l.id] = "COPY_DEST"
    BY <1>1 DEF Uploading, Uploaded
  <2>2. u.res = l.id /\ u.before = "COPY_DEST" /\ u.after = Input(l.id)
    BY DEF Transition
  <2>3. state[u.res] = u.before /\ [state EXCEPT ![u.res] = u.after] = b
    BY <2>1, <2>2
  <2> HIDE DEF u, b
  <2>4. Fits(<<u>>, state, b)
    BY <2>3, FitsOne
  <2>5. Fits(l.steps, state, b) /\ Len(l.steps) \in Nat
    BY <2>1, <2>4
  <2>6. StateAfter(l)[Len(l.steps)] = b
    BY <2>5, FitsIsStateAfter
  <2>7. \A i \in 1..Len(l.steps) : StateAfter(l)[i - 1][l.steps[i].res] = l.steps[i].before
    BY <2>5, FitsIsStateAfter
  <2>8. QED
    BY <1>1, <2>6, <2>7 DEF b
<1>2. CASE l.op # "create"
  <2>1. Fits(l.steps, state, state) /\ Len(l.steps) \in Nat
    BY <1>2 DEF ListsFit, Harmless
  <2>2. QED
    BY <1>2, <2>1, FitsIsStateAfter
<1>3. QED
  BY <1>1, <1>2

\* A command that waits is recorded for resources that are where it expects them.
LEMMA WaitingExpected ==
  ASSUME Kinds, Commands, AreHome(state), frame \in Frames,
         NEW t \in GPUTasks, t \in Near, t.op = "command"
  PROVE  Expected(t)
<1> DEFINE d == t.desc
           rt == Target(d, frame)
<1>1. /\ t.asked = frame /\ Proper(d) /\ Named(d) \cap Textures \subseteq Firm
      /\ d \in Descs
  BY DEF Commands, GPUTasks
<1>2. d.target \in Targets /\ d.calls \in Seq(CommandCalls)
  BY <1>1, DescsAssumption
<1>3. rt \in Firm /\ rt \notin Buffers
  <2>1. CASE d.target = Default
    BY <2>1, Disjoint DEF Target, Firm, Objects
  <2>2. CASE d.target # Default
    <3>1. rt = d.target /\ rt \in Textures /\ rt \in Named(d)
      BY <1>2, <2>2 DEF Target, Targets, Named
    <3>2. QED
      BY <1>1, <3>1, Disjoint
  <2>3. QED
    BY <2>1, <2>2
<1>4. ASSUME NEW i \in 1..Len(d.calls) PROVE Expects(d.calls[i], t, rt)
  <2> DEFINE c == d.calls[i]
  <2>1. c \in CommandCalls /\ c \in {d.calls[j] : j \in 1..Len(d.calls)}
    BY <1>2
  <2>2. c \in Calls(d, c.op)
    BY <2>1 DEF Calls
  <2>3. c.op = "CLEAR_COLOR" => rt = frame
    BY <1>1, <2>2 DEF Proper, Target
  <2>4. c.op = "SET_BUFFER" => c.id \in settled /\ state[c.id] # "none"
    <3>1. SUFFICES ASSUME c.op = "SET_BUFFER" PROVE c.id \in settled /\ state[c.id] # "none"
      OBVIOUS
    <3>2. c.id \in settled
      BY <1>1, <2>2, <3>1 DEF Proper
    <3>3. c.id \in Buffers /\ c.id \in Firm
      BY <3>2 DEF Kinds, Firm
    <3>4. state[c.id] = Input(c.id)
      BY <3>3 DEF AreHome, Home
    <3>5. QED
      BY <3>2, <3>4 DEF Input
  <2>5. c.op = "COPY_REGION_TEXTURE2D" =>
           IF c.src = Default THEN rt = frame /\ t.asked = frame
                              ELSE c.src \in Firm /\ c.src # rt
    <3>1. SUFFICES ASSUME c.op = "COPY_REGION_TEXTURE2D"
                   PROVE  IF c.src = Default THEN rt = frame /\ t.asked = frame
                                             ELSE c.src \in Firm /\ c.src # rt
      OBVIOUS
    <3>2. c \in Calls(d, "COPY_REGION_TEXTURE2D") /\ c.src \in Targets
      BY <2>1, <2>2, <3>1 DEF CommandCalls
    <3>3. IF c.src = Default THEN d.target = Default ELSE c.src # d.target
      BY <1>1, <3>2 DEF Proper
    <3>4. CASE c.src = Default
      BY <1>1, <3>3, <3>4 DEF Target
    <3>5. CASE c.src # Default
      <4>1. c.src \in Textures /\ c.src \in Named(d)
        BY <3>2, <3>5 DEF Targets, Named
      <4>2. c.src # rt
        BY <3>3, <3>5, <4>1, Disjoint DEF Target, Objects
      <4>3. QED
        BY <1>1, <3>5, <4>1, <4>2
    <3>6. QED
      BY <3>4, <3>5
  <2>6. QED
    BY <2>3, <2>4, <2>5 DEF Expects
<1>5. QED
  BY <1>2, <1>3, <1>4 DEF Expected

-----------------------------------------------------------------------------
\* The parts of the invariant, when nothing new concerns them.
LEMMA ListsFitRest ==
  ASSUME ListsFit, Firm \subseteq Firm', \A r \in Firm : initial'[r] = initial[r],
         \A l \in AllLists' : l \in AllLists \/ l.op = "create" \/ Harmless(l)
  PROVE  ListsFit'
<1>1. \A f : AreHome(f)' => AreHome(f)
  BY DEF AreHome, Home
<1>2. \A l : Harmless(l) => Harmless(l)'
  BY <1>1 DEF Harmless
<1>3. \A l \in AllLists' : l.op # "create" => Harmless(l)
  BY DEF ListsFit
<1>4. QED
  BY <1>2, <1>3 DEF ListsFit

\* The same of the creations on their way.
LEMMA UploadingRest ==
  ASSUME Uploading, UNCHANGED newborn,
         \A t \in Near' : t \in Near \/ t.op # "create",
         \A l \in AllLists' : l \in AllLists \/ l.op # "create",
         \A t \in Near \cup AllLists : t.op = "create" => t \in Near' \cup AllLists',
         \A b \in newborn : state'[b] = state[b]
  PROVE  Uploading'
<1>1. \A b : Creating(b) => Creating(b)'
  BY DEF Creating
<1>2. \A l \in AllLists' : l.op = "create" =>
         l.id \in newborn /\ l.steps = Uploaded(l.id) /\ state'[l.id] = "COPY_DEST"
  BY DEF Uploading
<1>3. \A t \in Near' : t.op = "create" => t.id \in newborn
  BY DEF Uploading
<1>4. \A b \in newborn : Creating(b)' \/ state'[b] = Input(b)
  BY <1>1 DEF Uploading
<1>5. QED
  BY <1>2, <1>3, <1>4 DEF Uploading

\* The same of the commands that wait.
LEMMA CommandsRest ==
  ASSUME Commands, UNCHANGED frame, Firm \subseteq Firm', settled \subseteq settled',
         \A t \in Near' : t \in Near \/ t.op # "command"
  PROVE  Commands'
<1>1. \A d : Proper(d) => Proper(d)'
  BY DEF Proper
<1>2. QED
  BY <1>1 DEF Commands

\* The same of creations being single.
LEMMA OnceRest ==
  ASSUME Once, Single(gpu'[0]),
         \A w \in Workers : \A t \in hand'[w] : t \in hand[w] \/ t.op # "create",
         \A t \in InSlot(0)' : t \in InSlot(0) \/ t.op # "create",
         \A l \in AllLists' : l \in AllLists \/ l.op # "create"
  PROVE  Once'
<1>1. \A t \in InHand' : t \in InHand \/ t.op # "create"
  BY DEF InHand
<1>2. \A t \in Near' : t \in Near \/ t.op # "create"
  BY <1>1 DEF Near
<1>3. \A v, w \in Workers : v # w => \A t \in hand'[v], u \in hand'[w] : ~ Same(t, u)
  BY DEF Once, Same
<1>4. \A t \in InSlot(0)', u \in InHand' : ~ Same(t, u)
  BY <1>1 DEF Once, Same
<1>5. \A t \in Near', l \in AllLists' : ~ Same(t, l)
  BY <1>2 DEF Once, Same
<1>6. \A l, m \in AllLists' : Same(l, m) => l = m
  BY DEF Once, Same
<1>7. QED
  BY <1>3, <1>4, <1>5, <1>6 DEF Once

\* What stays at home when no resource moves.
LEMMA HomeRest ==
  ASSUME AreHome(state), UNCHANGED <<state, initial, settled>>
  PROVE  AreHome(state)' /\ Firm' = Firm
BY DEF AreHome, Home, Firm

\* One more task, which is of no buffer that is being created.
LEMMA SingleAppend ==
  ASSUME NEW q \in Seq(GPUTasks), NEW t \in GPUTasks, Single(q),
         \A u \in Elements(q) : ~ Same(u, t)
  PROVE  Single(Append(q, t))
<1>1. /\ Len(Append(q, t)) = Len(q) + 1 /\ Len(q) \in Nat
      /\ \A i \in 1..(Len(q) + 1) : Append(q, t)[i] = IF i = Len(q) + 1 THEN t ELSE q[i]
  OBVIOUS
<1>2. \A u \in Elements(q) : ~ Same(u, t) /\ ~ Same(t, u)
  BY DEF Same
<1>3. \A i \in 1..Len(q) : q[i] \in Elements(q)
  BY DEF Elements
<1>4. ASSUME NEW i \in 1..(Len(q) + 1), NEW j \in 1..(Len(q) + 1),
             Same(Append(q, t)[i], Append(q, t)[j]), i # j
      PROVE  FALSE
  <2>1. CASE i = Len(q) + 1
    <3>1. j \in 1..Len(q)
      BY <1>1, <1>4, <2>1
    <3>2. Append(q, t)[i] = t /\ Append(q, t)[j] = q[j]
      BY <1>1, <1>4, <2>1
    <3>3. QED
      BY <1>2, <1>3, <1>4, <3>1, <3>2
  <2>2. CASE j = Len(q) + 1
    <3>1. i \in 1..Len(q)
      BY <1>1, <1>4, <2>2
    <3>2. Append(q, t)[j] = t /\ Append(q, t)[i] = q[i]
      BY <1>1, <1>4, <2>2
    <3>3. QED
      BY <1>2, <1>3, <1>4, <3>1, <3>2
  <2>3. CASE i # Len(q) + 1 /\ j # Len(q) + 1
    <3>1. i \in 1..Len(q) /\ j \in 1..Len(q)
      BY <1>1, <2>3
    <3>2. Append(q, t)[i] = q[i] /\ Append(q, t)[j] = q[j]
      BY <1>1, <2>3
    <3>3. QED
      BY <1>4, <3>1, <3>2 DEF Single
  <2>4. QED
    BY <2>1, <2>2, <2>3
<1>5. QED
  BY <1>1, <1>4 DEF Single

\* The task in front, and the rest.
LEMMA SingleTail ==
  ASSUME NEW q \in Seq(GPUTasks), q # <<>>, Single(q)
  PROVE  /\ Single(Tail(q))
         /\ \A u \in Elements(Tail(q)) : ~ Same(Head(q), u)
<1>1. /\ Len(q) \in Nat \ {0} /\ Head(q) = q[1] /\ Len(Tail(q)) = Len(q) - 1
      /\ \A i \in 1..Len(Tail(q)) : Tail(q)[i] = q[i + 1]
  OBVIOUS
<1>2. \A i \in 1..Len(Tail(q)) : i + 1 \in 1..Len(q) /\ i + 1 # 1
  BY <1>1
<1>3. Single(Tail(q))
  <2>1. ASSUME NEW i \in 1..Len(Tail(q)), NEW j \in 1..Len(Tail(q)), Same(Tail(q)[i], Tail(q)[j])
        PROVE  i = j
    <3>1. Same(q[i + 1], q[j + 1])
      BY <1>1, <2>1
    <3>2. i + 1 = j + 1
      BY <1>2, <3>1 DEF Single
    <3>3. QED
      BY <3>2
  <2>2. QED
    BY <2>1 DEF Single
<1>4. \A u \in Elements(Tail(q)) : ~ Same(Head(q), u)
  <2>1. ASSUME NEW i \in 1..Len(Tail(q)), Same(q[1], Tail(q)[i]) PROVE FALSE
    <3>1. Same(q[1], q[i + 1]) /\ i + 1 \in 1..Len(q) /\ i + 1 # 1 /\ 1 \in 1..Len(q)
      BY <1>1, <1>2, <2>1
    <3>2. QED
      BY <3>1 DEF Single
  <2>2. QED
    BY <1>1, <2>1 DEF Elements
<1>5. QED
  BY <1>3, <1>4

-----------------------------------------------------------------------------
(***************************************************************************)
(* The application's calls.                                                *)
(***************************************************************************)

\* A task that joins those of this frame, while the rest of the queues gets none of
\* this frame.
LEMMA JoinKeeps ==
  ASSUME TasksOK, Kept, pc = "idle", InTime, Once, NEW t \in GPUTasks,
         gpu'[0] = Append(gpu[0], t),
         \A u \in InSlot(1)' : u \in InSlot(1) \/ ~ OfFrame(u),
         InSlot(2)' = InSlot(2),
         \A u \in Near \cup AllLists : ~ Same(u, t)
  PROVE  /\ Near' = Near \cup {t} /\ UNCHANGED AllLists
         /\ InTime' /\ Once'
<1>1. UNCHANGED <<InHand, AllLists>>
  BY DEF Kept, InHand, AllLists
<1>2. gpu[0] \in Seq(GPUTasks)
  BY DEF TasksOK, Slots
<1>3. InSlot(0)' = InSlot(0) \cup {t}
  BY <1>2, ElementsOf DEF InSlot
<1>4. Near' = Near \cup {t}
  BY <1>1, <1>3 DEF Near
<1>5. InTime'
  BY DEF InTime, Kept
<1>6. Single(gpu'[0])
  BY <1>2, SingleAppend DEF Once, Near, InSlot
<1>7. \A u \in Near \cup AllLists : ~ Same(u, t) /\ ~ Same(t, u)
  BY DEF Same
<1>8. Once'
  <2>1. \A v, w \in Workers : v # w => \A x \in hand'[v], u \in hand'[w] : ~ Same(x, u)
    BY DEF Once, Kept
  <2>2. \A x \in InSlot(0)', u \in InHand' : ~ Same(x, u)
    BY <1>1, <1>3, <1>7 DEF Once, Near
  <2>3. \A x \in Near', l \in AllLists' : ~ Same(x, l)
    BY <1>1, <1>4, <1>7 DEF Once
  <2>4. \A l, m \in AllLists' : Same(l, m) => l = m
    BY <1>1 DEF Once
  <2>5. QED
    BY <1>6, <2>1, <2>2, <2>3, <2>4 DEF Once
<1>9. QED
  BY <1>1, <1>4, <1>5, <1>8

\* A new texture is in the state it was made in.
LEMMA CreateTextureAnnounced ==
  ASSUME MemoryInv, StatesInv, NEW id \in Textures, NEW usage \in Usages,
         CreateTexture(id, usage), Kept, UNCHANGED <<frame, toSubmit>>
  PROVE  StatesInv'
<1> DEFINE s == InitialState(usage)
<1>1. /\ UNCHANGED <<gpu, gen, newborn, settled, proper, late>>
      /\ handles' = handles \cup {id} /\ initial[id] = "none"
      /\ initial' = [initial EXCEPT ![id] = s] /\ state' = [state EXCEPT ![id] = s]
  BY DEF CreateTexture, Created, queues, Kept
<1>2. s # "none"
  BY DEF InitialState
<1> HIDE DEF s
<1>3. /\ initial'[id] = s /\ \A r \in Resources : r # id => initial'[r] = initial[r]
      /\ initial' = [r \in Resources |-> initial'[r]]
  BY <1>1, Disjoint DEF MemoryInv, Born
<1>4. id \notin Frames /\ id \notin Buffers /\ id \in Resources
  BY Disjoint DEF Objects
<1>5. UNCHANGED <<InSlot(0), InSlot(1), InSlot(2), InHand, AllLists, Near>>
  BY <1>1 DEF InSlot, InHand, AllLists, Near, Kept
<1>6. Kinds
  BY DEF StatesInv
<1>7. Kinds'
  BY <1>1, <1>2, <1>3, <1>4, <1>6, Disjoint DEF Kinds, Objects, Resources
<1>8. ASSUME Timely' PROVE StatesOK'
  <2>1. StatesOK
    BY <1>1, <1>8 DEF Timely, StatesInv
  <2>2. id \notin Firm /\ Firm' = Firm \cup {id} /\ Firm \subseteq Resources
    BY <1>1, <1>2, <1>3, <1>4, <1>6, Disjoint DEF Firm, Kinds
  <2>3. \A r \in Firm : initial'[r] = initial[r]
    BY <1>3, <2>2
  <2>4. InTime' /\ Once'
    BY <1>1, <1>5, <2>1 DEF InTime, Once, StatesOK, Kept
  <2>5. \A b \in Buffers : state'[b] = state[b]
    BY <1>1, <1>4, <2>1, Disjoint DEF StatesOK, AreHome
  <2>6. Uploading'
    BY <1>1, <1>5, <1>6, <2>1, <2>5, UploadingRest DEF Kinds, StatesOK
  <2>7. Commands'
    BY <1>1, <1>5, <2>1, <2>2, CommandsRest DEF StatesOK
  <2>8. AreHome(state)'
    <3>1. /\ state = [r \in Resources |-> state[r]]
          /\ \A r \in Firm : state[r] = Home(r)
      BY <2>1 DEF StatesOK, AreHome
    <3>2. \A r \in Firm : state'[r] = Home(r)'
      BY <1>1, <2>2, <2>3, <3>1 DEF Home
    <3>3. state'[id] = Home(id)'
      BY <1>1, <1>3, <1>4, <3>1 DEF Home
    <3>4. state' = [r \in Resources |-> state'[r]]
      BY <1>1, <3>1
    <3>5. QED
      BY <2>2, <3>2, <3>3, <3>4 DEF AreHome
  <2>9. ListsFit'
    BY <1>5, <2>1, <2>2, <2>3, ListsFitRest DEF StatesOK
  <2>10. QED
    BY <2>4, <2>6, <2>7, <2>8, <2>9 DEF StatesOK
<1>9. QED
  BY <1>7, <1>8 DEF StatesInv

\* A new buffer has its creation on the way, and is nobody's input yet.
LEMMA CreateBufferAnnounced ==
  ASSUME MemoryInv, StatesInv, NEW id \in Buffers, CreateBuffer(id), Kept, pc = "idle",
         UNCHANGED <<frame, toSubmit>>
  PROVE  StatesInv'
<1> DEFINE make == [op |-> "create", id |-> id]
           clean == [op |-> "cleanupCreate", id |-> id]
<1>1. /\ UNCHANGED <<state, settled, proper, late>>
      /\ gpu' = Put(Put(gpu, 0, make), 1, clean)
      /\ handles' = handles \cup {id} /\ initial[id] = "none" /\ newborn' = newborn \cup {id}
      /\ initial' = [initial EXCEPT ![id] = "COPY_DEST"]
  BY DEF CreateBuffer, Created, CleanupSlot, memory, Kept
<1>2. /\ make \in GPUTasks /\ clean \in GPUTasks
      /\ make.op = "create" /\ clean.op = "cleanupCreate" /\ make.id = id
  BY DEF GPUTasks, Objects
<1> HIDE DEF make, clean
<1>3. 0 \in Slots /\ 1 \in Slots /\ 2 \in Slots /\ gpu \in [Slots -> Seq(GPUTasks)] /\ TasksOK
  <2>1. TasksOK
    BY DEF MemoryInv
  <2>2. 0 \in Slots /\ 1 \in Slots /\ 2 \in Slots /\ gpu \in [Slots -> Seq(GPUTasks)]
    BY <2>1 DEF Slots, TasksOK
  <2>3. QED
    BY <2>1, <2>2
<1>4. /\ gpu'[0] = Append(gpu[0], make)
      /\ InSlot(1)' = InSlot(1) \cup {clean} /\ InSlot(2)' = InSlot(2)
  <2>1. /\ gpu'[0] = Append(gpu[0], make) /\ gpu'[1] = Append(gpu[1], clean)
        /\ gpu'[2] = gpu[2] /\ gpu[1] \in Seq(GPUTasks)
    BY <1>1, <1>3 DEF Put
  <2>2. QED
    BY <1>2, <2>1, ElementsOf DEF InSlot
<1>5. /\ initial'[id] = "COPY_DEST" /\ \A r \in Resources : r # id => initial'[r] = initial[r]
  BY <1>1, Disjoint DEF MemoryInv, Born
<1>6. id \notin Frames /\ id \notin Textures /\ id \in Resources
  BY Disjoint DEF Objects
<1>7. Kinds /\ id \notin newborn /\ id \notin settled
  BY <1>1 DEF StatesInv, Kinds
<1>8. Kinds'
  <2>1. /\ newborn' \subseteq Buffers /\ settled' \subseteq Buffers /\ newborn' \cap settled' = {}
    BY <1>1, <1>7 DEF Kinds
  <2>2. \A r : initial[r] # "none" /\ r \in Resources => initial'[r] = initial[r] /\ initial'[r] # "none"
    BY <1>1, <1>5
  <2>3. \A r \in handles : initial'[r] # "none"
    BY <1>7, <2>2 DEF Kinds, Resources
  <2>4. QED
    BY <1>1, <1>5, <1>6, <1>7, <2>1, <2>2, <2>3, Disjoint DEF Kinds, Objects
<1>9. ASSUME Timely' PROVE StatesOK'
  <2>1. StatesOK
    BY <1>1, <1>9 DEF Timely, StatesInv
  <2>2. Firm' = Firm /\ id \notin Firm /\ Firm \subseteq Resources
    BY <1>1, <1>5, <1>6, <1>7, Disjoint DEF Firm, Kinds
  <2>3. \A r \in Firm : initial'[r] = initial[r]
    BY <1>5, <2>2
  <2>4. \A u \in Near \cup AllLists : ~ Same(u, make)
    BY <1>1, <1>2 DEF MemoryInv, Born, Known, Asked, Near, Same
  <2>5. ~ OfFrame(clean)
    BY <1>2 DEF OfFrame
  <2>6. Near' = Near \cup {make} /\ UNCHANGED AllLists /\ InTime' /\ Once'
    BY <1>2, <1>3, <1>4, <2>1, <2>4, <2>5, JoinKeeps DEF StatesOK
  <2>7. Uploading'
    <3>1. \A b : Creating(b) => Creating(b)'
      BY <2>6 DEF Creating
    <3>2. Creating(id)'
      BY <1>2, <2>6 DEF Creating
    <3>3. QED
      BY <1>1, <1>2, <2>1, <2>6, <3>1, <3>2 DEF StatesOK, Uploading
  <2>8. Commands'
    BY <1>1, <1>2, <2>1, <2>2, <2>6, CommandsRest DEF StatesOK
  <2>9. AreHome(state)'
    BY <1>1, <2>1, <2>2, <2>3 DEF StatesOK, AreHome, Home
  <2>10. ListsFit'
    BY <2>1, <2>2, <2>3, <2>6, ListsFitRest DEF StatesOK
  <2>11. QED
    BY <2>6, <2>7, <2>8, <2>9, <2>10 DEF StatesOK
<1>10. QED
  BY <1>8, <1>9 DEF StatesInv

\* A destruction or a command joins the tasks.
LEMMA JoinAnnounced ==
  ASSUME MemoryInv, StatesInv, Kept, pc = "idle", UNCHANGED <<frame, toSubmit>>,
         UNCHANGED <<initial, newborn, settled, state>>, handles' \subseteq handles,
         NEW t \in GPUTasks, gpu' = Put(gpu, 0, t), t.op # "create",
         Timely' => Timely,
         Timely' => (t.op = "command" =>
            t.asked = frame /\ Proper(t.desc) /\ Named(t.desc) \cap Textures \subseteq Firm)
  PROVE  StatesInv'
<1>1. 0 \in Slots /\ 1 \in Slots /\ 2 \in Slots /\ gpu \in [Slots -> Seq(GPUTasks)] /\ TasksOK
  <2>1. TasksOK
    BY DEF MemoryInv
  <2>2. 0 \in Slots /\ 1 \in Slots /\ 2 \in Slots /\ gpu \in [Slots -> Seq(GPUTasks)]
    BY <2>1 DEF Slots, TasksOK
  <2>3. QED
    BY <2>1, <2>2
<1>2. gpu'[0] = Append(gpu[0], t) /\ InSlot(1)' = InSlot(1) /\ InSlot(2)' = InSlot(2)
  <2>1. gpu'[0] = Append(gpu[0], t) /\ gpu'[1] = gpu[1] /\ gpu'[2] = gpu[2]
    BY <1>1 DEF Put
  <2>2. QED
    BY <2>1 DEF InSlot
<1>3. Kinds'
  BY DEF StatesInv, Kinds
<1>4. ASSUME Timely' PROVE StatesOK'
  <2>1. StatesOK
    BY <1>4 DEF StatesInv
  <2>2. \A u \in Near \cup AllLists : ~ Same(u, t)
    BY DEF Same
  <2>3. Near' = Near \cup {t} /\ UNCHANGED AllLists /\ InTime' /\ Once'
    BY <1>1, <1>2, <2>1, <2>2, JoinKeeps DEF StatesOK
  <2>4. AreHome(state)' /\ Firm' = Firm
    BY <2>1, HomeRest DEF StatesOK
  <2>5. Uploading'
    BY <2>1, <2>3, UploadingRest DEF StatesOK
  <2>6. Commands'
    <3>1. \A d : Proper(d)' <=> Proper(d)
      BY DEF Proper
    <3>2. QED
      BY <1>4, <2>1, <2>3, <2>4, <3>1 DEF StatesOK, Commands
  <2>7. ListsFit'
    BY <2>1, <2>3, <2>4, ListsFitRest DEF StatesOK
  <2>8. QED
    BY <2>3, <2>4, <2>5, <2>6, <2>7 DEF StatesOK
<1>5. QED
  BY <1>3, <1>4 DEF StatesInv

\* The application's calls keep the invariant.
LEMMA ApplicationAnnounced ==
  ASSUME FrameInv, MemoryInv, StatesInv, Application PROVE StatesInv'
<1>1. pc = "idle" /\ Kept /\ UNCHANGED <<frame, toSubmit>>
  <2>1. UNCHANGED <<frame, pc, pending, toSubmit, wpc, hand, lists, late, hasty>>
    BY DEF Application, device, workers
  <2>2. QED
    BY <2>1 DEF Application, Kept
<1>2. ASSUME NEW id \in Objects, DestroyResource(id) PROVE StatesInv'
  <2> DEFINE main == [op |-> "destroyMain", id |-> id]
  <2>1. /\ UNCHANGED <<initial, newborn, settled, state, proper>> /\ handles' \subseteq handles
        /\ gpu' = Put(gpu, 0, main)
    BY <1>2 DEF DestroyResource, memory
  <2>2. main \in GPUTasks /\ main.op = "destroyMain"
    BY DEF GPUTasks
  <2> HIDE DEF main
  <2>3. Timely' => Timely
    BY <1>1, <2>1 DEF Timely, Kept
  <2>4. QED
    BY <1>1, <2>1, <2>2, <2>3, JoinAnnounced
<1>3. ASSUME NEW d \in Descs, SubmitCommand(d) PROVE StatesInv'
  <2> DEFINE com == [op |-> "command", id |-> calls, desc |-> d, asked |-> frame]
  <2>1. /\ UNCHANGED <<initial, newborn, settled, state, handles>> /\ gpu' = Put(gpu, 0, com)
        /\ proper' = (proper /\ Proper(d)) /\ Named(d) \subseteq handles \cup {Default}
    BY <1>3 DEF SubmitCommand, memory, objects
  <2>2. com \in GPUTasks /\ com.op = "command" /\ com.desc = d /\ com.asked = frame
    BY DEF GPUTasks, MemoryInv, TasksOK, FrameInv, FrameOK
  <2> HIDE DEF com
  <2>3. (Timely' => Timely) /\ (Timely' => Proper(d))
    BY <1>1, <2>1 DEF Timely, Kept
  <2>4. Named(d) \cap Textures \subseteq Firm
    BY <2>1, Disjoint DEF StatesInv, Kinds, Firm
  <2>5. QED
    BY <1>1, <2>1, <2>2, <2>3, <2>4, JoinAnnounced
<1>4. QED
  BY <1>1, <1>2, <1>3, CreateTextureAnnounced, CreateBufferAnnounced DEF Application

-----------------------------------------------------------------------------
(***************************************************************************)
(* The workers.                                                            *)
(***************************************************************************)

\* A worker that starts its loop, finds nothing to do, or takes a destroyDone.
LEMMA IdleAnnounced ==
  ASSUME MemoryInv, StatesInv, NEW w \in Workers, Worker(w),
         LoopTop(w) \/ TakeNothing(w) \/ TakeGeneric(w)
  PROVE  StatesInv'
<1>1. UNCHANGED <<gpu, frame, initial, handles, newborn, settled, state, lists, pending, pc, toSubmit,
                  proper, late>>
  BY DEF Worker, LoopTop, TakeNothing, TakeGeneric, queues, objects, memory, device
<1>2. /\ \A v \in Workers : \A t \in hand'[v] : t \in hand[v] \/ t.op = "destroyDone"
      /\ \A v \in Workers : \A t \in hand[v] : t \in hand'[v]
  <2>1. CASE hand' = hand
    BY <2>1
  <2>2. CASE TakeGeneric(w)
    <3>1. hand' = [hand EXCEPT ![w] = {Head(gen[0])}] /\ hand[w] = {} /\ gen[0] # <<>>
      BY <2>2 DEF TakeGeneric, Takes, At, MemoryInv, TasksOK
    <3>2. gen[0] \in Seq({Done}) /\ hand = [v \in Workers |-> hand[v]]
      BY DEF MemoryInv, TasksOK, Slots
    <3>3. Head(gen[0]) = Done
      BY <3>1, <3>2, ElementsOf
    <3>4. hand'[w] = {Done} /\ \A v \in Workers : v # w => hand'[v] = hand[v]
      BY <3>1, <3>2, <3>3
    <3>5. QED
      BY <3>1, <3>4 DEF Done
  <2>3. QED
    BY <2>1, <2>2 DEF LoopTop, TakeNothing
<1>3. UNCHANGED <<InSlot(0), InSlot(1), InSlot(2), AllLists>>
  BY <1>1 DEF InSlot, AllLists
<1>4. /\ \A t \in Near' : t \in Near \/ t.op = "destroyDone"
      /\ \A t \in Near : t \in Near'
  BY <1>2, <1>3 DEF Near, InHand
<1>5. Kinds'
  BY <1>1 DEF StatesInv, Kinds
<1>6. ASSUME Timely' PROVE StatesOK'
  <2>1. StatesOK
    BY <1>1, <1>6 DEF Timely, StatesInv
  <2>2. AreHome(state)' /\ Firm' = Firm
    BY <1>1, <2>1, HomeRest DEF StatesOK
  <2>3. InTime'
    BY <1>1, <1>3, <1>4, <2>1 DEF StatesOK, InTime, OfFrame
  <2>4. Once'
    BY <1>1, <1>2, <1>3, <2>1, OnceRest DEF StatesOK, Once
  <2>5. Uploading'
    BY <1>1, <1>3, <1>4, <2>1, UploadingRest DEF StatesOK
  <2>6. Commands'
    BY <1>1, <1>4, <2>1, <2>2, CommandsRest DEF StatesOK
  <2>7. ListsFit'
    BY <1>1, <1>3, <2>1, <2>2, ListsFitRest DEF StatesOK
  <2>8. QED
    BY <2>2, <2>3, <2>4, <2>5, <2>6, <2>7 DEF StatesOK
<1>7. QED
  BY <1>5, <1>6 DEF StatesInv

\* A worker that takes a task from the front of the queue has the only one like it.
LEMMA TakeAnnounced ==
  ASSUME MemoryInv, StatesInv, NEW w \in Workers, Worker(w), TakeGPU(w)
  PROVE  StatesInv'
<1> DEFINE t == Head(gpu[0])
<1>1. UNCHANGED <<frame, initial, handles, newborn, settled, state, lists, pending, pc, toSubmit,
                  proper, late>>
  BY DEF Worker, TakeGPU, objects, memory, device
<1>2. /\ gpu[0] # <<>> /\ gpu' = [gpu EXCEPT ![0] = Tail(@)]
      /\ hand' = [hand EXCEPT ![w] = {t}] /\ hand[w] = {}
  BY DEF TakeGPU, Takes, Popped, At, MemoryInv, TasksOK
<1>3. /\ gpu \in [Slots -> Seq(GPUTasks)] /\ hand = [v \in Workers |-> hand[v]]
      /\ 0 \in Slots /\ 1 \in Slots /\ 2 \in Slots
  BY DEF MemoryInv, TasksOK, Slots
<1>4. /\ gpu[0] \in Seq(GPUTasks) /\ gpu'[0] = Tail(gpu[0])
      /\ gpu'[1] = gpu[1] /\ gpu'[2] = gpu[2]
  BY <1>2, <1>3
<1>5. hand'[w] = {t} /\ \A v \in Workers : v # w => hand'[v] = hand[v]
  BY <1>2, <1>3
<1>6. UNCHANGED <<InSlot(1), InSlot(2), AllLists>>
  BY <1>1, <1>4 DEF InSlot, AllLists
<1>7. InSlot(0) = {t} \cup Elements(Tail(gpu[0])) /\ InSlot(0)' = Elements(Tail(gpu[0]))
  BY <1>2, <1>4, ElementsOf DEF InSlot
<1> HIDE DEF t
<1>8. InHand' = InHand \cup {t} /\ Near' = Near
  <2>1. InHand' = InHand \cup {t}
    BY <1>2, <1>5 DEF InHand
  <2>2. QED
    BY <1>7, <2>1 DEF Near
<1>9. Kinds'
  BY <1>1 DEF StatesInv, Kinds
<1>10. ASSUME Timely' PROVE StatesOK'
  <2>1. StatesOK
    BY <1>1, <1>10 DEF Timely, StatesInv
  <2>2. AreHome(state)' /\ Firm' = Firm
    BY <1>1, <2>1, HomeRest DEF StatesOK
  <2>3. InTime'
    BY <1>1, <1>6, <1>8, <2>1 DEF StatesOK, InTime
  <2>4. Once'
    <3>1. Single(gpu'[0]) /\ \A u \in InSlot(0)' : ~ Same(t, u)
      BY <1>2, <1>4, <1>7, <2>1, SingleTail DEF StatesOK, Once, t
    <3>2. \A u \in InHand : ~ Same(t, u) /\ ~ Same(u, t)
      BY <1>7, <2>1 DEF StatesOK, Once, Same
    <3>3. \A v, x \in Workers : v # x => \A a \in hand'[v], b \in hand'[x] : ~ Same(a, b)
      BY <1>5, <2>1, <3>2 DEF StatesOK, Once, InHand
    <3>4. \A a \in InSlot(0)', b \in InHand' : ~ Same(a, b)
      BY <1>7, <1>8, <2>1, <3>1 DEF StatesOK, Once, Same
    <3>5. QED
      BY <1>6, <1>8, <2>1, <3>1, <3>3, <3>4 DEF StatesOK, Once
  <2>5. Uploading'
    BY <1>1, <1>6, <1>8, <2>1, UploadingRest DEF StatesOK
  <2>6. Commands'
    BY <1>1, <1>8, <2>1, <2>2, CommandsRest DEF StatesOK
  <2>7. ListsFit'
    BY <1>1, <1>6, <2>1, <2>2, ListsFitRest DEF StatesOK
  <2>8. QED
    BY <2>2, <2>3, <2>4, <2>5, <2>6, <2>7 DEF StatesOK
<1>11. QED
  BY <1>9, <1>10 DEF StatesInv

\* The steps of the list a task records, and what becomes of the buffer it creates.
LEMMA WhatRunAnnounces ==
  ASSUME NEW w \in Workers, NEW t, Record(w, t) \/ DestroyDone(w, t)
  PROVE  \/ UNCHANGED <<lists, state>> /\ t.op # "create"
         \/ \E l : /\ lists' = [lists EXCEPT ![w] = @ \cup {l}]
                   /\ l.op = t.op /\ l.id = t.id
                   /\ \/ t.op = "command" /\ l.steps = Recorded(t) /\ UNCHANGED state
                      \/ /\ t.op = "create" /\ l.steps = Uploaded(t.id)
                         /\ state' = [state EXCEPT ![t.id] = initial[t.id]]
                      \/ t.op \notin {"command", "create"} /\ l.steps = <<>> /\ UNCHANGED state
<1>1. ASSUME NEW p, NEW c, NEW s, NEW u, Push(w, List(w, t, p, c, s, u))
      PROVE  \E l : /\ lists' = [lists EXCEPT ![w] = @ \cup {l}]
                    /\ l.op = t.op /\ l.id = t.id /\ l.steps = s
  <2> DEFINE new == List(w, t, p, c, s, u)
  <2>1. /\ lists' = [lists EXCEPT ![w] = @ \cup {new}]
        /\ new.op = t.op /\ new.id = t.id /\ new.steps = s
    BY <1>1 DEF Push, List
  <2> HIDE DEF new
  <2>2. QED
    BY <2>1
<1>2. CASE BuildThrows(w, t) \/ BuildGivesUp(w, t) \/ DestroyDone(w, t)
  BY <1>2 DEF BuildThrows, BuildGivesUp, DestroyDone, memory
<1>3. CASE BuildCommand(w, t)
  <2> DEFINE new == List(w, t, t.desc.priority, TRUE, Recorded(t), Named(t.desc) \cap Objects)
  <2>1. /\ t.op = "command" /\ UNCHANGED state
        /\ lists' = [lists EXCEPT ![w] = @ \cup {new}]
    BY <1>3 DEF BuildCommand, memory, Push
  <2>2. new.op = t.op /\ new.id = t.id /\ new.steps = Recorded(t)
    BY DEF List
  <2> HIDE DEF new
  <2>3. QED
    BY <2>1, <2>2
<1>4. CASE CreateMemory(w, t)
  <2>1. /\ t.op = "create" /\ state' = [state EXCEPT ![t.id] = initial[t.id]]
        /\ Push(w, List(w, t, 0, TRUE, Uploaded(t.id), {t.id}))
    BY <1>4 DEF CreateMemory, Allocated
  <2>2. \E l : /\ lists' = [lists EXCEPT ![w] = @ \cup {l}]
               /\ l.op = t.op /\ l.id = t.id /\ l.steps = Uploaded(t.id)
    BY <1>1, <2>1
  <2>3. QED
    BY <2>1, <2>2
<1>5. CASE CleanupCreate(w, t)
  <2>1. /\ t.op = "cleanupCreate" /\ UNCHANGED state
        /\ Push(w, List(w, t, 0, TRUE, <<>>, {t.id}))
    BY <1>5 DEF CleanupCreate, Discard, memory
  <2>2. \E l : /\ lists' = [lists EXCEPT ![w] = @ \cup {l}]
               /\ l.op = t.op /\ l.id = t.id /\ l.steps = <<>>
    BY <1>1, <2>1
  <2>3. QED
    BY <2>1, <2>2
<1>6. CASE DestroyMain(w, t)
  <2>1. t.op = "destroyMain" /\ UNCHANGED state
    BY <1>6 DEF DestroyMain, memory
  <2>2. CASE UNCHANGED lists
    BY <2>1, <2>2
  <2>3. ASSUME NEW id, NEW c, Push(w, List(w, t, 0, c, <<>>, {id}))
        PROVE  \E l : /\ lists' = [lists EXCEPT ![w] = @ \cup {l}]
                      /\ l.op = t.op /\ l.id = t.id /\ l.steps = <<>>
    BY <1>1, <2>3
  <2>4. QED
    BY <1>6, <2>1, <2>2, <2>3 DEF DestroyMain, Discard
<1>7. QED
  BY <1>2, <1>3, <1>4, <1>5, <1>6 DEF Record

\* A worker that runs its task.
LEMMA RunAnnounced ==
  ASSUME FrameInv, MemoryInv, StatesInv, NEW w \in Workers, Run(w), Worker(w)
  PROVE  StatesInv'
<1>1. PICK t \in hand[w] : Record(w, t) \/ DestroyDone(w, t)
  BY DEF Run
<1>2. /\ UNCHANGED <<gpu, pending, toSubmit, pc, late>>
      /\ hand' = [v \in Workers |-> IF v = w THEN {} ELSE hand[v]]
      /\ hand[w] = {t} /\ t \in GPUTasks \cup {Done}
      /\ Near' \subseteq Near /\ t \in Near
      /\ UNCHANGED <<InSlot(0), InSlot(1), InSlot(2)>>
  BY RunLetsGo
<1>3. UNCHANGED <<frame, initial, handles, newborn, settled, proper>>
  BY <1>1 DEF Record, DestroyDone, objects, Worker, device
<1>4. \/ UNCHANGED <<lists, state>> /\ t.op # "create"
      \/ \E l : /\ lists' = [lists EXCEPT ![w] = @ \cup {l}]
                /\ l.op = t.op /\ l.id = t.id
                /\ \/ t.op = "command" /\ l.steps = Recorded(t) /\ UNCHANGED state
                   \/ /\ t.op = "create" /\ l.steps = Uploaded(t.id)
                      /\ state' = [state EXCEPT ![t.id] = initial[t.id]]
                   \/ t.op \notin {"command", "create"} /\ l.steps = <<>> /\ UNCHANGED state
  BY <1>1, WhatRunAnnounces
<1>5. /\ \A v \in Workers : hand'[v] = IF v = w THEN {} ELSE hand[v]
      /\ t \in InHand /\ InHand' \subseteq InHand
      /\ \A u \in Near : u \in Near' \/ u = t
  BY <1>2 DEF InHand, Near
<1>6. Kinds /\ Kinds' /\ Firm' = Firm
  BY <1>3 DEF StatesInv, Kinds, Firm
<1>7. CASE UNCHANGED <<lists, state>> /\ t.op # "create"
  <2>1. UNCHANGED AllLists
    BY <1>2, <1>7 DEF AllLists
  <2>2. ASSUME Timely' PROVE StatesOK'
    <3>1. StatesOK
      BY <1>2, <1>3, <2>2 DEF Timely, StatesInv
    <3>2. AreHome(state)'
      BY <1>3, <1>7, <3>1, HomeRest DEF StatesOK
    <3>3. InTime'
      BY <1>2, <1>7, <3>1 DEF StatesOK, InTime
    <3>4. Once'
      BY <1>2, <1>5, <2>1, <3>1, OnceRest DEF StatesOK, Once
    <3>5. Uploading'
      BY <1>2, <1>3, <1>5, <1>7, <2>1, <3>1, UploadingRest DEF StatesOK
    <3>6. Commands'
      BY <1>2, <1>3, <1>6, <3>1, CommandsRest DEF StatesOK
    <3>7. ListsFit'
      BY <1>3, <1>6, <2>1, <3>1, ListsFitRest DEF StatesOK
    <3>8. QED
      BY <3>2, <3>3, <3>4, <3>5, <3>6, <3>7 DEF StatesOK
  <2>3. QED
    BY <1>6, <2>2 DEF StatesInv
<1>8. ASSUME NEW l, lists' = [lists EXCEPT ![w] = @ \cup {l}],
             l.op = t.op, l.id = t.id,
             \/ t.op = "command" /\ l.steps = Recorded(t) /\ UNCHANGED state
             \/ /\ t.op = "create" /\ l.steps = Uploaded(t.id)
                /\ state' = [state EXCEPT ![t.id] = initial[t.id]]
             \/ t.op \notin {"command", "create"} /\ l.steps = <<>> /\ UNCHANGED state
      PROVE  StatesInv'
  <2>1. /\ lists'[w] = lists[w] \cup {l} /\ \A v \in Workers : v # w => lists'[v] = lists[v]
        /\ AllLists' = AllLists \cup {l}
    BY <1>2, <1>8 DEF AllLists, FrameInv, Functions
  <2>2. ASSUME Timely' PROVE StatesOK'
    <3>1. StatesOK
      BY <1>2, <1>3, <2>2 DEF Timely, StatesInv
    <3>2. InTime'
      <4>1. pc # "idle" => ~ OfFrame(t) /\ ~ OfFrame(l)
        BY <1>2, <1>8, <3>1 DEF StatesOK, InTime, OfFrame
      <4>2. QED
        BY <1>2, <2>1, <3>1, <4>1 DEF StatesOK, InTime
    <3>3. \A u \in Near' : ~ Same(u, l)
      BY <1>2, <1>5, <1>8, <3>1 DEF StatesOK, Once, Same, Near, InHand
    <3>4. Once'
      <4>1. \A m \in AllLists : ~ Same(l, m) /\ ~ Same(m, l)
        BY <1>2, <1>8, <3>1 DEF StatesOK, Once, Same
      <4>2. \A v, x \in Workers : v # x => \A a \in hand'[v], b \in hand'[x] : ~ Same(a, b)
        BY <1>5, <3>1 DEF StatesOK, Once
      <4>3. \A a \in InSlot(0)', b \in InHand' : ~ Same(a, b)
        BY <1>2, <1>5, <3>1 DEF StatesOK, Once
      <4>4. \A a \in Near', m \in AllLists' : ~ Same(a, m)
        BY <1>2, <2>1, <3>1, <3>3 DEF StatesOK, Once
      <4>5. \A a, m \in AllLists' : Same(a, m) => a = m
        BY <2>1, <3>1, <4>1 DEF StatesOK, Once
      <4>6. QED
        BY <1>2, <3>1, <4>2, <4>3, <4>4, <4>5 DEF StatesOK, Once
    <3>5. Commands'
      BY <1>2, <1>3, <1>6, <3>1, CommandsRest DEF StatesOK
    <3>6. t.op # "create" => UNCHANGED state
      BY <1>8
    <3>7. t.op = "create" => /\ l.steps = Uploaded(t.id) /\ t.id \in newborn
                             /\ state' = [state EXCEPT ![t.id] = "COPY_DEST"]
      <4>1. SUFFICES ASSUME t.op = "create"
                     PROVE  /\ l.steps = Uploaded(t.id) /\ t.id \in newborn
                            /\ state' = [state EXCEPT ![t.id] = "COPY_DEST"]
        OBVIOUS
      <4>2. t.id \in newborn
        BY <1>2, <3>1, <4>1 DEF StatesOK, Uploading
      <4>3. initial[t.id] = "COPY_DEST"
        BY <1>6, <4>2 DEF Kinds
      <4>4. QED
        BY <1>8, <4>1, <4>2, <4>3
    <3>8. \A b \in newborn : b \in Resources /\ b \notin Firm
      BY <1>6, Disjoint DEF Kinds, Firm, Objects
    <3>9. AreHome(state)'
      <4>1. /\ state = [r \in Resources |-> state[r]] /\ \A r \in Firm : state[r] = Home(r)
            /\ Firm \subseteq Resources
        BY <1>6, <3>1, Disjoint DEF StatesOK, AreHome, Firm, Kinds
      <4>2. state' = [r \in Resources |-> state'[r]] /\ \A r \in Firm : state'[r] = state[r]
        BY <3>6, <3>7, <3>8, <4>1
      <4>3. QED
        BY <1>3, <1>6, <4>1, <4>2 DEF AreHome, Home
    <3>10. Uploading'
      <4>1. \A b : Creating(b) => Creating(b)'
        BY <1>5, <1>8, <2>1 DEF Creating
      <4>2. \A u \in Near' : u.op = "create" => u.id \in newborn
        BY <1>2, <3>1 DEF StatesOK, Uploading
      <4>3. state = [r \in Resources |-> state[r]]
        BY <3>1 DEF StatesOK, AreHome
      <4>4. ASSUME NEW m \in AllLists', m.op = "create"
            PROVE  m.id \in newborn /\ m.steps = Uploaded(m.id) /\ state'[m.id] = "COPY_DEST"
        <5>1. CASE m = l
          BY <1>8, <3>7, <3>8, <4>3, <4>4, <5>1
        <5>2. CASE m # l
          <6>1. m \in AllLists /\ m.id \in newborn /\ m.steps = Uploaded(m.id) /\ state[m.id] = "COPY_DEST"
            BY <2>1, <3>1, <4>4, <5>2 DEF StatesOK, Uploading
          <6>2. QED
            BY <3>6, <3>7, <3>8, <4>3, <6>1
        <5>3. QED
          BY <5>1, <5>2
      <4>5. ASSUME NEW b \in newborn PROVE Creating(b)' \/ state'[b] = Input(b)
        <5>1. CASE t.op = "create" /\ b = t.id
          BY <1>8, <2>1, <5>1 DEF Creating
        <5>2. CASE ~ (t.op = "create" /\ b = t.id)
          <6>1. state'[b] = state[b]
            BY <3>6, <3>7, <3>8, <4>3, <5>2
          <6>2. QED
            BY <3>1, <4>1, <6>1 DEF StatesOK, Uploading
        <5>3. QED
          BY <5>1, <5>2
      <4>6. QED
        BY <1>3, <4>2, <4>4, <4>5 DEF Uploading
    <3>11. l.op = "create" \/ Harmless(l)
      <4>1. CASE t.op = "command"
        <5>1. t \in GPUTasks
          BY <1>2, <4>1 DEF Done
        <5>2. Expected(t)
          BY <1>2, <1>6, <3>1, <4>1, <5>1, WaitingExpected DEF StatesOK, FrameInv, FrameOK
        <5>3. /\ Len(Recorded(t)) \in Nat
              /\ \A f : AreHome(f) => Fits(Recorded(t), f, f)
          BY <1>6, <5>2, RecordedFits DEF Kinds, FrameInv, FrameOK
        <5>4. l.steps = Recorded(t)
          BY <1>8, <4>1
        <5>5. QED
          BY <5>3, <5>4 DEF Harmless
      <4>2. CASE t.op \notin {"command", "create"}
        BY <1>8, <4>2, EmptyHarmless
      <4>3. QED
        BY <1>8, <4>1, <4>2
    <3>12. ListsFit'
      BY <1>3, <1>6, <2>1, <3>1, <3>11, ListsFitRest DEF StatesOK
    <3>13. QED
      BY <3>2, <3>4, <3>5, <3>9, <3>10, <3>12 DEF StatesOK
  <2>3. QED
    BY <1>6, <2>2 DEF StatesInv
<1>9. QED
  BY <1>4, <1>7, <1>8

\* A worker's step keeps the invariant.
LEMMA WorkerAnnounced ==
  ASSUME FrameInv, MemoryInv, StatesInv, NEW w \in Workers, Worker(w) PROVE StatesInv'
BY IdleAnnounced, TakeAnnounced, RunAnnounced DEF Worker

-----------------------------------------------------------------------------
(***************************************************************************)
(* present() and a resize.                                                 *)
(***************************************************************************)

\* The queues rotate over parked workers: what was asked for is in the lists by now.
LEMMA SwapAnnounced ==
  ASSUME FrameInv, MemoryInv, StatesInv, Swap PROVE StatesInv'
<1>1. /\ UNCHANGED <<frame, initial, handles, newborn, settled, state, lists, pending, hand, proper>>
      /\ pc = "idle" /\ pc' = "submit" /\ toSubmit' = Workers
      /\ gpu' = Rotated(gpu) /\ late' = (late \/ gpu[0] # <<>> \/ gen[0] # <<>>)
      /\ \A w \in Workers : wpc[w] = "top"
  BY DEF Swap, Parked, objects, workers, memory
<1>2. gpu'[0] = gpu[1] /\ gpu'[1] = gpu[2] /\ gpu'[2] = gpu[0]
  <2>1. 0 \in Slots /\ 1 \in Slots /\ 2 \in Slots
    BY DEF Slots
  <2>2. (0 + 1) % 3 = 1 /\ (1 + 1) % 3 = 2 /\ (2 + 1) % 3 = 0
    OBVIOUS
  <2>3. QED
    BY <1>1, <2>1, <2>2 DEF Rotated
<1>3. /\ UNCHANGED <<InHand, AllLists>> /\ InHand = {}
      /\ InSlot(0)' = InSlot(1) /\ InSlot(1)' = InSlot(2) /\ InSlot(2)' = InSlot(0)
  <2>1. \A w \in Workers : hand[w] = {}
    BY <1>1 DEF MemoryInv, TasksOK
  <2>2. UNCHANGED <<InHand, AllLists>> /\ InHand = {}
    BY <1>1, <2>1 DEF InHand, AllLists
  <2>3. InSlot(0)' = InSlot(1) /\ InSlot(1)' = InSlot(2) /\ InSlot(2)' = InSlot(0)
    BY <1>2 DEF InSlot
  <2>4. QED
    BY <2>2, <2>3
<1>4. Kinds'
  BY <1>1 DEF StatesInv, Kinds
<1>5. ASSUME Timely' PROVE StatesOK'
  <2>1. StatesOK /\ gpu[0] = <<>>
    BY <1>1, <1>5 DEF Timely, StatesInv
  <2>2. InSlot(0) = {} /\ Near = {}
    BY <1>3, <2>1, ElementsOf DEF InSlot, Near, Elements
  <2>3. \A t \in Near' : ~ OfFrame(t)
    BY <1>3, <2>1 DEF StatesOK, InTime, Near
  <2>4. AreHome(state)' /\ Firm' = Firm
    BY <1>1, <2>1, HomeRest DEF StatesOK
  <2>5. InTime'
    BY <1>1, <1>3, <2>1, <2>2, <2>3 DEF StatesOK, InTime
  <2>6. Once'
    <3>1. \A i \in 1..Len(gpu'[0]) : ~ OfFrame(gpu'[0][i])
      BY <1>2, <2>1 DEF StatesOK, InTime, InSlot, Elements
    <3>2. Single(gpu'[0])
      BY <3>1 DEF Single, Same, OfFrame
    <3>3. \A t \in InSlot(0)' : t.op # "create"
      BY <2>3 DEF Near, OfFrame
    <3>4. QED
      BY <1>1, <1>3, <2>1, <3>2, <3>3, OnceRest DEF StatesOK
  <2>7. Uploading'
    <3>1. \A t \in Near' : t.op # "create"
      BY <2>3 DEF OfFrame
    <3>2. QED
      BY <1>1, <1>3, <2>1, <2>2, <3>1, UploadingRest DEF StatesOK
  <2>8. Commands'
    BY <2>3 DEF Commands, OfFrame
  <2>9. ListsFit'
    BY <1>1, <1>3, <2>1, <2>4, ListsFitRest DEF StatesOK
  <2>10. QED
    BY <2>4, <2>5, <2>6, <2>7, <2>8, <2>9 DEF StatesOK
<1>6. QED
  BY <1>4, <1>5 DEF StatesInv

\* The lists of a worker are handed over.
LEMMA SubmitAnnounced ==
  ASSUME FrameInv, StatesInv, NEW w \in Workers, SubmitCommandList(w) PROVE StatesInv'
<1>1. /\ UNCHANGED <<frame, gpu, initial, handles, newborn, settled, state, hand, proper, late>>
      /\ pc = "submit" /\ pc' \in {"submit", "execute"} /\ toSubmit' = toSubmit \ {w}
      /\ pending' = pending \cup lists[w] /\ lists' = [lists EXCEPT ![w] = {}]
  BY DEF SubmitCommandList, queues, objects, memory, history
<1>2. lists'[w] = {} /\ \A v \in Workers : v # w => lists'[v] = lists[v]
  BY <1>1 DEF FrameInv, Functions
<1>3. UNCHANGED <<InSlot(0), InSlot(1), InSlot(2), InHand, Near, AllLists>>
  BY <1>1, <1>2 DEF InSlot, InHand, Near, AllLists
<1>4. Kinds'
  BY <1>1 DEF StatesInv, Kinds
<1>5. ASSUME Timely' PROVE StatesOK'
  <2>1. StatesOK
    BY <1>1, <1>5 DEF Timely, StatesInv
  <2>2. AreHome(state)' /\ Firm' = Firm
    BY <1>1, <2>1, HomeRest DEF StatesOK
  <2>3. InTime'
    BY <1>1, <1>2, <1>3, <2>1 DEF StatesOK, InTime
  <2>4. Once'
    BY <1>1, <1>3, <2>1 DEF StatesOK, Once
  <2>5. Uploading' /\ Commands' /\ ListsFit'
    BY <1>1, <1>3, <2>1, <2>2, UploadingRest, CommandsRest, ListsFitRest DEF StatesOK
  <2>6. QED
    BY <2>2, <2>3, <2>4, <2>5 DEF StatesOK
<1>6. QED
  BY <1>4, <1>5 DEF StatesInv

\* The GPU executes a list: a new buffer becomes the input it was made for, and
\* everything else stays.
LEMMA ExecuteAnnounced ==
  ASSUME FrameInv, StatesInv, NEW l \in pending, Execute(l) PROVE StatesInv'
<1>1. /\ UNCHANGED <<frame, gpu, initial, handles, newborn, settled, lists, hand, toSubmit, pc, proper,
                     late>>
      /\ pc = "execute" /\ toSubmit = {} /\ pending' = pending \ {l}
      /\ state' = StateAfter(l)[Len(l.steps)]
  BY DEF Execute, queues, objects, workers, history, FrameInv, FrameOK
<1>2. UNCHANGED <<InSlot(0), InSlot(1), InSlot(2), InHand, Near>>
  BY <1>1 DEF InSlot, InHand, Near
<1>3. /\ AllLists' \subseteq AllLists /\ l \in AllLists
      /\ \A m \in AllLists : m \in AllLists' \/ m = l
      /\ \A m \in AllLists' : m # l \/ \E w \in Workers : m \in lists[w]
  BY <1>1 DEF AllLists
<1>4. Kinds /\ Kinds'
  BY <1>1 DEF StatesInv, Kinds
<1>5. ASSUME Timely' PROVE StatesOK'
  <2>1. StatesOK
    BY <1>1, <1>5 DEF Timely, StatesInv
  <2>2. InTime'
    BY <1>1, <1>2, <2>1 DEF StatesOK, InTime
  <2>3. Once'
    BY <1>1, <1>2, <1>3, <2>1, OnceRest DEF StatesOK, Once
  <2>4. Firm' = Firm
    BY <1>1 DEF Firm
  <2>5. Commands' /\ ListsFit'
    BY <1>1, <1>2, <1>3, <2>1, <2>4, CommandsRest, ListsFitRest DEF StatesOK
  <2>6. state' = IF l.op = "create" THEN [state EXCEPT ![l.id] = Input(l.id)] ELSE state
    BY <1>1, <1>3, <1>4, <2>1, ListExecutes DEF StatesOK
  <2>7. CASE l.op # "create"
    <3>1. UNCHANGED state
      BY <2>6, <2>7
    <3>2. AreHome(state)'
      BY <1>1, <2>1, <3>1, HomeRest DEF StatesOK
    <3>3. Uploading'
      BY <1>1, <1>2, <1>3, <2>1, <2>7, <3>1, UploadingRest DEF StatesOK
    <3>4. QED
      BY <2>2, <2>3, <2>5, <3>2, <3>3 DEF StatesOK
  <2>8. CASE l.op = "create"
    <3>1. /\ l.id \in newborn /\ l.id \in Resources /\ l.id \notin Firm
          /\ state' = [state EXCEPT ![l.id] = Input(l.id)] /\ Firm \subseteq Resources
          /\ state = [r \in Resources |-> state[r]]
      BY <1>3, <1>4, <2>1, <2>6, <2>8, Disjoint
         DEF StatesOK, Uploading, Kinds, Firm, AreHome, Objects
    <3>2. /\ state' = [r \in Resources |-> state'[r]] /\ state'[l.id] = Input(l.id)
          /\ \A r \in Resources : r # l.id => state'[r] = state[r]
      BY <3>1
    <3>3. AreHome(state)'
      BY <1>1, <2>1, <2>4, <3>1, <3>2 DEF StatesOK, AreHome, Home
    <3>4. ASSUME NEW m \in AllLists', m.op = "create"
          PROVE  m.id \in newborn /\ m.steps = Uploaded(m.id) /\ state'[m.id] = "COPY_DEST"
      <4>1. m # l
        BY <1>1, <1>3, <2>1, <3>4 DEF StatesOK, InTime, OfFrame
      <4>2. m.id # l.id
        BY <1>3, <2>1, <2>8, <3>4, <4>1 DEF StatesOK, Once, Same
      <4>3. m.id \in newborn /\ m.steps = Uploaded(m.id) /\ state[m.id] = "COPY_DEST"
        BY <1>3, <2>1, <3>4 DEF StatesOK, Uploading
      <4>4. m.id \in Resources
        BY <1>4, <4>3, Disjoint DEF Kinds
      <4>5. QED
        BY <3>2, <4>2, <4>3, <4>4
    <3>5. ASSUME NEW b \in newborn PROVE Creating(b)' \/ state'[b] = Input(b)
      <4>1. b \in Resources
        BY <1>4, Disjoint DEF Kinds
      <4>2. CASE b = l.id
        BY <3>2, <4>2
      <4>3. CASE b # l.id
        <5>1. Creating(b) => Creating(b)'
          BY <1>2, <1>3, <4>3 DEF Creating
        <5>2. state'[b] = state[b]
          BY <3>2, <4>1, <4>3
        <5>3. QED
          BY <2>1, <5>1, <5>2 DEF StatesOK, Uploading
      <4>4. QED
        BY <4>2, <4>3
    <3>6. Uploading'
      BY <1>1, <1>2, <2>1, <3>4, <3>5 DEF StatesOK, Uploading
    <3>7. QED
      BY <2>2, <2>3, <2>5, <3>3, <3>6 DEF StatesOK
  <2>9. QED
    BY <2>7, <2>8
<1>6. QED
  BY <1>4, <1>5 DEF StatesInv

\* The next frame: the buffers of the one before are at home.
LEMMA AdvanceAnnounced ==
  ASSUME FrameInv, StatesInv, Advance PROVE StatesInv'
<1>1. /\ UNCHANGED <<gpu, initial, handles, state, lists, pending, hand, toSubmit, proper, late>>
      /\ pc = "execute" /\ pc' = "idle" /\ pending = {} /\ toSubmit = {}
      /\ settled' = settled \cup newborn /\ newborn' = {}
  BY DEF Advance, queues, workers, memory, history, FrameInv, FrameOK
<1>2. UNCHANGED <<InSlot(0), InSlot(1), InSlot(2), InHand, Near, AllLists>>
  BY <1>1 DEF InSlot, InHand, Near, AllLists
<1>3. Kinds /\ Kinds'
  BY <1>1 DEF StatesInv, Kinds
<1>4. ASSUME Timely' PROVE StatesOK'
  <2>1. StatesOK
    BY <1>1, <1>4 DEF Timely, StatesInv
  <2>2. (\A t \in Near : ~ OfFrame(t)) /\ \A l \in AllLists : ~ OfFrame(l)
    BY <1>1, <2>1 DEF StatesOK, InTime, AllLists
  <2>3. \A b \in newborn : state[b] = Input(b)
    BY <2>1, <2>2 DEF StatesOK, Uploading, Creating, OfFrame
  <2>4. Firm' = Firm \cup newborn
    BY <1>1 DEF Firm
  <2>5. AreHome(state)'
    BY <1>1, <1>3, <2>1, <2>3, <2>4 DEF StatesOK, AreHome, Home, Kinds
  <2>6. InTime' /\ Once'
    BY <1>1, <1>2, <2>1 DEF StatesOK, InTime, Once
  <2>7. Uploading' /\ Commands'
    BY <1>1, <1>2, <2>2 DEF Uploading, Commands, OfFrame
  <2>8. ListsFit'
    BY <1>1, <1>2, <2>1, <2>4, ListsFitRest DEF StatesOK
  <2>9. QED
    BY <2>5, <2>6, <2>7, <2>8 DEF StatesOK
<1>5. QED
  BY <1>3, <1>4 DEF StatesInv

\* A resize drops what is on the way, and what was being created is no input any more.
LEMMA ResizeAnnounced ==
  ASSUME FrameInv, MemoryInv, StatesInv, Resize PROVE StatesInv'
<1>1. /\ UNCHANGED <<initial, handles, settled, hand, pending, pc, toSubmit, proper, late>>
      /\ gpu' = Nothing /\ lists' = NoLists /\ newborn' = {} /\ pc = "idle"
      /\ state' = [r \in Resources |-> IF r \in Frames THEN "PRESENT" ELSE state[r]]
      /\ \A w \in Workers : wpc[w] = "top"
  BY DEF Resize, Parked, history
<1>2. pending = {} /\ \A w \in Workers : hand[w] = {}
  BY <1>1 DEF FrameInv, FrameOK, MemoryInv, TasksOK
<1>3. Nothing[0] = <<>> /\ Nothing[1] = <<>> /\ Nothing[2] = <<>> /\ Len(<<>>) = 0
  BY DEF Nothing, Slots
<1>4. /\ InSlot(0)' = {} /\ InSlot(1)' = {} /\ InSlot(2)' = {}
      /\ Near' = {} /\ AllLists' = {} /\ InHand' = {}
  BY <1>1, <1>2, <1>3 DEF InSlot, Elements, Near, InHand, AllLists, NoLists
<1>5. Kinds /\ Kinds'
  BY <1>1 DEF StatesInv, Kinds
<1>6. ASSUME Timely' PROVE StatesOK'
  <2>1. StatesOK
    BY <1>1, <1>6 DEF Timely, StatesInv
  <2>2. Firm' = Firm /\ Firm \subseteq Resources /\ Frames \cap Buffers = {}
    BY <1>1, <1>5, Disjoint DEF Firm, Kinds, Objects
  <2>3. AreHome(state)'
    BY <1>1, <1>5, <2>1, <2>2 DEF StatesOK, AreHome, Home, Kinds
  <2>4. InTime' /\ Uploading' /\ Commands' /\ ListsFit'
    BY <1>1, <1>4 DEF InTime, Uploading, Commands, ListsFit
  <2>5. Once'
    <3>1. Single(gpu'[0])
      BY <1>1, <1>3 DEF Single
    <3>2. QED
      BY <1>1, <1>2, <1>4, <3>1 DEF Once
  <2>6. QED
    BY <2>3, <2>4, <2>5 DEF StatesOK
<1>7. QED
  BY <1>5, <1>6 DEF StatesInv

-----------------------------------------------------------------------------
\* Every step keeps what is known of the resources' states.
LEMMA StatesStep == ASSUME FrameInv, MemoryInv, StatesInv, [Next]_vars PROVE StatesInv'
<1>1. CASE UNCHANGED vars
  <2>1. UNCHANGED <<frame, gpu, initial, handles, newborn, settled, state, lists, pending, hand, pc,
                    toSubmit, proper, late>>
    BY <1>1 DEF vars, device, queues, objects, workers, memory, history
  <2>2. UNCHANGED <<InSlot(0), InSlot(1), InSlot(2), InHand, Near, AllLists>>
    BY <2>1 DEF InSlot, InHand, Near, AllLists
  <2>3. Kinds'
    BY <2>1 DEF StatesInv, Kinds
  <2>4. ASSUME Timely' PROVE StatesOK'
    <3>1. StatesOK
      BY <2>1, <2>4 DEF Timely, StatesInv
    <3>2. AreHome(state)' /\ Firm' = Firm
      BY <2>1, <3>1, HomeRest DEF StatesOK
    <3>3. InTime' /\ Once'
      BY <2>1, <2>2, <3>1 DEF StatesOK, InTime, Once
    <3>4. Uploading' /\ Commands' /\ ListsFit'
      BY <2>1, <2>2, <3>1, <3>2, UploadingRest, CommandsRest, ListsFitRest DEF StatesOK
    <3>5. QED
      BY <3>2, <3>3, <3>4 DEF StatesOK
  <2>5. QED
    BY <2>3, <2>4 DEF StatesInv
<1>2. QED
  BY <1>1, ApplicationAnnounced, WorkerAnnounced, SwapAnnounced, SubmitAnnounced,
     ExecuteAnnounced, AdvanceAnnounced, ResizeAnnounced DEF Next

\* In the first state there are the frames' textures only, at home.
LEMMA StatesBegin == ASSUME Init PROVE StatesInv
<1>1. Nothing[0] = <<>> /\ Nothing[1] = <<>> /\ Nothing[2] = <<>> /\ Len(<<>>) = 0
  BY DEF Nothing, Slots
<1>2. /\ InSlot(0) = {} /\ InSlot(1) = {} /\ InSlot(2) = {}
      /\ InHand = {} /\ AllLists = {} /\ Near = {}
  BY <1>1 DEF Init, InSlot, Elements, InHand, AllLists, Near
<1>3. Kinds
  BY Disjoint DEF Init, Kinds, Resources, Objects
<1>4. Firm = Frames
  BY Disjoint DEF Init, Firm, Resources, Objects
<1>5. AreHome(state)
  BY <1>4, Disjoint DEF Init, AreHome, Home, Objects
<1>6. InTime /\ Uploading /\ Commands /\ ListsFit
  BY <1>2 DEF Init, InTime, Uploading, Commands, ListsFit
<1>7. Once
  BY <1>1, <1>2 DEF Init, Once, Single
<1>8. QED
  BY <1>3, <1>5, <1>6, <1>7 DEF StatesInv, StatesOK

\* A list about to be executed finds every resource in the state its barriers announce
\* and its calls need, in whatever order lists of one priority come, for the commands
\* the builder is made for and while no tasks are left behind.
THEOREM StatesFound == Spec => []StatesAsAnnounced
<1>1. Init => FrameInv /\ DestroyInv
  <2>1. 0 \in Frames
    BY ListsAssumption DEF Frames
  <2>2. QED
    BY <2>1 DEF Init, FrameInv, FrameOK, FrameUnseen, SeenInPresent, Signed, Functions,
                PendingOf, DestroyInv, QueueOK, Awaited, Waiting, OpenAreIndexed
<1>2. StatesInv => StatesAsAnnounced
  <2>1. SUFFICES ASSUME StatesInv, Timely, NEW l \in Ready, NEW i \in 1..Len(l.steps)
                 PROVE  StateAfter(l)[i - 1][l.steps[i].res] = l.steps[i].before
    BY DEF StatesAsAnnounced, Timely
  <2>2. l \in AllLists
    BY <2>1 DEF Ready, AllLists
  <2>3. Uploading /\ AreHome(state) /\ ListsFit /\ Kinds
    BY <2>1 DEF StatesInv, StatesOK
  <2>4. QED
    BY <2>1, <2>2, <2>3, ListExecutes
<1>3. QED
  BY <1>1, <1>2, MemoryBegins, StatesBegin, FrameStep, DestroyStep, MemoryStep, StatesStep,
     PTL DEF Spec
=============================================================================
