--------------------------- MODULE DX12ContextProofs --------------------------
(***************************************************************************)
(* What holds of DX12Context for any number of workers, resources, frames  *)
(* and resizes.                                                            *)
(***************************************************************************)
EXTENDS DX12Context, FiniteSetTheorems, TLAPS

\* An identity whose handle was given up is neither held by the application nor
\* drawn again: what waits for destruction, and what is being erased, is nobody's.
Gone(id) == id \notin handles /\ id \notin fresh

QueueGone == \A i \in DOMAIN destroyQueue : Gone(destroyQueue[i].id)
HandsGone == \A w \in Workers : \A t \in hand[w] : t.op = "erase" => Gone(t.id)

\* Strengthens LiveStay so that every step preserves it.
Ownership == /\ \A id \in handles : id \notin fresh
             /\ QueueGone /\ HandsGone

IInv == TypeOK /\ LiveStay /\ Ownership

-----------------------------------------------------------------------------
\* What push does to the three slots: it keeps their type.
LEMMA PutType ==
    ASSUME NEW S, NEW q \in [Slots -> Seq(S)], NEW s \in Slots, NEW t \in S
    PROVE  Put(q, s, t) \in [Slots -> Seq(S)]
  BY DEF Put

\* So does the rotation at the end of a frame.
LEMMA RotatedType ==
    ASSUME NEW S, NEW q \in [Slots -> Seq(S)]
    PROVE  Rotated(q) \in [Slots -> Seq(S)]
<1>1. \A s \in Slots : (s + 1) % 3 \in Slots
  BY DEF Slots
<1> QED
  BY <1>1 DEF Rotated

\* Taking the head of a slot keeps the type, and the head is a task.
LEMMA TakenType ==
    ASSUME NEW S, NEW q \in [Slots -> Seq(S)], q[0] # <<>>
    PROVE  /\ Head(q[0]) \in S
           /\ [q EXCEPT ![0] = Tail(@)] \in [Slots -> Seq(S)]
<1>1. 0 \in Slots
  BY DEF Slots
<1>2. q[0] \in Seq(S)
  BY <1>1
<1>3. Tail(q[0]) \in Seq(S) /\ Head(q[0]) \in S
  BY <1>2
<1> QED
  BY <1>1, <1>3

\* Initially nothing exists.
LEMMA InitInv == Init => IInv
<1> SUFFICES ASSUME Init PROVE IInv
  OBVIOUS
<1> USE ContextAssumption DEF Init
<1>1. TypeOK
  BY DEF TypeOK, Kinds, Slots
<1>2. LiveStay
  BY DEF LiveStay
<1>3. Ownership
  BY DEF Ownership, QueueGone, HandsGone
<1> QED
  BY <1>1, <1>2, <1>3 DEF IInv

-----------------------------------------------------------------------------
\* The tasks the application submits are tasks of the model.
LEMMA BoundType ==
    ASSUME TypeOK, NEW kind \in Kinds, NEW id \in Ids,
           NEW op \in {"create", "cleanupCreate", "cleanupIntermediate", "draw"}
    PROVE  Bound(op, kind, id) \in QueuedTasks
  BY DEF TypeOK, Bound, QueuedTasks

\* What the creation of any resource leaves in its types.
LEMMA NewType ==
    ASSUME TypeOK, NEW kind \in Kinds, NEW id \in Ids, New(id, kind)
    PROVE  /\ maps' \in [Kinds -> SUBSET Ids] /\ kindOf' \in [Ids -> Kinds]
           /\ handles' \subseteq Ids /\ fresh' \subseteq Ids
  BY DEF TypeOK, New, Drawn

\* Every call of the application preserves the type invariant.
LEMMA ApplicationType == ASSUME TypeOK, Application PROVE TypeOK'
<1> USE DEF TypeOK, objects, queues, bounds
<1>1. UNCHANGED crashed
  BY DEF Application
<1>2. ASSUME NEW id \in Ids, NEW kind \in BufferKinds, CreateBuffer(id, kind)
      PROVE  TypeOK'
  <2>1. kind \in Kinds /\ New(id, kind)
    BY <1>2 DEF BufferKinds, CreateBuffer
  <2> DEFINE gpu1 == Put(gpu, 0, Bound("create", kind, id))
  <2>2. 0 \in Slots /\ 1 \in Slots /\ 2 \in Slots
    BY DEF Slots
  <2>3. gpu1 \in [Slots -> Seq(QueuedTasks)]
    BY <2>1, <2>2, BoundType, PutType
  <2>4. Put(gpu1, 1, Bound("cleanupCreate", kind, id)) \in [Slots -> Seq(QueuedTasks)]
    <3> HIDE DEF gpu1
    <3> QED
      BY <2>1, <2>2, <2>3, BoundType, PutType
  <2>5. gpu' \in [Slots -> Seq(QueuedTasks)]
    BY <1>2, <2>4 DEF CreateBuffer
  <2>6. gen' \in [Slots -> Seq(QueuedTasks)]
    BY <1>2, <2>1, <2>2, BoundType, PutType DEF CreateBuffer
  <2>7. QED
    BY <1>1, <1>2, <2>1, <2>5, <2>6, NewType DEF CreateBuffer
<1>3. ASSUME NEW id \in Ids, CreateTexture(id) PROVE TypeOK'
  <2>1. "TEXTURE" \in Kinds /\ New(id, "TEXTURE")
    BY <1>3 DEF Kinds, CreateTexture
  <2>2. QED
    BY <1>1, <1>3, <2>1, NewType DEF CreateTexture
<1>4. ASSUME NEW id \in Ids, DestroyResource(id) PROVE TypeOK'
  <2>1. [kind |-> DestroyedAs(kindOf[id]), id |-> id] \in Entries
    BY DEF Entries, DestroyedAs, Kinds
  <2>2. destroyQueue' \in Seq(Entries)
    BY <1>4, <2>1 DEF DestroyResource
  <2>3. /\ 0 \in Slots /\ DoneSlot \in Slots
        /\ Unbound("destroyMain") \in QueuedTasks /\ Unbound("destroyDone") \in QueuedTasks
    BY DEF Slots, DoneSlot, Unbound, QueuedTasks
  <2>4. gpu' \in [Slots -> Seq(QueuedTasks)] /\ gen' \in [Slots -> Seq(QueuedTasks)]
    BY <1>4, <2>3, PutType DEF DestroyResource
  <2>5. QED
    BY <1>1, <1>4, <2>2, <2>4 DEF DestroyResource
<1>5. ASSUME NEW id \in Ids, Draw(id) PROVE TypeOK'
  <2>1. 0 \in Slots /\ Bound("draw", kindOf[id], id) \in QueuedTasks
    BY BoundType DEF Slots
  <2>2. gpu' \in [Slots -> Seq(QueuedTasks)]
    BY <1>5, <2>1, PutType DEF Draw
  <2>3. draws' \in 0..MaxDraws
    BY <1>5, ContextAssumption DEF Draw
  <2>4. QED
    BY <1>1, <1>5, <2>2, <2>3 DEF Draw
<1>6. ASSUME Present PROVE TypeOK'
  <2>1. gpu' \in [Slots -> Seq(QueuedTasks)] /\ gen' \in [Slots -> Seq(QueuedTasks)]
    BY <1>6, RotatedType DEF Present
  <2>2. clock' \in 0..MaxFrames
    BY <1>6, ContextAssumption DEF Present
  <2>3. QED
    BY <1>1, <1>6, <2>1, <2>2 DEF Present
<1>7. ASSUME Clear PROVE TypeOK'
  <2>1. clears' \in 0..MaxClears
    BY <1>7, ContextAssumption DEF Clear
  <2>2. QED
    BY <1>1, <1>7, <2>1 DEF Clear
<1>8. QED
  BY <1>2, <1>3, <1>4, <1>5, <1>6, <1>7 DEF Application

\* A worker that goes on to hold one task, or none, keeps its types.
LEMMA HandType ==
    ASSUME TypeOK, NEW w \in Workers, NEW T \in SUBSET HeldTasks,
           \A t, u \in T : t = u, hand' = [hand EXCEPT ![w] = T]
    PROVE  /\ hand' \in [Workers -> SUBSET HeldTasks]
           /\ \A v \in Workers : \A t, u \in hand'[v] : t = u
  BY DEF TypeOK

\* Every step of a worker preserves the type invariant.
LEMMA WorkerType ==
    ASSUME TypeOK, NEW w \in Workers, TakeGPU(w) \/ TakeGeneric(w) \/ Run(w)
    PROVE  TypeOK'
<1> USE DEF TypeOK, objects, queues, bounds
<1>1. \A t \in QueuedTasks : t \in HeldTasks
  BY DEF HeldTasks
<1>2. Unbound("tryPopGeneric") \in HeldTasks
  BY DEF HeldTasks, Unbound
<1>3. CASE TakeGPU(w)
  <2>1. CASE gpu[0] # <<>>
    <3> DEFINE taken == [gpu EXCEPT ![0] = Tail(@)]
    <3>1. gpu \in [Slots -> Seq(QueuedTasks)]
      OBVIOUS
    <3>2. Head(gpu[0]) \in QueuedTasks /\ taken \in [Slots -> Seq(QueuedTasks)]
      BY <2>1, <3>1, TakenType
    <3>3. gpu' = taken
      BY <1>3, <2>1 DEF TakeGPU
    <3>4. Head(gpu[0]) \in HeldTasks /\ gpu' \in [Slots -> Seq(QueuedTasks)]
      BY <1>1, <3>2, <3>3
    <3>5. hand' = [hand EXCEPT ![w] = {Head(gpu[0])}]
      BY <1>3, <2>1 DEF TakeGPU, Gets
    <3>6. QED
      BY <1>3, <3>4, <3>5, HandType DEF TakeGPU
  <2>2. CASE gpu[0] = <<>>
    <3>1. hand' = [hand EXCEPT ![w] = {Unbound("tryPopGeneric")}]
      BY <1>3, <2>2 DEF TakeGPU, Gets
    <3>2. QED
      BY <1>2, <1>3, <2>2, <3>1, HandType DEF TakeGPU
  <2>3. QED
    BY <2>1, <2>2
<1>4. CASE TakeGeneric(w)
  <2>1. CASE gen[0] # <<>>
    <3> DEFINE taken == [gen EXCEPT ![0] = Tail(@)]
    <3>1. gen \in [Slots -> Seq(QueuedTasks)]
      OBVIOUS
    <3>2. Head(gen[0]) \in QueuedTasks /\ taken \in [Slots -> Seq(QueuedTasks)]
      BY <2>1, <3>1, TakenType
    <3>3. gen' = taken
      BY <1>4, <2>1 DEF TakeGeneric
    <3>4. Head(gen[0]) \in HeldTasks /\ gen' \in [Slots -> Seq(QueuedTasks)]
      BY <1>1, <3>2, <3>3
    <3>5. hand' = [hand EXCEPT ![w] = {Head(gen[0])}]
      BY <1>4, <2>1 DEF TakeGeneric, Gets
    <3>6. QED
      BY <1>4, <3>4, <3>5, HandType DEF TakeGeneric
  <2>2. CASE gen[0] = <<>>
    <3>1. hand' = [hand EXCEPT ![w] = {}]
      BY <1>4, <2>2 DEF TakeGeneric, Done
    <3>2. QED
      BY <1>4, <2>2, <3>1, HandType DEF TakeGeneric
  <2>3. QED
    BY <2>1, <2>2
<1>5. CASE Run(w)
  <2>1. PICK t \in hand[w] : \/ RunBound(w, t) \/ RunDraw(w, t) \/ DestroyMain(w, t)
                            \/ DestroyDone(w, t) \/ Erase(w, t)
    BY <1>5 DEF Run
  <2>2. UNCHANGED <<gpu, gen, clock, clears, draws>>
    BY <1>5 DEF Run
  <2>3. CASE RunBound(w, t)
    <3>1. hand' = [hand EXCEPT ![w] = {}]
      BY <2>3 DEF RunBound, Done
    <3>2. QED
      BY <2>2, <2>3, <3>1, HandType DEF RunBound
  <2>4. CASE RunDraw(w, t)
    <3>1. hand' = [hand EXCEPT ![w] = {}]
      BY <2>4 DEF RunDraw, Done
    <3>2. QED
      BY <2>2, <2>4, <3>1, HandType DEF RunDraw, Throw
  <2>5. CASE DestroyMain(w, t)
    <3>1. hand' = [hand EXCEPT ![w] = {}]
      BY <2>5 DEF DestroyMain, Done
    <3>2. QED
      BY <2>2, <2>5, <3>1, HandType DEF DestroyMain, Throw, Front
  <2>6. CASE DestroyDone(w, t)
    <3>1. CASE destroyQueue = <<>>
      <4>1. hand' = [hand EXCEPT ![w] = {}]
        BY <2>6, <3>1 DEF DestroyDone, Done
      <4>2. QED
        BY <2>2, <2>6, <3>1, <4>1, HandType DEF DestroyDone, Throw
    <3>2. CASE destroyQueue # <<>>
      <4>1. Head(destroyQueue) \in Entries /\ Tail(destroyQueue) \in Seq(Entries)
        BY <3>2
      <4>2. After("erase", Head(destroyQueue)) \in HeldTasks
        BY <4>1 DEF After, HeldTasks, Entries
      <4>3. hand' = [hand EXCEPT ![w] = {After("erase", Head(destroyQueue))}]
        BY <2>6, <3>2 DEF DestroyDone, Holds
      <4>4. /\ hand' \in [Workers -> SUBSET HeldTasks]
            /\ \A v \in Workers : \A x, y \in hand'[v] : x = y
        <5> DEFINE T == {After("erase", Head(destroyQueue))}
        <5>1. T \in SUBSET HeldTasks /\ \A x, y \in T : x = y
          BY <4>2
        <5>2. hand' = [hand EXCEPT ![w] = T]
          BY <4>3
        <5> HIDE DEF T
        <5>3. QED
          BY <5>1, <5>2, HandType
      <4>5. QED
        BY <2>2, <2>6, <3>2, <4>1, <4>4 DEF DestroyDone
    <3>3. QED
      BY <3>1, <3>2
  <2>7. CASE Erase(w, t)
    <3>1. hand' = [hand EXCEPT ![w] = {}]
      BY <2>7 DEF Erase, Done
    <3>2. QED
      BY <2>2, <2>7, <3>1, HandType DEF Erase
  <2>8. QED
    BY <2>1, <2>3, <2>4, <2>5, <2>6, <2>7
<1>6. QED
  BY <1>3, <1>4, <1>5

\* Every step preserves the type invariant.
LEMMA TypeStep == ASSUME TypeOK, [Next]_vars PROVE TypeOK'
<1>1. CASE Next
  BY <1>1, ApplicationType, WorkerType DEF Next
<1>2. CASE UNCHANGED vars
  BY <1>2 DEF TypeOK, vars, objects, queues, bounds
<1>3. QED
  BY <1>1, <1>2

-----------------------------------------------------------------------------
\* A task that comes out of a queue erases nothing by itself.
LEMMA QueuedErasesNothing == \A t \in QueuedTasks : t.op # "erase"
  BY DEF QueuedTasks

\* Where the entries of the queue without its front come from.
LEMMA FrontTakenType ==
    ASSUME NEW S, NEW q \in Seq(S), q # <<>>
    PROVE  /\ 1 \in DOMAIN q /\ Head(q) = q[1]
           /\ \A i \in DOMAIN Tail(q) : i + 1 \in DOMAIN q /\ Tail(q)[i] = q[i + 1]
  OBVIOUS

\* What a worker goes on to hold matters to Ownership only if it erases.
LEMMA HandOwnership ==
    ASSUME IInv, NEW w \in Workers, NEW T, hand' = [hand EXCEPT ![w] = T],
           \A t \in T : t.op = "erase" => Gone(t.id),
           UNCHANGED <<handles, fresh>>
    PROVE  HandsGone'
  BY DEF IInv, TypeOK, Ownership, HandsGone, Gone

\* A step that changes nothing but what a worker holds.
LEMMA HandOnly ==
    ASSUME IInv, NEW w \in Workers, NEW T, hand' = [hand EXCEPT ![w] = T],
           \A t \in T : t.op = "erase" => Gone(t.id),
           UNCHANGED <<maps, kindOf, handles, fresh, destroyQueue>>
    PROVE  LiveStay' /\ Ownership'
<1>1. HandsGone'
  BY HandOwnership
<1>2. QED
  BY <1>1 DEF IInv, LiveStay, Ownership, QueueGone, Gone

\* Every call of the application keeps its objects: it creates them with the
\* handle, and gives the handle up with the entry in the queue.
LEMMA ApplicationOwnership ==
    ASSUME IInv, Application PROVE LiveStay' /\ Ownership'
<1> USE DEF IInv, LiveStay, Ownership, QueueGone, HandsGone, Gone, objects, queues, bounds
<1>1. ASSUME NEW id \in Ids, NEW kind \in Kinds, New(id, kind),
             UNCHANGED <<destroyQueue, hand>>
      PROVE  LiveStay' /\ Ownership'
  BY <1>1 DEF New, Drawn, TypeOK
<1>2. ASSUME NEW id \in Ids, NEW kind \in BufferKinds, CreateBuffer(id, kind)
      PROVE  LiveStay' /\ Ownership'
  BY <1>1, <1>2 DEF CreateBuffer, BufferKinds
<1>3. ASSUME NEW id \in Ids, CreateTexture(id) PROVE LiveStay' /\ Ownership'
  BY <1>1, <1>3 DEF CreateTexture, Kinds
<1>4. ASSUME NEW id \in Ids, DestroyResource(id) PROVE LiveStay' /\ Ownership'
  <2>1. LiveStay'
    BY <1>4 DEF DestroyResource
  <2> DEFINE entry == [kind |-> DestroyedAs(kindOf[id]), id |-> id]
  <2>2. destroyQueue' = Append(destroyQueue, entry) /\ destroyQueue \in Seq(Entries)
    BY <1>4 DEF DestroyResource, TypeOK
  <2>3. entry.id = id
    OBVIOUS
  <2>4. \A i \in DOMAIN destroyQueue' :
           destroyQueue'[i] = entry \/ (i \in DOMAIN destroyQueue /\ destroyQueue'[i] = destroyQueue[i])
    <3> HIDE DEF entry
    <3> QED
      BY <2>2
  <2>5. QueueGone'
    <3> HIDE DEF entry
    <3> QED
      BY <1>4, <2>3, <2>4 DEF DestroyResource
  <2>6. QED
    BY <1>4, <2>1, <2>5 DEF DestroyResource
<1>5. ASSUME UNCHANGED <<maps, kindOf, handles, fresh, destroyQueue, hand>>
      PROVE  LiveStay' /\ Ownership'
  BY <1>5
<1>6. QED
  BY <1>2, <1>3, <1>4, <1>5 DEF Application, Draw, Present, Clear

\* A worker that takes a task erases nothing yet.
LEMMA TakeOwnership ==
    ASSUME IInv, NEW w \in Workers, TakeGPU(w) \/ TakeGeneric(w)
    PROVE  LiveStay' /\ Ownership'
<1>1. UNCHANGED <<maps, kindOf, handles, fresh, destroyQueue>>
  BY DEF TakeGPU, TakeGeneric, objects
<1>2. ASSUME NEW T, hand' = [hand EXCEPT ![w] = T], \A t \in T : t.op # "erase"
      PROVE  LiveStay' /\ Ownership'
  BY <1>1, <1>2, HandOnly
<1>3. CASE hand' = [hand EXCEPT ![w] = {}]
  <2> DEFINE T == {}
  <2>1. hand' = [hand EXCEPT ![w] = T] /\ \A t \in T : t.op # "erase"
    BY <1>3
  <2> HIDE DEF T
  <2>2. QED
    BY <1>2, <2>1
<1>4. ASSUME NEW task, task.op # "erase", hand' = [hand EXCEPT ![w] = {task}]
      PROVE  LiveStay' /\ Ownership'
  <2> DEFINE T == {task}
  <2>1. hand' = [hand EXCEPT ![w] = T] /\ \A t \in T : t.op # "erase"
    BY <1>4
  <2> HIDE DEF T
  <2>2. QED
    BY <1>2, <2>1
<1>5. CASE hand' = [hand EXCEPT ![w] = {Unbound("tryPopGeneric")}]
  <2>1. Unbound("tryPopGeneric").op # "erase"
    BY DEF Unbound
  <2>2. QED
    BY <1>4, <1>5, <2>1
<1>6. ASSUME NEW q \in [Slots -> Seq(QueuedTasks)], q[0] # <<>>,
             hand' = [hand EXCEPT ![w] = {Head(q[0])}]
      PROVE  LiveStay' /\ Ownership'
  <2>1. Head(q[0]).op # "erase"
    BY <1>6, TakenType, QueuedErasesNothing
  <2>2. QED
    BY <1>4, <1>6, <2>1
<1>7. gpu \in [Slots -> Seq(QueuedTasks)] /\ gen \in [Slots -> Seq(QueuedTasks)]
  BY DEF IInv, TypeOK
<1>8. QED
  BY <1>3, <1>5, <1>6, <1>7 DEF TakeGPU, TakeGeneric, Gets, Done

\* No task touches an object that somebody holds: what is erased came out of the
\* destroy queue, and what is in the queue was given up.
LEMMA RunOwnership ==
    ASSUME IInv, NEW w \in Workers, Run(w) PROVE LiveStay' /\ Ownership'
<1>1. PICK t \in hand[w] : \/ RunBound(w, t) \/ RunDraw(w, t) \/ DestroyMain(w, t)
                          \/ DestroyDone(w, t) \/ Erase(w, t)
  BY DEF Run
<1>2. CASE hand' = [hand EXCEPT ![w] = {}] /\ UNCHANGED <<objects, destroyQueue>>
  BY <1>2, HandOnly DEF objects
<1>3. CASE RunBound(w, t) \/ RunDraw(w, t) \/ DestroyMain(w, t)
  BY <1>2, <1>3 DEF RunBound, RunDraw, DestroyMain, Done, Front
<1>4. CASE DestroyDone(w, t)
  <2>1. CASE destroyQueue = <<>>
    BY <1>2, <1>4, <2>1 DEF DestroyDone, Done
  <2>2. CASE destroyQueue # <<>>
    <3>1. /\ destroyQueue' = Tail(destroyQueue)
          /\ hand' = [hand EXCEPT ![w] = {After("erase", Head(destroyQueue))}]
          /\ UNCHANGED <<maps, kindOf, handles, fresh>>
      BY <1>4, <2>2 DEF DestroyDone, Holds, objects
    <3>2. /\ 1 \in DOMAIN destroyQueue /\ Head(destroyQueue) = destroyQueue[1]
          /\ \A i \in DOMAIN destroyQueue' :
               i + 1 \in DOMAIN destroyQueue /\ destroyQueue'[i] = destroyQueue[i + 1]
      BY <2>2, <3>1, FrontTakenType DEF IInv, TypeOK
    <3>3. QueueGone'
      BY <3>1, <3>2 DEF IInv, Ownership, QueueGone, Gone
    <3>4. HandsGone'
      <4> DEFINE T == {After("erase", Head(destroyQueue))}
      <4>1. \A u \in T : u.op = "erase" => Gone(u.id)
        BY <3>2 DEF After, IInv, Ownership, QueueGone
      <4>2. hand' = [hand EXCEPT ![w] = T] /\ UNCHANGED <<handles, fresh>>
        BY <3>1
      <4> HIDE DEF T
      <4>3. QED
        BY <4>1, <4>2, HandOwnership
    <3>5. QED
      BY <3>1, <3>3, <3>4 DEF IInv, LiveStay, Ownership
  <2>3. QED
    BY <2>1, <2>2
<1>5. CASE Erase(w, t)
  <2>1. t.id \notin handles
    BY <1>5 DEF Erase, IInv, Ownership, HandsGone, Gone
  <2>2. LiveStay'
    BY <1>5, <2>1 DEF Erase, IInv, LiveStay, TypeOK
  <2>3. HandsGone'
    <3> DEFINE T == {}
    <3>1. /\ \A u \in T : u.op = "erase" => Gone(u.id)
          /\ hand' = [hand EXCEPT ![w] = T] /\ UNCHANGED <<handles, fresh>>
      BY <1>5 DEF Erase, Done
    <3> HIDE DEF T
    <3>2. QED
      BY <3>1, HandOwnership
  <2>4. QED
    BY <1>5, <2>2, <2>3 DEF Erase, IInv, Ownership, QueueGone, Gone
<1>6. QED
  BY <1>1, <1>3, <1>4, <1>5

\* The strengthened invariant is inductive.
LEMMA InvStep == ASSUME IInv, [Next]_vars PROVE IInv'
<1>1. TypeOK'
  BY TypeStep DEF IInv
<1>2. CASE Next
  BY <1>1, <1>2, ApplicationOwnership, TakeOwnership, RunOwnership DEF Next, IInv
<1>3. CASE UNCHANGED vars
  BY <1>1, <1>3 DEF IInv, LiveStay, Ownership, QueueGone, HandsGone, Gone, vars, objects
<1>4. QED
  BY <1>2, <1>3

-----------------------------------------------------------------------------
\* Types, ownership and LiveStay together hold in every state.
THEOREM OwnershipInvariant == Spec => []IInv
<1>1. Init => IInv
  BY InitInv
<1>2. IInv /\ [Next]_vars => IInv'
  BY InvStep
<1>3. QED
  BY <1>1, <1>2, PTL DEF Spec

\* Every variable stays in its range, and no worker ever holds two tasks.
THEOREM TypeCorrect == Spec => []TypeOK
<1>1. IInv => TypeOK
  BY DEF IInv
<1>2. QED
  BY <1>1, OwnershipInvariant, PTL

\* However destructions are delayed, mixed up or lost, no object is erased while
\* the application holds a handle to it.
THEOREM HeldObjectsStay == Spec => []LiveStay
<1>1. IInv => LiveStay
  BY DEF IInv
<1>2. QED
  BY <1>1, OwnershipInvariant, PTL

-----------------------------------------------------------------------------
(***************************************************************************)
(* What DX12Context shows of its destroyQueue_, for any number of workers, *)
(* resources, frames and resizes: destroyDone finds an entry, and one from *)
(* an earlier frame.  The argument counts the tasks against the entries:   *)
(* those on their way never outnumber the entries, and those of the        *)
(* current frame never outnumber the entries of earlier frames, which are  *)
(* in front.                                                               *)
(***************************************************************************)

IsDone(t) == t.op = "destroyDone"

\* The destroyDone tasks of one slot, by position, and of the workers.
Places(seq) == {i \in 1..Len(seq) : IsDone(seq[i])}
Dones(seq)  == Cardinality(Places(seq))
Holders     == {w \in Workers : \E t \in hand[w] : IsDone(t)}
Held        == Cardinality(Holders)

\* destroyDone is submitted to the generic queue only.
NoneInGPU == \A s \in Slots : Places(gpu[s]) = {}

\* Tasks on their way against entries.
Counted == IsFiniteSet(Holders)
           /\ Dones(gen[0]) + Dones(gen[1]) + Dones(gen[2]) + Held <= Len(destroyQueue)

Past == \A id \in Ids : droppedAt[id] <= clock

\* The first n entries are of earlier frames.
OldUpTo(n) == \A i \in 1..n : droppedAt[destroyQueue[i].id] < clock

\* Tasks of the current frame against entries of earlier ones.
Deferred == \E n \in 0..Len(destroyQueue) : Dones(gen[0]) + Held <= n /\ OldUpTo(n)

QueueInv == /\ NoneInGPU /\ Counted /\ Past /\ Deferred
            /\ DoneFindsEntry /\ EraseDeferred

-----------------------------------------------------------------------------
\* A slot has finitely many tasks.
LEMMA PlacesFinite ==
    ASSUME NEW seq \in Seq(QueuedTasks)
    PROVE  IsFiniteSet(Places(seq)) /\ Dones(seq) \in Nat
<1>1. IsFiniteSet(1..Len(seq)) /\ Places(seq) \in SUBSET (1..Len(seq))
  BY FS_Interval DEF Places
<1>2. IsFiniteSet(Places(seq))
  BY <1>1, FS_Subset
<1> QED
  BY <1>2, FS_CardinalityType DEF Dones

\* An empty slot has none.
LEMMA NoPlaces == Places(<<>>) = {} /\ Dones(<<>>) = 0
  BY FS_EmptySet DEF Places, Dones

\* What a push adds.
LEMMA PlacesPut ==
    ASSUME NEW seq \in Seq(QueuedTasks), NEW t \in QueuedTasks
    PROVE  /\ IsDone(t) => Dones(Append(seq, t)) = Dones(seq) + 1
           /\ ~ IsDone(t) => Places(Append(seq, t)) = Places(seq)
<1> DEFINE longer == Append(seq, t)
<1>1. /\ longer \in Seq(QueuedTasks) /\ Len(longer) = Len(seq) + 1
      /\ longer[Len(seq) + 1] = t
      /\ \A i \in 1..Len(seq) : longer[i] = seq[i]
  OBVIOUS
<1>2. Len(seq) \in Nat
  OBVIOUS
<1> HIDE DEF longer
<1>3. CASE IsDone(t)
  <2>1. Places(longer) = Places(seq) \cup {Len(seq) + 1}
    BY <1>1, <1>2, <1>3 DEF Places
  <2>2. Len(seq) + 1 \notin Places(seq)
    BY <1>2 DEF Places
  <2>3. Dones(longer) = Dones(seq) + 1
    BY <2>1, <2>2, PlacesFinite, FS_AddElement DEF Dones
  <2> QED
    BY <1>3, <2>3 DEF longer
<1>4. CASE ~ IsDone(t)
  <2>1. Places(longer) = Places(seq)
    BY <1>1, <1>2, <1>4 DEF Places
  <2> QED
    BY <1>4, <2>1 DEF longer
<1> QED
  BY <1>3, <1>4

\* Numbers that all move down by one stay as many.
LEMMA Shifted ==
    ASSUME NEW S \in SUBSET Int, NEW T \in SUBSET Int, IsFiniteSet(S),
           \A x \in S : x - 1 \in T, \A y \in T : y + 1 \in S
    PROVE  Cardinality(T) = Cardinality(S)
<1> DEFINE down == [x \in S |-> x - 1]
<1>1. down \in Bijection(S, T)
  <2>1. down \in [S -> T]
    OBVIOUS
  <2>2. \A x, y \in S : down[x] = down[y] => x = y
    OBVIOUS
  <2>3. \A y \in T : \E x \in S : down[x] = y
    <3> TAKE y \in T
    <3>1. y + 1 \in S /\ down[y + 1] = y
      OBVIOUS
    <3> QED
      BY <3>1
  <2> QED
    BY <2>1, <2>2, <2>3 DEF Bijection, Injection, Surjection, IsInjective
<1>2. ExistsBijection(S, T)
  BY <1>1 DEF ExistsBijection
<1> QED
  BY <1>2, FS_Bijection

\* What a pop takes away.
LEMMA PlacesTaken ==
    ASSUME NEW seq \in Seq(QueuedTasks), seq # <<>>
    PROVE  /\ Tail(seq) \in Seq(QueuedTasks) /\ Head(seq) \in QueuedTasks
           /\ IsDone(Head(seq)) => Dones(Tail(seq)) = Dones(seq) - 1
           /\ ~ IsDone(Head(seq)) => Dones(Tail(seq)) = Dones(seq)
           /\ Places(seq) = {} => ~ IsDone(Head(seq)) /\ Places(Tail(seq)) = {}
<1> DEFINE rest == Tail(seq)  first == Head(seq)
<1>1. /\ rest \in Seq(QueuedTasks) /\ first \in QueuedTasks
      /\ Len(seq) \in Nat \ {0} /\ Len(rest) = Len(seq) - 1
      /\ first = seq[1]
      /\ \A i \in 1..Len(rest) : rest[i] = seq[i + 1]
  OBVIOUS
<1> HIDE DEF rest, first
<1>2. \A y \in Places(rest) : y + 1 \in Places(seq) \ {1}
  BY <1>1 DEF Places
<1>3. \A x \in Places(seq) \ {1} : x - 1 \in Places(rest)
  BY <1>1 DEF Places
<1>4. Places(seq) \in SUBSET Int /\ Places(rest) \in SUBSET Int
  BY DEF Places
<1>5. IsFiniteSet(Places(seq)) /\ Dones(seq) \in Nat
  BY PlacesFinite
<1>6. IsFiniteSet(Places(seq) \ {1})
  BY <1>5, FS_RemoveElement
<1>7. Dones(rest) = Cardinality(Places(seq) \ {1})
  BY <1>2, <1>3, <1>4, <1>6, Shifted DEF Dones
<1>8. IsDone(first) <=> 1 \in Places(seq)
  BY <1>1 DEF Places
<1>9. Cardinality(Places(seq) \ {1})
        = IF 1 \in Places(seq) THEN Dones(seq) - 1 ELSE Dones(seq)
  BY <1>5, FS_RemoveElement DEF Dones
<1>10. Places(seq) = {} => ~ IsDone(first) /\ Places(rest) = {}
  BY <1>2, <1>8
<1> QED
  BY <1>1, <1>7, <1>8, <1>9, <1>10 DEF rest, first

\* What a worker goes on to hold, and the number of those with a destroyDone.
LEMMA HandChange ==
    ASSUME TypeOK, IsFiniteSet(Holders), NEW w \in Workers, NEW T,
           hand' = [hand EXCEPT ![w] = T]
    PROVE  /\ IsFiniteSet(Holders') /\ Held \in Nat /\ Held' \in Nat
           /\ (w \notin Holders /\ \A t \in T : ~ IsDone(t)) => Held' = Held
           /\ (w \in Holders /\ \A t \in T : ~ IsDone(t)) => Held' = Held - 1
           /\ (w \notin Holders /\ \E t \in T : IsDone(t)) => Held' = Held + 1
<1>1. /\ (\A t \in T : ~ IsDone(t)) => Holders' = Holders \ {w}
      /\ (\E t \in T : IsDone(t)) => Holders' = Holders \cup {w}
  BY DEF Holders, IsDone, TypeOK
<1>2. /\ IsFiniteSet(Holders \ {w}) /\ IsFiniteSet(Holders \cup {w})
      /\ Cardinality(Holders \ {w}) = IF w \in Holders THEN Held - 1 ELSE Held
      /\ Cardinality(Holders \cup {w}) = IF w \in Holders THEN Held ELSE Held + 1
  BY FS_AddElement, FS_RemoveElement DEF Held
<1>3. IsFiniteSet(Holders') /\ Held' = Cardinality(Holders')
  BY <1>1, <1>2 DEF Held
<1>4. Held \in Nat /\ Held' \in Nat
  BY <1>3, FS_CardinalityType DEF Held
<1> QED
  BY <1>1, <1>2, <1>3, <1>4

\* While no worker holds a task, nobody holds a destroyDone.
LEMMA ParkedHoldsNone == Parked => Holders = {} /\ Held = 0
  BY FS_EmptySet DEF Parked, Holders, Held

\* Who holds a destroyDone keeps the first entry waiting, and it is an old one.
LEMMA HolderFindsOldEntry ==
    ASSUME IInv, QueueInv, NEW w \in Holders
    PROVE  /\ destroyQueue # <<>>
           /\ droppedAt[Head(destroyQueue).id] < clock
           /\ Held > 0
<1>1. IsFiniteSet(Holders) /\ Held \in Nat
  BY FS_CardinalityType DEF QueueInv, Counted, Held
<1>2. Held # 0
  BY <1>1, FS_EmptySet DEF Held
<1>3. Dones(gen[0]) \in Nat
  BY PlacesFinite DEF IInv, TypeOK, Slots
<1>4. destroyQueue \in Seq(Entries) /\ Len(destroyQueue) \in Nat
  BY DEF IInv, TypeOK
<1>5. PICK n \in 0..Len(destroyQueue) : Dones(gen[0]) + Held <= n /\ OldUpTo(n)
  BY DEF QueueInv, Deferred
<1>6. n >= 1
  BY <1>1, <1>2, <1>3, <1>5
<1>7. Len(destroyQueue) >= 1 /\ droppedAt[destroyQueue[1].id] < clock
  BY <1>4, <1>5, <1>6 DEF OldUpTo
<1>8. destroyQueue # <<>> /\ Head(destroyQueue) = destroyQueue[1]
  BY <1>4, <1>7
<1> QED
  BY <1>1, <1>2, <1>7, <1>8

-----------------------------------------------------------------------------
\* At first nothing is submitted and nothing waits.
LEMMA InitQueue == Init => QueueInv
<1> SUFFICES ASSUME Init PROVE QueueInv
  OBVIOUS
<1>1. /\ \A s \in Slots : gpu[s] = <<>> /\ gen[s] = <<>>
      /\ destroyQueue = <<>> /\ clock = 0
      /\ \A w \in Workers : hand[w] = {}
      /\ \A id \in Ids : droppedAt[id] = 0
  BY DEF Init
<1>2. Holders = {} /\ Held = 0
  BY <1>1, ParkedHoldsNone DEF Parked
<1>3. Dones(gen[0]) = 0 /\ Dones(gen[1]) = 0 /\ Dones(gen[2]) = 0
  BY <1>1, NoPlaces DEF Slots
<1>4. NoneInGPU
  BY <1>1, NoPlaces DEF NoneInGPU
<1>5. Counted
  BY <1>1, <1>2, <1>3, FS_EmptySet DEF Counted
<1>6. Deferred
  BY <1>1, <1>2, <1>3 DEF Deferred, OldUpTo
<1>7. DoneFindsEntry /\ EraseDeferred /\ Past
  BY <1>1 DEF DoneFindsEntry, EraseDeferred, Past, Init
<1> QED
  BY <1>4, <1>5, <1>6, <1>7 DEF QueueInv

\* The numbers the argument is about.
LEMMA Numbers ==
    ASSUME IInv, QueueInv
    PROVE  /\ Dones(gen[0]) \in Nat /\ Dones(gen[1]) \in Nat /\ Dones(gen[2]) \in Nat
           /\ IsFiniteSet(Holders) /\ Held \in Nat /\ Len(destroyQueue) \in Nat
           /\ clock \in Nat /\ droppedAt \in [Ids -> Nat]
<1>1. gen[0] \in Seq(QueuedTasks) /\ gen[1] \in Seq(QueuedTasks) /\ gen[2] \in Seq(QueuedTasks)
  BY DEF IInv, TypeOK, Slots
<1>2. IsFiniteSet(Holders) /\ Held \in Nat
  BY FS_CardinalityType DEF QueueInv, Counted, Held
<1> QED
  BY <1>1, <1>2, PlacesFinite, ContextAssumption DEF IInv, TypeOK

\* A push of anything else than a destroyDone, to either kind of queue.
LEMMA PutOther ==
    ASSUME NEW q \in [Slots -> Seq(QueuedTasks)], NEW s \in Slots, NEW t \in QueuedTasks,
           ~ IsDone(t)
    PROVE  \A u \in Slots : Places(Put(q, s, t)[u]) = Places(q[u])
  BY PlacesPut DEF Put

\* A step that leaves the entries, what is erased and the counts alone.
LEMMA SameCounts ==
    ASSUME QueueInv, UNCHANGED <<destroyQueue, hand, droppedAt, clock, crashed>>,
           \A s \in Slots : Places(gpu'[s]) = Places(gpu[s]) /\ Places(gen'[s]) = Places(gen[s])
    PROVE  QueueInv'
<1>1. NoneInGPU'
  BY DEF QueueInv, NoneInGPU
<1>2. \A s \in Slots : Dones(gen'[s]) = Dones(gen[s])
  BY DEF Dones
<1>3. Dones(gen'[0]) = Dones(gen[0]) /\ Dones(gen'[1]) = Dones(gen[1]) /\ Dones(gen'[2]) = Dones(gen[2])
  BY <1>2 DEF Slots
<1>4. Holders' = Holders /\ Held' = Held
  BY DEF Holders, Held
<1>5. Counted'
  BY <1>3, <1>4 DEF QueueInv, Counted
<1>6. Deferred'
  BY <1>3, <1>4 DEF QueueInv, Deferred, OldUpTo
<1> QED
  BY <1>1, <1>5, <1>6 DEF QueueInv, Past, DoneFindsEntry, EraseDeferred

-----------------------------------------------------------------------------
\* A creation submits no destruction.
LEMMA CreateQueue ==
    ASSUME IInv, QueueInv, NEW id \in Ids, UNCHANGED crashed,
           CreateTexture(id) \/ \E kind \in BufferKinds : CreateBuffer(id, kind)
    PROVE  QueueInv'
<1>1. CASE CreateTexture(id)
  BY <1>1, SameCounts DEF CreateTexture, queues, bounds
<1>2. ASSUME NEW kind \in BufferKinds, CreateBuffer(id, kind) PROVE QueueInv'
  <2> DEFINE create  == Bound("create", kind, id)
             cleanup == Bound("cleanupCreate", kind, id)
             last    == Bound("cleanupIntermediate", kind, id)
             gpu1    == Put(gpu, 0, create)
  <2>1. kind \in Kinds
    BY DEF BufferKinds
  <2>2. create \in QueuedTasks /\ cleanup \in QueuedTasks /\ last \in QueuedTasks
    BY <2>1, BoundType DEF IInv
  <2>3. ~ IsDone(create) /\ ~ IsDone(cleanup) /\ ~ IsDone(last)
    BY DEF IsDone, Bound
  <2>4. 0 \in Slots /\ 1 \in Slots /\ 2 \in Slots
    BY DEF Slots
  <2>5. gpu' = Put(gpu1, 1, cleanup) /\ gen' = Put(gen, 2, last)
    BY <1>2 DEF CreateBuffer
  <2>6. gpu \in [Slots -> Seq(QueuedTasks)] /\ gen \in [Slots -> Seq(QueuedTasks)]
    BY DEF IInv, TypeOK
  <2> HIDE DEF create, cleanup, last
  <2>7. gpu1 \in [Slots -> Seq(QueuedTasks)]
    BY <2>2, <2>4, <2>6, PutType
  <2>8. \A u \in Slots : Places(gpu1[u]) = Places(gpu[u])
    BY <2>2, <2>3, <2>4, <2>6, PutOther
  <2> HIDE DEF gpu1
  <2>9. \A u \in Slots : Places(gpu'[u]) = Places(gpu1[u])
    BY <2>2, <2>3, <2>4, <2>5, <2>7, PutOther
  <2>10. \A u \in Slots : Places(gen'[u]) = Places(gen[u])
    BY <2>2, <2>3, <2>4, <2>5, <2>6, PutOther
  <2> QED
    BY <1>2, <2>8, <2>9, <2>10, SameCounts DEF CreateBuffer, bounds
<1> QED
  BY <1>1, <1>2

\* Nor does a command.
LEMMA DrawQueue ==
    ASSUME IInv, QueueInv, NEW id \in Ids, Draw(id), UNCHANGED crashed
    PROVE  QueueInv'
<1> DEFINE task == Bound("draw", kindOf[id], id)
<1>1. task \in QueuedTasks /\ ~ IsDone(task)
  BY BoundType DEF IInv, TypeOK, IsDone, Bound
<1>2. gpu' = Put(gpu, 0, task) /\ 0 \in Slots /\ gpu \in [Slots -> Seq(QueuedTasks)]
  BY DEF Draw, IInv, TypeOK, Slots
<1> HIDE DEF task
<1>3. \A u \in Slots : Places(gpu'[u]) = Places(gpu[u])
  BY <1>1, <1>2, PutOther
<1> QED
  BY <1>3, SameCounts DEF Draw, objects

\* A destruction adds one entry, at the end, and one task, for the next frame.
LEMMA DestroyQueueStep ==
    ASSUME IInv, QueueInv, NEW id \in Ids, DestroyResource(id), UNCHANGED crashed
    PROVE  QueueInv'
<1> DEFINE entry == [kind |-> DestroyedAs(kindOf[id]), id |-> id]
           main  == Unbound("destroyMain")
           done  == Unbound("destroyDone")
<1>1. /\ destroyQueue' = Append(destroyQueue, entry)
      /\ gpu' = Put(gpu, 0, main)
      /\ gen' = Put(gen, 1, done)
      /\ droppedAt' = [droppedAt EXCEPT ![id] = clock]
      /\ UNCHANGED <<hand, clock, crashed>>
      /\ id \in handles
  BY DEF DestroyResource, DoneSlot, bounds
<1>2. /\ gpu \in [Slots -> Seq(QueuedTasks)] /\ gen \in [Slots -> Seq(QueuedTasks)]
      /\ destroyQueue \in Seq(Entries) /\ 0 \in Slots /\ 1 \in Slots /\ 2 \in Slots
  BY DEF IInv, TypeOK, Slots
<1>3. main \in QueuedTasks /\ done \in QueuedTasks /\ ~ IsDone(main) /\ IsDone(done)
  BY DEF Unbound, QueuedTasks, IsDone
<1> HIDE DEF main, done, entry
<1>4. NoneInGPU'
  <2>1. \A u \in Slots : Places(gpu'[u]) = Places(gpu[u])
    BY <1>1, <1>2, <1>3, PutOther
  <2> QED
    BY <2>1 DEF QueueInv, NoneInGPU
<1>5. /\ Dones(gen'[0]) = Dones(gen[0]) /\ Dones(gen'[2]) = Dones(gen[2])
      /\ Dones(gen'[1]) = Dones(gen[1]) + 1
  <2>1. gen'[0] = gen[0] /\ gen'[2] = gen[2] /\ gen'[1] = Append(gen[1], done)
    BY <1>1, <1>2 DEF Put
  <2> QED
    BY <1>2, <1>3, <2>1, PlacesPut
<1>6. Len(destroyQueue') = Len(destroyQueue) + 1
      /\ \A i \in 1..Len(destroyQueue) : destroyQueue'[i] = destroyQueue[i]
  BY <1>1, <1>2
<1>7. Holders' = Holders /\ Held' = Held
  BY <1>1 DEF Holders, Held
<1>8. Counted'
  BY <1>5, <1>6, <1>7, Numbers DEF QueueInv, Counted
<1>9. \A i \in 1..Len(destroyQueue) :
         droppedAt'[destroyQueue'[i].id] = droppedAt[destroyQueue[i].id]
  <2> TAKE i \in 1..Len(destroyQueue)
  <2>1. i \in DOMAIN destroyQueue /\ destroyQueue[i] \in Entries
    BY <1>2
  <2>2. destroyQueue[i].id # id
    BY <1>1, <2>1 DEF IInv, Ownership, QueueGone, Gone
  <2> QED
    BY <1>1, <1>6, <2>2 DEF IInv, TypeOK
<1>10. Deferred'
  <2>1. PICK n \in 0..Len(destroyQueue) : Dones(gen[0]) + Held <= n /\ OldUpTo(n)
    BY DEF QueueInv, Deferred
  <2>2. n \in 0..Len(destroyQueue') /\ Dones(gen'[0]) + Held' <= n
    BY <1>5, <1>6, <1>7, <2>1, Numbers
  <2>3. OldUpTo(n)'
    BY <1>1, <1>9, <2>1, Numbers DEF OldUpTo
  <2> QED
    BY <2>2, <2>3 DEF Deferred
<1>11. Past'
  BY <1>1, Numbers DEF QueueInv, Past
<1>12. EraseDeferred'
  <2> SUFFICES ASSUME NEW w \in Workers, NEW t \in hand[w], t.op = "erase"
               PROVE  droppedAt'[t.id] < clock
    BY <1>1 DEF EraseDeferred
  <2>1. t.id # id
    BY <1>1 DEF IInv, Ownership, HandsGone, Gone
  <2>2. droppedAt'[t.id] = droppedAt[t.id]
    BY <1>1, <2>1, Numbers
  <2> QED
    BY <2>2 DEF QueueInv, EraseDeferred
<1> QED
  BY <1>1, <1>4, <1>8, <1>10, <1>11, <1>12 DEF QueueInv, DoneFindsEntry

\* The rotation makes every entry one of an earlier frame, and leaves fewer tasks
\* in slot 0 than there are entries.
LEMMA PresentQueue ==
    ASSUME IInv, QueueInv, Present, UNCHANGED crashed
    PROVE  QueueInv'
<1>1. /\ clock' = clock + 1 /\ gpu' = Rotated(gpu) /\ gen' = Rotated(gen)
      /\ UNCHANGED <<droppedAt, destroyQueue, hand>>
  BY DEF Present, objects
<1>2. Holders = {} /\ Held = 0 /\ Holders' = {} /\ Held' = 0
  BY <1>1, ParkedHoldsNone DEF Present, Holders, Held
<1>3. /\ gen'[0] = gen[1] /\ gen'[1] = gen[2] /\ gen'[2] = gen[0]
      /\ gpu'[0] = gpu[1] /\ gpu'[1] = gpu[2] /\ gpu'[2] = gpu[0]
  BY <1>1 DEF Rotated, Slots
<1>4. NoneInGPU'
  BY <1>3 DEF QueueInv, NoneInGPU, Slots
<1>5. /\ Dones(gen'[0]) = Dones(gen[1]) /\ Dones(gen'[1]) = Dones(gen[2])
      /\ Dones(gen'[2]) = Dones(gen[0])
  BY <1>3
<1>6. Counted'
  BY <1>1, <1>2, <1>5, Numbers, FS_EmptySet DEF QueueInv, Counted
<1>7. Past'
  BY <1>1, Numbers DEF QueueInv, Past
<1>8. Deferred'
  <2>1. Len(destroyQueue) \in 0..Len(destroyQueue')
        /\ Dones(gen'[0]) + Held' <= Len(destroyQueue)
    BY <1>1, <1>2, <1>5, Numbers DEF QueueInv, Counted
  <2>2. \A i \in 1..Len(destroyQueue) : destroyQueue[i].id \in Ids
    <3>1. destroyQueue \in Seq(Entries)
      BY DEF IInv, TypeOK
    <3>2. \A i \in 1..Len(destroyQueue) : destroyQueue[i] \in Entries
      BY <3>1
    <3> QED
      BY <3>2 DEF Entries
  <2>3. OldUpTo(Len(destroyQueue))'
    BY <1>1, <2>2, Numbers DEF QueueInv, Past, OldUpTo
  <2> QED
    BY <1>1, <2>1, <2>3 DEF Deferred
<1>9. DoneFindsEntry' /\ EraseDeferred'
  BY <1>1, ParkedHoldsNone DEF QueueInv, DoneFindsEntry, EraseDeferred, Present, Parked
<1> QED
  BY <1>4, <1>6, <1>7, <1>8, <1>9 DEF QueueInv

\* A resize drops tasks, and so leaves entries over.
LEMMA ClearQueue ==
    ASSUME IInv, QueueInv, Clear, UNCHANGED crashed
    PROVE  QueueInv'
<1>1. /\ \A s \in Slots : gpu'[s] = <<>> /\ gen'[s] = <<>>
      /\ UNCHANGED <<droppedAt, destroyQueue, hand, clock>>
  BY DEF Clear, objects
<1>2. NoneInGPU' /\ Dones(gen'[0]) = 0 /\ Dones(gen'[1]) = 0 /\ Dones(gen'[2]) = 0
  BY <1>1, NoPlaces DEF NoneInGPU, Slots
<1>3. Holders' = Holders /\ Held' = Held
  BY <1>1 DEF Holders, Held
<1>4. Counted'
  BY <1>1, <1>2, <1>3, Numbers DEF QueueInv, Counted
<1>5. Deferred'
  BY <1>1, <1>2, <1>3, Numbers DEF QueueInv, Deferred, OldUpTo
<1> QED
  BY <1>1, <1>2, <1>4, <1>5 DEF QueueInv, Past, DoneFindsEntry, EraseDeferred

-----------------------------------------------------------------------------
\* A step of a worker that takes no entry, given what the step does to the counts.
LEMMA WorkerQueue ==
    ASSUME IInv, QueueInv, NEW w \in Workers, NEW T, hand' = [hand EXCEPT ![w] = T],
           UNCHANGED <<destroyQueue, droppedAt, clock>>, NoneInGPU', DoneFindsEntry',
           \A t \in T : t.op # "erase", IsFiniteSet(Holders'),
           Dones(gen'[0]) + Held' <= Dones(gen[0]) + Held,
           gen'[1] = gen[1], gen'[2] = gen[2],
           Dones(gen'[0]) \in Nat, Held' \in Nat
    PROVE  QueueInv'
<1>1. Counted'
  BY Numbers DEF QueueInv, Counted
<1>2. Deferred'
  BY Numbers DEF QueueInv, Deferred, OldUpTo
<1>3. EraseDeferred'
  BY DEF QueueInv, EraseDeferred, IInv, TypeOK
<1> QED
  BY <1>1, <1>2, <1>3 DEF QueueInv, Past

\* Taking a GPU task, or finding none, moves no destroyDone.
LEMMA TakeGPUQueue ==
    ASSUME IInv, QueueInv, NEW w \in Workers, TakeGPU(w)
    PROVE  QueueInv'
<1>1. /\ UNCHANGED <<destroyQueue, droppedAt, clock, gen, crashed>>
      /\ hand[w] = {} /\ w \notin Holders
  BY DEF TakeGPU, objects, bounds, Holders
<1>2. gpu \in [Slots -> Seq(QueuedTasks)] /\ 0 \in Slots /\ gpu[0] \in Seq(QueuedTasks)
  BY DEF IInv, TypeOK, Slots
<1>3. DoneFindsEntry'
  BY <1>1 DEF QueueInv, DoneFindsEntry
<1>4. ASSUME NEW T, hand' = [hand EXCEPT ![w] = T], NoneInGPU',
             \A t \in T : ~ IsDone(t) /\ t.op # "erase"
      PROVE  QueueInv'
  <2>1. IsFiniteSet(Holders') /\ Held' \in Nat /\ Held' = Held
    BY <1>1, <1>4, HandChange, Numbers DEF IInv
  <2>2. /\ gen'[1] = gen[1] /\ gen'[2] = gen[2] /\ Dones(gen'[0]) \in Nat
        /\ Dones(gen'[0]) + Held' <= Dones(gen[0]) + Held
    BY <1>1, <2>1, Numbers
  <2>3. \A t \in T : t.op # "erase"
    BY <1>4
  <2> QED
    BY <1>1, <1>3, <1>4, <2>1, <2>2, <2>3, WorkerQueue
<1>5. CASE gpu[0] # <<>>
  <2> DEFINE first == Head(gpu[0])  T == {first}
  <2>1. hand' = [hand EXCEPT ![w] = T] /\ gpu' = [gpu EXCEPT ![0] = Tail(@)]
    BY <1>5 DEF TakeGPU, Gets
  <2>2. first \in QueuedTasks /\ ~ IsDone(first) /\ Places(Tail(gpu[0])) = {}
    BY <1>2, <1>5, PlacesTaken DEF QueueInv, NoneInGPU
  <2>3. NoneInGPU'
    BY <1>2, <2>1, <2>2 DEF QueueInv, NoneInGPU
  <2>4. \A t \in T : ~ IsDone(t) /\ t.op # "erase"
    BY <2>2, QueuedErasesNothing
  <2> HIDE DEF T
  <2> QED
    BY <1>4, <2>1, <2>3, <2>4
<1>6. CASE gpu[0] = <<>>
  <2> DEFINE T == {Unbound("tryPopGeneric")}
  <2>1. hand' = [hand EXCEPT ![w] = T] /\ NoneInGPU'
    BY <1>6 DEF TakeGPU, Gets, QueueInv, NoneInGPU
  <2>2. \A t \in T : ~ IsDone(t) /\ t.op # "erase"
    BY DEF Unbound, IsDone
  <2> HIDE DEF T
  <2> QED
    BY <1>4, <2>1, <2>2
<1> QED
  BY <1>5, <1>6

\* A worker that takes a destroyDone moves it from slot 0 to its hand.
LEMMA TakeGenericQueue ==
    ASSUME IInv, QueueInv, NEW w \in Workers, TakeGeneric(w)
    PROVE  QueueInv'
<1>1. /\ UNCHANGED <<destroyQueue, droppedAt, clock, gpu, crashed>>
      /\ w \notin Holders
  BY DEF TakeGeneric, objects, bounds, Holders, Unbound, IsDone
<1>2. gen \in [Slots -> Seq(QueuedTasks)] /\ 0 \in Slots /\ gen[0] \in Seq(QueuedTasks)
  BY DEF IInv, TypeOK, Slots
<1>3. DoneFindsEntry' /\ NoneInGPU'
  BY <1>1 DEF QueueInv, DoneFindsEntry, NoneInGPU
<1>4. CASE gen[0] # <<>>
  <2> DEFINE first == Head(gen[0])  T == {first}
  <2>1. hand' = [hand EXCEPT ![w] = T] /\ gen' = [gen EXCEPT ![0] = Tail(@)]
    BY <1>4 DEF TakeGeneric, Gets
  <2>2. gen'[0] = Tail(gen[0]) /\ gen'[1] = gen[1] /\ gen'[2] = gen[2]
    BY <1>2, <2>1 DEF Slots
  <2>3. /\ first \in QueuedTasks /\ gen'[0] \in Seq(QueuedTasks)
        /\ IsDone(first) => Dones(gen'[0]) = Dones(gen[0]) - 1
        /\ ~ IsDone(first) => Dones(gen'[0]) = Dones(gen[0])
    BY <1>2, <1>4, <2>2, PlacesTaken
  <2>4. \A t \in T : t.op # "erase"
    BY <2>3, QueuedErasesNothing
  <2>5. (\E t \in T : IsDone(t)) <=> IsDone(first)
    OBVIOUS
  <2>6. Dones(gen'[0]) \in Nat
    BY <2>3, PlacesFinite
  <2> HIDE DEF T, first
  <2>7. /\ IsFiniteSet(Holders') /\ Held' \in Nat
        /\ IsDone(first) => Held' = Held + 1
        /\ ~ IsDone(first) => Held' = Held
    BY <1>1, <2>1, <2>5, HandChange, Numbers DEF IInv
  <2>8. Dones(gen'[0]) + Held' <= Dones(gen[0]) + Held
    BY <2>3, <2>6, <2>7, Numbers
  <2> QED
    BY <1>1, <1>3, <2>1, <2>2, <2>4, <2>6, <2>7, <2>8, WorkerQueue
<1>5. CASE gen[0] = <<>>
  <2> DEFINE T == {}
  <2>1. hand' = [hand EXCEPT ![w] = T] /\ gen' = gen
    BY <1>5 DEF TakeGeneric, Done
  <2>2. \A t \in T : t.op # "erase" /\ ~ IsDone(t)
    OBVIOUS
  <2> HIDE DEF T
  <2>3. IsFiniteSet(Holders') /\ Held' \in Nat /\ Held' = Held
    BY <1>1, <2>1, <2>2, HandChange, Numbers DEF IInv
  <2>4. /\ gen'[1] = gen[1] /\ gen'[2] = gen[2] /\ Dones(gen'[0]) \in Nat
        /\ Dones(gen'[0]) + Held' <= Dones(gen[0]) + Held
    BY <2>1, <2>3, Numbers
  <2>5. \A t \in T : t.op # "erase"
    BY <2>2
  <2> QED
    BY <1>1, <1>3, <2>1, <2>3, <2>4, <2>5, WorkerQueue
<1> QED
  BY <1>4, <1>5

\* A destroyDone takes the first entry, which is there and old, and is gone.
LEMMA DoneQueue ==
    ASSUME IInv, QueueInv, NEW w \in Workers, NEW t \in hand[w], DestroyDone(w, t),
           UNCHANGED <<gpu, gen, clock>>
    PROVE  QueueInv'
<1>1. w \in Holders
  BY DEF DestroyDone, Holders, IsDone
<1>2. destroyQueue # <<>> /\ droppedAt[Head(destroyQueue).id] < clock /\ Held > 0
  BY <1>1, HolderFindsOldEntry
<1> DEFINE erase == After("erase", Head(destroyQueue))  T == {erase}
<1>3. /\ hand' = [hand EXCEPT ![w] = T] /\ destroyQueue' = Tail(destroyQueue)
      /\ UNCHANGED <<crashed, droppedAt>>
  BY <1>2 DEF DestroyDone, Holds, objects
<1>4. erase.op = "erase" /\ erase.id = Head(destroyQueue).id
  BY DEF After
<1>5. \A u \in T : ~ IsDone(u) /\ u.id = Head(destroyQueue).id
  BY <1>4 DEF IsDone
<1> HIDE DEF T, erase
<1>6. IsFiniteSet(Holders') /\ Held' \in Nat /\ Held' = Held - 1
  BY <1>1, <1>3, <1>5, HandChange, Numbers DEF IInv
<1>7. /\ Len(destroyQueue') = Len(destroyQueue) - 1
      /\ \A i \in 1..Len(destroyQueue') : destroyQueue'[i] = destroyQueue[i + 1]
      /\ Len(destroyQueue) >= 1
  BY <1>2, <1>3 DEF IInv, TypeOK
<1>8. Counted'
  BY <1>6, <1>7, Numbers DEF QueueInv, Counted
<1>9. Deferred'
  <2>1. PICK n \in 0..Len(destroyQueue) : Dones(gen[0]) + Held <= n /\ OldUpTo(n)
    BY DEF QueueInv, Deferred
  <2>2. n - 1 \in 0..Len(destroyQueue') /\ Dones(gen'[0]) + Held' <= n - 1
    BY <1>2, <1>6, <1>7, <2>1, Numbers
  <2>3. OldUpTo(n - 1)'
    <3> SUFFICES ASSUME NEW i \in 1..(n - 1)
                 PROVE  droppedAt'[destroyQueue'[i].id] < clock'
      BY DEF OldUpTo
    <3>1. i + 1 \in 1..n /\ i \in 1..Len(destroyQueue')
      BY <1>7, <2>1, <2>2, Numbers
    <3> QED
      BY <1>3, <1>7, <2>1, <3>1 DEF OldUpTo
  <2> QED
    BY <2>2, <2>3 DEF Deferred
<1>10. EraseDeferred'
  BY <1>2, <1>3, <1>5 DEF QueueInv, EraseDeferred, IInv, TypeOK
<1> QED
  BY <1>3, <1>8, <1>9, <1>10 DEF QueueInv, NoneInGPU, Past, DoneFindsEntry

\* Every other task ends and leaves the queue as it is.
LEMMA RunQueue ==
    ASSUME IInv, QueueInv, NEW w \in Workers, Run(w)
    PROVE  QueueInv'
<1>1. PICK t \in hand[w] : \/ RunBound(w, t) \/ RunDraw(w, t) \/ DestroyMain(w, t)
                          \/ DestroyDone(w, t) \/ Erase(w, t)
  BY DEF Run
<1>2. UNCHANGED <<gpu, gen, clock>>
  BY DEF Run, queues, bounds
<1>3. CASE RunBound(w, t) \/ RunDraw(w, t) \/ DestroyMain(w, t) \/ Erase(w, t)
  <2> DEFINE T == {}
  <2>1. /\ hand' = [hand EXCEPT ![w] = T] /\ UNCHANGED <<destroyQueue, droppedAt>>
        /\ crashed' \in {crashed, "draw", "destroyMain"}
    BY <1>3 DEF RunBound, RunDraw, DestroyMain, Erase, Done, Front, Throw, objects
  <2>2. ~ IsDone(t)
    BY <1>3 DEF RunBound, RunDraw, DestroyMain, Erase, IsDone
  <2>3. w \notin Holders
    BY <2>2 DEF Holders, IInv, TypeOK
  <2>4. \A u \in T : u.op # "erase" /\ ~ IsDone(u)
    OBVIOUS
  <2>5. NoneInGPU' /\ DoneFindsEntry'
    BY <1>2, <2>1 DEF QueueInv, NoneInGPU, DoneFindsEntry
  <2> HIDE DEF T
  <2>6. IsFiniteSet(Holders') /\ Held' \in Nat /\ Held' = Held
    BY <2>1, <2>3, <2>4, HandChange, Numbers DEF IInv
  <2>7. /\ gen'[1] = gen[1] /\ gen'[2] = gen[2] /\ Dones(gen'[0]) \in Nat
        /\ Dones(gen'[0]) + Held' <= Dones(gen[0]) + Held
    BY <1>2, <2>6, Numbers
  <2>8. \A u \in T : u.op # "erase"
    BY <2>4
  <2> QED
    BY <1>2, <2>1, <2>5, <2>6, <2>7, <2>8, WorkerQueue
<1>4. CASE DestroyDone(w, t)
  BY <1>2, <1>4, DoneQueue
<1> QED
  BY <1>1, <1>3, <1>4

-----------------------------------------------------------------------------
\* Every step preserves the invariant.
LEMMA QueueStep == ASSUME IInv, QueueInv, [Next]_vars PROVE QueueInv'
<1>1. CASE Application
  <2>1. UNCHANGED crashed
    BY <1>1 DEF Application
  <2> QED
    BY <1>1, <2>1, CreateQueue, DrawQueue, DestroyQueueStep, PresentQueue, ClearQueue
       DEF Application
<1>2. CASE \E w \in Workers : TakeGPU(w) \/ TakeGeneric(w) \/ Run(w)
  BY <1>2, TakeGPUQueue, TakeGenericQueue, RunQueue
<1>3. CASE UNCHANGED vars
  BY <1>3, SameCounts DEF vars, objects, queues, bounds
<1> QED
  BY <1>1, <1>2, <1>3 DEF Next

\* The counts hold in every state.
THEOREM QueueInvariant == Spec => []QueueInv
<1>1. IInv /\ QueueInv /\ [Next]_vars => QueueInv'
  BY QueueStep
<1> QED
  BY <1>1, InitQueue, OwnershipInvariant, PTL DEF Spec

\* destroyDone throws when it finds the queue empty, which never happens: however
\* tasks are delayed, mixed up or dropped, there is an entry for each.
THEOREM DoneAlwaysFindsEntry == Spec => []DoneFindsEntry
<1>1. QueueInv => DoneFindsEntry
  BY DEF QueueInv
<1> QED
  BY <1>1, QueueInvariant, PTL

\* destroyDone takes whatever is in front of the queue; still nothing is erased in
\* the frame in which its handle was given up.
THEOREM ErasureDeferred == Spec => []EraseDeferred
<1>1. QueueInv => EraseDeferred
  BY DEF QueueInv
<1> QED
  BY <1>1, QueueInvariant, PTL

-----------------------------------------------------------------------------
(***************************************************************************)
(* Commands find what they draw: an object drawn in this frame had a       *)
(* handle in it, so its erasure, if it was asked for, is another frame's.  *)
(***************************************************************************)
\* What is drawn is known, and given up in this frame at the earliest.
Drawable(id, kind) == /\ kind = kindOf[id] /\ id \in maps[kind] /\ id \notin fresh
                      /\ id \in handles \/ droppedAt[id] = clock

\* The tasks whose command, if they build one of this frame, finds its resource.
Safe == {t \in HeldTasks : t.op = "draw" =>
            /\ t.id \in Ids /\ t.at \in 0..clock
            /\ t.at = clock => Drawable(t.id, t.kind)}

DrawInv == /\ gpu \in [Slots -> Seq(Safe)] /\ gen \in [Slots -> Seq(Safe)]
           /\ hand \in [Workers -> SUBSET Safe]

\* No step of an object makes a safe task unsafe; only the rotation ends the frame.
LEMMA SafeStays == ASSUME IInv, QueueInv, Next PROVE Safe \subseteq Safe'
<1>1. ASSUME clock' = clock,
             \A id \in Ids : \A kind : Drawable(id, kind) => Drawable(id, kind)'
      PROVE  Safe \subseteq Safe'
  BY <1>1 DEF Safe
<1>2. ASSUME UNCHANGED <<objects, clock>> PROVE Safe \subseteq Safe'
  BY <1>1, <1>2 DEF Drawable, objects
<1>3. ASSUME NEW id \in Ids, NEW kind \in Kinds, New(id, kind), UNCHANGED <<droppedAt, clock>>
      PROVE  Safe \subseteq Safe'
  BY <1>1, <1>3 DEF New, Drawn, Drawable, IInv, TypeOK
<1>4. CASE Application
  <2>1. ASSUME NEW id \in Ids, NEW kind \in BufferKinds, CreateBuffer(id, kind)
        PROVE  Safe \subseteq Safe'
    BY <1>3, <2>1 DEF CreateBuffer, BufferKinds, bounds
  <2>2. ASSUME NEW id \in Ids, CreateTexture(id) PROVE Safe \subseteq Safe'
    BY <1>3, <2>2 DEF CreateTexture, Kinds, bounds
  <2>3. ASSUME NEW id \in Ids, DestroyResource(id) PROVE Safe \subseteq Safe'
    BY <1>1, <2>3 DEF DestroyResource, Drawable, bounds, IInv, TypeOK
  <2>4. CASE Present
    BY <2>4, Numbers DEF Present, Safe
  <2>5. CASE Clear \/ \E id \in Ids : Draw(id)
    BY <1>2, <2>5 DEF Clear, Draw
  <2> QED
    BY <1>4, <2>1, <2>2, <2>3, <2>4, <2>5 DEF Application
<1>5. ASSUME NEW w \in Workers, TakeGPU(w) \/ TakeGeneric(w) PROVE Safe \subseteq Safe'
  BY <1>2, <1>5 DEF TakeGPU, TakeGeneric, bounds
<1>6. ASSUME NEW w \in Workers, Run(w) PROVE Safe \subseteq Safe'
  <2>1. PICK t \in hand[w] : \/ RunBound(w, t) \/ RunDraw(w, t) \/ DestroyMain(w, t)
                            \/ DestroyDone(w, t) \/ Erase(w, t)
    BY <1>6 DEF Run
  <2>2. clock' = clock
    BY <1>6 DEF Run, bounds
  <2>3. CASE RunBound(w, t) \/ RunDraw(w, t) \/ DestroyMain(w, t) \/ DestroyDone(w, t)
    BY <1>2, <2>2, <2>3 DEF RunBound, RunDraw, DestroyMain, DestroyDone
  <2>4. CASE Erase(w, t)
    <3>1. t.id \notin handles /\ droppedAt[t.id] < clock
      BY <2>4 DEF Erase, IInv, Ownership, HandsGone, Gone, QueueInv, EraseDeferred
    <3>2. \A id \in Ids : \A kind : Drawable(id, kind) => id # t.id
      BY <3>1, Numbers DEF Drawable
    <3> QED
      BY <1>1, <2>2, <2>4, <3>2 DEF Erase, Drawable, IInv, TypeOK
  <2> QED
    BY <2>1, <2>3, <2>4
<1> QED
  BY <1>4, <1>5, <1>6 DEF Next

\* Tasks that are no commands are safe.
LEMMA OthersSafe == \A t \in HeldTasks : t.op # "draw" => t \in Safe
  BY DEF Safe

\* What the application submits is safe.
LEMMA ApplicationDraws ==
    ASSUME IInv, DrawInv, Application, Safe \subseteq Safe'
    PROVE  DrawInv'
<1> DEFINE S == Safe'
<1>1. /\ gpu \in [Slots -> Seq(S)] /\ gen \in [Slots -> Seq(S)]
      /\ hand \in [Workers -> SUBSET S]
  BY DEF DrawInv
<1>2. \A t \in HeldTasks : t.op # "draw" => t \in S
  BY DEF Safe
<1>3. QueuedTasks \subseteq HeldTasks /\ 0 \in Slots /\ 1 \in Slots /\ 2 \in Slots
  BY DEF HeldTasks, Slots
<1>4. SUFFICES /\ gpu' \in [Slots -> Seq(S)] /\ gen' \in [Slots -> Seq(S)]
               /\ hand' \in [Workers -> SUBSET S]
  BY DEF DrawInv
<1>5. ASSUME NEW id \in Ids, NEW kind \in BufferKinds, CreateBuffer(id, kind)
      PROVE  gpu' \in [Slots -> Seq(S)] /\ gen' \in [Slots -> Seq(S)] /\ hand' = hand
  <2> DEFINE create  == Bound("create", kind, id)
             cleanup == Bound("cleanupCreate", kind, id)
             last    == Bound("cleanupIntermediate", kind, id)
  <2>1. create \in HeldTasks /\ cleanup \in HeldTasks /\ last \in HeldTasks
    BY <1>3, BoundType DEF BufferKinds, IInv
  <2>2. create.op # "draw" /\ cleanup.op # "draw" /\ last.op # "draw"
    BY DEF Bound
  <2>3. gpu' = Put(Put(gpu, 0, create), 1, cleanup) /\ gen' = Put(gen, 2, last) /\ hand' = hand
    BY <1>5 DEF CreateBuffer
  <2> HIDE DEF create, cleanup, last, S
  <2>4. create \in S /\ cleanup \in S /\ last \in S
    BY <1>2, <2>1, <2>2
  <2>5. Put(gpu, 0, create) \in [Slots -> Seq(S)]
    BY <1>1, <1>3, <2>4, PutType
  <2> QED
    BY <1>1, <1>3, <2>3, <2>4, <2>5, PutType
<1>6. ASSUME NEW id \in Ids, DestroyResource(id)
      PROVE  gpu' \in [Slots -> Seq(S)] /\ gen' \in [Slots -> Seq(S)] /\ hand' = hand
  <2> DEFINE main == Unbound("destroyMain")  done == Unbound("destroyDone")
  <2>1. main \in HeldTasks /\ done \in HeldTasks /\ main.op # "draw" /\ done.op # "draw"
    BY DEF HeldTasks, QueuedTasks, Unbound
  <2>2. gpu' = Put(gpu, 0, main) /\ gen' = Put(gen, 1, done) /\ hand' = hand
    BY <1>6 DEF DestroyResource, DoneSlot
  <2> HIDE DEF main, done, S
  <2>3. main \in S /\ done \in S
    BY <1>2, <2>1
  <2> QED
    BY <1>1, <1>3, <2>2, <2>3, PutType
<1>7. ASSUME NEW id \in Ids, Draw(id)
      PROVE  gpu' \in [Slots -> Seq(S)] /\ gen' \in [Slots -> Seq(S)] /\ hand' = hand
  <2> DEFINE task == Bound("draw", kindOf[id], id)
  <2>1. task \in HeldTasks
    BY <1>3, BoundType DEF IInv, TypeOK
  <2>2. /\ gpu' = Put(gpu, 0, task) /\ gen' = gen /\ hand' = hand
        /\ clock' = clock /\ UNCHANGED <<maps, kindOf, fresh, handles, droppedAt>>
        /\ id \in handles /\ clock \in Nat
    BY <1>7 DEF Draw, objects, IInv, TypeOK
  <2>3. Drawable(id, kindOf[id])'
    BY <2>2 DEF Drawable, IInv, LiveStay, Ownership
  <2>4. task.id = id /\ task.at = clock /\ task.kind = kindOf[id] /\ clock \in 0..clock
    BY <2>2 DEF Bound
  <2>5. kindOf' = kindOf
    BY <2>2
  <2>6. task \in S
    BY <2>1, <2>2, <2>3, <2>4, <2>5 DEF Safe
  <2> HIDE DEF task, S
  <2> QED
    BY <1>1, <1>3, <2>2, <2>6, PutType
<1>8. CASE Present
  <2>1. gpu' = Rotated(gpu) /\ gen' = Rotated(gen) /\ hand' = hand
    BY <1>8 DEF Present
  <2> HIDE DEF S
  <2> QED
    BY <1>1, <2>1, RotatedType
<1>9. CASE Clear
  <2>1. gpu' = [s \in Slots |-> <<>>] /\ gen' = [s \in Slots |-> <<>>] /\ hand' = hand
    BY <1>9 DEF Clear
  <2> HIDE DEF S
  <2> QED
    BY <1>1, <2>1
<1>10. ASSUME NEW id \in Ids, CreateTexture(id) PROVE UNCHANGED <<gpu, gen, hand>>
  BY <1>10 DEF CreateTexture, queues
<1> HIDE DEF S
<1> QED
  BY <1>1, <1>5, <1>6, <1>7, <1>8, <1>9, <1>10 DEF Application

\* Workers take and hold what was queued, or tasks that are no commands.
LEMMA WorkerDraws ==
    ASSUME IInv, DrawInv, Safe \subseteq Safe', NEW w \in Workers,
           TakeGPU(w) \/ TakeGeneric(w) \/ Run(w)
    PROVE  DrawInv'
<1> DEFINE S == Safe'
<1>1. /\ gpu \in [Slots -> Seq(S)] /\ gen \in [Slots -> Seq(S)]
      /\ hand \in [Workers -> SUBSET S]
  BY DEF DrawInv
<1>2. \A t \in HeldTasks : t.op # "draw" => t \in S
  BY DEF Safe
<1>3. Unbound("tryPopGeneric") \in S
  BY <1>2 DEF HeldTasks, Unbound
<1>4. SUFFICES /\ gpu' \in [Slots -> Seq(S)] /\ gen' \in [Slots -> Seq(S)]
               /\ hand' \in [Workers -> SUBSET S]
  BY DEF DrawInv
<1>5. CASE TakeGPU(w)
  <2> HIDE DEF S
  <2>1. CASE gpu[0] # <<>>
    <3> DEFINE taken == [gpu EXCEPT ![0] = Tail(@)]  task == Head(gpu[0])
    <3>1. task \in S /\ taken \in [Slots -> Seq(S)]
      BY <1>1, <2>1, TakenType
    <3>2. hand' = [hand EXCEPT ![w] = {task}] /\ gpu' = taken /\ gen' = gen
      BY <1>5, <2>1 DEF TakeGPU, Gets
    <3> HIDE DEF taken, task
    <3> QED
      BY <1>1, <3>1, <3>2
  <2>2. CASE gpu[0] = <<>>
    <3>1. hand' = [hand EXCEPT ![w] = {Unbound("tryPopGeneric")}] /\ gpu' = gpu /\ gen' = gen
      BY <1>5, <2>2 DEF TakeGPU, Gets
    <3> QED
      BY <1>1, <1>3, <3>1
  <2> QED
    BY <2>1, <2>2
<1>6. CASE TakeGeneric(w)
  <2> HIDE DEF S
  <2>1. CASE gen[0] # <<>>
    <3> DEFINE taken == [gen EXCEPT ![0] = Tail(@)]  task == Head(gen[0])
    <3>1. task \in S /\ taken \in [Slots -> Seq(S)]
      BY <1>1, <2>1, TakenType
    <3>2. hand' = [hand EXCEPT ![w] = {task}] /\ gen' = taken /\ gpu' = gpu
      BY <1>6, <2>1 DEF TakeGeneric, Gets
    <3> HIDE DEF taken, task
    <3> QED
      BY <1>1, <3>1, <3>2
  <2>2. CASE gen[0] = <<>>
    <3>1. hand' = [hand EXCEPT ![w] = {}] /\ gpu' = gpu /\ gen' = gen
      BY <1>6, <2>2 DEF TakeGeneric, Done
    <3> QED
      BY <1>1, <1>3, <3>1
  <2> QED
    BY <2>1, <2>2
<1>7. CASE Run(w)
  <2>1. PICK t \in hand[w] : \/ RunBound(w, t) \/ RunDraw(w, t) \/ DestroyMain(w, t)
                            \/ DestroyDone(w, t) \/ Erase(w, t)
    BY <1>7 DEF Run
  <2>2. gpu' = gpu /\ gen' = gen
    BY <1>7 DEF Run, queues
  <2>3. CASE hand' = [hand EXCEPT ![w] = {}]
    <3> HIDE DEF S
    <3> QED
      BY <1>1, <2>2, <2>3
  <2>4. CASE DestroyDone(w, t) /\ destroyQueue # <<>>
    <3>1. hand' = [hand EXCEPT ![w] = {After("erase", Head(destroyQueue))}]
      BY <2>4 DEF DestroyDone, Holds
    <3>2. Head(destroyQueue) \in Entries
      BY <2>4 DEF IInv, TypeOK
    <3>3. After("erase", Head(destroyQueue)) \in S
      BY <1>2, <3>2 DEF After, HeldTasks, Entries
    <3> HIDE DEF S
    <3> QED
      BY <1>1, <2>2, <3>1, <3>3
  <2> QED
    BY <2>1, <2>3, <2>4 DEF RunBound, RunDraw, DestroyMain, DestroyDone, Erase, Done
<1> QED
  BY <1>5, <1>6, <1>7

\* Initially nothing is submitted.
LEMMA InitDraws == Init => DrawInv
  BY DEF Init, DrawInv, Slots

\* Every step preserves the invariant.
LEMMA DrawStep == ASSUME IInv, QueueInv, DrawInv, [Next]_vars PROVE DrawInv'
<1>1. CASE Next
  BY <1>1, SafeStays, ApplicationDraws, WorkerDraws DEF Next
<1>2. CASE UNCHANGED vars
  BY <1>2 DEF vars, objects, queues, bounds, DrawInv, Safe, Drawable
<1> QED
  BY <1>1, <1>2

\* A command built in the frame it was recorded in finds its resources without a
\* lock, even if their handles were given up in the meantime.
THEOREM CommandsFindResources == Spec => []DrawFinds
<1>1. IInv /\ QueueInv /\ DrawInv /\ [Next]_vars => DrawInv'
  BY DrawStep
<1>2. DrawInv => DrawFinds
  BY DEF DrawInv, Safe, Drawable, DrawFinds
<1> QED
  BY <1>1, <1>2, InitDraws, QueueInvariant, OwnershipInvariant, PTL DEF Spec
===============================================================================
