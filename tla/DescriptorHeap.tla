--------------------------- MODULE DescriptorHeap ---------------------------
(***************************************************************************)
(* DX12DescriptorHeapCollection (descriptor_heap.h), the pools that hand   *)
(* out descriptors, and their owners: a texture takes one render target    *)
(* descriptor when it is first drawn to (dx12_texture.cpp), a constant     *)
(* buffer takes one shader resource descriptor for every frame             *)
(* (dx12_constant_buffer.cpp).  Any thread may create; the collection's    *)
(* mutex is held for a whole request.                                      *)
(***************************************************************************)
EXTENDS Integers, SequencesExt

CONSTANTS Threads,         \* threads that record commands or create resources
          Textures,        \* the application's textures
          ConstantBuffers, \* identities of constant buffers
          BufferCount,     \* buffers of the swap chain
          HeapSize,        \* MAX_DESCRIPTOR_HEAP_SIZE
          MaxHeaps         \* bound on the heaps of a collection

\* Identities of different kinds are different.
ASSUME HeapAssumption ==
    /\ BufferCount \in Nat \ {0}
    /\ HeapSize \in Nat /\ BufferCount <= HeapSize
    /\ MaxHeaps \in Nat \ {0}
    /\ Textures \cap (0..(BufferCount - 1)) = {}
    /\ ConstantBuffers \cap (Textures \cup 0..(BufferCount - 1)) = {}
    /\ Threads \cap (Textures \cup ConstantBuffers \cup 0..(BufferCount - 1)) = {}

Types == {"RTV", "SRV"}
Offsets == 0..(HeapSize - 1)

\* The first numbers are reserved for the swap chain.
SwapTextures == 0..(BufferCount - 1)
AllTextures == Textures \cup SwapTextures

\* A descriptor's address: heaps do not overlap, so an address tells the
\* collection, the heap and the offset.
Of(type) == [type : {type}, heap : 1..MaxHeaps, offset : Offsets]
Descriptors == UNION {Of(type) : type \in Types}

VARIABLES
    heaps,         \* per collection: heaps_, the freelist of each heap
    containerMap,  \* per collection: containerMap_, the heap of a descriptor
    mutex,         \* per collection: the thread that holds mutex_, at most one
    tpc,           \* where each thread is in a request
    job,           \* what it makes the request for, at most one
    got,           \* the descriptors the request got so far
    view,          \* a texture's cpuHandle_, at most one
    cpuHandles,    \* a constant buffer's cpuHandles_
    erased,        \* textures erased from textures_
    started,       \* constant buffers whose creation was begun
    closing        \* the context's destructor runs

pool   == <<heaps, containerMap>>
thread == <<mutex, tpc, job, got>>
owners == <<view, cpuHandles, erased, started, closing>>
vars   == <<pool, thread, owners>>

-----------------------------------------------------------------------------
\* A freelist that counts from one (a mutant).
FullHeapFromOne == [i \in 1..HeapSize |-> i]

\* A heap as allocateHeap leaves it, and one whose creation failed.
FullHeap   == [i \in 1..HeapSize |-> i - 1]
FailedHeap == <<>>

\* createSwapChain took the views of the swap chain's textures, one after the
\* other from the back of the first heap's freelist.
SwapView(tex) == [type |-> "RTV", heap |-> 1, offset |-> HeapSize - 1 - tex]

Init ==
    /\ view = [x \in AllTextures |-> IF x \in SwapTextures THEN {SwapView(x)} ELSE {}]
    /\ containerMap = [type \in Types |->
                         [d \in {SwapView(x) : x \in SwapTextures} \cap Of(type) |-> 1]]
    /\ heaps = [type \in Types |-> IF type = "RTV"
                                   THEN <<SubSeq(FullHeap, 1, HeapSize - BufferCount)>>
                                   ELSE <<>>]
    /\ mutex = [type \in Types |-> {}]
    /\ tpc = [t \in Threads |-> "idle"]
    /\ job = [t \in Threads |-> {}]
    /\ got = [t \in Threads |-> <<>>]
    /\ cpuHandles = [b \in ConstantBuffers |-> <<>>]
    /\ erased = {} /\ started = {} /\ closing = FALSE

-----------------------------------------------------------------------------
(***************************************************************************)
(* The requests.                                                           *)
(***************************************************************************)
TypeOf(x) == IF x \in ConstantBuffers THEN "SRV" ELSE "RTV"
Wanted(x) == IF x \in ConstantBuffers THEN BufferCount ELSE 1
Go(t, to) == tpc' = [tpc EXCEPT ![t] = to]

Request(t, x) ==
    /\ tpc[t] = "idle" /\ ~closing
    /\ Go(t, "lock")
    /\ job' = [job EXCEPT ![t] = {x}]
    /\ UNCHANGED <<pool, mutex, got, view, cpuHandles, erased, closing>>

\* getRenderTargetView finds that the texture has no view yet.
NeedView(t, tex) == /\ tex \in Textures \ erased
                    /\ view[tex] = {}
                    /\ Request(t, tex)
                    /\ UNCHANGED started

\* DX12ConstantBuffer::create, once for each buffer.
NeedRange(t, b) == /\ b \notin started
                   /\ started' = started \cup {b}
                   /\ Request(t, b)

Acquire(t, x) ==
    /\ tpc[t] = "lock" /\ job[t] = {x}
    /\ mutex[TypeOf(x)] = {}
    /\ mutex' = [mutex EXCEPT ![TypeOf(x)] = {t}]
    /\ Go(t, "take")
    /\ UNCHANGED <<pool, job, got, owners>>

Serving(t, x) == /\ tpc[t] = "take" /\ job[t] = {x}
                 /\ Len(got[t]) < Wanted(x)

Release(t, x) == mutex' = [mutex EXCEPT ![TypeOf(x)] = {}]

\* The first heap that has a free descriptor.
FirstFree(type, i) == /\ i \in DOMAIN heaps[type]
                      /\ heaps[type][i] # <<>>
                      /\ \A j \in 1..(i - 1) : heaps[type][j] = <<>>

\* A freelist whose last entry was read but not removed (a mutant).
PoppedNot(freelist) == freelist

\* freelist.pop_back().
Popped(freelist) == Front(freelist)

TakeOne(t, x) ==
    /\ Serving(t, x)
    /\ \E i \in DOMAIN heaps[TypeOf(x)] :
         LET type == TypeOf(x)
             d == [type |-> type, heap |-> i, offset |-> Last(heaps[type][i])]
         IN  /\ FirstFree(type, i)
             /\ heaps' = [heaps EXCEPT ![type][i] = Popped(@)]
             /\ containerMap' = [containerMap EXCEPT ![type] =
                                   [e \in DOMAIN @ \cup {d} |-> IF e \in DOMAIN @ THEN @[e] ELSE i]]
             /\ got' = [got EXCEPT ![t] = Append(@, d)]
    /\ UNCHANGED <<mutex, tpc, job, owners>>

NoneFree(type) == \A i \in DOMAIN heaps[type] : heaps[type][i] = <<>>

AllocateHeap(t, x) ==
    /\ Serving(t, x)
    /\ NoneFree(TypeOf(x)) /\ Len(heaps[TypeOf(x)]) < MaxHeaps
    /\ heaps' = [heaps EXCEPT ![TypeOf(x)] = Append(@, FullHeap)]
    /\ UNCHANGED <<containerMap, thread, owners>>

\* CreateDescriptorHeap throws after heaps_ was resized: the request is given
\* up with whatever it got.
AllocateFails(t, x) ==
    /\ Serving(t, x)
    /\ NoneFree(TypeOf(x)) /\ Len(heaps[TypeOf(x)]) < MaxHeaps
    /\ heaps' = [heaps EXCEPT ![TypeOf(x)] = Append(@, FailedHeap)]
    /\ Release(t, x)
    /\ Go(t, IF x \in ConstantBuffers THEN "idle" ELSE "ended")
    /\ job' = [job EXCEPT ![t] = {}]
    /\ got' = [got EXCEPT ![t] = <<>>]
    /\ UNCHANGED <<containerMap, owners>>

\* The request is complete; the constant buffer stores its handles at once ...
FinishRange(t, b) ==
    /\ tpc[t] = "take" /\ job[t] = {b} /\ b \in ConstantBuffers
    /\ Len(got[t]) = BufferCount
    /\ Release(t, b) /\ Go(t, "idle")
    /\ cpuHandles' = [cpuHandles EXCEPT ![b] = got[t]]
    /\ job' = [job EXCEPT ![t] = {}]
    /\ got' = [got EXCEPT ![t] = <<>>]
    /\ UNCHANGED <<pool, view, erased, started, closing>>

\* ... the texture after the mutex was released.
FinishOne(t, tex) ==
    /\ tpc[t] = "take" /\ job[t] = {tex} /\ tex \in AllTextures
    /\ Len(got[t]) = 1
    /\ Release(t, tex) /\ Go(t, "store")
    /\ UNCHANGED <<pool, job, got, owners>>

\* cpuHandle_ = the handle, also over the one another thread stored meanwhile.
StoreView(t, tex) ==
    /\ tpc[t] = "store" /\ job[t] = {tex}
    /\ view' = [view EXCEPT ![tex] = {got[t][1]}]
    /\ Go(t, "idle")
    /\ job' = [job EXCEPT ![t] = {}]
    /\ got' = [got EXCEPT ![t] = <<>>]
    /\ UNCHANGED <<pool, mutex, cpuHandles, erased, started, closing>>

-----------------------------------------------------------------------------
(***************************************************************************)
(* The releases.                                                           *)
(***************************************************************************)

\* A descriptor that is given back and remembered as well (a mutant).
ForgottenNot(map, d) == map

\* containerMap_.erase.
Forgotten(map, d) == [e \in DOMAIN map \ {d} |-> map[e]]

\* The heap a collection believes a descriptor is from: containerMap_[ptr]
\* inserts 0, the first heap, for one it does not know.
HeapOf(type, d) == IF d \in DOMAIN containerMap[type] THEN containerMap[type][d] ELSE 1

\* releaseOne.
GiveBack(type, d) ==
    /\ heaps' = [heaps EXCEPT ![type][HeapOf(type, d)] = Append(@, d.offset)]
    /\ containerMap' = [containerMap EXCEPT ![type] = Forgotten(@, d)]

\* ~DX12Texture: in destroyDone, while no command uses the texture (module
\* DX12Context), or in the context's destructor.
EraseTexture(tex) ==
    /\ tex \in AllTextures \ erased
    /\ tex \in SwapTextures => closing
    /\ \A t \in Threads : tex \notin job[t]
    /\ mutex["RTV"] = {}
    /\ erased' = erased \cup {tex}
    /\ IF view[tex] = {} THEN UNCHANGED pool
                         ELSE \E d \in view[tex] : GiveBack("RTV", d)
    /\ view' = [view EXCEPT ![tex] = {}]
    /\ UNCHANGED <<thread, cpuHandles, started, closing>>

\* The context's destructor, after the threads were joined.
Close ==
    /\ ~closing /\ closing' = TRUE
    /\ \A t \in Threads : tpc[t] = "idle"
    /\ UNCHANGED <<pool, thread, view, cpuHandles, erased, started>>

\* releaseRange of descriptors that the collection does not know.
Returned(offset) ==
    [heaps EXCEPT !["RTV"][1] = @ \o [i \in 1..BufferCount |-> offset]]

\* ~DX12ConstantBuffer, after the textures' destructors, returns the descriptors
\* of one collection to the other, which puts some number on the freelist of
\* its first heap.
EraseConstantBuffer(b) ==
    /\ closing /\ erased = AllTextures
    /\ cpuHandles[b] # <<>>
    /\ \E offset \in 0..HeapSize : heaps' = Returned(offset)
    /\ cpuHandles' = [cpuHandles EXCEPT ![b] = <<>>]
    /\ UNCHANGED <<containerMap, thread, view, erased, started, closing>>

-----------------------------------------------------------------------------
ThreadStep(t) ==
    \/ \E tex \in Textures : NeedView(t, tex)
    \/ \E b \in ConstantBuffers : NeedRange(t, b)
    \/ \E x \in job[t] : \/ Acquire(t, x) \/ TakeOne(t, x)
                         \/ AllocateHeap(t, x) \/ AllocateFails(t, x)
                         \/ FinishRange(t, x) \/ FinishOne(t, x) \/ StoreView(t, x)

\* An exception on a worker thread ends the program.
Next == /\ \A t \in Threads : tpc[t] # "ended"
        /\ \/ \E t \in Threads : ThreadStep(t)
           \/ \E tex \in AllTextures : EraseTexture(tex)
           \/ Close
           \/ \E b \in ConstantBuffers : EraseConstantBuffer(b)

Spec == Init /\ [][Next]_vars

-----------------------------------------------------------------------------
Jobs == Textures \cup ConstantBuffers
PCs == {"idle", "lock", "take", "store", "ended"}

\* Every variable stays in its range; a constant buffer has no descriptors or
\* one for every frame.
TypeOK ==
    /\ heaps \in [Types -> Seq(Seq(0..HeapSize))]
    /\ \A type \in Types : /\ Len(heaps[type]) <= MaxHeaps
                           /\ DOMAIN containerMap[type] \subseteq Of(type)
                           /\ \A d \in DOMAIN containerMap[type] :
                                 containerMap[type][d] \in DOMAIN heaps[type]
    /\ mutex \in [Types -> SUBSET Threads]
    /\ tpc \in [Threads -> PCs]
    /\ job \in [Threads -> SUBSET Jobs]
    /\ got \in [Threads -> Seq(Descriptors)]
    /\ view \in [AllTextures -> SUBSET Descriptors]
    /\ cpuHandles \in [ConstantBuffers -> Seq(Descriptors)]
    /\ \A b \in ConstantBuffers : Len(cpuHandles[b]) \in {0, BufferCount}
    /\ erased \in SUBSET AllTextures /\ started \in SUBSET ConstantBuffers
    /\ closing \in BOOLEAN

\* Some constant buffer returned its descriptors to the other collection.
Torn == closing /\ erased = AllTextures

\* Until the context's destructor mixes the collections up, a descriptor of a
\* heap is either once on its heap's freelist or in use, never both and never
\* lost; a heap that could not be created has none.  containerMap_ knows the
\* heap of every descriptor in use, so that a release finds its way home.
Used(type, i) == {d.offset : d \in {e \in DOMAIN containerMap[type] : e.heap = i}}
Partition ==
    Torn \/ \A type \in Types :
              /\ \A i \in DOMAIN heaps[type] :
                    LET freelist == heaps[type][i]
                        free == {freelist[k] : k \in DOMAIN freelist}
                    IN  /\ \A k, m \in DOMAIN freelist : freelist[k] = freelist[m] => k = m
                        /\ free \cap Used(type, i) = {}
                        /\ free \cup Used(type, i) \in {{}, Offsets}
              /\ \A d \in DOMAIN containerMap[type] : containerMap[type][d] = d.heap

\* Whoever asks, at whatever moment, no descriptor has two owners: a texture, a
\* constant buffer, or a request under way; and each is in use in its collection.
OwnedBy(x) == CASE x \in AllTextures     -> view[x]
                [] x \in ConstantBuffers -> {cpuHandles[x][i] : i \in DOMAIN cpuHandles[x]}
                [] x \in Threads         -> {got[x][i] : i \in DOMAIN got[x]}
Owners == AllTextures \cup ConstantBuffers \cup Threads
Distinct(handles) == \A i, j \in DOMAIN handles : handles[i] = handles[j] => i = j
SoleOwner ==
    /\ \A x \in Owners : OwnedBy(x) \subseteq UNION {DOMAIN containerMap[type] : type \in Types}
    /\ \A x, y \in Owners : x # y => OwnedBy(x) \cap OwnedBy(y) = {}
    /\ \A b \in ConstantBuffers : Distinct(cpuHandles[b])
    /\ \A t \in Threads : Distinct(got[t])
=============================================================================
