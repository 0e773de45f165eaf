------------------------ MODULE DescriptorHeapProofs ------------------------
(***************************************************************************)
(* DescriptorHeap: for any number of threads, textures, constant buffers   *)
(* and heaps of any size, no descriptor is lost by a pool, handed out      *)
(* twice, or owned by two.                                                 *)
(***************************************************************************)
EXTENDS DescriptorHeap, TLAPS

Free(freelist) == {freelist[k] : k \in DOMAIN freelist}

\* The free and the used descriptors of a heap.
HeapOK(freelist, used) ==
    /\ \A k, m \in DOMAIN freelist : freelist[k] = freelist[m] => k = m
    /\ Free(freelist) \cap used = {}
    /\ Free(freelist) \cup used \in {{}, Offsets}

-----------------------------------------------------------------------------
(***************************************************************************)
(* Freelists.                                                              *)
(***************************************************************************)

\* What pop_back leaves.
LEMMA PoppedIs ==
  ASSUME NEW S, NEW f \in Seq(S), f # <<>>
  PROVE  /\ Popped(f) \in Seq(S) /\ Len(Popped(f)) = Len(f) - 1
         /\ Last(f) = f[Len(f)] /\ Len(f) \in 1..Len(f) /\ Last(f) \in S
         /\ \A k \in 1..Len(Popped(f)) : Popped(f)[k] = f[k]
<1> DEFINE n == Len(f)
<1>1. n \in Nat \ {0} /\ Last(f) = f[n]
  BY DEF Last
<1>2. Popped(f) = SubSeq(f, 1, n - 1)
  BY DEF Popped, Front
<1>3. \A k \in 1..(n - 1) : f[k] \in S
  BY <1>1
<1> HIDE DEF n
<1>4. /\ SubSeq(f, 1, n - 1) \in Seq(S) /\ Len(SubSeq(f, 1, n - 1)) = n - 1
      /\ \A k \in 1..(n - 1) : SubSeq(f, 1, n - 1)[k] = f[k]
  BY <1>1, <1>3
<1>5. QED
  BY <1>1, <1>2, <1>4 DEF n

\* A descriptor that is taken was free, and is in use from then on.
LEMMA TakenOK ==
  ASSUME NEW f \in Seq(0..HeapSize), f # <<>>, NEW used, HeapOK(f, used)
  PROVE  /\ Last(f) \in Offsets \ used
         /\ HeapOK(Popped(f), used \cup {Last(f)})
<1>1. /\ Popped(f) \in Seq(0..HeapSize) /\ Len(Popped(f)) = Len(f) - 1
      /\ Last(f) = f[Len(f)] /\ Len(f) \in 1..Len(f)
      /\ \A k \in 1..Len(Popped(f)) : Popped(f)[k] = f[k]
  BY PoppedIs
<1>2. DOMAIN f = 1..Len(f) /\ DOMAIN Popped(f) = 1..(Len(f) - 1) /\ Len(f) \in Nat
  BY <1>1
<1>3. ASSUME NEW n \in Nat \ {0} PROVE \A k \in 1..(n - 1) : k \in 1..n /\ k # n
  OBVIOUS
<1>4. Free(f) = Free(Popped(f)) \cup {Last(f)}
  <2>1. ASSUME NEW n \in Nat \ {0} PROVE \A k \in 1..n : k = n \/ k \in 1..(n - 1)
    OBVIOUS
  <2>2. Len(f) \in Nat \ {0}
    BY <1>1, <1>2
  <2>3. \A k \in DOMAIN f : k = Len(f) \/ k \in DOMAIN Popped(f)
    BY <1>2, <2>1, <2>2
  <2>4. \A k \in DOMAIN Popped(f) : k \in DOMAIN f
    BY <1>2, <1>3, <2>2
  <2>5. QED
    BY <1>1, <1>2, <2>3, <2>4 DEF Free
<1>5. Last(f) \notin Free(Popped(f))
  BY <1>1, <1>2, <1>3 DEF Free, HeapOK
<1>6. Last(f) \in Offsets \ used
  BY <1>4 DEF HeapOK
<1>7. \A k, m \in DOMAIN Popped(f) : Popped(f)[k] = Popped(f)[m] => k = m
  BY <1>1, <1>2, <1>3 DEF HeapOK
<1>8. QED
  BY <1>4, <1>5, <1>6, <1>7 DEF HeapOK

\* A descriptor that was in use and is given back is free.
LEMMA ReturnedOK ==
  ASSUME NEW f \in Seq(0..HeapSize), NEW used, HeapOK(f, used), NEW o \in used
  PROVE  HeapOK(Append(f, o), used \ {o})
<1> DEFINE g == Append(f, o)
<1>1. /\ DOMAIN f = 1..Len(f) /\ Len(f) \in Nat /\ DOMAIN g = 1..(Len(f) + 1)
      /\ g[Len(f) + 1] = o /\ \A k \in 1..Len(f) : g[k] = f[k]
  OBVIOUS
<1> HIDE DEF g
<1>2. \A k \in 1..(Len(f) + 1) : k \in 1..Len(f) \/ k = Len(f) + 1
  BY <1>1
<1>3. Free(g) = Free(f) \cup {o}
  <2>1. Len(f) + 1 \in DOMAIN g /\ \A k \in DOMAIN f : k \in DOMAIN g
    BY <1>1
  <2>2. QED
    BY <1>1, <1>2, <2>1 DEF Free
<1>4. \A k \in DOMAIN f : f[k] # o
  BY DEF HeapOK, Free
<1>5. \A k, m \in DOMAIN g : g[k] = g[m] => k = m
  BY <1>1, <1>2, <1>4 DEF HeapOK
<1>6. QED
  BY <1>3, <1>4, <1>5 DEF HeapOK, g, Free

\* What an appended sequence holds, and that it stays without repetition.
LEMMA AppendedRange ==
  ASSUME NEW S, NEW s \in Seq(S), NEW e \in S
  PROVE  {Append(s, e)[k] : k \in DOMAIN Append(s, e)} = {s[k] : k \in DOMAIN s} \cup {e}
<1> DEFINE a == Append(s, e)
<1>1. /\ DOMAIN s = 1..Len(s) /\ Len(s) \in Nat /\ DOMAIN a = 1..(Len(s) + 1)
      /\ a[Len(s) + 1] = e /\ \A k \in 1..Len(s) : a[k] = s[k]
  OBVIOUS
<1> HIDE DEF a
<1>2. \A k \in 1..(Len(s) + 1) : k \in 1..Len(s) \/ k = Len(s) + 1
  BY <1>1
<1>3. Len(s) + 1 \in DOMAIN a /\ \A k \in DOMAIN s : k \in DOMAIN a
  BY <1>1
<1>4. {a[k] : k \in DOMAIN a} = {s[k] : k \in DOMAIN s} \cup {e}
  BY <1>1, <1>2, <1>3
<1>5. QED
  BY <1>4 DEF a

\* A sequence stays without repetition when a new element is appended.
LEMMA AppendedDistinct ==
  ASSUME NEW S, NEW s \in Seq(S), NEW e \in S, Distinct(s), \A k \in DOMAIN s : s[k] # e
  PROVE  Distinct(Append(s, e))
<1> DEFINE a == Append(s, e)
<1>1. /\ DOMAIN s = 1..Len(s) /\ Len(s) \in Nat /\ DOMAIN a = 1..(Len(s) + 1)
      /\ a[Len(s) + 1] = e /\ \A k \in 1..Len(s) : a[k] = s[k]
  OBVIOUS
<1> HIDE DEF a
<1>2. \A k \in 1..(Len(s) + 1) : k \in 1..Len(s) \/ k = Len(s) + 1
  BY <1>1
<1>3. \A k, m \in DOMAIN a : a[k] = a[m] => k = m
  BY <1>1, <1>2 DEF Distinct
<1>4. QED
  BY <1>3 DEF a, Distinct

\* A sequence with one entry replaced.
LEMMA Replaced ==
  ASSUME NEW S, NEW s \in Seq(S), NEW i \in DOMAIN s, NEW e \in S
  PROVE  /\ [s EXCEPT ![i] = e] \in Seq(S) /\ Len([s EXCEPT ![i] = e]) = Len(s)
         /\ DOMAIN [s EXCEPT ![i] = e] = DOMAIN s
OBVIOUS

\* A new heap, created or not.
LEMMA NewHeapOK == /\ FullHeap \in Seq(0..HeapSize) /\ HeapOK(FullHeap, {})
                   /\ FailedHeap \in Seq(0..HeapSize) /\ HeapOK(FailedHeap, {})
<1>1. HeapSize \in Nat
  BY HeapAssumption
<1>2. FullHeap \in Seq(0..HeapSize) /\ DOMAIN FullHeap = 1..HeapSize
  BY <1>1 DEF FullHeap
<1>3. Free(FullHeap) = Offsets
  <2>1. \A o \in Offsets : o + 1 \in 1..HeapSize /\ o = (o + 1) - 1
    BY <1>1 DEF Offsets
  <2>2. \A k \in 1..HeapSize : k - 1 \in Offsets
    BY <1>1 DEF Offsets
  <2>3. QED
    BY <2>1, <2>2 DEF FullHeap, Free
<1>4. HeapOK(FullHeap, {})
  BY <1>1, <1>2, <1>3 DEF HeapOK, FullHeap
<1>5. QED
  BY <1>2, <1>4 DEF HeapOK, FailedHeap, Free

-----------------------------------------------------------------------------
(***************************************************************************)
(* The invariant.                                                          *)
(***************************************************************************)
Known == UNION {DOMAIN containerMap[type] : type \in Types}

\* containerMap_ tells the heap of a descriptor.
Homes == /\ DOMAIN containerMap = Types
         /\ \A type \in Types : \A d \in DOMAIN containerMap[type] :
               containerMap[type][d] = d.heap

Pools == Torn \/ \A type \in Types : \A i \in DOMAIN heaps[type] :
                    HeapOK(heaps[type][i], Used(type, i))

\* What a request holds at each of its steps.
Requests ==
    \A t \in Threads :
        /\ tpc[t] = "idle" => got[t] = <<>>
        /\ tpc[t] = "store" => Len(got[t]) = 1 /\ job[t] \subseteq Textures
        /\ \A x \in job[t] : \A i \in DOMAIN got[t] : got[t][i] \in Of(TypeOf(x))

\* No thread is in a request when the context's destructor runs, and a texture's
\* view is of the render target collection.
Closed == closing => \A t \in Threads : tpc[t] = "idle"
Typed == \A x \in AllTextures : view[x] \subseteq Of("RTV")

Inv == TypeOK /\ Homes /\ Pools /\ SoleOwner /\ Requests /\ Closed /\ Typed

-----------------------------------------------------------------------------
(***************************************************************************)
(* Addresses and owners.                                                   *)
(***************************************************************************)

\* A descriptor is known by its collection, heap and offset.
LEMMA Addresses ==
  /\ \A type \in Types : \A d, e \in Of(type) :
        d.heap = e.heap /\ d.offset = e.offset => d = e
  /\ \A type \in Types : \A d \in Of(type) :
        d.type = type /\ d.heap \in 1..MaxHeaps /\ d.offset \in Offsets
  /\ \A a, b \in Types : a # b => Of(a) \cap Of(b) = {}
  /\ \A type \in Types : \A h \in 1..MaxHeaps, o \in Offsets :
        [type |-> type, heap |-> h, offset |-> o] \in Of(type)
  /\ \A type \in Types : Of(type) \subseteq Descriptors
  /\ \A x : TypeOf(x) \in Types
BY DEF Of, Types, Descriptors, TypeOf

\* The owners are of three kinds.
LEMMA OwnedIs ==
  /\ \A x \in AllTextures : OwnedBy(x) = view[x] /\ OwnedBy(x)' = view'[x]
  /\ \A x \in ConstantBuffers :
        /\ OwnedBy(x) = {cpuHandles[x][i] : i \in DOMAIN cpuHandles[x]}
        /\ OwnedBy(x)' = {cpuHandles'[x][i] : i \in DOMAIN cpuHandles'[x]}
  /\ \A t \in Threads : /\ OwnedBy(t) = {got[t][i] : i \in DOMAIN got[t]}
                        /\ OwnedBy(t)' = {got'[t][i] : i \in DOMAIN got'[t]}
<1>1. /\ AllTextures \cap ConstantBuffers = {}
      /\ Threads \cap AllTextures = {} /\ Threads \cap ConstantBuffers = {}
  BY HeapAssumption DEF AllTextures, SwapTextures
<1>2. QED
  BY <1>1 DEF OwnedBy

\* What is not touched keeps its owner.
LEMMA OwnedSame ==
  /\ \A x \in AllTextures : view'[x] = view[x] => OwnedBy(x)' = OwnedBy(x)
  /\ \A x \in ConstantBuffers : cpuHandles'[x] = cpuHandles[x] => OwnedBy(x)' = OwnedBy(x)
  /\ \A t \in Threads : got'[t] = got[t] => OwnedBy(t)' = OwnedBy(t)
<1>1. ASSUME NEW x \in ConstantBuffers, cpuHandles'[x] = cpuHandles[x]
      PROVE  OwnedBy(x)' = OwnedBy(x)
  <2>1. {cpuHandles'[x][i] : i \in DOMAIN cpuHandles'[x]}
           = {cpuHandles[x][i] : i \in DOMAIN cpuHandles[x]}
    BY <1>1
  <2>2. QED
    BY <2>1, OwnedIs
<1>2. ASSUME NEW t \in Threads, got'[t] = got[t]
      PROVE  OwnedBy(t)' = OwnedBy(t)
  <2>1. {got'[t][i] : i \in DOMAIN got'[t]} = {got[t][i] : i \in DOMAIN got[t]}
    BY <1>2
  <2>2. QED
    BY <2>1, OwnedIs
<1>3. QED
  BY <1>1, <1>2, OwnedIs

\* A heap that is appended has no descriptors in use.
LEMMA NewHeapUnused ==
  ASSUME TypeOK, Homes, NEW type \in Types
  PROVE  Used(type, Len(heaps[type]) + 1) = {}
<1>1. Len(heaps[type]) \in Nat /\ DOMAIN heaps[type] = 1..Len(heaps[type])
  BY DEF TypeOK
<1>2. \A d \in DOMAIN containerMap[type] : d.heap \in 1..Len(heaps[type])
  BY <1>1 DEF TypeOK, Homes
<1>3. \A d \in DOMAIN containerMap[type] : d.heap # Len(heaps[type]) + 1
  BY <1>1, <1>2
<1>4. QED
  BY <1>3 DEF Used

-----------------------------------------------------------------------------
\* The invariant holds at the start.
LEMMA InitInv == Init => Inv
<1> SUFFICES ASSUME Init PROVE Inv
  OBVIOUS
<1>0. /\ HeapSize \in Nat /\ BufferCount \in Nat \ {0} /\ BufferCount <= HeapSize
      /\ MaxHeaps \in Nat \ {0}
  BY HeapAssumption
<1> DEFINE left == SubSeq(FullHeap, 1, HeapSize - BufferCount)
           swap == {SwapView(x) : x \in SwapTextures}
<1>1. /\ \A x \in SwapTextures : SwapView(x) \in Of("RTV") /\ SwapView(x).heap = 1
                                 /\ SwapView(x).offset = HeapSize - 1 - x
      /\ \A x, y \in SwapTextures : SwapView(x) = SwapView(y) => x = y
  <2>1. \A x \in SwapTextures : x \in Nat /\ HeapSize - 1 - x \in Offsets
    BY <1>0 DEF SwapTextures, Offsets
  <2>2. \A x \in SwapTextures : SwapView(x).heap = 1 /\ SwapView(x).offset = HeapSize - 1 - x
    BY DEF SwapView
  <2>3. 1 \in 1..MaxHeaps
    BY <1>0
  <2>4. \A x \in SwapTextures : SwapView(x) \in Of("RTV")
    BY <2>1, <2>3 DEF SwapView, Of
  <2>5. \A x, y \in SwapTextures : HeapSize - 1 - x = HeapSize - 1 - y => x = y
    BY <1>0, <2>1
  <2>6. QED
    BY <2>2, <2>4, <2>5
<1>2. swap \cap Of("RTV") = swap /\ swap \cap Of("SRV") = {}
  BY <1>1, Addresses DEF Types
<1>3. /\ DOMAIN containerMap["RTV"] = swap /\ DOMAIN containerMap["SRV"] = {}
      /\ \A d \in swap : containerMap["RTV"][d] = 1
      /\ heaps["RTV"] = <<left>> /\ heaps["SRV"] = <<>>
  BY <1>2 DEF Init, Types
<1>4. left \in Seq(0..HeapSize) /\ DOMAIN left = 1..(HeapSize - BufferCount)
      /\ \A k \in DOMAIN left : left[k] = k - 1
  BY <1>0 DEF FullHeap
<1> HIDE DEF left, swap
<1>5. Len(<<left>>) = 1 /\ Len(<<>>) = 0 /\ DOMAIN <<left>> = {1} /\ <<left>>[1] = left
      /\ DOMAIN <<>> = {}
  OBVIOUS
<1>6. TypeOK
  <2>1. heaps \in [Types -> Seq(Seq(0..HeapSize))]
    <3>1. <<left>> \in Seq(Seq(0..HeapSize)) /\ <<>> \in Seq(Seq(0..HeapSize))
      BY <1>4
    <3>2. \A type \in Types : heaps[type] \in Seq(Seq(0..HeapSize))
      BY <1>3, <3>1 DEF Types
    <3>3. DOMAIN heaps = Types /\ heaps = [type \in DOMAIN heaps |-> heaps[type]]
      BY DEF Init
    <3>4. QED
      BY <3>2, <3>3
  <2>2. \A type \in Types : /\ Len(heaps[type]) <= MaxHeaps
                            /\ DOMAIN containerMap[type] \subseteq Of(type)
                            /\ \A d \in DOMAIN containerMap[type] :
                                  containerMap[type][d] \in DOMAIN heaps[type]
    <3>1. /\ Len(heaps["RTV"]) <= MaxHeaps /\ Len(heaps["SRV"]) <= MaxHeaps
          /\ 1 \in DOMAIN heaps["RTV"]
      BY <1>0, <1>3, <1>5
    <3>2. swap \subseteq Of("RTV") /\ {} \subseteq Of("SRV")
      BY <1>2
    <3>3. QED
      BY <1>3, <3>1, <3>2 DEF Types
  <2>3. view \in [AllTextures -> SUBSET Descriptors]
    BY <1>1, Addresses DEF Init, Types
  <2>4. cpuHandles \in [ConstantBuffers -> Seq(Descriptors)]
        /\ \A b \in ConstantBuffers : Len(cpuHandles[b]) \in {0, BufferCount}
    BY DEF Init
  <2>5. /\ mutex \in [Types -> SUBSET Threads]
        /\ tpc \in [Threads -> PCs]
        /\ job \in [Threads -> SUBSET Jobs]
        /\ got \in [Threads -> Seq(Descriptors)]
        /\ erased \in SUBSET AllTextures /\ started \in SUBSET ConstantBuffers
        /\ closing \in BOOLEAN
    <3>1. tpc \in [Threads -> PCs] /\ closing \in BOOLEAN
      BY DEF Init, PCs
    <3>2. got \in [Threads -> Seq(Descriptors)]
      BY DEF Init
    <3>3. mutex \in [Types -> SUBSET Threads] /\ job \in [Threads -> SUBSET Jobs]
      BY DEF Init
    <3>4. QED
      BY <3>1, <3>2, <3>3 DEF Init
  <2>6. QED
    BY <2>1, <2>2, <2>3, <2>4, <2>5 DEF TypeOK
<1>7. Homes
  BY <1>1, <1>3 DEF Init, Homes, Types, swap
<1>8. HeapOK(left, Used("RTV", 1))
  <2>1. Used("RTV", 1) = {HeapSize - 1 - x : x \in SwapTextures}
    BY <1>1, <1>3 DEF Used, swap
  <2>2. Used("RTV", 1) = (HeapSize - BufferCount)..(HeapSize - 1)
    <3>1. \A x \in SwapTextures : HeapSize - 1 - x \in (HeapSize - BufferCount)..(HeapSize - 1)
      BY <1>0 DEF SwapTextures
    <3>2. ASSUME NEW o \in (HeapSize - BufferCount)..(HeapSize - 1)
          PROVE  /\ HeapSize - 1 - o \in SwapTextures
                 /\ o = HeapSize - 1 - (HeapSize - 1 - o)
      BY <1>0 DEF SwapTextures
    <3>3. QED
      BY <2>1, <3>1, <3>2
  <2>3. Free(left) = 0..(HeapSize - BufferCount - 1)
    <3>1. \A k \in 1..(HeapSize - BufferCount) : k - 1 \in 0..(HeapSize - BufferCount - 1)
      BY <1>0
    <3>2. \A o \in 0..(HeapSize - BufferCount - 1) :
             o + 1 \in 1..(HeapSize - BufferCount) /\ o = (o + 1) - 1
      BY <1>0
    <3>3. QED
      BY <1>4, <3>1, <3>2 DEF Free
  <2>4. /\ Free(left) \cap Used("RTV", 1) = {}
        /\ Free(left) \cup Used("RTV", 1) = Offsets
    BY <1>0, <2>2, <2>3 DEF Offsets
  <2>5. \A k, m \in DOMAIN left : left[k] = left[m] => k = m
    BY <1>0, <1>4
  <2>6. QED
    BY <2>4, <2>5 DEF HeapOK
<1>9. Pools
  BY <1>3, <1>5, <1>8 DEF Pools, Types
<1>10. SoleOwner
  <2>1. /\ \A x \in SwapTextures : OwnedBy(x) = {SwapView(x)}
        /\ \A x \in Owners \ SwapTextures : OwnedBy(x) = {}
    <3>1. \A x \in AllTextures : x \in SwapTextures \/ view[x] = {}
      BY DEF Init
    <3>2. \A x \in ConstantBuffers : OwnedBy(x) = {}
      BY OwnedIs DEF Init
    <3>3. \A t \in Threads : OwnedBy(t) = {}
      BY OwnedIs DEF Init
    <3>4. SwapTextures \subseteq AllTextures
      BY DEF AllTextures
    <3>5. \A x \in SwapTextures : view[x] = {SwapView(x)}
      BY <3>4 DEF Init
    <3>6. QED
      BY <3>1, <3>2, <3>3, <3>4, <3>5, OwnedIs DEF Owners
  <2>2. \A x \in Owners : OwnedBy(x) \subseteq Known
    BY <1>3, <2>1 DEF Known, Types, swap
  <2>3. \A x, y \in Owners : x # y => OwnedBy(x) \cap OwnedBy(y) = {}
    BY <1>1, <2>1
  <2>4. /\ \A b \in ConstantBuffers : Distinct(cpuHandles[b])
        /\ \A t \in Threads : Distinct(got[t])
    BY DEF Init, Distinct
  <2>5. QED
    BY <2>2, <2>3, <2>4 DEF SoleOwner, Known
<1>11. Requests /\ Closed
  BY DEF Init, Requests, Closed
<1>12. Typed
  BY <1>1 DEF Init, Typed
<1>13. QED
  BY <1>6, <1>7, <1>9, <1>10, <1>11, <1>12 DEF Inv

-----------------------------------------------------------------------------
\* A thread in a request: nobody destroys anything, and the request is one.
LEMMA InRequest ==
  ASSUME Inv, NEW t \in Threads, tpc[t] # "idle", NEW x \in job[t]
  PROVE  /\ ~closing /\ ~Torn /\ x \in Jobs /\ TypeOf(x) \in Types
         /\ \A type \in Types : \A i \in DOMAIN heaps[type] :
               /\ HeapOK(heaps[type][i], Used(type, i))
               /\ heaps[type][i] \in Seq(0..HeapSize)
               /\ i \in 1..MaxHeaps
<1>1. ~closing /\ ~Torn
  BY DEF Inv, Closed, Torn
<1>2. x \in Jobs /\ TypeOf(x) \in Types
  BY Addresses DEF Inv, TypeOK
<1>3. ASSUME NEW type \in Types, NEW i \in DOMAIN heaps[type]
      PROVE  heaps[type][i] \in Seq(0..HeapSize) /\ i \in 1..MaxHeaps
  <2>1. heaps[type] \in Seq(Seq(0..HeapSize)) /\ Len(heaps[type]) <= MaxHeaps
    BY DEF Inv, TypeOK
  <2>2. i \in 1..Len(heaps[type]) /\ Len(heaps[type]) \in Nat /\ MaxHeaps \in Nat
    BY <2>1, HeapAssumption
  <2>3. i \in 1..MaxHeaps
    BY <2>1, <2>2
  <2>4. QED
    BY <2>1, <2>3
<1>4. QED
  BY <1>1, <1>2, <1>3 DEF Inv, Pools

\* A request that forgets what it got leaves every descriptor with one owner,
\* whether or not it gave them to one.
LEMMA DropGot ==
  ASSUME Inv, NEW t \in Threads, got' = [got EXCEPT ![t] = <<>>],
         UNCHANGED <<containerMap, view, cpuHandles>>
  PROVE  SoleOwner'
<1>1. got'[t] = <<>> /\ \A u \in Threads : u # t => got'[u] = got[u]
  BY DEF Inv, TypeOK
<1>2. OwnedBy(t)' = {}
  BY <1>1, OwnedIs
<1>3. \A y \in Owners : OwnedBy(y)' \subseteq OwnedBy(y)
  BY <1>1, <1>2, OwnedSame DEF Owners
<1>4. /\ \A b \in ConstantBuffers : Distinct(cpuHandles'[b])
      /\ \A u \in Threads : Distinct(got'[u])
  <2>1. Distinct(<<>>)
    BY DEF Distinct
  <2>2. QED
    BY <1>1, <2>1 DEF Inv, SoleOwner
<1>5. \A y \in Owners : OwnedBy(y)' \subseteq UNION {DOMAIN containerMap'[type] : type \in Types}
  BY <1>3 DEF Inv, SoleOwner
<1>6. \A y, z \in Owners : y # z => OwnedBy(y)' \cap OwnedBy(z)' = {}
  BY <1>3 DEF Inv, SoleOwner
<1>7. QED
  BY <1>4, <1>5, <1>6 DEF SoleOwner

\* The request hands everything it got to an owner.
LEMMA HandOver ==
  ASSUME Inv, NEW t \in Threads, NEW x \in AllTextures \cup ConstantBuffers,
         got' = [got EXCEPT ![t] = <<>>], UNCHANGED containerMap,
         OwnedBy(x)' = OwnedBy(t),
         \A y \in AllTextures \ {x} : view'[y] = view[y],
         \A y \in ConstantBuffers \ {x} : cpuHandles'[y] = cpuHandles[y],
         \A b \in ConstantBuffers : Distinct(cpuHandles'[b])
  PROVE  SoleOwner'
<1>1. got'[t] = <<>> /\ \A u \in Threads : u # t => got'[u] = got[u]
  BY DEF Inv, TypeOK
<1>2. OwnedBy(t)' = {}
  BY <1>1, OwnedIs
<1>3. \A y \in Owners \ {x, t} : OwnedBy(y)' = OwnedBy(y)
  BY <1>1, OwnedSame DEF Owners
<1>4. \A u \in Threads : Distinct(got'[u])
  <2>1. Distinct(<<>>)
    BY DEF Distinct
  <2>2. QED
    BY <1>1, <2>1 DEF Inv, SoleOwner
<1>5. t \in Owners /\ x \in Owners
  BY DEF Owners
<1>6. \A y \in Owners : OwnedBy(y)' \subseteq UNION {DOMAIN containerMap'[type] : type \in Types}
  <2>1. \A y \in Owners : OwnedBy(y)' \subseteq OwnedBy(y) \/ OwnedBy(y)' \subseteq OwnedBy(t)
    BY <1>2, <1>3
  <2>2. QED
    BY <1>5, <2>1 DEF Inv, SoleOwner
<1>7. ASSUME NEW y \in Owners, NEW z \in Owners, y # z
      PROVE  OwnedBy(y)' \cap OwnedBy(z)' = {}
  <2>1. \A a, b \in Owners : a # b => OwnedBy(a) \cap OwnedBy(b) = {}
    BY DEF Inv, SoleOwner
  <2>2. CASE y = t \/ z = t
    BY <1>2, <2>2
  <2>3. CASE y # t /\ z # t /\ y = x
    BY <1>3, <1>5, <1>7, <2>1, <2>3
  <2>4. CASE y # t /\ z # t /\ z = x
    BY <1>3, <1>5, <1>7, <2>1, <2>4
  <2>5. CASE y \notin {t, x} /\ z \notin {t, x}
    BY <1>3, <1>7, <2>1, <2>5
  <2>6. QED
    BY <2>2, <2>3, <2>4, <2>5
<1>8. QED
  BY <1>4, <1>6, <1>7 DEF SoleOwner

\* A descriptor is taken.
LEMMA TakeOneInv ==
  ASSUME Inv, NEW t \in Threads, NEW x \in job[t], TakeOne(t, x)
  PROVE  Inv'
<1> DEFINE type == TypeOf(x)
<1>0. tpc[t] = "take" /\ job[t] = {x} /\ UNCHANGED <<mutex, tpc, job, owners>>
  BY DEF TakeOne, Serving
<1>1. PICK i \in DOMAIN heaps[type] :
        LET d == [type |-> type, heap |-> i, offset |-> Last(heaps[type][i])]
        IN  /\ FirstFree(type, i)
            /\ heaps' = [heaps EXCEPT ![type][i] = Popped(@)]
            /\ containerMap' = [containerMap EXCEPT ![type] =
                                  [e \in DOMAIN @ \cup {d} |-> IF e \in DOMAIN @ THEN @[e] ELSE i]]
            /\ got' = [got EXCEPT ![t] = Append(@, d)]
  BY DEF TakeOne
<1> DEFINE f == heaps[type][i]
           d == [type |-> type, heap |-> i, offset |-> Last(f)]
<1>2. /\ ~closing /\ ~Torn /\ type \in Types /\ i \in 1..MaxHeaps /\ f # <<>>
      /\ HeapOK(f, Used(type, i)) /\ f \in Seq(0..HeapSize)
  BY <1>0, <1>1, InRequest DEF FirstFree
<1>3. /\ d.offset \in Offsets \ Used(type, i)
      /\ HeapOK(Popped(f), Used(type, i) \cup {d.offset})
      /\ Popped(f) \in Seq(0..HeapSize)
  BY <1>2, TakenOK, PoppedIs
<1>4. d \in Of(type) /\ d \in Descriptors /\ d.heap = i /\ d \notin Known
  <2>1. d \in Of(type) /\ d \in Descriptors /\ d.heap = i
    BY <1>2, <1>3, Addresses
  <2>2. d \notin DOMAIN containerMap[type]
    BY <1>3, <2>1 DEF Used
  <2>3. \A a \in Types : a # type => d \notin DOMAIN containerMap[a]
    BY <1>2, <2>1, Addresses DEF Inv, TypeOK
  <2>4. QED
    BY <2>1, <2>2, <2>3 DEF Known
<1>5. /\ heaps' = [heaps EXCEPT ![type][i] = Popped(f)]
      /\ DOMAIN containerMap' = Types
      /\ DOMAIN containerMap'[type] = DOMAIN containerMap[type] \cup {d}
      /\ \A e \in DOMAIN containerMap[type] : containerMap'[type][e] = containerMap[type][e]
      /\ containerMap'[type][d] = i
      /\ \A a \in Types : a # type => containerMap'[a] = containerMap[a]
      /\ got' = [got EXCEPT ![t] = Append(@, d)]
  <2>1. DOMAIN containerMap = Types /\ d \notin DOMAIN containerMap[type]
    BY <1>2, <1>4 DEF Inv, Homes, Known
  <2>2. containerMap' = [containerMap EXCEPT ![type] =
                           [e \in DOMAIN containerMap[type] \cup {d} |->
                               IF e \in DOMAIN containerMap[type]
                               THEN containerMap[type][e] ELSE i]]
    BY <1>1
  <2>3. QED
    BY <1>1, <1>2, <2>1, <2>2
<1> HIDE DEF d, f, type
<1>6. /\ heaps' \in [Types -> Seq(Seq(0..HeapSize))]
      /\ \A a \in Types : Len(heaps'[a]) = Len(heaps[a]) /\ DOMAIN heaps'[a] = DOMAIN heaps[a]
      /\ heaps'[type][i] = Popped(f)
      /\ \A a \in Types : \A j \in DOMAIN heaps[a] :
            a # type \/ j # i => heaps'[a][j] = heaps[a][j]
  <2>1. heaps \in [Types -> Seq(Seq(0..HeapSize))] /\ i \in DOMAIN heaps[type]
    BY <1>1 DEF Inv, TypeOK
  <2>2. heaps' = [heaps EXCEPT ![type] = [heaps[type] EXCEPT ![i] = Popped(f)]]
    BY <1>5
  <2>3. /\ [heaps[type] EXCEPT ![i] = Popped(f)] \in Seq(Seq(0..HeapSize))
        /\ Len([heaps[type] EXCEPT ![i] = Popped(f)]) = Len(heaps[type])
    BY <1>2, <1>3, <2>1
  <2>4. QED
    BY <1>2, <2>1, <2>2, <2>3
<1>7. TypeOK'
  <2>1. got' \in [Threads -> Seq(Descriptors)]
    BY <1>4, <1>5 DEF Inv, TypeOK
  <2>2. \A a \in Types : /\ DOMAIN containerMap'[a] \subseteq Of(a)
                         /\ \A e \in DOMAIN containerMap'[a] :
                               containerMap'[a][e] \in DOMAIN heaps'[a]
    BY <1>1, <1>4, <1>5, <1>6 DEF Inv, TypeOK, type
  <2>3. QED
    BY <1>0, <1>6, <2>1, <2>2 DEF Inv, TypeOK, owners
<1>8. Homes'
  BY <1>4, <1>5 DEF Inv, Homes
<1>9. Pools'
  <2>1. Used(type, i)' = Used(type, i) \cup {d.offset}
    BY <1>4, <1>5 DEF Used
  <2>2. \A a \in Types : \A j \in DOMAIN heaps[a] :
           a # type \/ j # i => Used(a, j)' = Used(a, j)
    BY <1>4, <1>5 DEF Used
  <2>3. \A a \in Types : \A j \in DOMAIN heaps[a] : HeapOK(heaps[a][j], Used(a, j))
    BY <1>2 DEF Inv, Pools
  <2>4. \A a \in Types : \A j \in DOMAIN heaps'[a] : HeapOK(heaps'[a][j], Used(a, j)')
    <3>1. HeapOK(heaps'[type][i], Used(type, i)')
      BY <1>3, <1>6, <2>1
    <3>2. ASSUME NEW a \in Types, NEW j \in DOMAIN heaps[a], a # type \/ j # i
          PROVE  HeapOK(heaps'[a][j], Used(a, j)')
      BY <1>6, <2>2, <2>3, <3>2
    <3>3. QED
      BY <1>6, <3>1, <3>2
  <2>5. QED
    BY <2>4 DEF Pools
<1>10. SoleOwner'
  <2>1. Known' = Known \cup {d}
    BY <1>2, <1>5 DEF Known
  <2>2. \A y \in Owners : OwnedBy(y)' = IF y = t THEN OwnedBy(y) \cup {d} ELSE OwnedBy(y)
    <3>1. /\ t \notin AllTextures /\ t \notin ConstantBuffers
      BY HeapAssumption DEF AllTextures, SwapTextures
    <3>2. \A y \in AllTextures \cup ConstantBuffers : OwnedBy(y)' = OwnedBy(y)
      BY <1>0, OwnedSame DEF owners
    <3>3. \A y \in Threads \ {t} : OwnedBy(y)' = OwnedBy(y)
      <4>1. \A y \in Threads \ {t} : got'[y] = got[y]
        BY <1>5 DEF Inv, TypeOK
      <4>2. QED
        BY <4>1, OwnedSame
    <3>4. OwnedBy(t)' = OwnedBy(t) \cup {d}
      <4>1. got[t] \in Seq(Descriptors) /\ got'[t] = Append(got[t], d)
        BY <1>5 DEF Inv, TypeOK
      <4>2. {Append(got[t], d)[k] : k \in DOMAIN Append(got[t], d)}
               = {got[t][k] : k \in DOMAIN got[t]} \cup {d}
        BY <4>1, <1>4, AppendedRange
      <4>3. QED
        BY <4>1, <4>2, OwnedIs
    <3>5. QED
      BY <3>1, <3>2, <3>3, <3>4 DEF Owners
  <2>3. d \notin OwnedBy(t) /\ \A y \in Owners : OwnedBy(y) \subseteq Known
    BY <1>4 DEF Inv, SoleOwner, Known, Owners
  <2>4. Distinct(got'[t])
    <3>1. got[t] \in Seq(Descriptors) /\ got'[t] = Append(got[t], d) /\ Distinct(got[t])
      BY <1>5 DEF Inv, TypeOK, SoleOwner
    <3>2. \A k \in DOMAIN got[t] : got[t][k] # d
      BY <2>3, OwnedIs
    <3>3. QED
      BY <3>1, <3>2, <1>4, AppendedDistinct
  <2>5. \A y, z \in Owners : y # z => OwnedBy(y)' \cap OwnedBy(z)' = {}
    BY <1>4, <2>2, <2>3 DEF Inv, SoleOwner
  <2>6. \A y \in Owners : OwnedBy(y)' \subseteq Known'
    BY <2>1, <2>2, <2>3
  <2>7. /\ \A b \in ConstantBuffers : Distinct(cpuHandles'[b])
        /\ \A u \in Threads : Distinct(got'[u])
    BY <1>0, <1>5, <2>4 DEF Inv, SoleOwner, owners, TypeOK
  <2>8. QED
    BY <2>5, <2>6, <2>7 DEF SoleOwner, Known
<1>11. Requests'
  <2>1. got[t] \in Seq(Descriptors) /\ got'[t] = Append(got[t], d)
        /\ \A u \in Threads \ {t} : got'[u] = got[u]
    BY <1>5 DEF Inv, TypeOK
  <2>2. \A k \in DOMAIN got'[t] : got'[t][k] \in {got[t][m] : m \in DOMAIN got[t]} \cup {d}
    BY <2>1, <1>4, AppendedRange
  <2>3. \A k \in DOMAIN got'[t] : got'[t][k] \in Of(TypeOf(x))
    BY <1>0, <1>4, <2>2 DEF Inv, Requests, type
  <2>4. QED
    BY <1>0, <2>1, <2>3 DEF Inv, Requests
<1>12. Closed' /\ Typed'
  BY <1>0 DEF Inv, Closed, Typed, owners
<1>13. QED
  BY <1>7, <1>8, <1>9, <1>10, <1>11, <1>12 DEF Inv

\* A heap is added to a collection, created or not.
LEMMA GrownOK ==
  ASSUME Inv, ~Torn, NEW type \in Types, NEW h \in {FullHeap, FailedHeap},
         Len(heaps[type]) < MaxHeaps,
         heaps' = [heaps EXCEPT ![type] = Append(@, h)], containerMap' = containerMap
  PROVE  /\ heaps' \in [Types -> Seq(Seq(0..HeapSize))]
         /\ \A a \in Types : /\ Len(heaps'[a]) <= MaxHeaps
                             /\ DOMAIN containerMap'[a] \subseteq Of(a)
                             /\ \A d \in DOMAIN containerMap'[a] :
                                   containerMap'[a][d] \in DOMAIN heaps'[a]
         /\ \A a \in Types : \A j \in DOMAIN heaps'[a] : HeapOK(heaps'[a][j], Used(a, j)')
<1> DEFINE n == Len(heaps[type])
           g == Append(heaps[type], h)
<1>1. /\ heaps \in [Types -> Seq(Seq(0..HeapSize))] /\ n \in Nat /\ MaxHeaps \in Nat
      /\ n + 1 <= MaxHeaps
  <2>1. heaps \in [Types -> Seq(Seq(0..HeapSize))] /\ n \in Nat
    BY DEF Inv, TypeOK
  <2>2. QED
    BY <2>1, HeapAssumption
<1>2. h \in Seq(0..HeapSize) /\ HeapOK(h, {})
  BY NewHeapOK
<1>3. /\ g \in Seq(Seq(0..HeapSize)) /\ Len(g) = n + 1 /\ DOMAIN g = 1..(n + 1)
      /\ g[n + 1] = h /\ \A j \in 1..n : g[j] = heaps[type][j]
      /\ DOMAIN heaps[type] = 1..n
  BY <1>1, <1>2
<1>4. /\ heaps'[type] = g /\ heaps' \in [Types -> Seq(Seq(0..HeapSize))]
      /\ \A a \in Types : a # type => heaps'[a] = heaps[a]
  BY <1>1, <1>3
<1> HIDE DEF n, g
<1>5. \A a \in Types : Len(heaps'[a]) <= MaxHeaps /\ DOMAIN heaps[a] \subseteq DOMAIN heaps'[a]
  <2>1. DOMAIN heaps[type] \subseteq DOMAIN heaps'[type]
    BY <1>1, <1>3, <1>4
  <2>2. QED
    BY <1>1, <1>3, <1>4, <2>1 DEF Inv, TypeOK
<1>6. \A a \in Types : \A j : Used(a, j)' = Used(a, j)
  BY DEF Used
<1>7. \A a \in Types : \A j \in DOMAIN heaps[a] : HeapOK(heaps[a][j], Used(a, j))
  BY DEF Inv, Pools
<1>8. Used(type, n + 1) = {}
  BY NewHeapUnused DEF Inv, n
<1>9. ASSUME NEW j \in DOMAIN heaps'[type] PROVE HeapOK(heaps'[type][j], Used(type, j)')
  <2>1. CASE j = n + 1
    BY <1>2, <1>3, <1>4, <1>6, <1>8, <2>1
  <2>2. CASE j # n + 1
    <3>1. j \in 1..n
      BY <1>1, <1>3, <1>4, <2>2
    <3>2. heaps'[type][j] = heaps[type][j] /\ j \in DOMAIN heaps[type]
      BY <1>3, <1>4, <3>1
    <3>3. QED
      BY <1>6, <1>7, <3>2
  <2>3. QED
    BY <2>1, <2>2
<1>10. \A a \in Types : \A j \in DOMAIN heaps'[a] : HeapOK(heaps'[a][j], Used(a, j)')
  BY <1>4, <1>6, <1>7, <1>9
<1>11. \A a \in Types : /\ DOMAIN containerMap'[a] \subseteq Of(a)
                        /\ \A d \in DOMAIN containerMap'[a] :
                              containerMap'[a][d] \in DOMAIN heaps'[a]
  BY <1>5 DEF Inv, TypeOK
<1>12. \A a \in Types : /\ Len(heaps'[a]) <= MaxHeaps
                        /\ DOMAIN containerMap'[a] \subseteq Of(a)
                        /\ \A d \in DOMAIN containerMap'[a] :
                              containerMap'[a][d] \in DOMAIN heaps'[a]
  BY <1>5, <1>11
<1>13. QED
  BY <1>4, <1>10, <1>12

\* A request that allocates a heap, or fails to, keeps it.
LEMMA AllocateHeapInv ==
  ASSUME Inv, NEW t \in Threads, NEW x \in job[t], AllocateHeap(t, x)
  PROVE  Inv'
<1>1. /\ tpc[t] = "take" /\ Len(heaps[TypeOf(x)]) < MaxHeaps
      /\ heaps' = [heaps EXCEPT ![TypeOf(x)] = Append(@, FullHeap)]
      /\ UNCHANGED <<containerMap, thread, owners>>
  BY DEF AllocateHeap, Serving
<1>2. ~Torn /\ TypeOf(x) \in Types
  BY <1>1, InRequest
<1>3. /\ heaps' \in [Types -> Seq(Seq(0..HeapSize))]
      /\ \A a \in Types : /\ Len(heaps'[a]) <= MaxHeaps
                          /\ DOMAIN containerMap'[a] \subseteq Of(a)
                          /\ \A d \in DOMAIN containerMap'[a] :
                                containerMap'[a][d] \in DOMAIN heaps'[a]
      /\ \A a \in Types : \A j \in DOMAIN heaps'[a] : HeapOK(heaps'[a][j], Used(a, j)')
  BY <1>1, <1>2, GrownOK
<1>4. TypeOK' /\ Pools'
  BY <1>1, <1>3 DEF Inv, TypeOK, Pools, thread, owners
<1>5. SoleOwner'
  BY <1>1, OwnedSame DEF Inv, SoleOwner, Owners, thread, owners
<1>6. Homes' /\ Requests' /\ Closed' /\ Typed'
  BY <1>1 DEF Inv, Homes, Requests, Closed, Typed, thread, owners
<1>7. QED
  BY <1>4, <1>5, <1>6 DEF Inv

\* The request that is given up forgets what it got.
LEMMA AllocateFailsInv ==
  ASSUME Inv, NEW t \in Threads, NEW x \in job[t], AllocateFails(t, x)
  PROVE  Inv'
<1>1. /\ tpc[t] = "take" /\ Len(heaps[TypeOf(x)]) < MaxHeaps
      /\ heaps' = [heaps EXCEPT ![TypeOf(x)] = Append(@, FailedHeap)]
      /\ mutex' = [mutex EXCEPT ![TypeOf(x)] = {}]
      /\ tpc' = [tpc EXCEPT ![t] = IF x \in ConstantBuffers THEN "idle" ELSE "ended"]
      /\ job' = [job EXCEPT ![t] = {}] /\ got' = [got EXCEPT ![t] = <<>>]
      /\ UNCHANGED <<containerMap, owners>>
  BY DEF AllocateFails, Serving, Release, Go
<1>2. ~closing /\ ~Torn /\ TypeOf(x) \in Types
  BY <1>1, InRequest
<1>3. /\ heaps' \in [Types -> Seq(Seq(0..HeapSize))]
      /\ \A a \in Types : /\ Len(heaps'[a]) <= MaxHeaps
                          /\ DOMAIN containerMap'[a] \subseteq Of(a)
                          /\ \A d \in DOMAIN containerMap'[a] :
                                containerMap'[a][d] \in DOMAIN heaps'[a]
      /\ \A a \in Types : \A j \in DOMAIN heaps'[a] : HeapOK(heaps'[a][j], Used(a, j)')
  BY <1>1, <1>2, GrownOK
<1>4. TypeOK' /\ Pools'
  <2>1. /\ mutex' \in [Types -> SUBSET Threads] /\ tpc' \in [Threads -> PCs]
        /\ job' \in [Threads -> SUBSET Jobs] /\ got' \in [Threads -> Seq(Descriptors)]
    <3>1. mutex' \in [Types -> SUBSET Threads] /\ job' \in [Threads -> SUBSET Jobs]
      BY <1>1 DEF Inv, TypeOK
    <3>2. tpc' \in [Threads -> PCs]
      BY <1>1 DEF Inv, TypeOK, PCs
    <3>3. got' \in [Threads -> Seq(Descriptors)]
      BY <1>1 DEF Inv, TypeOK
    <3>4. QED
      BY <3>1, <3>2, <3>3
  <2>2. QED
    BY <1>1, <1>3, <2>1 DEF Inv, TypeOK, Pools, owners
<1>5. SoleOwner'
  BY <1>1, DropGot DEF owners
<1>6. Homes' /\ Requests' /\ Closed' /\ Typed'
  BY <1>1, <1>2 DEF Inv, TypeOK, Homes, Requests, Closed, Typed, owners
<1>7. QED
  BY <1>4, <1>5, <1>6 DEF Inv

-----------------------------------------------------------------------------
\* The pools are left alone.
LEMMA PoolSame ==
  ASSUME Inv, UNCHANGED pool, Torn' <=> Torn
  PROVE  /\ \A type \in Types : \A i : Used(type, i)' = Used(type, i)
         /\ Homes' /\ Pools'
<1>1. heaps' = heaps /\ containerMap' = containerMap
  BY DEF pool
<1>2. \A type \in Types : \A i : Used(type, i)' = Used(type, i)
  BY <1>1 DEF Used
<1>3. Homes'
  BY <1>1 DEF Inv, Homes
<1>4. Pools'
  <2>1. CASE Torn
    BY <2>1 DEF Pools
  <2>2. CASE ~Torn
    <3>1. \A type \in Types : \A i \in DOMAIN heaps[type] :
             HeapOK(heaps[type][i], Used(type, i))
      BY <2>2 DEF Inv, Pools
    <3>2. \A type \in Types : \A i \in DOMAIN heaps'[type] :
             HeapOK(heaps'[type][i], Used(type, i)')
      BY <1>1, <1>2, <3>1
    <3>3. QED
      BY <3>2 DEF Pools
  <2>3. QED
    BY <2>1, <2>2
<1>5. QED
  BY <1>2, <1>3, <1>4

\* A constant buffer gets its descriptors.
LEMMA FinishRangeInv ==
  ASSUME Inv, NEW t \in Threads, NEW b \in job[t], FinishRange(t, b)
  PROVE  Inv'
<1>1. /\ tpc[t] = "take" /\ b \in ConstantBuffers /\ Len(got[t]) = BufferCount
      /\ mutex' = [mutex EXCEPT ![TypeOf(b)] = {}]
      /\ tpc' = [tpc EXCEPT ![t] = "idle"]
      /\ cpuHandles' = [cpuHandles EXCEPT ![b] = got[t]]
      /\ job' = [job EXCEPT ![t] = {}] /\ got' = [got EXCEPT ![t] = <<>>]
      /\ UNCHANGED <<pool, view, erased, started, closing>>
  BY DEF FinishRange, Release, Go
<1>2. ~closing
  BY <1>1, InRequest
<1>3. got[t] \in Seq(Descriptors) /\ cpuHandles'[b] = got[t]
      /\ \A y \in ConstantBuffers \ {b} : cpuHandles'[y] = cpuHandles[y]
  BY <1>1 DEF Inv, TypeOK
<1>4. TypeOK'
  <2>1. mutex' \in [Types -> SUBSET Threads] /\ job' \in [Threads -> SUBSET Jobs]
    BY <1>1 DEF Inv, TypeOK
  <2>2. tpc' \in [Threads -> PCs]
    BY <1>1 DEF Inv, TypeOK, PCs
  <2>3. got' \in [Threads -> Seq(Descriptors)]
    BY <1>1 DEF Inv, TypeOK
  <2>4. cpuHandles' \in [ConstantBuffers -> Seq(Descriptors)]
        /\ \A y \in ConstantBuffers : Len(cpuHandles'[y]) \in {0, BufferCount}
    BY <1>1, <1>3 DEF Inv, TypeOK
  <2>5. QED
    BY <1>1, <2>1, <2>2, <2>3, <2>4 DEF Inv, TypeOK, pool
<1>5. SoleOwner'
  <2>1. OwnedBy(b)' = OwnedBy(t)
    <3>1. {cpuHandles'[b][i] : i \in DOMAIN cpuHandles'[b]} = {got[t][i] : i \in DOMAIN got[t]}
      BY <1>3
    <3>2. QED
      BY <1>1, <3>1, OwnedIs
  <2>2. \A y \in ConstantBuffers : Distinct(cpuHandles'[y])
    BY <1>3 DEF Inv, SoleOwner
  <2>3. QED
    BY <1>1, <1>3, <2>1, <2>2, HandOver DEF pool
<1>6. Requests'
  BY <1>1 DEF Inv, TypeOK, Requests
<1>7. Closed' /\ Typed'
  BY <1>1, <1>2 DEF Inv, Closed, Typed
<1>8. QED
  BY <1>1, <1>4, <1>5, <1>6, <1>7, PoolSame DEF Inv, Torn

\* A texture gets its view.
LEMMA StoreViewInv ==
  ASSUME Inv, NEW t \in Threads, NEW tex \in job[t], StoreView(t, tex)
  PROVE  Inv'
<1>1. /\ tpc[t] = "store"
      /\ view' = [view EXCEPT ![tex] = {got[t][1]}]
      /\ tpc' = [tpc EXCEPT ![t] = "idle"]
      /\ job' = [job EXCEPT ![t] = {}] /\ got' = [got EXCEPT ![t] = <<>>]
      /\ UNCHANGED <<pool, mutex, cpuHandles, erased, started, closing>>
  BY DEF StoreView, Go
<1>2. ~closing /\ tex \in Textures /\ tex \in AllTextures
  BY <1>1, InRequest DEF Inv, Requests, AllTextures
<1>3. got[t] \in Seq(Descriptors) /\ Len(got[t]) = 1 /\ DOMAIN got[t] = {1}
      /\ got[t][1] \in Of("RTV") /\ got[t][1] \in Descriptors
  <2>1. got[t] \in Seq(Descriptors) /\ Len(got[t]) = 1 /\ DOMAIN got[t] = {1}
    BY <1>1 DEF Inv, TypeOK, Requests
  <2>2. TypeOf(tex) = "RTV"
    BY <1>2, HeapAssumption DEF TypeOf
  <2>3. got[t][1] \in Of("RTV")
    BY <2>1, <2>2 DEF Inv, Requests
  <2>4. QED
    BY <2>1, <2>3
<1>4. /\ view' \in [AllTextures -> SUBSET Descriptors] /\ view'[tex] = {got[t][1]}
      /\ \A y \in AllTextures \ {tex} : view'[y] = view[y]
  BY <1>1, <1>2, <1>3 DEF Inv, TypeOK
<1>5. TypeOK'
  <2>1. job' \in [Threads -> SUBSET Jobs] /\ got' \in [Threads -> Seq(Descriptors)]
    BY <1>1 DEF Inv, TypeOK
  <2>2. tpc' \in [Threads -> PCs]
    BY <1>1 DEF Inv, TypeOK, PCs
  <2>3. QED
    BY <1>1, <1>4, <2>1, <2>2 DEF Inv, TypeOK, pool
<1>6. SoleOwner'
  <2>1. OwnedBy(tex)' = OwnedBy(t)
    <3>1. {got[t][i] : i \in DOMAIN got[t]} = {got[t][1]}
      BY <1>3
    <3>2. QED
      BY <1>2, <1>4, <3>1, OwnedIs
  <2>2. \A y \in ConstantBuffers : Distinct(cpuHandles'[y])
    BY <1>1 DEF Inv, SoleOwner
  <2>3. QED
    BY <1>1, <1>2, <1>4, <2>1, <2>2, HandOver DEF pool
<1>7. Requests'
  BY <1>1 DEF Inv, TypeOK, Requests
<1>8. Closed' /\ Typed'
  BY <1>1, <1>2, <1>3, <1>4 DEF Inv, Closed, Typed
<1>9. QED
  BY <1>1, <1>5, <1>6, <1>7, <1>8, PoolSame DEF Inv, Torn

-----------------------------------------------------------------------------
\* A texture returns its descriptors to the heap they are from.
LEMMA EraseTextureInv ==
  ASSUME Inv, NEW tex \in AllTextures, EraseTexture(tex)
  PROVE  Inv'
<1>1. /\ tex \notin erased
      /\ erased' = erased \cup {tex} /\ view' = [view EXCEPT ![tex] = {}]
      /\ \/ view[tex] = {} /\ UNCHANGED pool
         \/ \E d \in view[tex] : GiveBack("RTV", d)
      /\ UNCHANGED <<thread, cpuHandles, started, closing>>
  BY DEF EraseTexture
<1>2. ~Torn
  BY <1>1 DEF Torn
<1>3. /\ view' \in [AllTextures -> SUBSET Descriptors] /\ view'[tex] = {}
      /\ \A y \in AllTextures \ {tex} : view'[y] = view[y]
  BY <1>1 DEF Inv, TypeOK
<1>4. /\ mutex' = mutex /\ tpc' = tpc /\ job' = job /\ got' = got
      /\ cpuHandles' = cpuHandles /\ started' = started /\ closing' = closing
  BY <1>1 DEF thread
<1>5. \A y \in Owners : OwnedBy(y)' = IF y = tex THEN {} ELSE OwnedBy(y)
  <2>1. \A y \in Owners \ {tex} : OwnedBy(y)' = OwnedBy(y)
    BY <1>3, <1>4, OwnedSame DEF Owners
  <2>2. OwnedBy(tex)' = {}
    BY <1>3, OwnedIs
  <2>3. QED
    BY <2>1, <2>2
<1>6. Requests' /\ Closed' /\ Typed'
  BY <1>3, <1>4 DEF Inv, Requests, Closed, Typed
<1>7. CASE view[tex] = {} /\ UNCHANGED pool
  <2>1. containerMap' = containerMap /\ heaps' = heaps
    BY <1>7 DEF pool
  <2>2. TypeOK'
    <3>1. erased' \in SUBSET AllTextures
      BY <1>1 DEF Inv, TypeOK
    <3>2. \A a \in Types : /\ Len(heaps'[a]) <= MaxHeaps
                           /\ DOMAIN containerMap'[a] \subseteq Of(a)
                           /\ \A e \in DOMAIN containerMap'[a] :
                                 containerMap'[a][e] \in DOMAIN heaps'[a]
      BY <2>1 DEF Inv, TypeOK
    <3>3. heaps' \in [Types -> Seq(Seq(0..HeapSize))]
      BY <2>1 DEF Inv, TypeOK
    <3>4. QED
      BY <1>3, <1>4, <3>1, <3>2, <3>3 DEF Inv, TypeOK
  <2>3. Homes' /\ Pools'
    <3>1. \A a \in Types : \A j : Used(a, j)' = Used(a, j)
      BY <2>1 DEF Used
    <3>2. \A a \in Types : \A j \in DOMAIN heaps[a] : HeapOK(heaps[a][j], Used(a, j))
      BY <1>2 DEF Inv, Pools
    <3>3. \A a \in Types : \A j \in DOMAIN heaps'[a] : HeapOK(heaps'[a][j], Used(a, j)')
      BY <2>1, <3>1, <3>2
    <3>4. QED
      BY <2>1, <3>3 DEF Inv, Homes, Pools
  <2>4. SoleOwner'
    BY <1>4, <1>5, <2>1 DEF Inv, SoleOwner
  <2>5. QED
    BY <1>6, <2>2, <2>3, <2>4 DEF Inv
<1>8. ASSUME NEW d \in view[tex], GiveBack("RTV", d) PROVE Inv'
  <2> DEFINE known == DOMAIN containerMap["RTV"]
             f == heaps["RTV"][d.heap]
  <2>1. d \in Of("RTV") /\ d \in known /\ containerMap["RTV"][d] = d.heap
        /\ d.heap \in DOMAIN heaps["RTV"] /\ DOMAIN containerMap = Types
    <3>1. d \in Of("RTV")
      BY DEF Inv, Typed
    <3>2. PICK type \in Types : d \in DOMAIN containerMap[type]
      BY OwnedIs DEF Inv, SoleOwner, Owners
    <3>3. type = "RTV"
      BY <3>1, <3>2, Addresses DEF Inv, TypeOK, Types
    <3>4. QED
      BY <3>1, <3>2, <3>3 DEF Inv, Homes, TypeOK, Types
  <2>2. /\ heaps' = [heaps EXCEPT !["RTV"][d.heap] = Append(f, d.offset)]
        /\ containerMap' = [containerMap EXCEPT !["RTV"] = Forgotten(containerMap["RTV"], d)]
    BY <1>8, <2>1 DEF GiveBack, HeapOf
  <2>3. /\ DOMAIN containerMap' = Types /\ containerMap'["SRV"] = containerMap["SRV"]
        /\ DOMAIN containerMap'["RTV"] = known \ {d}
        /\ \A e \in known \ {d} : containerMap'["RTV"][e] = containerMap["RTV"][e]
    BY <2>1, <2>2 DEF Types, Forgotten
  <2>4. /\ f \in Seq(0..HeapSize) /\ d.offset \in Used("RTV", d.heap)
        /\ HeapOK(f, Used("RTV", d.heap)) /\ d.offset \in 0..HeapSize
    <3>1. "RTV" \in Types
      BY DEF Types
    <3>2. f \in Seq(0..HeapSize) /\ HeapOK(f, Used("RTV", d.heap))
      BY <1>2, <2>1, <3>1 DEF Inv, TypeOK, Pools
    <3>3. d.offset \in Offsets
      BY <2>1, <3>1, Addresses
    <3>4. d.offset \in 0..HeapSize
      BY <3>3, HeapAssumption DEF Offsets
    <3>5. QED
      BY <2>1, <3>2, <3>4 DEF Used
  <2>5. HeapOK(Append(f, d.offset), Used("RTV", d.heap) \ {d.offset})
    BY <2>4, ReturnedOK
  <2>6. /\ heaps' \in [Types -> Seq(Seq(0..HeapSize))]
        /\ \A a \in Types : Len(heaps'[a]) = Len(heaps[a]) /\ DOMAIN heaps'[a] = DOMAIN heaps[a]
        /\ heaps'["RTV"][d.heap] = Append(f, d.offset)
        /\ \A a \in Types : \A j \in DOMAIN heaps[a] :
              a # "RTV" \/ j # d.heap => heaps'[a][j] = heaps[a][j]
    <3>1. heaps \in [Types -> Seq(Seq(0..HeapSize))] /\ "RTV" \in Types
      BY DEF Inv, TypeOK, Types
    <3>2. Append(f, d.offset) \in Seq(0..HeapSize)
      BY <2>4
    <3>3. heaps' = [heaps EXCEPT !["RTV"] =
                      [heaps["RTV"] EXCEPT ![d.heap] = Append(f, d.offset)]]
      BY <2>2
    <3> HIDE DEF f
    <3>4. LET g == [heaps["RTV"] EXCEPT ![d.heap] = Append(f, d.offset)]
          IN  /\ g \in Seq(Seq(0..HeapSize)) /\ Len(g) = Len(heaps["RTV"])
              /\ DOMAIN g = DOMAIN heaps["RTV"] /\ g[d.heap] = Append(f, d.offset)
              /\ \A j \in DOMAIN heaps["RTV"] : j # d.heap => g[j] = heaps["RTV"][j]
      BY <2>1, <3>1, <3>2
    <3>5. QED
      BY <3>1, <3>3, <3>4
  <2> HIDE DEF f, known
  <2>7. TypeOK'
    <3>1. \A a \in Types : /\ DOMAIN containerMap'[a] \subseteq Of(a)
                           /\ \A e \in DOMAIN containerMap'[a] :
                                 containerMap'[a][e] \in DOMAIN heaps'[a]
      BY <2>3, <2>6 DEF Inv, TypeOK, Types, known
    <3>2. \A a \in Types : Len(heaps'[a]) <= MaxHeaps
      BY <2>6 DEF Inv, TypeOK
    <3>3. erased' \in SUBSET AllTextures
      BY <1>1 DEF Inv, TypeOK
    <3>4. QED
      BY <1>3, <1>4, <2>6, <3>1, <3>2, <3>3 DEF Inv, TypeOK
  <2>8. Homes'
    BY <2>3 DEF Inv, Homes, Types, known
  <2>9. Pools'
    <3>1. Used("RTV", d.heap)' = Used("RTV", d.heap) \ {d.offset}
      <4>1. \A e \in known : e.heap = d.heap /\ e.offset = d.offset => e = d
        BY <2>1, Addresses DEF Inv, TypeOK, Types, known
      <4>2. QED
        BY <2>1, <2>3, <4>1 DEF Used, known
    <3>2. \A a \in Types : \A j : a # "RTV" \/ j # d.heap => Used(a, j)' = Used(a, j)
      BY <2>3 DEF Used, Types, known
    <3>3. \A a \in Types : \A j \in DOMAIN heaps[a] : HeapOK(heaps[a][j], Used(a, j))
      BY <1>2 DEF Inv, Pools
    <3>4. HeapOK(heaps'["RTV"][d.heap], Used("RTV", d.heap)')
      BY <2>5, <2>6, <3>1
    <3>5. ASSUME NEW a \in Types, NEW j \in DOMAIN heaps[a], a # "RTV" \/ j # d.heap
          PROVE  HeapOK(heaps'[a][j], Used(a, j)')
      BY <2>6, <3>2, <3>3, <3>5
    <3>6. QED
      BY <2>6, <3>4, <3>5 DEF Pools
  <2>10. SoleOwner'
    <3>1. \A y \in Owners : y # tex => d \notin OwnedBy(y)
      BY OwnedIs DEF Inv, SoleOwner, Owners
    <3>2. /\ \A b \in ConstantBuffers : Distinct(cpuHandles'[b])
          /\ \A u \in Threads : Distinct(got'[u])
      BY <1>4 DEF Inv, SoleOwner
    <3>3. \A y \in Owners :
             OwnedBy(y)' \subseteq UNION {DOMAIN containerMap'[type] : type \in Types}
      BY <1>5, <2>3, <3>1 DEF Inv, SoleOwner, Types, known
    <3>4. \A y, z \in Owners : y # z => OwnedBy(y)' \cap OwnedBy(z)' = {}
      BY <1>5 DEF Inv, SoleOwner
    <3>5. QED
      BY <3>2, <3>3, <3>4 DEF SoleOwner
  <2>11. QED
    BY <1>6, <2>7, <2>8, <2>9, <2>10 DEF Inv
<1>9. QED
  BY <1>1, <1>7, <1>8

\* A constant buffer returns its descriptors to the wrong collection, when it is
\* too late for any texture.
LEMMA EraseConstantBufferInv ==
  ASSUME Inv, NEW b \in ConstantBuffers, EraseConstantBuffer(b)
  PROVE  Inv'
<1>1. PICK offset \in 0..HeapSize : heaps' = Returned(offset)
  BY DEF EraseConstantBuffer
<1>2. /\ closing /\ erased = AllTextures
      /\ cpuHandles' = [cpuHandles EXCEPT ![b] = <<>>]
      /\ UNCHANGED <<containerMap, thread, view, erased, started, closing>>
  BY DEF EraseConstantBuffer
<1> DEFINE added == [i \in 1..BufferCount |-> offset]
           f == heaps["RTV"][1]
<1>3. added \in Seq(0..HeapSize)
  BY HeapAssumption
<1>4. /\ heaps' \in [Types -> Seq(Seq(0..HeapSize))]
      /\ \A a \in Types : Len(heaps'[a]) = Len(heaps[a]) /\ DOMAIN heaps'[a] = DOMAIN heaps[a]
  <2>1. heaps \in [Types -> Seq(Seq(0..HeapSize))] /\ "RTV" \in Types
    BY DEF Inv, TypeOK, Types
  <2>2. heaps' = [heaps EXCEPT !["RTV"] = [heaps["RTV"] EXCEPT ![1] = f \o added]]
    BY <1>1 DEF Returned
  <2> HIDE DEF added, f
  <2>3. 1 \in DOMAIN heaps["RTV"] => f \o added \in Seq(0..HeapSize)
    BY <1>3, <2>1 DEF f
  <2>4. LET g == [heaps["RTV"] EXCEPT ![1] = f \o added]
        IN  /\ g \in Seq(Seq(0..HeapSize)) /\ Len(g) = Len(heaps["RTV"])
            /\ DOMAIN g = DOMAIN heaps["RTV"]
    <3>1. CASE 1 \in DOMAIN heaps["RTV"]
      <4>1. heaps["RTV"] \in Seq(Seq(0..HeapSize))
        BY <2>1
      <4>2. f \o added \in Seq(0..HeapSize)
        BY <2>3, <3>1
      <4>3. QED
        BY ONLY <3>1, <4>1, <4>2, Replaced
    <3>2. CASE 1 \notin DOMAIN heaps["RTV"]
      <4>1. [heaps["RTV"] EXCEPT ![1] = f \o added] = heaps["RTV"]
        BY <2>1, <3>2
      <4>2. heaps["RTV"] \in Seq(Seq(0..HeapSize))
        BY <2>1
      <4>3. QED
        BY ONLY <4>1, <4>2
    <3>3. QED
      BY <3>1, <3>2
  <2>5. QED
    BY <2>1, <2>2, <2>4
<1>5. cpuHandles' \in [ConstantBuffers -> Seq(Descriptors)]
      /\ cpuHandles'[b] = <<>> /\ \A y \in ConstantBuffers \ {b} : cpuHandles'[y] = cpuHandles[y]
  BY <1>2 DEF Inv, TypeOK
<1>6. TypeOK'
  <2>1. \A y \in ConstantBuffers : Len(cpuHandles'[y]) \in {0, BufferCount}
    BY <1>5 DEF Inv, TypeOK
  <2>2. \A a \in Types : /\ Len(heaps'[a]) <= MaxHeaps
                         /\ DOMAIN containerMap'[a] \subseteq Of(a)
                         /\ \A d \in DOMAIN containerMap'[a] :
                               containerMap'[a][d] \in DOMAIN heaps'[a]
    BY <1>2, <1>4 DEF Inv, TypeOK
  <2>3. QED
    BY <1>2, <1>4, <1>5, <2>1, <2>2 DEF Inv, TypeOK, thread
<1>7. Homes' /\ Requests' /\ Closed' /\ Typed'
  BY <1>2 DEF Inv, Homes, Requests, Closed, Typed, thread
<1>8. Pools'
  BY <1>2 DEF Pools, Torn
<1>9. SoleOwner'
  <2>1. OwnedBy(b)' = {}
    BY <1>5, OwnedIs
  <2>2. \A y \in Owners : OwnedBy(y)' \subseteq OwnedBy(y)
    BY <1>2, <1>5, <2>1, OwnedSame DEF Owners, thread
  <2>3. /\ \A y \in ConstantBuffers : Distinct(cpuHandles'[y])
        /\ \A u \in Threads : Distinct(got'[u])
    <3>1. Distinct(<<>>)
      BY DEF Distinct
    <3>2. QED
      BY <1>2, <1>5, <3>1 DEF Inv, SoleOwner, thread
  <2>4. \A y \in Owners :
           OwnedBy(y)' \subseteq UNION {DOMAIN containerMap'[type] : type \in Types}
    BY <1>2, <2>2 DEF Inv, SoleOwner
  <2>5. \A y, z \in Owners : y # z => OwnedBy(y)' \cap OwnedBy(z)' = {}
    BY <2>2 DEF Inv, SoleOwner
  <2>6. QED
    BY <2>3, <2>4, <2>5 DEF SoleOwner
<1>10. QED
  BY <1>6, <1>7, <1>8, <1>9 DEF Inv

-----------------------------------------------------------------------------
\* A request is made; nothing is taken yet.
LEMMA RequestInv ==
  ASSUME Inv, NEW t \in Threads, NEW x \in Jobs, Request(t, x),
         started' \in SUBSET ConstantBuffers
  PROVE  Inv'
<1>1. /\ tpc[t] = "idle" /\ ~closing
      /\ tpc' = [tpc EXCEPT ![t] = "lock"] /\ job' = [job EXCEPT ![t] = {x}]
      /\ UNCHANGED <<pool, mutex, got, view, cpuHandles, erased, closing>>
  BY DEF Request, Go
<1>2. TypeOK'
  <2>1. job' \in [Threads -> SUBSET Jobs]
    BY <1>1 DEF Inv, TypeOK
  <2>2. tpc' \in [Threads -> PCs]
    BY <1>1 DEF Inv, TypeOK, PCs
  <2>3. QED
    BY <1>1, <2>1, <2>2 DEF Inv, TypeOK, pool
<1>3. SoleOwner'
  <2>1. \A y \in Owners : OwnedBy(y)' = OwnedBy(y)
    BY <1>1, OwnedSame DEF Owners
  <2>2. QED
    BY <1>1, <2>1 DEF Inv, SoleOwner, pool
<1>4. Requests'
  <2>1. got[t] = <<>> /\ DOMAIN got[t] = {}
    BY <1>1 DEF Inv, Requests
  <2>2. QED
    BY <1>1, <2>1 DEF Inv, TypeOK, Requests
<1>5. Closed' /\ Typed'
  BY <1>1 DEF Inv, Closed, Typed
<1>6. QED
  BY <1>1, <1>2, <1>3, <1>4, <1>5, PoolSame DEF Inv, Torn

\* The mutex is taken, or given back before the view is stored.
LEMMA MutexInv ==
  ASSUME Inv, NEW t \in Threads, NEW x \in job[t],
         Acquire(t, x) \/ FinishOne(t, x)
  PROVE  Inv'
<1>1. /\ UNCHANGED <<pool, job, got, owners>>
      /\ mutex' \in [Types -> SUBSET Threads]
      /\ tpc[t] # "idle"
      /\ \/ tpc' = [tpc EXCEPT ![t] = "take"]
         \/ tpc' = [tpc EXCEPT ![t] = "store"] /\ Len(got[t]) = 1 /\ job[t] \subseteq Textures
  <2>1. CASE Acquire(t, x)
    BY <2>1 DEF Inv, TypeOK, Acquire, Go
  <2>2. CASE FinishOne(t, x)
    <3>1. x \in Jobs /\ x \in AllTextures /\ x \notin ConstantBuffers
      BY <2>2, HeapAssumption DEF FinishOne, Inv, TypeOK, AllTextures, SwapTextures
    <3>2. x \in Textures
      BY <3>1 DEF Jobs
    <3>3. QED
      BY <2>2, <3>2 DEF Inv, TypeOK, FinishOne, Release, Go
  <2>3. QED
    BY <2>1, <2>2
<1>2. ~closing
  BY <1>1 DEF Inv, Closed
<1>3. TypeOK'
  <2>1. tpc' \in [Threads -> PCs]
    BY <1>1 DEF Inv, TypeOK, PCs
  <2>2. QED
    BY <1>1, <2>1 DEF Inv, TypeOK, pool, owners
<1>4. SoleOwner'
  <2>1. \A y \in Owners : OwnedBy(y)' = OwnedBy(y)
    BY <1>1, OwnedSame DEF Owners, owners
  <2>2. QED
    BY <1>1, <2>1 DEF Inv, SoleOwner, pool, owners
<1>5. Requests' /\ Closed' /\ Typed'
  BY <1>1, <1>2 DEF Inv, TypeOK, Requests, Closed, Typed, owners
<1>6. QED
  BY <1>1, <1>3, <1>4, <1>5, PoolSame DEF Inv, Torn, owners

\* The start of the context's destructor keeps it.
LEMMA CloseInv == ASSUME Inv, Close PROVE Inv'
<1>1. /\ ~closing /\ closing' = TRUE /\ \A t \in Threads : tpc[t] = "idle"
      /\ UNCHANGED <<pool, thread, view, cpuHandles, erased, started>>
  BY DEF Close
<1>2. TypeOK' /\ Homes' /\ Requests' /\ Closed' /\ Typed'
  BY <1>1 DEF Inv, TypeOK, Homes, Requests, Closed, Typed, pool, thread
<1>3. Pools'
  <2>1. \A a \in Types : \A j \in DOMAIN heaps[a] : HeapOK(heaps[a][j], Used(a, j))
    BY <1>1 DEF Inv, Pools, Torn
  <2>2. \A a \in Types : \A j : Used(a, j)' = Used(a, j)
    BY <1>1 DEF Used, pool
  <2>3. \A a \in Types : \A j \in DOMAIN heaps'[a] : HeapOK(heaps'[a][j], Used(a, j)')
    BY <1>1, <2>1, <2>2 DEF pool
  <2>4. QED
    BY <2>3 DEF Pools
<1>4. SoleOwner'
  <2>1. \A y \in Owners : OwnedBy(y)' = OwnedBy(y)
    BY <1>1, OwnedSame DEF Owners, thread
  <2>2. QED
    BY <1>1, <2>1 DEF Inv, SoleOwner, pool, thread
<1>5. QED
  BY <1>2, <1>3, <1>4 DEF Inv

-----------------------------------------------------------------------------
\* Every step keeps it.
LEMMA NextInv == ASSUME Inv, [Next]_vars PROVE Inv'
<1>1. ASSUME NEW t \in Threads, ThreadStep(t) PROVE Inv'
  <2>1. ASSUME NEW tex \in Textures, NeedView(t, tex) PROVE Inv'
    <3>1. Request(t, tex) /\ tex \in Jobs /\ started' = started
      BY <2>1 DEF NeedView, Jobs
    <3>2. QED
      BY <3>1, RequestInv DEF Inv, TypeOK
  <2>2. ASSUME NEW b \in ConstantBuffers, NeedRange(t, b) PROVE Inv'
    <3>1. Request(t, b) /\ b \in Jobs /\ started' \in SUBSET ConstantBuffers
      BY <2>2 DEF NeedRange, Jobs, Inv, TypeOK
    <3>2. QED
      BY <3>1, RequestInv
  <2>3. ASSUME NEW x \in job[t],
               \/ Acquire(t, x) \/ TakeOne(t, x)
               \/ AllocateHeap(t, x) \/ AllocateFails(t, x)
               \/ FinishRange(t, x) \/ FinishOne(t, x) \/ StoreView(t, x)
        PROVE  Inv'
    BY <2>3, MutexInv, TakeOneInv, AllocateHeapInv, AllocateFailsInv,
       FinishRangeInv, StoreViewInv
  <2>4. QED
    BY <1>1, <2>1, <2>2, <2>3 DEF ThreadStep
<1>2. CASE UNCHANGED vars
  <2>1. /\ UNCHANGED <<pool, thread, owners>>
    BY <1>2 DEF vars
  <2>2. \A y \in Owners : OwnedBy(y)' = OwnedBy(y)
    BY <2>1, OwnedSame DEF Owners, thread, owners
  <2>3. SoleOwner'
    BY <2>1, <2>2 DEF Inv, SoleOwner, pool, thread, owners
  <2>4. TypeOK' /\ Requests' /\ Closed' /\ Typed'
    BY <2>1 DEF Inv, TypeOK, Requests, Closed, Typed, pool, thread, owners
  <2>5. QED
    BY <2>1, <2>3, <2>4, PoolSame DEF Inv, Torn, owners
<1>3. QED
  BY <1>1, <1>2, EraseTextureInv, CloseInv, EraseConstantBufferInv DEF Next

\* It holds in every state.
LEMMA InvHolds == Spec => []Inv
BY InitInv, NextInv, PTL DEF Spec

\* Whatever the threads request and give up, the pools and their owners keep
\* their types.
THEOREM TypeCorrect == Spec => []TypeOK
<1>1. Inv => TypeOK
  BY DEF Inv
<1>2. QED
  BY <1>1, InvHolds, PTL

\* Every descriptor is either once on its heap's freelist or in use, and a
\* release finds its way home: nothing is lost and nothing is handed out twice,
\* until the context's destructor mixes the collections up.
THEOREM DescriptorsPartitioned == Spec => []Partition
<1>1. Inv => Partition
  <2> SUFFICES ASSUME Inv, ~Torn PROVE Partition
    BY DEF Partition
  <2>1. \A type \in Types : \A i \in DOMAIN heaps[type] :
           HeapOK(heaps[type][i], Used(type, i))
    BY DEF Inv, Pools
  <2>2. \A type \in Types : \A d \in DOMAIN containerMap[type] :
           containerMap[type][d] = d.heap
    BY DEF Inv, Homes
  <2>3. QED
    BY <2>1, <2>2 DEF Partition, HeapOK, Free
<1>2. QED
  BY <1>1, InvHolds, PTL

\* No descriptor ever has two owners.
THEOREM OneOwner == Spec => []SoleOwner
<1>1. Inv => SoleOwner
  BY DEF Inv
<1>2. QED
  BY <1>1, InvHolds, PTL
=============================================================================
