-------------------------- MODULE DX12DeviceProofs --------------------------
(***************************************************************************)
(* DX12Device never waits for a fence value that was not signaled, for any *)
(* number of buffers and calls, and whatever the fence does with a value   *)
(* that is smaller than its own.                                           *)
(***************************************************************************)
EXTENDS DX12Device, TLAPS

\* At a wait the current frame's value has been signaled; otherwise it is at
\* most one ahead.  No other frame is ahead of both.
FenceInv ==
    /\ fenceValues[currentFrame] <= signaled + 1
    /\ dpc \in {"swapWait", "executeWait", "frameWait"}
          => fenceValues[currentFrame] <= signaled
    /\ \A f \in Frames : fenceValues[f] <= Larger(signaled, fenceValues[currentFrame])
    /\ WaitsForSignaled

\* The index of the next frame is an index.
LEMMA NextFrameType == ASSUME currentFrame \in Frames PROVE NextFrame \in Frames
<1>1. currentFrame \in Nat /\ BufferCount \in Nat /\ BufferCount > 0
  BY DeviceAssumption DEF Frames
<1>2. (currentFrame + 1) % BufferCount \in 0..(BufferCount - 1)
  BY <1>1
<1>3. QED
  BY <1>2 DEF NextFrame, Frames

\* What the code queues are items of the command queue.
LEMMA SignalType == ASSUME TypeOK PROVE Signal(fenceValues[currentFrame]) \in Items
  BY DEF TypeOK, Signal, Items

\* So is a batch of command lists.
LEMMA BatchType == ASSUME TypeOK PROVE Batch(currentFrame) \in Items
  BY DEF TypeOK, Batch, Items

\* One more for the current frame keeps the values numbers.
LEMMA CountType ==
  ASSUME TypeOK PROVE [fenceValues EXCEPT ![currentFrame] = @ + 1] \in [Frames -> Nat]
<1>1. fenceValues \in [Frames -> Nat] /\ currentFrame \in Frames
  BY DEF TypeOK
<1>2. fenceValues[currentFrame] + 1 \in Nat
  BY <1>1
<1>3. QED
  BY <1>1, <1>2

\* What waitForGpu does up to its wait keeps the GPU's side in its types.
LEMMA WaitType ==
  ASSUME TypeOK, NEW batch \in Seq(Items), SignalAndWait(batch)
  PROVE  /\ gpuQueue' \in Seq(Items) /\ signaled' \in Nat
         /\ waitFor' \in Nat /\ event' \in BOOLEAN
         /\ UNCHANGED <<fenceValues, currentFrame, lists, completed>>
<1>1. fenceValues[currentFrame] \in Nat /\ gpuQueue \in Seq(Items)
  BY DEF TypeOK
<1>2. <<Signal(fenceValues[currentFrame])>> \in Seq(Items)
  BY SignalType
<1>3. gpuQueue' = gpuQueue \o batch \o <<Signal(fenceValues[currentFrame])>>
  BY DEF SignalAndWait
<1>4. gpuQueue' \in Seq(Items)
  BY <1>1, <1>2, <1>3
<1>5. signaled' \in Nat /\ waitFor' \in Nat /\ event' \in BOOLEAN
  BY <1>1 DEF SignalAndWait, Arm, Larger, TypeOK
<1>6. QED
  BY <1>4, <1>5 DEF SignalAndWait, cpu

-----------------------------------------------------------------------------
\* Every step preserves the type invariant.
LEMMA TypeStep == ASSUME TypeOK, [Next]_vars PROVE TypeOK'
<1> USE DEF TypeOK, PCs, Go, cpu, gpu
<1>1. ASSUME SwapChainWait PROVE TypeOK'
  <2>1. SignalAndWait(<<>>) /\ <<>> \in Seq(Items)
    BY <1>1 DEF SwapChainWait
  <2>2. QED
    BY <1>1, <2>1, WaitType DEF SwapChainWait
<1>2. ASSUME SwapChainDrained PROVE TypeOK'
  <2>1. fenceValues' \in [Frames -> Nat]
    BY <1>2, CountType DEF SwapChainDrained, DropLists
  <2>2. QED
    BY <1>2, <2>1 DEF SwapChainDrained, DropLists, Awaited
<1>3. ASSUME SwapChainMake PROVE TypeOK'
  <2>1. 0 \in Frames
    BY DeviceAssumption DEF Frames
  <2>2. QED
    BY <1>3, <2>1, DeviceAssumption DEF SwapChainMake, ResetFrames
<1>4. ASSUME ExecuteCommandList PROVE TypeOK'
  <2>1. <<Batch(currentFrame)>> \in Seq(Items)
    BY BatchType
  <2>2. CASE currentFrame \in lists
    <3>1. SignalAndWait(<<Batch(currentFrame)>>)
      BY <1>4, <2>2 DEF ExecuteCommandList
    <3>2. QED
      BY <1>4, <2>1, <2>2, <3>1, WaitType DEF ExecuteCommandList
  <2>3. CASE currentFrame \notin lists
    BY <1>4, <2>3 DEF ExecuteCommandList
  <2>4. QED
    BY <2>2, <2>3
<1>5. ASSUME Executed PROVE TypeOK'
  <2>1. fenceValues' \in [Frames -> Nat]
    BY <1>5, CountType DEF Executed, DropLists
  <2>2. QED
    BY <1>5, <2>1 DEF Executed, DropLists, Awaited
<1>6. ASSUME Present PROVE TypeOK'
  <2>1. Append(gpuQueue, Signal(fenceValues[currentFrame])) \in Seq(Items)
    BY SignalType
  <2>2. NextFrame \in Frames
    BY NextFrameType
  <2>3. QED
    BY <1>6, <2>1, <2>2 DEF Present, Arm, Larger
<1>7. ASSUME FrameReady PROVE TypeOK'
  <2>1. fenceValues' \in [Frames -> Nat]
    BY <1>7, CountType DEF FrameReady
  <2>2. QED
    BY <1>7, <2>1 DEF FrameReady, Awaited
<1>8. ASSUME GpuStep PROVE TypeOK'
  <2>1. Head(gpuQueue) \in Items /\ Tail(gpuQueue) \in Seq(Items)
    BY <1>8 DEF GpuStep
  <2>2. Head(gpuQueue).op = "signal" => Head(gpuQueue).value \in Nat
    BY <2>1 DEF Items
  <2>3. QED
    BY <1>8, <2>1, <2>2 DEF GpuStep, FenceAfter, Larger
<1>9. ASSUME DeviceRemoved PROVE TypeOK'
  BY <1>9 DEF DeviceRemoved
<1>10. ASSUME NEW times \in {1, 2}, ChangeWindow(times) PROVE TypeOK'
  BY <1>10, DeviceAssumption DEF ChangeWindow
<1>11. ASSUME NEW some \in BOOLEAN, SubmitLists(some) PROVE TypeOK'
  BY <1>11, DeviceAssumption DEF SubmitLists
<1>12. ASSUME UNCHANGED vars PROVE TypeOK'
  BY <1>12 DEF vars
<1>13. QED
  BY <1>1, <1>2, <1>3, <1>4, <1>5, <1>6, <1>7, <1>8, <1>9, <1>10, <1>11, <1>12
     DEF Next, Step

\* Every step preserves the relation of the frames' values to the signals.
LEMMA FenceStep == ASSUME TypeOK, FenceInv, [Next]_vars PROVE FenceInv'
<1> USE DEF TypeOK, FenceInv, WaitsForSignaled, Go, SignalAndWait, DropLists, Arm, Awaited,
        Larger, cpu, gpu
<1>1. ASSUME SwapChainWait PROVE FenceInv'
  BY <1>1 DEF SwapChainWait
<1>2. ASSUME SwapChainDrained PROVE FenceInv'
  BY <1>2 DEF SwapChainDrained
<1>3. ASSUME SwapChainMake PROVE FenceInv'
  <2>1. 0 \in Frames
    BY DeviceAssumption DEF Frames
  <2>2. QED
    BY <1>3, <2>1 DEF SwapChainMake, ResetFrames
<1>4. ASSUME ExecuteCommandList PROVE FenceInv'
  BY <1>4 DEF ExecuteCommandList
<1>5. ASSUME Executed PROVE FenceInv'
  BY <1>5 DEF Executed
<1>6. ASSUME Present PROVE FenceInv'
  <2>1. NextFrame \in Frames
    BY NextFrameType
  <2>2. QED
    BY <1>6, <2>1 DEF Present
<1>7. ASSUME FrameReady PROVE FenceInv'
  BY <1>7 DEF FrameReady
<1>8. ASSUME GpuStep PROVE FenceInv'
  BY <1>8 DEF GpuStep
<1>9. ASSUME DeviceRemoved PROVE FenceInv'
  BY <1>9 DEF DeviceRemoved
<1>10. ASSUME NEW times \in {1, 2}, ChangeWindow(times) PROVE FenceInv'
  BY <1>10 DEF ChangeWindow
<1>11. ASSUME NEW some \in BOOLEAN, SubmitLists(some) PROVE FenceInv'
  BY <1>11 DEF SubmitLists
<1>12. ASSUME UNCHANGED vars PROVE FenceInv'
  BY <1>12 DEF vars
<1>13. QED
  BY <1>1, <1>2, <1>3, <1>4, <1>5, <1>6, <1>7, <1>8, <1>9, <1>10, <1>11, <1>12
     DEF Next, Step

-----------------------------------------------------------------------------
\* Every variable stays in its range, the current frame below bufferCount_.
THEOREM TypeCorrect == Spec => []TypeOK
<1>1. Init => TypeOK
  BY DeviceAssumption DEF Init, TypeOK, PCs, Frames
<1>2. TypeOK /\ [Next]_vars => TypeOK'
  BY TypeStep
<1>3. QED
  BY <1>1, <1>2, PTL DEF Spec

\* present(), executeCommandList() and createSwapChain() never wait for a value
\* that was not signaled.
THEOREM NoWaitForNothing == Spec => []WaitsForSignaled
<1>1. Init => FenceInv
  <2>1. SUFFICES ASSUME Init PROVE FenceInv
    OBVIOUS
  <2>2. 0 \in Frames /\ fenceValues[0] = 1 /\ currentFrame = 0 /\ signaled = 0
    BY <2>1, DeviceAssumption DEF Init, Frames
  <2>3. \A f \in Frames : fenceValues[f] \in {0, 1}
    BY <2>1 DEF Init
  <2>4. QED
    BY <2>1, <2>2, <2>3 DEF Init, FenceInv, WaitsForSignaled, Larger
<1>2. TypeOK /\ FenceInv /\ [Next]_vars => FenceInv'
  BY FenceStep
<1>3. FenceInv => WaitsForSignaled
  BY DEF FenceInv
<1>4. QED
  BY <1>1, <1>2, <1>3, TypeCorrect, PTL DEF Spec

\* Only the current frame ever has command lists.
THEOREM ListsOfCurrentFrame == Spec => []OtherFramesEmpty
<1> DEFINE ListInv == lists \subseteq (IF dpc \in {"execute", "executeWait"}
                                       THEN {currentFrame} ELSE {})
<1>1. Init => ListInv
  BY DEF Init
<1>2. ListInv /\ [Next]_vars => ListInv'
  BY DEF Next, Step, vars, cpu, gpu, Go, SwapChainWait, SwapChainDrained, SwapChainMake,
     ExecuteCommandList, Executed, Present, FrameReady, GpuStep, DeviceRemoved, ChangeWindow,
     SubmitLists, SignalAndWait, DropLists, Awaited, ResetFrames
<1>3. ListInv => OtherFramesEmpty
  BY DEF OtherFramesEmpty
<1>4. QED
  BY <1>1, <1>2, <1>3, PTL DEF Spec
=============================================================================
