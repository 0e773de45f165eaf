----------------------------- MODULE DX12Device -----------------------------
(***************************************************************************)
(* The frame synchronisation of DX12Device (dx12_device.cpp): one fence    *)
(* value per swap chain buffer, the command lists of the current frame,    *)
(* present(), executeCommandList() and createSwapChain(), against a GPU    *)
(* that works through its command queue in order and at its own pace.      *)
(* The command queue, the fence and its event are external: they are       *)
(* modelled from the calls the code makes.                                 *)
(***************************************************************************)
EXTENDS Integers, Sequences

CONSTANTS BufferCount,   \* bufferCount_
          MaxCalls,      \* bound on the calls of the application
          Rewinding      \* may Signal set the fence to a smaller value?

ASSUME DeviceAssumption == /\ BufferCount \in Nat /\ BufferCount >= 2
                           /\ MaxCalls \in Nat
                           /\ Rewinding \in BOOLEAN

Frames == 0..(BufferCount - 1)

VARIABLES
    fenceValues,   \* fenceValues_
    currentFrame,  \* currentFrame_
    lists,         \* frames whose commandLists_ is not empty
    again,         \* createSwapChain() calls that follow the current one
    dpc,           \* where the framework's thread is
    calls,         \* number of calls made, bounded by MaxCalls
    gpuQueue,      \* commandQueue_: what the GPU still has to do
    completed,     \* fence_->GetCompletedValue()
    waitFor,       \* value fenceEvent_ is armed for, 0: none
    event,         \* fenceEvent_ is set
    signaled       \* history: largest value passed to Signal

cpu   == <<fenceValues, currentFrame, lists>>
gpu   == <<gpuQueue, completed, waitFor, event, signaled>>
vars  == <<cpu, again, gpu, dpc, calls>>

Larger(a, b) == IF a > b THEN a ELSE b

\* createDevice: the current frame's value is one ahead of the fence.
Init == /\ fenceValues = [f \in Frames |-> IF f = 0 THEN 1 ELSE 0]
        /\ currentFrame = 0 /\ lists = {}
        /\ again = 0 /\ dpc = "swapChain" /\ calls = 0
        /\ gpuQueue = <<>> /\ completed = 0
        /\ waitFor = 0 /\ event = FALSE /\ signaled = 0

Go(from, to) == dpc = from /\ dpc' = to
Batch(f)  == [op |-> "execute", frame |-> f]
Signal(v) == [op |-> "signal", value |-> v]

\* SetEventOnCompletion(v, fenceEvent_).
Arm(v) == waitFor' = v /\ event' = (completed >= v)

\* WaitForSingleObjectEx(fenceEvent_) returned.
Awaited == event /\ event' = FALSE /\ waitFor' = 0

-----------------------------------------------------------------------------
\* waitForGpu up to the wait, with what was queued right before it.
SignalAndWait(batch) ==
    LET v == fenceValues[currentFrame]
    IN  /\ gpuQueue' = gpuQueue \o batch \o <<Signal(v)>>
        /\ signaled' = Larger(signaled, v)
        /\ Arm(v)
        /\ UNCHANGED <<cpu, completed>>

\* DropLists that keeps the lists (a mutant).
DropListsKept ==
    /\ Awaited
    /\ fenceValues' = [fenceValues EXCEPT ![currentFrame] = @ + 1]
    /\ UNCHANGED <<lists, currentFrame, gpuQueue, completed, signaled>>

\* waitForGpu after the wait.
DropLists ==
    /\ Awaited
    /\ lists' = lists \ {currentFrame}
    /\ fenceValues' = [fenceValues EXCEPT ![currentFrame] = @ + 1]
    /\ UNCHANGED <<currentFrame, gpuQueue, completed, signaled>>

-----------------------------------------------------------------------------
(* createSwapChain.                                                        *)

SwapChainWait == /\ Go("swapChain", "swapWait")
                 /\ SignalAndWait(<<>>)
                 /\ UNCHANGED <<again, calls>>

SwapChainDrained == /\ Go("swapWait", "swapMake")
                    /\ DropLists
                    /\ UNCHANGED <<again, calls>>

\* ResetFrames with the index one past the last frame (a mutant).
ResetFramesLast ==
    /\ fenceValues' = [f \in Frames |-> fenceValues[currentFrame]]
    /\ currentFrame' = BufferCount

\* All frames continue from the value of the current one, and frame 0 is next.
ResetFrames ==
    /\ fenceValues' = [f \in Frames |-> fenceValues[currentFrame]]
    /\ currentFrame' = 0

\* The textures of the swap chain and their views are in DescriptorHeap.
SwapChainMake ==
    /\ dpc = "swapMake"
    /\ ResetFrames
    /\ IF again > 0 THEN again' = again - 1 /\ dpc' = "swapChain"
                    ELSE dpc' = "idle" /\ UNCHANGED again
    /\ UNCHANGED <<lists, gpu, calls>>

\* FrameworkImpl::setWindowSize makes the swap chain twice, the orientation
\* and the dpi once.
ChangeWindow(times) ==
    /\ Go("idle", "swapChain")
    /\ calls < MaxCalls /\ calls' = calls + 1
    /\ again' = times - 1
    /\ UNCHANGED <<cpu, gpu>>

-----------------------------------------------------------------------------
(* FrameworkImpl::present, from submitGPUCommandLists on.                  *)

\* The workers handed in some command lists for the current frame, or none.
SubmitLists(some) ==
    /\ Go("idle", "execute")
    /\ calls < MaxCalls /\ calls' = calls + 1
    /\ lists' = IF some THEN lists \cup {currentFrame} ELSE lists
    /\ UNCHANGED <<fenceValues, currentFrame, again, gpu>>

ExecuteCommandList ==
    /\ dpc = "execute"
    /\ IF currentFrame \in lists
       THEN dpc' = "executeWait" /\ SignalAndWait(<<Batch(currentFrame)>>)
       ELSE dpc' = "present" /\ UNCHANGED <<cpu, gpu>>
    /\ UNCHANGED <<again, calls>>

Executed == /\ Go("executeWait", "present")
            /\ DropLists
            /\ UNCHANGED <<again, calls>>

NextFrame == (currentFrame + 1) % BufferCount

\* Present that waits for the frame that just ended without signaling it (a mutant).
PresentUnsignaled ==
    /\ Go("present", "frameWait")
    /\ currentFrame' = NextFrame
    /\ Arm(fenceValues[currentFrame])
    /\ UNCHANGED <<fenceValues, lists, again, gpuQueue, signaled, completed, calls>>

\* Signal the frame that ends, advance, and see whether the next one is ready.
Present ==
    /\ Go("present", "frameWait")
    /\ gpuQueue' = Append(gpuQueue, Signal(fenceValues[currentFrame]))
    /\ signaled' = Larger(signaled, fenceValues[currentFrame])
    /\ currentFrame' = NextFrame
    /\ Arm(fenceValues[NextFrame])
    /\ UNCHANGED <<fenceValues, lists, again, completed, calls>>

FrameReady ==
    /\ Go("frameWait", "idle")
    /\ Awaited
    /\ fenceValues' = [fenceValues EXCEPT ![currentFrame] = @ + 1]
    /\ UNCHANGED <<currentFrame, lists, again, gpuQueue, completed, signaled, calls>>

\* Present or validate finds the device removed: it is released and an
\* exception ends the program.
DeviceRemoved ==
    /\ dpc \in {"present", "idle"} /\ dpc' = "lost"
    /\ UNCHANGED <<cpu, again, gpu, calls>>

-----------------------------------------------------------------------------
(* The GPU takes what it has to do in order.                               *)
FenceAfter(v) == IF Rewinding THEN v ELSE Larger(completed, v)

GpuStep ==
    /\ gpuQueue # <<>>
    /\ gpuQueue' = Tail(gpuQueue)
    /\ IF Head(gpuQueue).op = "signal"
       THEN /\ completed' = FenceAfter(Head(gpuQueue).value)
            /\ event' = (event \/ (waitFor > 0 /\ completed' >= waitFor))
       ELSE UNCHANGED <<completed, event>>
    /\ UNCHANGED <<cpu, again, waitFor, signaled, dpc, calls>>

Step == \/ SwapChainWait \/ SwapChainDrained \/ SwapChainMake
        \/ ExecuteCommandList \/ Executed \/ Present \/ FrameReady

Next == \/ Step \/ GpuStep \/ DeviceRemoved
        \/ \E times \in {1, 2} : ChangeWindow(times)
        \/ \E some \in BOOLEAN : SubmitLists(some)

Spec == Init /\ [][Next]_vars

\* The thread runs when its event is set, and the GPU does not stop.
FairSpec == Spec /\ WF_vars(Step) /\ WF_vars(GpuStep)

-----------------------------------------------------------------------------
Items == [op : {"execute"}, frame : Frames] \cup [op : {"signal"}, value : Nat]
PCs == {"swapChain", "swapWait", "swapMake", "idle", "execute", "executeWait",
        "present", "frameWait", "lost"}

\* Every variable stays in its range; the current frame is always a frame.
TypeOK ==
    /\ fenceValues \in [Frames -> Nat]
    /\ currentFrame \in Frames
    /\ lists \in SUBSET Frames
    /\ again \in 0..1 /\ dpc \in PCs /\ calls \in 0..MaxCalls
    /\ gpuQueue \in Seq(Items)
    /\ completed \in Nat /\ waitFor \in Nat /\ event \in BOOLEAN
    /\ signaled \in Nat

\* present() and waitForGpu() never wait for a value that was not signaled:
\* however the per-frame values drift apart, no wait is for nothing.
WaitsForSignaled == waitFor <= signaled

\* Between frames and at every wait only the current frame has command lists:
\* a list handed in for a frame is executed in that frame and dropped.
OtherFramesEmpty == lists \subseteq {currentFrame}

\* Every wait ends, on a fence that never goes back.
WaitEnds == waitFor > 0 ~> waitFor = 0

-----------------------------------------------------------------------------
(* Claims of comments that the code does not keep.                         *)

\* dx12_device.cpp:341: "Check to see if the next frame is ready to start."
\* When a frame index comes round again the GPU has finished what was executed
\* under it the time before, as DX12Worker::main relies on when it resets that
\* frame's allocator.
FrameReusable ==
    dpc \in {"idle", "execute"} =>
       \A i \in DOMAIN gpuQueue :
          gpuQueue[i].op = "execute" => gpuQueue[i].frame # currentFrame
=============================================================================
