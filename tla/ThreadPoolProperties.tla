------------------------ MODULE ThreadPoolProperties ------------------------
(***************************************************************************)
(* What makes ThreadPool correct, and what its comments claim of it.       *)
(***************************************************************************)
EXTENDS ThreadPool

WorkerPCs == {"unborn", "loop", "gpu", "record", "gen", "run", "check", "latch",
              "latched", "pred", "block", "asleep", "done"}
MainPCs == {"spawn", "unwind", "app", "lock", "barrier", "wait", "waiting",
            "reset", "swap", "clear", "clearWorkers", "recreate", "reorient",
            "resume", "notify", "submit", "drop", "terminated", "notifyStop",
            "join", "gone"}
CallNames == {"none", "present", "resize", "reorient", "terminate"}

\* Every variable stays in its range; in particular the latch stays in
\* 0..numWorkers_, which boost::latch asserts and the code relies on.
TypeOK ==
    /\ status \in {"NONE", "RUNNING", "BARRIER", "DONE"}
    /\ latchCount \in 0..N
    /\ latchWait \in SUBSET (Workers \cup {Main})
    /\ condWait \in SUBSET Workers
    /\ counted \in SUBSET Workers
    /\ wpc \in [Workers -> WorkerPCs]
    /\ hand \in [Workers -> SUBSET Entries]
    /\ mpc \in MainPCs /\ call \in CallNames /\ calls \in 0..MaxCalls
    /\ left \in SUBSET Workers /\ cur \in SUBSET Workers
    /\ gpu \in [Slots -> Seq(Entries)]
    /\ gen \in [Slots -> Seq(Entries)]
    /\ cmdList \in [Workers -> SUBSET Tasks]
    /\ devList \in SUBSET Tasks /\ executed \in SUBSET Tasks
    /\ todo \in [Clients -> Seq(Tasks)]
    /\ fresh \in SUBSET Requests
    /\ readers \in SUBSET Clients
    /\ clock \in 0..MaxCalls
    /\ ran \in SUBSET Tasks

-----------------------------------------------------------------------------
(* Safety of the barrier.                                                  *)

\* The latch counts exactly the workers that did not arrive since its last
\* reset, and no worker arrives twice, however late it woke up from an earlier
\* barrier: boost::latch's own assertion (count_ > 0) cannot fail.
LatchExact ==
    /\ latchCount = Cardinality(Workers \ counted)
    /\ \A w \in Workers : wpc[w] = "latch" => w \notin counted

\* From the moment barrier() returns until the status is RUNNING again, every
\* worker is between its count-down and the end of its cond_.wait: the
\* unsynchronised ThreadSafeQueue::swap and clear, and DX12Worker::clear, run
\* against nobody.
WorkersParked == Exclusive => \A w \in Workers : Parked(w)

\* renderer_impl.h:86: "this shared mutex is required to prevent commands from
\* being created while swapping thread pool frames".  While present() or
\* setWindowSize() has the queues for itself no client is between two pushes.
NoPushInside ==
    mpc \in {"swap", "clear"} => \A c \in Producers : todo[c] = <<>>

\* A task never runs before the swaps it was submitted for: the upload buffer
\* of frame f is not discarded in frame f, however the workers are scheduled.
NeverEarly == \A w \in Workers : \A e \in hand[w] : e.due <= clock

\* The tasks of one API call stay at the distance they were submitted with: no
\* swap comes between two pushes of a createBuffer or a destroyResource.
Live == (UNION {hand[w] : w \in Workers})
          \cup (UNION {{q[s][i] : i \in DOMAIN q[s]} : s \in Slots, q \in {gpu, gen}})
RequestAligned ==
    \A e, f \in Live :
        e.req = f.req => e.due - Slot(e.op) = f.due - Slot(f.op)

\* A task is in one place: still to be pushed, at one position of one queue, in
\* the hand of one worker, or run.  A recorded command is in one list: of one
\* worker, of the device, or executed; only the list being moved overlaps.
Queued == UNION {{TaskOf(q[s][i]) : i \in DOMAIN q[s]} : s \in Slots, q \in {gpu, gen}}
Held(w) == {TaskOf(e) : e \in hand[w]}
Disjoint(A, B) == A \cap B = {}
AtMostOnce ==
    /\ \A s \in Slots, q \in {gpu, gen} : \A i, j \in DOMAIN q[s] :
          TaskOf(q[s][i]) = TaskOf(q[s][j]) => i = j
    /\ \A s, r \in Slots, q, p \in {gpu, gen} :
          (s # r \/ q # p) =>
             \A i \in DOMAIN q[s], j \in DOMAIN p[r] : TaskOf(q[s][i]) # TaskOf(p[r][j])
    /\ Disjoint(Queued, ran)
    /\ \A w \in Workers :
          /\ Disjoint(Held(w), Queued \cup ran)
          /\ \A v \in Workers \ {w} : /\ Disjoint(Held(w), Held(v))
                                      /\ Disjoint(cmdList[w], cmdList[v])
          /\ Disjoint(cmdList[w], executed)
          /\ w \notin cur => Disjoint(cmdList[w], devList)
    /\ Disjoint(devList, executed)

-----------------------------------------------------------------------------
(* The pool keeps the promise of FrameBarrier.                             *)

Pending == Queued
Taken == ran \cup UNION {Held(w) : w \in Workers}
Inside == {w \in Workers : ~Parked(w) /\ wpc[w] \notin {"unborn", "done"}}
Phase == CASE status = "DONE" -> "stopped"
           [] status = "BARRIER" /\ Exclusive -> "exclusive"
           [] status = "BARRIER" /\ ~Exclusive -> "closing"
           [] OTHER -> "open"

Barrier == INSTANCE FrameBarrier
             WITH phase <- Phase, running <- Inside, pool <- Pending, taken <- Taken

\* ThreadPool, its workers and the framework's calls implement FrameBarrier.
KeepsPromise == Barrier!Spec

-----------------------------------------------------------------------------
(* Progress.                                                               *)

\* A worker that is still in the cond_.wait of an earlier barrier although a
\* new barrier was raised: it missed the wake-up in between and will not count.
Stale(w) == /\ wpc[w] \in {"block", "asleep"}
            /\ w \notin counted
            /\ mpc \in {"wait", "waiting"}

\* barrier() returns, unless some worker missed the wake-up of an earlier frame;
\* in particular nothing else (the queues, the renderer's lock, the two kinds of
\* waiting) can hold it up.
BarrierReturns == mpc = "wait" ~> (mpc \notin {"wait", "waiting"}
                                    \/ \E w \in Workers : Stale(w))

\* The first barrier always returns: there is no earlier frame to be missed.
FirstBarrierReturns ==
    (mpc = "wait" /\ calls = 1 /\ call # "terminate") ~> mpc = "reset"

-----------------------------------------------------------------------------
(* Claims of comments that the code does not keep.                         *)

\* thread_pool.h:132: "condition_variable is to tell them to resume work".  A
\* worker asleep when the pool is resumed or stopped wakes up.
ResumeWakes == \A w \in Workers :
    (wpc[w] = "asleep" /\ status \in {"RUNNING", "DONE"}) ~> wpc[w] # "asleep"
=============================================================================
