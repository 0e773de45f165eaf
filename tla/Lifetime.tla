------------------------------- MODULE Lifetime -------------------------------
(***************************************************************************)
(* Who keeps what alive, from initialize() to the last destructor: the     *)
(* shared pointers between the framework, the Renderers of the             *)
(* application, the renderer, the context, the device and the pool, the    *)
(* raw pointers tasks are bound to, and the weak ones by which handles and *)
(* commands reach the library when they are given up.                      *)
(*                                                                         *)
(* A destructor runs on the thread that drops the last share, member by    *)
(* member in reverse order of declaration; the workers go on meanwhile.    *)
(* That a notification may be lost is in ThreadPool and left out here.     *)
(***************************************************************************)
EXTENDS Integers, Sequences

CONSTANTS Workers,   \* worker threads
          MaxUses    \* bound on handles, commands, tasks and calls of getRenderer

ASSUME LifetimeAssumption == MaxUses \in Nat

Objects == {"pool", "device", "context", "renderer"}
Holders == Objects \cup {"framework", "application"}

VARIABLES
    owns,       \* what each holder has shares of, in the order it drops them
    alive,      \* objects whose memory is there
    unwinding,  \* the destructors the application's thread is in, innermost first
    stage,      \* where initialize() is, or how it ended
    status,     \* ThreadPool::status_
    wpc, hand,  \* where each worker is, and the task it runs
    tasks,      \* tasks in the pool
    handles,    \* handles of resources and commands the application has
    closed,     \* terminate(): "no", "waiting", "done"
    fault,      \* what ended the program: a pointer that was null
    uses        \* number of uses, for their bound

app  == <<handles, closed, uses>>
pool == <<status, wpc, hand, tasks>>
own  == <<owns, alive, unwinding>>
vars == <<own, stage, pool, app, fault>>

Init == /\ owns = [h \in Holders |-> <<>>] /\ alive = {} /\ unwinding = <<>>
        /\ stage = "pool"
        /\ status = "NONE" /\ wpc = [w \in Workers |-> "none"]
        /\ hand = [w \in Workers |-> "none"] /\ tasks = <<>>
        /\ handles = <<>> /\ closed = "no" /\ uses = 0
        /\ fault = "none"

-----------------------------------------------------------------------------
(***************************************************************************)
(* initialize().                                                           *)
(***************************************************************************)

\* A new object of the framework, its own shares, and what the framework drops now.
Make(o, shares, dropped) ==
    /\ alive' = alive \cup {o}
    /\ owns' = [owns EXCEPT ![o] = shares, !["framework"] = dropped]

At(from, to) == unwinding = <<>> /\ stage = from /\ stage' = to

MakePool == /\ At("pool", "device") /\ Make("pool", <<>>, <<"pool">>)
            /\ UNCHANGED <<unwinding, pool, app, fault>>
MakeDevice == /\ At("device", "context") /\ Make("device", <<>>, <<"device", "pool">>)
              /\ UNCHANGED <<unwinding, pool, app, fault>>

\* The context with a strong pointer to the pool (a mutant).
ContextSharesStrong == <<"pool", "device">>
\* shared device_, weak threadPool_.
ContextShares == <<"device">>
MakeContext == /\ At("context", "create")
               /\ Make("context", ContextShares, <<"device", "context", "pool">>)
               /\ UNCHANGED <<unwinding, pool, app, fault>>

\* The device gets a weak pointer to the context and its swap chain.
CreateDevice == /\ At("create", "workers")
                /\ UNCHANGED <<own, pool, app, fault>>

\* Each worker has a share of the context and raw pointers to device and pool.
StartWorkers == /\ At("workers", "renderer")
                /\ owns' = [owns EXCEPT !["pool"] = <<"context">>]
                /\ wpc' = [w \in Workers |-> "loop"] /\ status' = "RUNNING"
                /\ UNCHANGED <<alive, unwinding, hand, tasks, app, fault>>

\* The renderer without a share of the pool (a mutant).
RendererSharesNot == <<"device", "context">>
\* context_, device_, threadPool_.
RendererShares == <<"pool", "device", "context">>
MakeRenderer == /\ At("renderer", "up")
                /\ Make("renderer", RendererShares, <<"device", "renderer", "context", "pool">>)
                /\ UNCHANGED <<unwinding, pool, app, fault>>

\* A part cannot be created.
InitializeFails == /\ stage \in {"create", "workers"} /\ At(stage, "failed")
                   /\ status' = IF stage = "workers" THEN "DONE" ELSE status
                   /\ UNCHANGED <<own, wpc, hand, tasks, app, fault>>

Initialize == \/ MakePool \/ MakeDevice \/ MakeContext \/ CreateDevice
              \/ StartWorkers \/ MakeRenderer \/ InitializeFails

-----------------------------------------------------------------------------
(***************************************************************************)
(* The application's thread between two destructors.                       *)
(***************************************************************************)
Calls == unwinding = <<>> /\ stage \in {"up", "failed", "gone"} /\ closed # "waiting"
Uses == Calls /\ uses < MaxUses /\ uses' = uses + 1

\* Renderer::Renderer takes a share of what the framework has.
GetRenderer == /\ Uses /\ stage = "up" /\ owns["application"] = <<>>
               /\ owns' = [owns EXCEPT !["application"] = <<"renderer">>]
               /\ UNCHANGED <<alive, unwinding, stage, pool, handles, closed, fault>>

\* A resource or a command is asked for by way of a Renderer.
Create(kind) == /\ Uses /\ owns["application"] # <<>>
                /\ handles' = Append(handles, kind)
                /\ UNCHANGED <<own, stage, pool, closed, fault>>

\* What the destructor of a handle or of a command locks, and assumes to be there.
Needs(kind) == IF kind = "command" THEN {"renderer", "context", "pool"}
                                   ELSE {"context", "pool"}

GiveUp == /\ Calls /\ handles # <<>> /\ handles' = Tail(handles)
          /\ IF Needs(Head(handles)) \subseteq alive
             THEN tasks' = Append(tasks, Head(handles)) /\ UNCHANGED fault
             ELSE fault' = "null" /\ UNCHANGED tasks
          /\ UNCHANGED <<own, stage, status, wpc, hand, closed, uses>>

\* terminate(): the barrier ...
Terminate == /\ Uses /\ stage = "up" /\ closed = "no"
             /\ closed' = "waiting" /\ status' = "BARRIER"
             /\ UNCHANGED <<own, stage, wpc, hand, tasks, handles, fault>>

\* ... without waiting for the workers (a mutant).
AllParkedNot == TRUE
\* ... is through when every worker has counted down.
AllParked == \A w \in Workers : wpc[w] = "parked"

Terminated == /\ closed = "waiting" /\ AllParked
              /\ closed' = "done" /\ tasks' = <<>>
              /\ UNCHANGED <<own, stage, status, wpc, hand, handles, uses, fault>>

DropRenderer == /\ Calls /\ owns["application"] # <<>>
                /\ unwinding' = <<"application">>
                /\ UNCHANGED <<owns, alive, stage, pool, app, fault>>

DropFramework == /\ Calls /\ stage # "gone" /\ stage' = "gone"
                 /\ unwinding' = <<"framework">>
                 /\ UNCHANGED <<owns, alive, pool, app, fault>>

Application == \/ GetRenderer \/ GiveUp \/ Terminate \/ Terminated
               \/ DropRenderer \/ DropFramework
               \/ \E kind \in {"resource", "command"} : Create(kind)

-----------------------------------------------------------------------------
(***************************************************************************)
(* Destructors.                                                            *)
(***************************************************************************)
Innermost == Head(unwinding)
Within(o) == unwinding # <<>> /\ Innermost = o

\* ~ThreadPool: the status, then the threads are joined.
Stop == /\ Within("pool") /\ status # "DONE" /\ status' = "DONE"
        /\ UNCHANGED <<own, stage, wpc, hand, tasks, app, fault>>
Joined == status = "DONE" /\ \A w \in Workers : wpc[w] \in {"none", "gone"}

Ready == unwinding # <<>> /\ (Innermost = "pool" => Joined)
Shared(x) == \E h \in Holders \ {Innermost} : \E i \in 1..Len(owns[h]) : owns[h][i] = x

\* The next member goes, and its object with it when this was the last share.
DropShare == /\ Ready /\ owns[Innermost] # <<>>
             /\ LET x == Head(owns[Innermost])
                IN  unwinding' = IF Shared(x) THEN unwinding ELSE <<x>> \o unwinding
             /\ owns' = [owns EXCEPT ![Innermost] = Tail(@)]
             /\ UNCHANGED <<alive, stage, pool, app, fault>>

\* All members are gone.
Destroyed == /\ Ready /\ owns[Innermost] = <<>>
             /\ alive' = alive \ {Innermost}
             /\ unwinding' = Tail(unwinding)
             /\ UNCHANGED <<owns, stage, pool, app, fault>>

Unwind == Stop \/ DropShare \/ Destroyed

-----------------------------------------------------------------------------
(***************************************************************************)
(* Workers.                                                                *)
(***************************************************************************)
Move(w, from, to) == wpc[w] = from /\ wpc' = [wpc EXCEPT ![w] = to]

Loop(w) == /\ Move(w, "loop", IF status = "DONE" THEN "gone" ELSE "pop")
           /\ UNCHANGED <<hand, tasks>>
Pop(w) == /\ Move(w, "pop", "run") /\ tasks # <<>>
          /\ hand' = [hand EXCEPT ![w] = Head(tasks)] /\ tasks' = Tail(tasks)
PopNothing(w) == /\ Move(w, "pop", IF status = "BARRIER" THEN "parked" ELSE "loop")
                 /\ tasks = <<>>
                 /\ UNCHANGED <<hand, tasks>>
Run(w) == /\ Move(w, "run", "loop")
          /\ hand' = [hand EXCEPT ![w] = "none"] /\ UNCHANGED tasks
WakeUp(w) == /\ Move(w, "parked", "loop") /\ status # "BARRIER"
             /\ UNCHANGED <<hand, tasks>>

Worker(w) == /\ Loop(w) \/ Pop(w) \/ PopNothing(w) \/ Run(w) \/ WakeUp(w)
             /\ UNCHANGED <<own, stage, status, app, fault>>

Next == /\ fault = "none"
        /\ Initialize \/ Application \/ Unwind \/ \E w \in Workers : Worker(w)

Spec == Init /\ [][Next]_vars

\* Destructors go on, and so does every worker.
FairSpec == /\ Spec /\ WF_vars(fault = "none" /\ Unwind)
            /\ \A w \in Workers : WF_vars(fault = "none" /\ Worker(w))

-----------------------------------------------------------------------------
\* A task points to the renderer or to the context and keeps neither alive.
Captured(kind) == CASE kind = "command"  -> {"renderer", "context", "device"}
                    [] kind = "resource" -> {"context", "device"}
                    [] OTHER             -> {}

\* After terminate() no worker runs a task of an object that is gone, although the
\* renderer goes before the threads are joined; handles given up in between only
\* queue tasks that nobody runs.  Without terminate() this still holds for all but
\* commands, whose renderer is gone when the framework outlived every Renderer.
NoDangling == \A w \in Workers : \/ Captured(hand[w]) \subseteq alive
                                 \/ closed # "done" /\ hand[w] = "command"

\* The weak pointer of a handle or command finds the library as long as the framework
\* or a Renderer lives, in whatever order they go; also a Renderer alone keeps the
\* context, and the pool that destructions are submitted to.
HandlesFindTheLibrary == fault = "null" => stage = "gone" /\ owns["application"] = <<>>

\* When the framework and the Renderer are given up everything is destroyed, threads
\* are joined, and no cycle of shares keeps anything alive.
EverythingReleased ==
    (stage = "gone" /\ owns["application"] = <<>>) ~> (alive = {} \/ fault # "none")
=============================================================================
