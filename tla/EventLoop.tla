------------------------------ MODULE EventLoop ------------------------------
(***************************************************************************)
(* xop::EventLoop: the loop threads and the mutex that every call of it    *)
(* takes, Quit included, which holds it while it joins the threads.        *)
(*                                                                         *)
(* A scheduler is what TaskScheduler says of one: Start resets             *)
(* is_shutdown_, Stop sets it, and a loop that sees it set ends.  Callers  *)
(* are the application's threads; a loop thread calls from inside its      *)
(* callbacks (Acceptor::OnAccept asks for a scheduler).                    *)
(***************************************************************************)
EXTENDS Integers, FiniteSets

CONSTANTS MaxThreads,   \* bound: the most threads the application asks for
          Callers,      \* application threads other than the one that quits
          NoOne,        \* mutex_ is free
          Quitter       \* the thread in Quit, the destructor's included

ASSUME LoopAssumption == /\ MaxThreads \in Nat \ {0}
                         /\ NoOne \notin Callers /\ Quitter \notin Callers
                         /\ NoOne # Quitter

VARIABLES
    num_threads, \* num_threads_, as the constructor leaves it
    mutex,       \* who holds mutex_: NoOne, Quitter or an OnAccept's thread
    size,        \* task_schedulers_.size(), and threads_'s
    index,       \* index_
    chosen,      \* the scheduler GetTaskScheduler answered last
    thrown,      \* vector::at has thrown
    is_shutdown, \* is_shutdown[l] of each scheduler
    loop,        \* loop[l]: where its thread is
    quit,        \* where Quit is
    at,          \* the scheduler or thread Quit is at
    forgotten    \* history: loops whose Start came after Quit's Stop

callVars == <<index, chosen, thrown>>
quitVars == <<quit, at>>
vars == <<num_threads, mutex, size, callVars, is_shutdown, loop, quitVars,
          forgotten>>

Loops == 0 .. num_threads - 1

\* The constructor has run Loop: the threads exist and may not have started.
Init == /\ num_threads \in 1 .. MaxThreads
        /\ mutex = NoOne
        /\ size = num_threads
        /\ index = 1
        /\ chosen = 0
        /\ thrown = FALSE
        /\ is_shutdown = [l \in Loops |-> FALSE]
        /\ loop = [l \in Loops |-> "created"]
        /\ quit = "idle" /\ at = 0
        /\ forgotten = {}

-----------------------------------------------------------------------------
(* Calls: lock, work, unlock, in one step as nothing of it can block.      *)

\* Mutant: the index wraps one too late.
NextIndex_Late == IF index + 1 > size THEN 1 ELSE index + 1

NextIndex == IF index + 1 >= size THEN 1 ELSE index + 1

\* vector::at throws where there is no such scheduler.
GetTaskScheduler ==
    /\ mutex = NoOne
    /\ UNCHANGED num_threads
    /\ \/ size = 1 /\ chosen' = 0 /\ UNCHANGED <<index, thrown>>
       \/ size # 1 /\ index < size
          /\ chosen' = index /\ index' = NextIndex /\ UNCHANGED thrown
       \/ size # 1 /\ index >= size
          /\ thrown' = TRUE /\ UNCHANGED <<index, chosen>>

\* Another thread asks for a scheduler.  UpdateChannel and the calls after it
\* are not modelled here: they take the mutex as this does and do to the first
\* scheduler what TaskScheduler and TimerQueue say, and nothing to the pool.
Call(t) == /\ ~thrown
           /\ GetTaskScheduler
           /\ UNCHANGED <<mutex, size, is_shutdown, loop, quitVars, forgotten>>

-----------------------------------------------------------------------------
(* The loop threads.                                                       *)

Begin(l) == /\ loop[l] = "created"
            /\ loop' = [loop EXCEPT ![l] = "running"]
            /\ is_shutdown' = [is_shutdown EXCEPT ![l] = FALSE]
            /\ forgotten' = IF is_shutdown[l] THEN forgotten \cup {l} ELSE forgotten
            /\ UNCHANGED <<num_threads, mutex, size, callVars, quitVars>>

\* A callback of the loop is about to call EventLoop ...
Enter(l) == /\ loop[l] = "running" /\ l = 0
            /\ loop' = [loop EXCEPT ![l] = "calling"]
            /\ UNCHANGED <<num_threads, mutex, size, callVars,
                           is_shutdown, quitVars, forgotten>>

\* ... and waits for the mutex.
CallFromLoop(l) == /\ loop[l] = "calling" /\ ~thrown
                   /\ GetTaskScheduler
                   /\ loop' = [loop EXCEPT ![l] = "running"]
                   /\ UNCHANGED <<mutex, size, is_shutdown,
                                  quitVars, forgotten>>

End(l) == /\ loop[l] = "running"
          /\ is_shutdown[l]
          /\ loop' = [loop EXCEPT ![l] = "done"]
          /\ UNCHANGED <<num_threads, mutex, size, callVars,
                         is_shutdown, quitVars, forgotten>>

LoopStep(l) == Begin(l) \/ CallFromLoop(l) \/ End(l)

-----------------------------------------------------------------------------
(* Quit.                                                                   *)

QuitLock == /\ quit = "idle" /\ mutex = NoOne
            /\ mutex' = Quitter
            /\ quit' = "stop" /\ at' = 0
            /\ UNCHANGED <<num_threads, size, callVars, is_shutdown,
                           loop, forgotten>>

\* Mutant: Quit stops the first scheduler only.
StopNext_First == quit = "stop" /\ at = 0

StopNext == quit = "stop" /\ at < size

QuitStop == /\ StopNext
            /\ is_shutdown' = [is_shutdown EXCEPT ![at] = TRUE]
            /\ at' = at + 1
            /\ UNCHANGED <<num_threads, mutex, size, callVars,
                           loop, quit, forgotten>>

QuitStopped == /\ quit = "stop" /\ ~StopNext
               /\ quit' = "join" /\ at' = 0
               /\ UNCHANGED <<num_threads, mutex, size, callVars,
                              is_shutdown, loop, forgotten>>

\* Mutant: the thread is not waited for.
Joined_Detached(l) == TRUE

\* join returns once the thread has ended.
Joined(l) == loop[l] = "done"

QuitJoin == /\ quit = "join" /\ at < size /\ Joined(at)
            /\ at' = at + 1
            /\ UNCHANGED <<num_threads, mutex, size, callVars, is_shutdown,
                           loop, quit, forgotten>>

QuitClear == /\ quit = "join" /\ at = size
             /\ size' = 0
             /\ quit' = "done"
             /\ mutex' = NoOne
             /\ UNCHANGED <<num_threads, callVars, is_shutdown, loop,
                            at, forgotten>>

QuitStep == QuitStop \/ QuitStopped \/ QuitJoin \/ QuitClear

Next == \/ \E t \in Callers : Call(t)
        \/ \E l \in Loops : LoopStep(l) \/ Enter(l)
        \/ QuitLock \/ QuitStep

Spec == Init /\ [][Next]_vars

\* The threads run.
FairSpec == /\ Spec
            /\ WF_vars(QuitStep)
            /\ \A l \in 0 .. MaxThreads - 1 : WF_vars(l \in Loops /\ LoopStep(l))

-----------------------------------------------------------------------------
TypeOK ==
    /\ mutex \in {NoOne, Quitter}
    /\ num_threads \in 1 .. MaxThreads
    /\ size \in {0, num_threads}
    /\ index = 1 \/ index \in 2 .. num_threads - 1
    /\ chosen \in Loops
    /\ thrown \in BOOLEAN
    /\ is_shutdown \in [Loops -> BOOLEAN]
    /\ loop \in [Loops -> {"created", "running", "calling", "done"}]
    /\ quit \in {"idle", "stop", "join", "done"}
    /\ at \in 0 .. num_threads
    /\ forgotten \subseteq Loops

\* GetTaskScheduler indexes the vector with at: however often it has been
\* called, it throws only once Quit has emptied the vector.
ThrowsOnlyAfterQuit == thrown => quit = "done"

\* Quit destroys the schedulers when it clears the vector: by then every
\* thread has left the scheduler whose Start it ran.
SchedulersOutliveLoops == size = 0 => \A l \in Loops : loop[l] = "done"

\* What Quit joins is told to end, unless its Start reset the flag that Stop
\* had set before it ran.
JoinedIsStopped ==
    quit = "join" => \A l \in Loops : loop[l] # "done" =>
        is_shutdown[l] \/ l \in forgotten

\* A callback of a loop thread that calls EventLoop while Quit holds the mutex
\* waits for Quit, which waits for its thread.
QuitBlocked == mutex = Quitter /\ \E l \in Loops : loop[l] = "calling"

\* Quit returns, except for the two ways in which it may wait for ever.
QuitReturns == quit = "stop" ~> (quit = "done" \/ QuitBlocked \/ forgotten # {})
=============================================================================
