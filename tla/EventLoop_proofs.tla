--------------------------- MODULE EventLoop_proofs ---------------------------
(***************************************************************************)
(* The safety properties of EventLoop, for pools of any size and any       *)
(* callers.                                                                *)
(***************************************************************************)
EXTENDS EventLoop, TLAPS

\* Quit holds the mutex from its first line to its last, and the vector is
\* emptied on the last.
QuitInv == /\ mutex = Quitter <=> quit \in {"stop", "join"}
           /\ size = IF quit = "done" THEN 0 ELSE num_threads

\* How far Quit is: what it has stopped is stopped, ended or will not see it,
\* what it has joined has ended.
Told(l) == loop[l] = "done" \/ is_shutdown[l] \/ l \in forgotten
ProgressInv ==
    /\ quit = "stop" => \A l \in Loops : l < at => Told(l)
    /\ quit = "join" => \A l \in Loops : Told(l) /\ (l < at => loop[l] = "done")
    /\ quit = "done" => \A l \in Loops : loop[l] = "done"

IInv == TypeOK /\ QuitInv /\ ProgressInv /\ ThrowsOnlyAfterQuit

LEMMA InitIInv == Init => IInv
<1> USE LoopAssumption DEF Init
<1>1. ASSUME Init PROVE TypeOK
  <2>1. num_threads \in Nat /\ 0 \in Loops /\ 0 \in 0 .. num_threads
      BY <1>1 DEF Loops
  <2>2. /\ is_shutdown \in [Loops -> BOOLEAN]
        /\ loop \in [Loops -> {"created", "running", "calling", "done"}]
      BY <1>1
  <2>3. QED
      BY <1>1, <2>1, <2>2 DEF TypeOK
<1>2. Init => QuitInv /\ ProgressInv /\ ThrowsOnlyAfterQuit
    BY DEF QuitInv, ProgressInv, ThrowsOnlyAfterQuit
<1>3. QED
    BY <1>1, <1>2 DEF IInv

\* GetTaskScheduler leaves the index where the next call can use it, and
\* throws only when the vector is empty.
LEMMA GetTaskSchedulerFacts ==
    ASSUME IInv, GetTaskScheduler
    PROVE  /\ index' = 1 \/ index' \in 2 .. num_threads - 1
           /\ chosen' \in Loops
           /\ thrown' \in BOOLEAN /\ (thrown' => quit = "done")
<1> USE DEF IInv, TypeOK, QuitInv, ThrowsOnlyAfterQuit, Loops
<1>1. num_threads \in Nat /\ num_threads >= 1
    BY LoopAssumption
<1>2. CASE size = 1 /\ chosen' = 0 /\ UNCHANGED <<index, thrown>>
    BY <1>1, <1>2
<1>3. CASE size # 1 /\ index < size /\ chosen' = index /\ index' = NextIndex
           /\ UNCHANGED thrown
    BY <1>1, <1>3 DEF NextIndex
<1>4. CASE size # 1 /\ index >= size /\ thrown' = TRUE /\ UNCHANGED <<index, chosen>>
    BY <1>1, <1>4
<1>5. QED
    BY <1>2, <1>3, <1>4 DEF GetTaskScheduler

LEMMA Inductive == IInv /\ [Next]_vars => IInv'
<1> SUFFICES ASSUME IInv, [Next]_vars PROVE IInv'
    OBVIOUS
<1> USE LoopAssumption DEF IInv, callVars, quitVars, Loops
<1>1. ASSUME NEW t \in Callers, Call(t) PROVE IInv'
  <2>1. UNCHANGED <<num_threads, mutex, size, is_shutdown, loop, quitVars, forgotten>>
      BY <1>1 DEF Call, GetTaskScheduler
  <2>2. TypeOK' /\ ThrowsOnlyAfterQuit'
      BY <1>1, <2>1, GetTaskSchedulerFacts DEF Call, TypeOK, ThrowsOnlyAfterQuit
  <2>3. QED
      BY <2>1, <2>2 DEF QuitInv, ProgressInv, Told
<1>2. ASSUME NEW l \in Loops, Begin(l) PROVE IInv'
  <2>1. TypeOK'
      BY <1>2 DEF Begin, TypeOK
  <2>2. QuitInv' /\ ThrowsOnlyAfterQuit'
      BY <1>2 DEF Begin, QuitInv, ThrowsOnlyAfterQuit
  <2>3. \A k \in Loops : (Told(k) => Told(k)') /\ (loop[k] = "done" => loop'[k] = "done")
      BY <1>2 DEF Begin, Told, TypeOK
  <2>4. QED
      BY <1>2, <2>1, <2>2, <2>3 DEF Begin, ProgressInv
<1>3. ASSUME NEW l \in Loops, Enter(l) \/ CallFromLoop(l) \/ End(l) PROVE IInv'
  <2>1. UNCHANGED <<num_threads, mutex, size, is_shutdown, quitVars, forgotten>>
      BY <1>3 DEF Enter, CallFromLoop, End, GetTaskScheduler
  <2>2. loop' \in [Loops -> {"created", "running", "calling", "done"}]
        /\ \A k \in Loops : loop[k] = "done" => loop'[k] = "done"
      BY <1>3 DEF Enter, CallFromLoop, End, TypeOK
  <2>3. TypeOK' /\ ThrowsOnlyAfterQuit'
      BY <1>3, <2>1, <2>2, GetTaskSchedulerFacts
         DEF Enter, CallFromLoop, End, TypeOK, ThrowsOnlyAfterQuit
  <2>4. QED
      BY <2>1, <2>2, <2>3 DEF QuitInv, ProgressInv, Told
<1>4. CASE QuitLock
    BY <1>4 DEF QuitLock, TypeOK, QuitInv, ProgressInv, ThrowsOnlyAfterQuit
<1>5. CASE QuitStop
  <2>1. TypeOK' /\ QuitInv' /\ ThrowsOnlyAfterQuit'
      BY <1>5 DEF QuitStop, StopNext, TypeOK, QuitInv, ThrowsOnlyAfterQuit
  <2>2. \A k \in Loops : k < at + 1 => Told(k)'
      BY <1>5 DEF QuitStop, StopNext, TypeOK, ProgressInv, Told
  <2>3. QED
      BY <1>5, <2>1, <2>2 DEF QuitStop, StopNext, ProgressInv
<1>6. CASE QuitStopped
    BY <1>6 DEF QuitStopped, StopNext, TypeOK, QuitInv, ProgressInv, Told,
                ThrowsOnlyAfterQuit
<1>7. CASE QuitJoin
    BY <1>7 DEF QuitJoin, Joined, TypeOK, QuitInv, ProgressInv, Told,
                ThrowsOnlyAfterQuit
<1>8. CASE QuitClear
    BY <1>8 DEF QuitClear, TypeOK, QuitInv, ProgressInv, Told, ThrowsOnlyAfterQuit
<1>9. CASE UNCHANGED vars
    BY <1>9 DEF vars, TypeOK, QuitInv, ProgressInv, Told, ThrowsOnlyAfterQuit
<1>10. QED
    BY <1>1, <1>2, <1>3, <1>4, <1>5, <1>6, <1>7, <1>8, <1>9
       DEF Next, LoopStep, QuitStep

LEMMA Invariant == Spec => []IInv
<1>1. QED
    BY InitIInv, Inductive, PTL DEF Spec

\* TypeOK: the round robin index is that of a scheduler, however often it has
\* been taken.
THEOREM TypeCorrect == Spec => []TypeOK
<1>1. IInv => TypeOK
    BY DEF IInv
<1>2. QED
    BY <1>1, Invariant, PTL

\* ThrowsOnlyAfterQuit: vector::at finds a scheduler until Quit is over.
THEOREM AtIsInRange == Spec => []ThrowsOnlyAfterQuit
<1>1. IInv => ThrowsOnlyAfterQuit
    BY DEF IInv
<1>2. QED
    BY <1>1, Invariant, PTL

\* SchedulersOutliveLoops: Quit clears the vector under no running thread.
THEOREM NothingIsClearedUnderALoop == Spec => []SchedulersOutliveLoops
<1>1. IInv => SchedulersOutliveLoops
    BY LoopAssumption DEF IInv, QuitInv, ProgressInv, TypeOK, SchedulersOutliveLoops
<1>2. QED
    BY <1>1, Invariant, PTL

\* JoinedIsStopped: what Quit waits for has been told to end, or has begun too
\* late to keep what it was told.
THEOREM QuitTellsWhatItJoins == Spec => []JoinedIsStopped
<1>1. IInv => JoinedIsStopped
    BY DEF IInv, ProgressInv, Told, JoinedIsStopped
<1>2. QED
    BY <1>1, Invariant, PTL
=============================================================================
