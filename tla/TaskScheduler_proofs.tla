------------------------ MODULE TaskScheduler_proofs ------------------------
(***************************************************************************)
(* What TLC checks of TaskScheduler on a ring of two slots, proved for     *)
(* every capacity, every set of posting threads and every pipe.            *)
(*                                                                         *)
(* The invariants are not inductive by themselves.  IInv adds what ties    *)
(* them together: mutex_ belongs to the one thread inside its critical     *)
(* section (MutexInv); the slots from get_pos_ on are full as far as       *)
(* num_datas_ says, corrected by the push or the pop in progress           *)
(* (RingInv); and what the loop thread holds outside the ring (LoopInv).   *)
(***************************************************************************)
EXTENDS TaskScheduler, SequenceTheorems, TLAPS

MutexInv == \A t \in Producers : mutex = t <=> post_pc[t] \in Holding

\* A push between its slot and its counter; a pop between the same two.
Pushing == IF \E t \in Producers : post_pc[t] = "count" THEN 1 ELSE 0
Popping == IF loop_pc = "dec" THEN 1 ELSE 0
Filled  == num_datas + Pushing - Popping

CountInv ==
    /\ \A t \in Producers : post_pc[t] \in {"slot", "count"} => num_datas < Capacity
    /\ loop_pc \in {"take", "dec"} => num_datas > 0

RingInv ==
    /\ put_pos = IF get_pos + Filled < Capacity THEN get_pos + Filled
                                                ELSE get_pos + Filled - Capacity
    /\ \A i \in 1 .. Capacity : buffer[SlotOf(i)] # NoEvent <=> i <= Filled

PostInv == \A t \in Producers : post_pc[t] # "idle" => posts[t] > 0

LoopInv == callback # NoEvent <=> loop_pc \in {"dec", "callback"}

\* StopIsSeen from the loop's test of is_shutdown_ on.
StopInv ==
    loop_pc \notin {"start", "while", "wake", "done"} /\ is_shutdown =>
        pipe > 0 \/ stop_pc = "write"

IInv == /\ TypeOK /\ MutexInv /\ CountInv /\ RingInv /\ PostInv /\ LoopInv
        /\ NoLostWakeup /\ StopInv

-----------------------------------------------------------------------------
(* Facts about positions in the ring.                                      *)

\* RingBuffer's positions stay in the buffer, and the i-th slot from get_pos_
\* on is a slot, a different one for each i up to the capacity.
LEMMA SlotFacts ==
    ASSUME get_pos \in Slots
    PROVE  /\ \A p \in Slots : Add(p) \in Slots
           /\ \A i \in 1 .. Capacity : SlotOf(i) \in Slots
           /\ \A i, j \in 1 .. Capacity : SlotOf(i) = SlotOf(j) => i = j
BY ConstantsAssumption DEF Slots, Add, SlotOf

LEMMA InitIInv == Init => IInv
<1> SUFFICES ASSUME Init PROVE IInv
    OBVIOUS
<1> USE ConstantsAssumption DEF Init
<1>1. TypeOK
  <2>1. 0 \in Slots /\ 0 \in 0 .. Capacity /\ 0 \in 0 .. PipeSize /\ 0 \in 0 .. MaxPosts
      BY DEF Slots
  <2>2. buffer \in [Slots -> Events \cup {NoEvent}]
      OBVIOUS
  <2>3. posts \in [Producers -> 0 .. MaxPosts] /\ post_pc \in [Producers -> PostStates]
      BY <2>1 DEF PostStates
  <2>4. loop_pc \in LoopStates
      BY DEF LoopStates
  <2>5. QED
      BY <2>1, <2>2, <2>3, <2>4 DEF TypeOK
<1>2. MutexInv /\ CountInv /\ PostInv /\ LoopInv /\ NoLostWakeup /\ StopInv
    BY DEF MutexInv, CountInv, PostInv, LoopInv, NoLostWakeup, StopInv, Holding
<1>3. RingInv
  <2>1. Filled = 0
      BY DEF Filled, Pushing, Popping
  <2>2. \A i \in 1 .. Capacity : SlotOf(i) \in Slots
      BY SlotFacts DEF Slots
  <2>3. QED
      BY <2>1, <2>2 DEF RingInv
<1>4. QED
    BY <1>1, <1>2, <1>3 DEF IInv

-----------------------------------------------------------------------------
(* A step that leaves the ring, and what is in progress in it, alone.      *)

LEMMA RingStutter ==
    ASSUME RingInv, UNCHANGED ring, Pushing' = Pushing, Popping' = Popping
    PROVE  RingInv'
BY DEF RingInv, ring, Filled, SlotOf

(* What RingInv says of the two slots in use.                              *)

LEMMA RingIsSafe ==
    ASSUME TypeOK, MutexInv, CountInv, RingInv
    PROVE  SlotHandover
<1> USE ConstantsAssumption DEF TypeOK, CountInv, RingInv
<1>1. ASSUME loop_pc = "take" PROVE buffer[get_pos] # NoEvent
  <2>1. Filled \in 1 .. Capacity + 1 /\ SlotOf(1) = get_pos
      BY <1>1 DEF Filled, Pushing, Popping, SlotOf, Slots
  <2>2. QED
      BY <2>1
<1>2. ASSUME NEW t \in Producers, post_pc[t] = "slot" PROVE buffer[put_pos] = NoEvent
  <2>1. \A u \in Producers : post_pc[u] # "count"
      BY <1>2 DEF MutexInv, Holding
  <2>2. Pushing = 0
      BY <2>1 DEF Pushing
  <2>3. Filled \in 0 .. Capacity - 1 /\ Filled + 1 \in 1 .. Capacity
      BY <1>2, <2>2 DEF Filled, Popping
  <2>4. put_pos = SlotOf(Filled + 1)
      BY <2>3 DEF SlotOf, Slots
  <2>5. ~ (Filled + 1 <= Filled)
      BY <2>3
  <2>6. QED
      BY <2>3, <2>4, <2>5
<1>3. QED
    BY <1>1, <1>2 DEF SlotHandover

-----------------------------------------------------------------------------
(* Every step of Next preserves each part of IInv.                         *)

LEMMA TypeStep == TypeOK /\ PostInv /\ CountInv /\ [Next]_vars => TypeOK'
<1> SUFFICES ASSUME TypeOK, PostInv, CountInv, [Next]_vars PROVE TypeOK'
    OBVIOUS
<1> USE ConstantsAssumption
    DEF TypeOK, PostInv, CountInv, ring, postVars, loopVars, PostStates,
        LoopStates, UserCode, Events, Slots, Add
<1>1. ASSUME NEW t \in Producers, PostRefused(t) PROVE TypeOK'
    BY <1>1 DEF PostRefused, MayPost
<1>2. ASSUME NEW t \in Producers, PostAdmitted(t) PROVE TypeOK'
    BY <1>2 DEF PostAdmitted, MayPost
<1>3. ASSUME NEW t \in Producers, PushRoom(t) PROVE TypeOK'
    BY <1>3 DEF PushRoom
<1>4. ASSUME NEW t \in Producers, PushFull(t) PROVE TypeOK'
    BY <1>4 DEF PushFull, Posting
<1>5. ASSUME NEW t \in Producers, PushSlot(t) PROVE TypeOK'
    BY <1>5 DEF PushSlot, Posting
<1>6. ASSUME NEW t \in Producers, PushCount(t) PROVE TypeOK'
    BY <1>6 DEF PushCount
<1>7. ASSUME NEW t \in Producers, PostWrite(t) PROVE TypeOK'
    BY <1>7 DEF PostWrite, PipeWritten
<1>8. CASE StopFlag
    BY <1>8 DEF StopFlag
<1>9. CASE StopWrite
    BY <1>9 DEF StopWrite, PipeWritten
<1>10. CASE LoopStart
    BY <1>10 DEF LoopStart, LoopGoto
<1>11. CASE LoopTest
    BY <1>11 DEF LoopTest, LoopMoves, LoopGoto
<1>12. CASE PopTest
    BY <1>12 DEF PopTest, LoopMoves, LoopGoto
<1>13. CASE PopTake
    BY <1>13 DEF PopTake, LoopGoto
<1>14. CASE PopCount
    BY <1>14 DEF PopCount, LoopGoto
<1>15. CASE CallbackReturns
    BY <1>15 DEF CallbackReturns, LoopGoto, LoopIdle
<1>16. CASE SizeTest
    BY <1>16 DEF SizeTest, LoopMoves, LoopGoto
<1>17. CASE TimersHandled
    BY <1>17 DEF TimersHandled, LoopGoto, LoopIdle
<1>18. CASE WaitWakeup
    BY <1>18 DEF WaitWakeup, LoopMoves, LoopGoto
<1>19. CASE WaitExpires
    BY <1>19 DEF WaitExpires, LoopMoves, LoopGoto
<1>20. CASE WaitChannel
    BY <1>20 DEF WaitChannel, LoopMoves, LoopGoto
<1>21. CASE ChannelReturns
    BY <1>21 DEF ChannelReturns, LoopIdle, LoopMoves, LoopGoto
<1>22. CASE WakeRead
    BY <1>22 DEF WakeRead, LoopGoto
<1>23. CASE UNCHANGED vars
    BY <1>23 DEF vars
<1>24. QED
    BY <1>1, <1>2, <1>3, <1>4, <1>5, <1>6, <1>7, <1>8, <1>9, <1>10, <1>11, <1>12, <1>13, <1>14, <1>15, <1>16, <1>17, <1>18, <1>19, <1>20, <1>21, <1>22, <1>23 DEF Next, AddTriggerEvent, PostStep, LoopStep

LEMMA ControlStep ==
    ASSUME TypeOK, MutexInv, CountInv, PostInv, LoopInv, NoLostWakeup, StopInv,
           SlotHandover, [Next]_vars
    PROVE  (MutexInv /\ CountInv /\ PostInv /\ LoopInv /\ NoLostWakeup /\ StopInv)'
<1> DEFINE Goal == MutexInv /\ CountInv /\ PostInv /\ LoopInv /\ NoLostWakeup /\ StopInv
<1> USE ConstantsAssumption
    DEF TypeOK, MutexInv, CountInv, PostInv, LoopInv, NoLostWakeup, StopInv, ring,
        postVars, loopVars, PostStates, LoopStates, UserCode, Holding
<1>1. ASSUME NEW t \in Producers, PostRefused(t) PROVE Goal'
    BY <1>1 DEF PostRefused, MayPost
<1>2. ASSUME NEW t \in Producers, PostAdmitted(t) PROVE Goal'
    BY <1>2 DEF PostAdmitted, MayPost
<1>3. ASSUME NEW t \in Producers, PushRoom(t) PROVE Goal'
    BY <1>3 DEF PushRoom
<1>4. ASSUME NEW t \in Producers, PushFull(t) PROVE Goal'
    BY <1>4 DEF PushFull, Posting
<1>5. ASSUME NEW t \in Producers, PushSlot(t) PROVE Goal'
    BY <1>5 DEF PushSlot, Posting
<1>6. ASSUME NEW t \in Producers, PushCount(t) PROVE Goal'
    BY <1>6 DEF PushCount
<1>7. ASSUME NEW t \in Producers, PostWrite(t) PROVE Goal'
    BY <1>7 DEF PostWrite, PipeWritten
<1>8. CASE StopFlag
    BY <1>8 DEF StopFlag
<1>9. CASE StopWrite
    BY <1>9 DEF StopWrite, PipeWritten
<1>10. CASE LoopStart
    BY <1>10 DEF LoopStart, LoopGoto
<1>11. CASE LoopTest
    BY <1>11 DEF LoopTest, LoopMoves, LoopGoto
<1>12. CASE PopTest
    BY <1>12 DEF PopTest, LoopMoves, LoopGoto
<1>13. CASE PopTake
    BY <1>13 DEF PopTake, LoopGoto, SlotHandover
<1>14. CASE PopCount
    BY <1>14 DEF PopCount, LoopGoto
<1>15. CASE CallbackReturns
    BY <1>15 DEF CallbackReturns, LoopGoto, LoopIdle
<1>16. CASE SizeTest
    BY <1>16 DEF SizeTest, LoopMoves, LoopGoto
<1>17. CASE TimersHandled
    BY <1>17 DEF TimersHandled, LoopGoto, LoopIdle
<1>18. CASE WaitWakeup
    BY <1>18 DEF WaitWakeup, LoopMoves, LoopGoto
<1>19. CASE WaitExpires
    BY <1>19 DEF WaitExpires, LoopMoves, LoopGoto
<1>20. CASE WaitChannel
    BY <1>20 DEF WaitChannel, LoopMoves, LoopGoto
<1>21. CASE ChannelReturns
    BY <1>21 DEF ChannelReturns, LoopIdle, LoopMoves, LoopGoto
<1>22. CASE WakeRead
    BY <1>22 DEF WakeRead, LoopGoto
<1>23. CASE UNCHANGED vars
    BY <1>23 DEF vars
<1>24. QED
    BY <1>1, <1>2, <1>3, <1>4, <1>5, <1>6, <1>7, <1>8, <1>9, <1>10, <1>11, <1>12, <1>13, <1>14, <1>15, <1>16, <1>17, <1>18, <1>19, <1>20, <1>21, <1>22, <1>23 DEF Next, AddTriggerEvent, PostStep, LoopStep
\* A push fills the slot after the filled ones; a pop empties the first.
LEMMA RingStep ==
    ASSUME TypeOK, MutexInv, CountInv, PostInv, RingInv, [Next]_vars
    PROVE  RingInv'
<1> USE ConstantsAssumption
<1>1. ASSUME NEW t \in Producers, PushSlot(t) PROVE RingInv'
  <2>1. Pushing = 0 /\ Pushing' = 1
    <3>1. \A u \in Producers : post_pc[u] # "count"
        BY <1>1 DEF PushSlot, MutexInv, Holding
    <3>2. post_pc'[t] = "count"
        BY <1>1 DEF PushSlot, TypeOK
    <3>3. QED
        BY <3>1, <3>2 DEF Pushing
  <2>2. Filled \in 0 .. Capacity - 1 /\ Filled' = Filled + 1
      BY <1>1, <2>1 DEF PushSlot, Filled, Popping, loopVars, TypeOK, CountInv
  <2>3. put_pos = SlotOf(Filled + 1)
      BY <2>2 DEF RingInv, SlotOf, TypeOK, Slots
  <2>4. put_pos' = IF get_pos' + Filled' < Capacity THEN get_pos' + Filled'
                                                  ELSE get_pos' + Filled' - Capacity
      BY <1>1, <2>2 DEF PushSlot, RingInv, Add, TypeOK, Slots
  <2>5. Posting(t) # NoEvent
      BY <1>1 DEF PushSlot, Posting, Events, TypeOK, PostInv
  <2>6. ASSUME NEW i \in 1 .. Capacity
        PROVE  buffer'[SlotOf(i)'] # NoEvent <=> i <= Filled'
    <3>1. SlotOf(i)' = SlotOf(i) /\ SlotOf(i) \in Slots
        BY <1>1, SlotFacts DEF PushSlot, SlotOf, TypeOK
    <3>2. CASE i = Filled + 1
        BY <1>1, <2>2, <2>3, <2>5, <3>1, <3>2 DEF PushSlot, TypeOK
    <3>3. CASE i # Filled + 1
      <4>1. SlotOf(i) # put_pos
          BY <2>2, <2>3, <3>3, SlotFacts DEF TypeOK
      <4>2. buffer'[SlotOf(i)] = buffer[SlotOf(i)]
          BY <1>1, <3>1, <4>1 DEF PushSlot, TypeOK
      <4>3. QED
          BY <2>2, <3>1, <3>3, <4>2 DEF RingInv
    <3>4. QED
        BY <3>2, <3>3
  <2>7. QED
      BY <2>4, <2>6 DEF RingInv
<1>2. ASSUME NEW t \in Producers, PushCount(t) PROVE RingInv'
  <2>1. Pushing = 1 /\ Pushing' = 0
    <3>1. \A u \in Producers : post_pc'[u] # "count"
        BY <1>2 DEF PushCount, MutexInv, Holding, TypeOK
    <3>2. QED
        BY <1>2, <3>1 DEF PushCount, Pushing
  <2>2. Filled' = Filled
      BY <1>2, <2>1 DEF PushCount, Filled, Popping, loopVars, TypeOK
  <2>3. QED
      BY <1>2, <2>2 DEF PushCount, RingInv, SlotOf
<1>3. CASE PopTake
  <2>1. Pushing' = Pushing /\ Pushing \in {0, 1} /\ Popping = 0 /\ Popping' = 1
      BY <1>3 DEF PopTake, LoopGoto, Pushing, Popping, postVars
  <2>2. Filled' = Filled - 1 /\ Filled \in 1 .. Capacity
    <3>1. Pushing = 1 => num_datas < Capacity
        BY DEF Pushing, CountInv
    <3>2. QED
        BY <1>3, <2>1, <3>1 DEF PopTake, LoopGoto, Filled, TypeOK, CountInv
  <2>3. put_pos' = IF get_pos' + Filled' < Capacity THEN get_pos' + Filled'
                                                  ELSE get_pos' + Filled' - Capacity
      BY <1>3, <2>2 DEF PopTake, RingInv, Add, TypeOK, Slots
  <2>4. ASSUME NEW i \in 1 .. Capacity
        PROVE  buffer'[SlotOf(i)'] # NoEvent <=> i <= Filled'
    <3>1. CASE i = Capacity
      <4>1. SlotOf(i)' = get_pos
          BY <1>3, <3>1 DEF PopTake, SlotOf, Add, TypeOK, Slots
      <4>2. QED
          BY <1>3, <2>2, <3>1, <4>1 DEF PopTake, TypeOK
    <3>2. CASE i < Capacity
      <4>1. SlotOf(i)' = SlotOf(i + 1) /\ SlotOf(i + 1) # get_pos /\ SlotOf(i + 1) \in Slots
          BY <1>3, <3>2 DEF PopTake, SlotOf, Add, TypeOK, Slots
      <4>2. buffer'[SlotOf(i + 1)] = buffer[SlotOf(i + 1)]
          BY <1>3, <4>1 DEF PopTake, TypeOK
      <4>3. buffer[SlotOf(i + 1)] # NoEvent <=> i + 1 <= Filled
          BY <3>2 DEF RingInv
      <4>4. QED
          BY <2>2, <4>1, <4>2, <4>3
    <3>3. QED
        BY <3>1, <3>2
  <2>5. QED
      BY <2>3, <2>4 DEF RingInv
<1>4. CASE PopCount
  <2>1. Pushing' = Pushing /\ Pushing \in {0, 1} /\ Popping = 1 /\ Popping' = 0
      BY <1>4 DEF PopCount, LoopGoto, Pushing, Popping, postVars
  <2>2. Filled' = Filled
      BY <1>4, <2>1 DEF PopCount, Filled, TypeOK
  <2>3. QED
      BY <1>4, <2>2 DEF PopCount, RingInv, SlotOf
<1>5. ASSUME NEW t \in Producers, PostRefused(t) PROVE RingInv'
    BY <1>5, RingStutter DEF PostRefused, MayPost, Pushing, Popping, loopVars, TypeOK
<1>6. ASSUME NEW t \in Producers, PostAdmitted(t) PROVE RingInv'
    BY <1>6, RingStutter DEF PostAdmitted, MayPost, Pushing, Popping, loopVars, TypeOK
<1>7. ASSUME NEW t \in Producers, PushRoom(t) PROVE RingInv'
    BY <1>7, RingStutter DEF PushRoom, Pushing, Popping, loopVars, TypeOK
<1>8. ASSUME NEW t \in Producers, PushFull(t) PROVE RingInv'
    BY <1>8, RingStutter DEF PushFull, Pushing, Popping, loopVars, TypeOK
<1>9. ASSUME NEW t \in Producers, PostWrite(t) PROVE RingInv'
    BY <1>9, RingStutter DEF PostWrite, Pushing, Popping, loopVars, TypeOK
<1>10. CASE StopFlag
    BY <1>10, RingStutter DEF StopFlag, Pushing, Popping, loopVars, postVars
<1>11. CASE StopWrite
    BY <1>11, RingStutter DEF StopWrite, Pushing, Popping, loopVars, postVars
<1>12. CASE LoopStart
    BY <1>12, RingStutter DEF LoopStart, LoopGoto, Pushing, Popping, loopVars, postVars
<1>13. CASE LoopTest
    BY <1>13, RingStutter DEF LoopTest, LoopMoves, LoopGoto, Pushing, Popping, loopVars, postVars
<1>14. CASE PopTest
    BY <1>14, RingStutter DEF PopTest, LoopMoves, LoopGoto, Pushing, Popping, loopVars, postVars
<1>15. CASE CallbackReturns
    BY <1>15, RingStutter DEF CallbackReturns, LoopGoto, Pushing, Popping, loopVars, postVars
<1>16. CASE SizeTest
    BY <1>16, RingStutter DEF SizeTest, LoopMoves, LoopGoto, Pushing, Popping, loopVars, postVars
<1>17. CASE TimersHandled
    BY <1>17, RingStutter DEF TimersHandled, LoopGoto, Pushing, Popping, loopVars, postVars
<1>18. CASE WaitWakeup
    BY <1>18, RingStutter DEF WaitWakeup, LoopMoves, LoopGoto, Pushing, Popping, loopVars, postVars
<1>19. CASE WaitExpires
    BY <1>19, RingStutter DEF WaitExpires, LoopMoves, LoopGoto, Pushing, Popping, loopVars, postVars
<1>20. CASE WaitChannel
    BY <1>20, RingStutter DEF WaitChannel, LoopMoves, LoopGoto, Pushing, Popping, loopVars, postVars
<1>21. CASE ChannelReturns
    BY <1>21, RingStutter DEF ChannelReturns, LoopMoves, LoopGoto, Pushing, Popping, loopVars, postVars
<1>22. CASE WakeRead
    BY <1>22, RingStutter DEF WakeRead, LoopGoto, Pushing, Popping, loopVars, postVars
<1>23. CASE UNCHANGED vars
    BY <1>23, RingStutter DEF vars, Pushing, Popping, loopVars, postVars
<1>24. QED
    BY <1>1, <1>2, <1>3, <1>4, <1>5, <1>6, <1>7, <1>8, <1>9, <1>10, <1>11, <1>12, <1>13, <1>14, <1>15, <1>16, <1>17, <1>18, <1>19, <1>20, <1>21, <1>22, <1>23 DEF Next, AddTriggerEvent, PostStep, LoopStep

LEMMA Inductive == IInv /\ [Next]_vars => IInv'
<1> SUFFICES ASSUME IInv, [Next]_vars PROVE IInv'
    OBVIOUS
<1>1. SlotHandover
    BY RingIsSafe DEF IInv
<1>2. TypeOK'
    BY TypeStep DEF IInv
<1>3. (MutexInv /\ CountInv /\ PostInv /\ LoopInv /\ NoLostWakeup /\ StopInv)'
    BY <1>1, ControlStep DEF IInv
<1>4. RingInv'
    BY <1>1, RingStep DEF IInv
<1>5. QED
    BY <1>2, <1>3, <1>4 DEF IInv

LEMMA Invariant == Spec => []IInv
BY InitIInv, Inductive, PTL DEF Spec

-----------------------------------------------------------------------------
(* The theorems.                                                           *)

\* TypeOK: in particular num_datas_ stays between 0 and the capacity though
\* poster and loop thread update it without a common lock.
THEOREM TypeCorrect == Spec => []TypeOK
<1>1. IInv => TypeOK
    BY DEF IInv
<1>2. QED
    BY <1>1, Invariant, PTL

\* SlotHandover: RingBuffer's unlocked slots are free of data races for any
\* number of posters and any capacity, because mutex_ makes the posters one.
THEOREM SlotsAreHandedOver == Spec => []SlotHandover
<1>1. IInv => SlotHandover
    BY RingIsSafe DEF IInv
<1>2. QED
    BY <1>1, Invariant, PTL

\* NoLostWakeup: the loop thread of TaskScheduler never blocks in epoll_wait
\* on a queued event without a wakeup byte written or about to be.
THEOREM WakeupIsNotLost == Spec => []NoLostWakeup
<1>1. IInv => NoLostWakeup
    BY DEF IInv
<1>2. QED
    BY <1>1, Invariant, PTL

\* StopIsSeen: a Stop that the loop thread has not seen keeps it from blocking.
THEOREM StopIsNotMissed == Spec => []StopIsSeen
<1>1. IInv => StopIsSeen
    BY DEF IInv, StopInv, StopIsSeen
<1>2. QED
    BY <1>1, Invariant, PTL

\* DropsHaveRivals: as long as no other thread posts, AddTriggerEvent's
\* unlocked test of Size vouches for the Push that follows it.
THEOREM DropsNeedRivals == Spec => []DropsHaveRivals
<1> DEFINE Vouched == \A t \in Producers :
                        post_pc[t] = "lock" => num_datas < Capacity \/ RivalPosted(t)
           Inv == DropsHaveRivals /\ Vouched
<1>1. Init => Inv
    BY DEF Init, DropsHaveRivals
<1>2. IInv /\ Inv /\ [Next]_vars => Inv'
  <2> SUFFICES ASSUME IInv, Inv, [Next]_vars PROVE Inv'
      OBVIOUS
  <2> USE ConstantsAssumption DEF IInv, TypeOK, ring, postVars, loopVars
  <2>1. ASSUME NEW u \in Producers, AddTriggerEvent(u) PROVE Inv'
    <3>1. \A t \in Producers : RivalPosted(t) => RivalPosted(t)'
        BY <2>1 DEF RivalPosted, AddTriggerEvent, PostStep, PostRefused, PostAdmitted,
                    PushRoom, PushFull, PushSlot, PushCount, PostWrite
    <3>2. CASE PushFull(u)
      <4>1. RivalPosted(u) /\ dropped' = dropped \cup {Posting(u)} /\ Posting(u)[1] = u
          BY <3>2 DEF PushFull, Posting
      <4>2. DropsHaveRivals'
          BY <3>1, <4>1 DEF DropsHaveRivals, Events
      <4>3. Vouched'
          BY <3>1, <3>2 DEF PushFull
      <4>4. QED
          BY <4>2, <4>3
    <3>3. CASE PushCount(u)
      <4>1. \A t \in Producers \ {u} : RivalPosted(t)
          BY <3>3 DEF PushCount, PostInv, RivalPosted
      <4>2. QED
          BY <3>1, <3>3, <4>1 DEF PushCount, DropsHaveRivals, Events
    <3>4. CASE ~PushFull(u) /\ ~PushCount(u)
      <4>1. num_datas' = num_datas /\ dropped' = dropped
            /\ \A t \in Producers : post_pc'[t] = "lock" =>
                  post_pc[t] = "lock" \/ num_datas < Capacity
          BY <2>1, <3>4 DEF AddTriggerEvent, PostStep, PostRefused, PostAdmitted,
                      MayPost, PushRoom, PushSlot, PostWrite
      <4>2. QED
          BY <3>1, <4>1 DEF DropsHaveRivals, Events
    <3>5. QED
        BY <3>2, <3>3, <3>4
  <2>2. CASE StopFlag \/ StopWrite \/ WaitChannel \/ UNCHANGED vars
      BY <2>2 DEF StopFlag, StopWrite, WaitChannel, LoopMoves, vars, DropsHaveRivals,
                  RivalPosted
  <2>3. CASE LoopStep
    <3>1. UNCHANGED postVars /\ (num_datas' = num_datas \/ num_datas' = num_datas - 1)
        BY <2>3 DEF LoopStep, LoopStart, LoopTest, PopTest, PopTake, PopCount,
                    CallbackReturns, SizeTest, TimersHandled, WaitWakeup,
                    WaitExpires, ChannelReturns, WakeRead, LoopMoves
    <3>2. QED
        BY <3>1 DEF DropsHaveRivals, RivalPosted
  <2>4. QED
      BY <2>1, <2>2, <2>3 DEF Next
<1>3. QED
    BY <1>1, <1>2, Invariant, PTL DEF Spec

-----------------------------------------------------------------------------
(* TaskScheduler implements TriggerQueue.                                  *)

\* The event a poster has written and not yet counted is in the slot that the
\* counter will add to the queue.
PushedInv == \A t \in Producers :
    post_pc[t] = "count" => buffer[SlotOf(Pending + 1)] = Posting(t)

\* Queue is the sequence of events RingInv says the slots hold.
LEMMA QueueType ==
    ASSUME IInv
    PROVE  /\ Pending \in 0 .. Capacity
           /\ Queue \in Seq(Events) /\ Len(Queue) = Pending
<1> USE ConstantsAssumption DEF IInv
<1>1. Pending \in 0 .. Capacity /\ Pushing \in {0, 1} /\ Filled = Pending + Pushing
    BY DEF Pending, Filled, Pushing, Popping, TypeOK, CountInv
<1>2. ASSUME NEW i \in 1 .. Pending PROVE buffer[SlotOf(i)] \in Events
  <2>1. i \in 1 .. Capacity /\ i <= Filled
      BY <1>1
  <2>2. SlotOf(i) \in Slots
      BY <2>1, SlotFacts DEF TypeOK
  <2>3. QED
      BY <2>1, <2>2 DEF RingInv, TypeOK
<1>3. QED
    BY <1>1, <1>2 DEF Queue

LEMMA PushedInit == Init => PushedInv
BY DEF Init, PushedInv

LEMMA PushedStep ==
    ASSUME IInv, PushedInv, [Next]_vars
    PROVE  PushedInv'
<1> USE ConstantsAssumption
<1>1. Pending \in 0 .. Capacity
    BY QueueType
<1>2. ASSUME NEW t \in Producers, PushSlot(t) PROVE PushedInv'
  <2>1. \A u \in Producers : post_pc[u] # "count"
      BY <1>2 DEF PushSlot, MutexInv, Holding, IInv
  <2>2. Pushing = 0
      BY <2>1 DEF Pushing
  <2>3. Filled = Pending /\ Pending < Capacity
      BY <1>2, <2>2 DEF PushSlot, Filled, Pending, Popping, IInv, TypeOK, CountInv
  <2>4. SlotOf(Pending + 1) = put_pos
      BY <1>1, <2>3 DEF SlotOf, IInv, RingInv, TypeOK, Slots
  <2>5. (SlotOf(Pending + 1))' = SlotOf(Pending + 1) /\ Posting(t)' = Posting(t)
      BY <1>2 DEF PushSlot, SlotOf, Pending, loopVars, Posting
  <2>6. buffer'[put_pos] = Posting(t)
      BY <1>2 DEF PushSlot, IInv, TypeOK
  <2>7. \A u \in Producers : post_pc'[u] = "count" => u = t
      BY <1>2, <2>1 DEF PushSlot, IInv, TypeOK
  <2>8. QED
      BY <2>4, <2>5, <2>6, <2>7 DEF PushedInv
<1>3. CASE PopTake
  <2> SUFFICES ASSUME NEW t \in Producers, post_pc'[t] = "count"
               PROVE  buffer'[(SlotOf(Pending + 1))'] = Posting(t)'
      BY DEF PushedInv
  <2>1. post_pc[t] = "count" /\ Posting(t)' = Posting(t) /\ num_datas < Capacity
      BY <1>3 DEF PopTake, postVars, Posting, IInv, CountInv
  <2>2. Pending' = Pending - 1 /\ Pending \in 1 .. Capacity - 1
      BY <1>1, <1>3, <2>1 DEF PopTake, LoopGoto, Pending, IInv, TypeOK, CountInv
  <2>3. (SlotOf(Pending + 1))' = SlotOf(Pending + 1)
        /\ SlotOf(Pending + 1) \in Slots /\ SlotOf(Pending + 1) # get_pos
      BY <1>3, <2>2 DEF PopTake, SlotOf, Add, IInv, TypeOK, Slots
  <2>4. QED
      BY <1>3, <2>1, <2>3 DEF PopTake, PushedInv, IInv, TypeOK
<1>4. CASE PopCount
  <2>1. Pending' = Pending
      BY <1>4 DEF PopCount, LoopGoto, Pending
  <2>2. QED
      BY <1>4, <2>1 DEF PopCount, PushedInv, SlotOf, postVars, Posting
<1>5. ASSUME NEW t \in Producers, PostRefused(t) PROVE PushedInv'
    BY <1>5 DEF PostRefused, MayPost, PushedInv, Pending, SlotOf, Posting, ring, loopVars,
                 IInv, TypeOK, MutexInv, Holding
<1>6. ASSUME NEW t \in Producers, PostAdmitted(t) PROVE PushedInv'
    BY <1>6 DEF PostAdmitted, MayPost, PushedInv, Pending, SlotOf, Posting, ring, loopVars,
                 IInv, TypeOK, MutexInv, Holding
<1>7. ASSUME NEW t \in Producers, PushRoom(t) PROVE PushedInv'
    BY <1>7 DEF PushRoom, PushedInv, Pending, SlotOf, Posting, ring, loopVars,
                 IInv, TypeOK, MutexInv, Holding
<1>8. ASSUME NEW t \in Producers, PushFull(t) PROVE PushedInv'
    BY <1>8 DEF PushFull, PushedInv, Pending, SlotOf, Posting, ring, loopVars,
                 IInv, TypeOK, MutexInv, Holding
<1>9. ASSUME NEW t \in Producers, PushCount(t) PROVE PushedInv'
    BY <1>9 DEF PushCount, PushedInv, Pending, SlotOf, Posting, ring, loopVars,
                 IInv, TypeOK, MutexInv, Holding
<1>10. ASSUME NEW t \in Producers, PostWrite(t) PROVE PushedInv'
    BY <1>10 DEF PostWrite, PushedInv, Pending, SlotOf, Posting, ring, loopVars,
                 IInv, TypeOK, MutexInv, Holding
<1>11. CASE StopFlag
    BY <1>11 DEF StopFlag, PushedInv, Pending, SlotOf, Posting, ring,
                 postVars, loopVars
<1>12. CASE StopWrite
    BY <1>12 DEF StopWrite, PushedInv, Pending, SlotOf, Posting, ring,
                 postVars, loopVars
<1>13. CASE LoopStart
    BY <1>13 DEF LoopStart, LoopGoto, PushedInv, Pending, SlotOf, Posting, ring,
                 postVars, loopVars
<1>14. CASE LoopTest
    BY <1>14 DEF LoopTest, LoopMoves, LoopGoto, PushedInv, Pending, SlotOf, Posting, ring,
                 postVars, loopVars
<1>15. CASE PopTest
    BY <1>15 DEF PopTest, LoopMoves, LoopGoto, PushedInv, Pending, SlotOf, Posting, ring,
                 postVars, loopVars
<1>16. CASE CallbackReturns
    BY <1>16 DEF CallbackReturns, LoopGoto, PushedInv, Pending, SlotOf, Posting, ring,
                 postVars, loopVars
<1>17. CASE SizeTest
    BY <1>17 DEF SizeTest, LoopMoves, LoopGoto, PushedInv, Pending, SlotOf, Posting, ring,
                 postVars, loopVars
<1>18. CASE TimersHandled
    BY <1>18 DEF TimersHandled, LoopGoto, PushedInv, Pending, SlotOf, Posting, ring,
                 postVars, loopVars
<1>19. CASE WaitWakeup
    BY <1>19 DEF WaitWakeup, LoopMoves, LoopGoto, PushedInv, Pending, SlotOf, Posting, ring,
                 postVars, loopVars
<1>20. CASE WaitExpires
    BY <1>20 DEF WaitExpires, LoopMoves, LoopGoto, PushedInv, Pending, SlotOf, Posting, ring,
                 postVars, loopVars
<1>21. CASE WaitChannel
    BY <1>21 DEF WaitChannel, LoopMoves, LoopGoto, PushedInv, Pending, SlotOf, Posting, ring,
                 postVars, loopVars
<1>22. CASE ChannelReturns
    BY <1>22 DEF ChannelReturns, LoopMoves, LoopGoto, PushedInv, Pending, SlotOf,
                 Posting, ring,
                 postVars, loopVars
<1>23. CASE WakeRead
    BY <1>23 DEF WakeRead, LoopGoto, PushedInv, Pending, SlotOf, Posting, ring,
                 postVars, loopVars
<1>24. CASE UNCHANGED vars
    BY <1>24 DEF vars, PushedInv, Pending, SlotOf, Posting, ring, postVars, loopVars
<1>25. QED
    BY <1>2, <1>3, <1>4, <1>5, <1>6, <1>7, <1>8, <1>9, <1>10, <1>11, <1>12, <1>13, <1>14, <1>15, <1>16, <1>17, <1>18, <1>19, <1>20, <1>21, <1>22, <1>23, <1>24 DEF Next, AddTriggerEvent, PostStep, LoopStep

\* What each step does to the queue and the running event.
LEMMA CountAppends ==
    ASSUME IInv, IInv', PushedInv, NEW t \in Producers, PushCount(t)
    PROVE  TQ!Post(Posting(t)) /\ Posting(t) \in Events
<1> USE ConstantsAssumption
<1>1. /\ Pending \in 0 .. Capacity /\ Queue \in Seq(Events) /\ Len(Queue) = Pending
      /\ Queue' \in Seq(Events) /\ Len(Queue') = Pending'
  <2>1. (Queue \in Seq(Events) /\ Len(Queue) = Pending)'
      BY QueueType, PTL
  <2>2. QED
      BY <2>1, QueueType DEF Events
<1>2. Pending' = Pending + 1 /\ Pending < Capacity
    BY <1>1 DEF PushCount, Pending, loopVars, IInv, TypeOK, CountInv
<1>3. Posting(t) \in Events
    BY DEF PushCount, Posting, Events, IInv, TypeOK, PostInv
<1>4. ASSUME NEW i \in 1 .. Len(Queue')
      PROVE  Queue'[i] = Append(Queue, Posting(t))[i]
  <2>1. Queue'[i] = buffer[SlotOf(i)]
      BY <1>1 DEF Queue, PushCount, SlotOf
  <2>2. CASE i = Pending + 1
      BY <1>1, <1>3, <2>1, <2>2, AppendProperties DEF PushedInv, PushCount
  <2>3. CASE i <= Pending
      BY <1>1, <1>3, <2>1, <2>3, AppendProperties DEF Queue
  <2>4. QED
      BY <1>1, <1>2, <2>2, <2>3
<1>5. Queue' = Append(Queue, Posting(t))
  <2>1. Append(Queue, Posting(t)) \in Seq(Events)
        /\ Len(Append(Queue, Posting(t))) = Len(Queue')
      BY <1>1, <1>2, <1>3, AppendProperties
  <2>2. QED
      BY <1>1, <1>4, <2>1, SeqEqual
<1>6. QED
    BY <1>1, <1>2, <1>3, <1>5 DEF TQ!Post, PushCount, loopVars

LEMMA TakeTakes ==
    ASSUME IInv, IInv', PopTake
    PROVE  TQ!Take
<1> USE ConstantsAssumption
<1>1. /\ Pending \in 0 .. Capacity /\ Queue \in Seq(Events) /\ Len(Queue) = Pending
      /\ Queue' \in Seq(Events) /\ Len(Queue') = Pending'
  <2>1. (Queue \in Seq(Events) /\ Len(Queue) = Pending)'
      BY QueueType, PTL
  <2>2. QED
      BY <2>1, QueueType DEF Events
<1>2. Pending' = Pending - 1 /\ Pending \in 1 .. Capacity
    BY <1>1 DEF PopTake, LoopGoto, Pending, IInv, TypeOK, CountInv
<1>3. Queue # <<>> /\ Head(Queue) = buffer[get_pos]
  <2>1. SlotOf(1) = get_pos
      BY DEF SlotOf, IInv, TypeOK, Slots
  <2>2. Queue[1] = buffer[get_pos]
      BY <1>2, <2>1 DEF Queue
  <2>3. QED
      BY <1>1, <1>2, <2>2
<1>4. /\ Tail(Queue) \in Seq(Events) /\ Len(Tail(Queue)) = Len(Queue')
      /\ \A i \in 1 .. Len(Queue') : Tail(Queue)[i] = Queue[i + 1]
    BY <1>1, <1>2, <1>3, HeadTailProperties
<1>5. ASSUME NEW i \in 1 .. Len(Queue')
      PROVE  Queue'[i] = Tail(Queue)[i]
  <2>1. i \in 1 .. Pending - 1 /\ i \in 1 .. Capacity - 1
      BY <1>1, <1>2
  <2>2. SlotOf(i)' = SlotOf(i + 1) /\ SlotOf(i + 1) # get_pos /\ SlotOf(i + 1) \in Slots
    <3>1. get_pos \in Slots /\ get_pos' = Add(get_pos)
        BY DEF PopTake, IInv, TypeOK
    <3>2. QED
        BY <2>1, <3>1 DEF SlotOf, Add, Slots
  <2>3. Queue'[i] = buffer'[SlotOf(i)'] /\ Queue[i + 1] = buffer[SlotOf(i + 1)]
      BY <1>1, <1>2, <2>1 DEF Queue
  <2>4. buffer'[SlotOf(i + 1)] = buffer[SlotOf(i + 1)]
      BY <2>2 DEF PopTake, IInv, TypeOK
  <2>5. QED
      BY <1>4, <2>2, <2>3, <2>4
<1>6. Queue' = Tail(Queue)
    BY <1>1, <1>4, <1>5, SeqEqual
<1>7. callback = NoEvent
    BY DEF PopTake, LoopGoto, IInv, LoopInv
<1>8. QED
    BY <1>3, <1>6, <1>7 DEF TQ!Take, PopTake

\* ImplementsTriggerQueue: the scheduler's ring of any capacity, fed by any
\* number of threads, is a bounded FIFO of which one event runs at a time.
THEOREM Refinement == Spec => ImplementsTriggerQueue
<1> USE ConstantsAssumption
<1>1. Init => TQ!Init
  <2> SUFFICES ASSUME Init PROVE TQ!Init
      OBVIOUS
  <2>1. Pending = 0
      BY DEF Init, Pending
  <2>2. Queue = <<>>
      BY <2>1 DEF Queue
  <2>3. QED
      BY <2>2 DEF Init, TQ!Init
<1>2. IInv /\ IInv' /\ PushedInv /\ [Next]_vars => [TQ!Next]_TQ!vars
  <2> SUFFICES ASSUME IInv, IInv', PushedInv, [Next]_vars
               PROVE  TQ!Next \/ UNCHANGED <<Queue, callback>>
      BY DEF TQ!vars
  <2>1. ASSUME NEW t \in Producers, PushCount(t) PROVE TQ!Next
      BY <2>1, CountAppends DEF TQ!Next
  <2>2. CASE PopTake
      BY <2>2, TakeTakes DEF TQ!Next
  <2>3. CASE CallbackReturns
    <3>1. UNCHANGED Queue
        BY <2>3 DEF CallbackReturns, LoopGoto, Queue, Pending, SlotOf, ring
    <3>2. callback # NoEvent /\ callback' = NoEvent
        BY <2>3 DEF CallbackReturns, LoopGoto, IInv, LoopInv
    <3>3. QED
        BY <3>1, <3>2 DEF TQ!Finish, TQ!Next
  <2>4. CASE PopCount
      BY <2>4 DEF PopCount, LoopGoto, Queue, Pending, SlotOf
  <2>5. ASSUME NEW t \in Producers, PushSlot(t) PROVE UNCHANGED <<Queue, callback>>
    <3>1. Pending' = Pending /\ callback' = callback
        BY <2>5 DEF PushSlot, Pending, loopVars
    <3>2. Pending \in 0 .. Capacity - 1
        BY <2>5, QueueType DEF PushSlot, Pending, IInv, TypeOK, CountInv
    <3>3. Pushing = 0 /\ Filled = Pending
        BY <2>5 DEF PushSlot, Pushing, Filled, Pending, Popping, IInv, TypeOK,
                    MutexInv, Holding
    <3>4. put_pos = SlotOf(Pending + 1)
        BY <3>2, <3>3 DEF SlotOf, IInv, RingInv, TypeOK, Slots
    <3>5. ASSUME NEW i \in 1 .. Pending
          PROVE  buffer'[SlotOf(i)'] = buffer[SlotOf(i)]
      <4>1. SlotOf(i)' = SlotOf(i) /\ SlotOf(i) \in Slots /\ SlotOf(i) # put_pos
          BY <2>5, <3>2, <3>4 DEF PushSlot, SlotOf, IInv, TypeOK, Slots
      <4>2. QED
          BY <2>5, <4>1 DEF PushSlot, IInv, TypeOK
    <3>6. QED
        BY <3>1, <3>5 DEF Queue
  <2>6. ASSUME NEW t \in Producers,
               PostRefused(t) \/ PostAdmitted(t) \/ PushRoom(t) \/ PushFull(t) \/ PostWrite(t)
        PROVE  UNCHANGED <<Queue, callback>>
      BY <2>6 DEF PostRefused, PostAdmitted, PushRoom, PushFull, PostWrite, ring,
                  loopVars, Queue, Pending, SlotOf
  <2>7. CASE StopFlag \/ StopWrite \/ UNCHANGED vars
      BY <2>7 DEF StopFlag, StopWrite, vars, ring, loopVars, Queue, Pending, SlotOf
  <2>8. CASE LoopStart \/ LoopTest \/ PopTest \/ SizeTest \/ TimersHandled
      BY <2>8 DEF LoopStart, LoopTest, PopTest, SizeTest, TimersHandled, LoopGoto,
                  LoopMoves, ring, Queue, Pending, SlotOf
  <2>9. CASE WaitWakeup \/ WaitExpires \/ WaitChannel \/ ChannelReturns \/ WakeRead
      BY <2>9 DEF WaitWakeup, WaitExpires, WaitChannel, ChannelReturns, WakeRead,
                  LoopMoves, LoopGoto, ring, Queue, Pending, SlotOf
  <2>10. QED
      BY <2>1, <2>2, <2>3, <2>4, <2>5, <2>6, <2>7, <2>8, <2>9
         DEF Next, AddTriggerEvent, PostStep, LoopStep
<1>3. IInv /\ PushedInv /\ [Next]_vars => PushedInv'
    BY PushedStep
<1>4. QED
    BY <1>1, <1>2, <1>3, PushedInit, Invariant, PTL
       DEF Spec, ImplementsTriggerQueue, TQ!Spec

=============================================================================
