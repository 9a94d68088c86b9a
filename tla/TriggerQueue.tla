---------------------------- MODULE TriggerQueue ----------------------------
(***************************************************************************)
(* What a TaskScheduler promises to the threads that hand it trigger       *)
(* events: a bounded FIFO whose events one thread runs one at a time.      *)
(* Nothing here mentions slots, counters, the mutex or the wakeup pipe;    *)
(* TaskScheduler.tla is shown to implement this module.                    *)
(***************************************************************************)
EXTENDS Naturals, Sequences

CONSTANTS Events,       \* every event some thread may post
          NoEvent,      \* no callback is being run
          Bound         \* the most events that wait at one time

VARIABLES queue,        \* events posted and not yet taken, oldest first
          running       \* the event whose callback the loop thread runs

vars == <<queue, running>>

Init == queue = <<>> /\ running = NoEvent

\* A poster adds one event at the end, never beyond the bound.
Post(e) == /\ Len(queue) < Bound
           /\ queue' = Append(queue, e)
           /\ UNCHANGED running

\* The loop takes the oldest event, only when it runs no other.
Take == /\ running = NoEvent
        /\ queue # <<>>
        /\ running' = Head(queue)
        /\ queue' = Tail(queue)

Finish == /\ running # NoEvent
          /\ running' = NoEvent
          /\ UNCHANGED queue

Next == \/ \E e \in Events : Post(e)
        \/ Take
        \/ Finish

Spec == Init /\ [][Next]_vars
=============================================================================
