--------------------------- MODULE TaskScheduler ---------------------------
(***************************************************************************)
(* One xop::TaskScheduler: the ring buffer of trigger events, the mutex    *)
(* that serialises its posters, the wakeup pipe, and the loop thread that  *)
(* drains the ring and then blocks in epoll_wait.                          *)
(*                                                                         *)
(* The steps are the accesses to shared memory that another thread can     *)
(* come between: RingBuffer's slot and its atomic counter are separate     *)
(* steps, put_pos_ (read and written only under mutex_) moves with the     *)
(* slot written, get_pos_ (touched only by the loop thread) with the slot  *)
(* read.  Posters are the other threads and the loop thread itself, from   *)
(* inside a trigger event, a timer callback or a channel callback.         *)
(***************************************************************************)
EXTENDS Integers, Sequences, FiniteSets

CONSTANTS Producers,    \* the threads that post events
          LoopThread,   \* runs TaskScheduler::Start; it may be a producer
          NoThread,     \* nobody holds mutex_
          NoEvent,      \* an empty std::function
          Capacity,     \* kMaxTriggetEvents
          PipeSize,     \* bytes the wakeup pipe holds
          WakeChunk,    \* bytes Wake reads at a time
          MaxPosts      \* bound: calls of AddTriggerEvent by one thread

Events == Producers \X (1 .. MaxPosts)

ASSUME ConstantsAssumption ==
    /\ NoThread \notin Producers
    /\ NoEvent \notin Events
    /\ Capacity \in Nat \ {0}
    /\ PipeSize \in Nat \ {0}
    /\ WakeChunk \in Nat \ {0}
    /\ MaxPosts \in Nat

VARIABLES
    is_shutdown,        \* is_shutdown_
    buffer,             \* RingBuffer::buffer_; NoEvent is a moved-out slot
    put_pos, get_pos,   \* RingBuffer's positions
    num_datas,          \* RingBuffer::num_datas_
    pipe,               \* unread bytes in the wakeup pipe
    mutex,              \* who holds TaskScheduler::mutex_
    posts,              \* posts[t]: calls of AddTriggerEvent by t so far
    post_pc,            \* post_pc[t]: where t is inside AddTriggerEvent
    loop_pc,            \* where the loop thread is
    callback,           \* the local of HandleTriggerEvent
    timeout,            \* what GetTimeRemaining answered: -1 waits for ever
    stop_pc,            \* where the thread that calls Stop is
    dropped             \* history: posts answered true that Push refused

ring     == <<buffer, put_pos, get_pos, num_datas>>
postVars == <<mutex, posts, post_pc, dropped>>
loopVars == <<loop_pc, callback, timeout>>
vars     == <<is_shutdown, ring, pipe, postVars, loopVars, stop_pc>>

Slots == 0 .. Capacity - 1

\* RingBuffer::Add
Add(pos) == IF pos + 1 = Capacity THEN 0 ELSE pos + 1

\* Pipe::Write of one byte: a full non-blocking pipe answers EAGAIN, which
\* no caller looks at.
PipeWritten == pipe' = IF pipe < PipeSize THEN pipe + 1 ELSE pipe

\* The event t is posting now.
Posting(t) == <<t, posts[t]>>

PostStates == {"idle", "lock", "slot", "count", "write"}
Holding    == {"slot", "count", "write"}
UserCode   == {"callback", "timer", "channel"}
LoopStates == UserCode \cup
    {"start", "while", "pop", "take", "dec", "size", "epoll_wait", "wake",
     "done"}

Init == /\ is_shutdown = FALSE
        /\ buffer = [i \in Slots |-> NoEvent]
        /\ put_pos = 0 /\ get_pos = 0 /\ num_datas = 0
        /\ pipe = 0
        /\ mutex = NoThread
        /\ posts = [t \in Producers |-> 0]
        /\ post_pc = [t \in Producers |-> "idle"]
        /\ loop_pc = "start"
        /\ callback = NoEvent
        /\ timeout = -1
        /\ stop_pc = "idle"
        /\ dropped = {}

-----------------------------------------------------------------------------
(* AddTriggerEvent, called by thread t.                                    *)

\* t may call: any time from outside, from inside a callback in the loop.
MayPost(t) == /\ post_pc[t] = "idle"
              /\ posts[t] < MaxPosts
              /\ t = LoopThread => loop_pc \in UserCode

\* The size is read before the mutex is taken.
PostRefused(t) ==
    /\ MayPost(t)
    /\ num_datas >= Capacity
    /\ posts' = [posts EXCEPT ![t] = @ + 1]
    /\ UNCHANGED <<is_shutdown, ring, pipe, mutex, post_pc, dropped, loopVars,
                   stop_pc>>

\* Mutant: `<=` for `<` in AddTriggerEvent's test of Size.
PostAdmitted_OffByOne(t) ==
    /\ MayPost(t)
    /\ num_datas <= Capacity
    /\ posts' = [posts EXCEPT ![t] = @ + 1]
    /\ post_pc' = [post_pc EXCEPT ![t] = "lock"]
    /\ UNCHANGED <<is_shutdown, ring, pipe, mutex, dropped, loopVars, stop_pc>>

PostAdmitted(t) ==
    /\ MayPost(t)
    /\ num_datas < Capacity
    /\ posts' = [posts EXCEPT ![t] = @ + 1]
    /\ post_pc' = [post_pc EXCEPT ![t] = "lock"]
    /\ UNCHANGED <<is_shutdown, ring, pipe, mutex, dropped, loopVars, stop_pc>>

\* Mutant: AddTriggerEvent does not wait for mutex_.
PushRoom_NoLock(t) ==
    /\ post_pc[t] = "lock"
    /\ num_datas < Capacity
    /\ mutex' = t
    /\ post_pc' = [post_pc EXCEPT ![t] = "slot"]
    /\ UNCHANGED <<is_shutdown, ring, pipe, posts, dropped, loopVars, stop_pc>>

\* Mutant: PushData trusts the test made before the lock.
PushRoom_NoTest(t) ==
    /\ post_pc[t] = "lock"
    /\ mutex = NoThread
    /\ mutex' = t
    /\ post_pc' = [post_pc EXCEPT ![t] = "slot"]
    /\ UNCHANGED <<is_shutdown, ring, pipe, posts, dropped, loopVars, stop_pc>>

\* With the mutex, PushData reads num_datas_ again.
PushRoom(t) ==
    /\ post_pc[t] = "lock"
    /\ mutex = NoThread
    /\ num_datas < Capacity
    /\ mutex' = t
    /\ post_pc' = [post_pc EXCEPT ![t] = "slot"]
    /\ UNCHANGED <<is_shutdown, ring, pipe, posts, dropped, loopVars, stop_pc>>

\* Push's false is ignored: the byte is written and true is returned.
PushFull(t) ==
    /\ post_pc[t] = "lock"
    /\ mutex = NoThread
    /\ num_datas >= Capacity
    /\ mutex' = t
    /\ post_pc' = [post_pc EXCEPT ![t] = "write"]
    /\ dropped' = dropped \cup {Posting(t)}
    /\ UNCHANGED <<is_shutdown, ring, pipe, posts, loopVars, stop_pc>>

\* Mutant: PushData forgets Add(put_pos_).
PushSlot_NoAdd(t) ==
    /\ post_pc[t] = "slot"
    /\ buffer' = [buffer EXCEPT ![put_pos] = Posting(t)]
    /\ post_pc' = [post_pc EXCEPT ![t] = "count"]
    /\ UNCHANGED <<is_shutdown, put_pos, get_pos, num_datas, pipe, mutex, posts,
                   dropped, loopVars, stop_pc>>

PushSlot(t) ==
    /\ post_pc[t] = "slot"
    /\ buffer' = [buffer EXCEPT ![put_pos] = Posting(t)]
    /\ put_pos' = Add(put_pos)
    /\ post_pc' = [post_pc EXCEPT ![t] = "count"]
    /\ UNCHANGED <<is_shutdown, get_pos, num_datas, pipe, mutex, posts, dropped,
                   loopVars, stop_pc>>

PushCount(t) ==
    /\ post_pc[t] = "count"
    /\ num_datas' = num_datas + 1
    /\ post_pc' = [post_pc EXCEPT ![t] = "write"]
    /\ UNCHANGED <<is_shutdown, buffer, put_pos, get_pos, pipe, mutex, posts,
                   dropped, loopVars, stop_pc>>

\* Mutant: AddTriggerEvent does not wake the loop.
PostWrite_NoByte(t) ==
    /\ post_pc[t] = "write"
    /\ mutex' = NoThread
    /\ post_pc' = [post_pc EXCEPT ![t] = "idle"]
    /\ UNCHANGED <<is_shutdown, ring, pipe, posts, dropped, loopVars, stop_pc>>

\* The wakeup byte, then the lock_guard's destructor and the return.
PostWrite(t) ==
    /\ post_pc[t] = "write"
    /\ PipeWritten
    /\ mutex' = NoThread
    /\ post_pc' = [post_pc EXCEPT ![t] = "idle"]
    /\ UNCHANGED <<is_shutdown, ring, posts, dropped, loopVars, stop_pc>>

\* The steps that t takes once it has called, and the call itself.
PostStep(t) == \/ PushRoom(t) \/ PushFull(t)
               \/ PushSlot(t) \/ PushCount(t) \/ PostWrite(t)
AddTriggerEvent(t) == PostRefused(t) \/ PostAdmitted(t) \/ PostStep(t)

-----------------------------------------------------------------------------
(* Stop, called once, by the thread in EventLoop::Quit.                    *)

StopFlag == /\ stop_pc = "idle"
            /\ is_shutdown' = TRUE
            /\ stop_pc' = "write"
            /\ UNCHANGED <<ring, pipe, postVars, loopVars>>

\* Mutant: Stop sets the flag and does not wake the loop.
StopWrite_NoByte == /\ stop_pc = "write"
                    /\ stop_pc' = "done"
                    /\ UNCHANGED <<is_shutdown, ring, pipe, postVars, loopVars>>

StopWrite == /\ stop_pc = "write"
             /\ PipeWritten
             /\ stop_pc' = "done"
             /\ UNCHANGED <<is_shutdown, ring, postVars, loopVars>>

-----------------------------------------------------------------------------
(* The loop thread: Start, HandleTriggerEvent, HandleEvent, Wake.          *)

\* The loop thread is in no call of AddTriggerEvent.
LoopIdle == LoopThread \in Producers => post_pc[LoopThread] = "idle"

LoopGoto(from, to) == loop_pc = from /\ loop_pc' = to

\* A step of the loop thread that changes nothing but where it is.
LoopMoves(from, to) ==
    /\ LoopGoto(from, to)
    /\ UNCHANGED <<is_shutdown, ring, pipe, postVars, callback, timeout, stop_pc>>

\* Start: is_shutdown_ = false, whatever Stop did before.
LoopStart == /\ LoopGoto("start", "while")
             /\ is_shutdown' = FALSE
             /\ UNCHANGED <<ring, pipe, postVars, callback, timeout, stop_pc>>

LoopTest == LoopMoves("while", IF is_shutdown THEN "done" ELSE "pop")

\* RingBuffer::Pop reads num_datas_.
PopTest == LoopMoves("pop", IF num_datas > 0 THEN "take" ELSE "size")

PopTake == /\ LoopGoto("take", "dec")
           /\ callback' = buffer[get_pos]
           /\ buffer' = [buffer EXCEPT ![get_pos] = NoEvent]
           /\ get_pos' = Add(get_pos)
           /\ UNCHANGED <<is_shutdown, put_pos, num_datas, pipe, postVars,
                          timeout, stop_pc>>

PopCount == /\ LoopGoto("dec", "callback")
            /\ num_datas' = num_datas - 1
            /\ UNCHANGED <<is_shutdown, buffer, put_pos, get_pos, pipe,
                           postVars, callback, timeout, stop_pc>>

\* A callback returns; it may have posted events of its own.
CallbackReturns ==
    /\ LoopGoto("callback", "size")
    /\ LoopIdle
    /\ callback' = NoEvent
    /\ UNCHANGED <<is_shutdown, ring, pipe, postVars, timeout, stop_pc>>

\* do { ... } while (Size() > 0)
SizeTest == LoopMoves("size", IF num_datas > 0 THEN "pop" ELSE "timer")

\* HandleTimerEvent has run its callbacks; GetTimeRemaining answers -1 when
\* there is no timer, else a delay (0 stands for any finite one).
TimersHandled ==
    /\ LoopGoto("timer", "epoll_wait")
    /\ LoopIdle
    /\ timeout' \in {-1, 0}
    /\ UNCHANGED <<is_shutdown, ring, pipe, postVars, callback, stop_pc>>

\* epoll_wait reports the readable end of the pipe (level triggered).
WaitWakeup  == pipe > 0 /\ LoopMoves("epoll_wait", "wake")
WaitExpires == timeout >= 0 /\ LoopMoves("epoll_wait", "while")

\* Another channel is ready: its callback runs, and may post.
WaitChannel == LoopMoves("epoll_wait", "channel")

\* The batch of that epoll_wait may end with the wakeup channel.
ChannelReturns == /\ LoopIdle
                  /\ \/ LoopMoves("channel", "while")
                     \/ pipe > 0 /\ LoopMoves("channel", "wake")

\* Wake: read until the pipe is empty.
WakeRead == /\ LoopGoto("wake", IF pipe > 0 THEN "wake" ELSE "while")
            /\ pipe' = IF pipe > WakeChunk THEN pipe - WakeChunk ELSE 0
            /\ UNCHANGED <<is_shutdown, ring, postVars, callback, timeout,
                           stop_pc>>

LoopStep == \/ LoopStart \/ LoopTest
            \/ PopTest \/ PopTake \/ PopCount \/ CallbackReturns \/ SizeTest
            \/ TimersHandled
            \/ WaitWakeup \/ WaitExpires \/ ChannelReturns
            \/ WakeRead

Next == \/ \E t \in Producers : AddTriggerEvent(t)
        \/ StopFlag \/ StopWrite
        \/ LoopStep \/ WaitChannel

Spec == Init /\ [][Next]_vars

\* The threads are scheduled: each goes on with a call it has begun and the
\* loop thread with its loop.  Nothing makes anybody post or call Stop, no
\* other channel need ever become ready.
Fairness == /\ \A t \in Producers : WF_vars(PostStep(t))
            /\ WF_vars(StopWrite)
            /\ WF_vars(LoopStep)

FairSpec == Spec /\ Fairness

-----------------------------------------------------------------------------
TypeOK ==
    /\ is_shutdown \in BOOLEAN
    /\ buffer \in [Slots -> Events \cup {NoEvent}]
    /\ put_pos \in Slots /\ get_pos \in Slots
    /\ num_datas \in 0 .. Capacity
    /\ pipe \in 0 .. PipeSize
    /\ mutex \in Producers \cup {NoThread}
    /\ posts \in [Producers -> 0 .. MaxPosts]
    /\ post_pc \in [Producers -> PostStates]
    /\ loop_pc \in LoopStates
    /\ callback \in Events \cup {NoEvent}
    /\ timeout \in {-1, 0}
    /\ stop_pc \in {"idle", "write", "done"}
    /\ dropped \subseteq Events

\* The loop thread never reads a slot nobody has finished writing, and a
\* poster never writes a slot whose event has not been moved out: num_datas_
\* alone hands the slots of RingBuffer over between the two sides.
SlotHandover ==
    /\ loop_pc = "take" => buffer[get_pos] # NoEvent
    /\ \A t \in Producers : post_pc[t] = "slot" => buffer[put_pos] = NoEvent

\* The loop thread never sleeps on queued work: when it is about to block in
\* epoll_wait, or blocks there, and the ring holds an event, the pipe holds a
\* byte or the poster of an event is about to write one.
NoLostWakeup ==
    loop_pc \in {"timer", "epoll_wait"} /\ num_datas > 0 =>
        pipe > 0 \/ \E t \in Producers : post_pc[t] = "write"

\* The same for Stop: a loop that has passed the test of is_shutdown_ and has
\* not seen it set cannot block for ever once Stop has returned.
StopIsSeen ==
    loop_pc = "epoll_wait" /\ is_shutdown => pipe > 0 \/ stop_pc = "write"

\* An event is lost (AddTriggerEvent answered true and Push refused it) only
\* where another thread has posted as well: between one thread's test of Size
\* and its Push the loop thread by itself only makes room.
RivalPosted(t) == \E s \in Producers \ {t} : posts[s] > 0
DropsHaveRivals == \A e \in dropped : RivalPosted(e[1])

\* The events in the ring, oldest first.  The loop thread has taken an event
\* once it has moved it out of its slot, before num_datas_ is decremented.
SlotOf(i) == IF get_pos + i - 1 < Capacity THEN get_pos + i - 1
                                           ELSE get_pos + i - 1 - Capacity
Pending == IF loop_pc = "dec" THEN num_datas - 1 ELSE num_datas
Queue == [i \in 1 .. Pending |-> buffer[SlotOf(i)]]

\* The ring, its counter and its mutex implement a bounded FIFO that runs one
\* event at a time: no event is lost, doubled or overtaken once it is counted.
TQ == INSTANCE TriggerQueue WITH Bound <- Capacity, queue <- Queue,
                                 running <- callback
ImplementsTriggerQueue == TQ!Spec

\* Every event in the ring is run, unless Stop is called.
EventsRun == \A e \in Events :
    (\E i \in 1 .. Pending : Queue[i] = e) ~> (callback = e \/ is_shutdown)

\* Once the loop has begun (Start resets the flag, so a Stop that comes first
\* is forgotten), a Stop ends it, however long it would have slept.
StopEndsLoop == (is_shutdown /\ loop_pc # "start") ~> (loop_pc = "done")
=============================================================================
