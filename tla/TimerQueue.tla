----------------------------- MODULE TimerQueue -----------------------------
(***************************************************************************)
(* xop::TimerQueue and the loop thread that serves it: timers_ (the timers *)
(* registered, by id), events_ (the same timers, ordered by due time and   *)
(* id), the mutex held while callbacks run, and the sleep in epoll_wait    *)
(* that GetTimeRemaining bounds.                                           *)
(*                                                                         *)
(* The clock is a counter of milliseconds that stops at MaxTime, where a   *)
(* finite sleep is taken to be over.                                       *)
(***************************************************************************)
EXTENDS Integers, FiniteSets

CONSTANTS Delays,       \* the values of AddTimer's ms
          IntMax,       \* the largest int: epoll_wait takes an int
          RemoteCalls,  \* TRUE: threads other than the loop's use the queue
          MaxTimers,    \* bound: calls of AddTimer
          MaxTime       \* bound: the clock

ASSUME TimerAssumption == /\ Delays \subseteq Nat
                          /\ IntMax \in Nat
                          /\ RemoteCalls \in BOOLEAN
                          /\ MaxTimers \in Nat
                          /\ MaxTime \in Nat

Ids  == 1 .. MaxTimers
NoId == 0
Never == -1

VARIABLES
    now,            \* GetTimeNow
    last_timer_id,  \* last_timer_id_
    timers,         \* the keys of timers_
    interval,       \* interval[id]: interval_ of the Timer object
    next_timeout,   \* next_timeout[id]: next_timeout_ of the Timer object
    events,         \* the keys of events_: pairs of due time and id
    pc,             \* where the loop thread is
    time_point,     \* the local timePoint of HandleTimerEvent
    running,        \* the timer whose callback runs, under mutex_
    timeout,        \* what GetTimeRemaining answered
    deadline,       \* when epoll_wait returns, or Never
    asked,          \* history: asked[id], when AddTimer came and its ms
    called,         \* history: timers whose callback has run
    pass,           \* history: those it has run in this HandleTimerEvent
    unnoticed       \* history: timers added since the loop thread fell asleep

queueVars == <<last_timer_id, timers, interval, next_timeout, events>>
loopVars  == <<pc, time_point, running, timeout, deadline>>
history   == <<asked, called, pass, unnoticed>>
vars      == <<now, queueVars, loopVars, history>>

Init == /\ now = 0
        /\ last_timer_id = 0
        /\ timers = {} /\ events = {}
        /\ interval = [i \in Ids |-> 0]
        /\ next_timeout = [i \in Ids |-> 0]
        /\ pc = "trigger"
        /\ time_point = 0
        /\ running = NoId
        /\ timeout = 0
        /\ deadline = Never
        /\ asked = [i \in Ids |-> [at |-> 0, ms |-> 0]]
        /\ called = {} /\ pass = {} /\ unnoticed = {}

\* HandleTimerEvent holds mutex_ from its reading of the clock to its return.
MutexFree == pc \notin {"fire", "callback"}

\* Who uses the queue: the loop thread between its duties (a trigger event or
\* a channel callback), another thread at any time.
MayCall == MutexFree /\ (RemoteCalls \/ pc = "trigger")

\* Mutant: Timer's constructor keeps an interval of 0.
IntervalOf_Zero(ms) == ms

\* Timer's constructor: an interval of 0 becomes 1.
IntervalOf(ms) == IF ms = 0 THEN 1 ELSE ms

\* Mutant: the id is the counter's value before it is incremented.
AddTimer_PostIncrement(ms) ==
    LET id == last_timer_id IN
    /\ MayCall
    /\ id + 1 \in Ids
    /\ last_timer_id' = id + 1
    /\ timers' = timers \cup {id}
    /\ events' = events \cup {<<now + ms, id>>}
    /\ UNCHANGED <<now, interval, next_timeout, loopVars, history>>

\* The event is keyed by the delay asked for, next_timeout_ by the interval.
AddTimer(ms) ==
    LET id == last_timer_id + 1 IN
    /\ MayCall
    /\ id \in Ids
    /\ last_timer_id' = id
    /\ timers' = timers \cup {id}
    /\ interval' = [interval EXCEPT ![id] = IntervalOf(ms)]
    /\ next_timeout' = [next_timeout EXCEPT ![id] = now + IntervalOf(ms)]
    /\ events' = events \cup {<<now + ms, id>>}
    /\ asked' = [asked EXCEPT ![id] = [at |-> now, ms |-> ms]]
    /\ unnoticed' = IF pc \in {"sleep", "epoll_wait"} THEN unnoticed \cup {id} ELSE unnoticed
    /\ UNCHANGED <<now, loopVars, called, pass>>

\* A timer that is not registered is left alone (a no-op, not a step here).
RemoveTimer(id) ==
    /\ MayCall
    /\ id \in timers
    /\ events' = events \ {<<next_timeout[id], id>>}
    /\ timers' = timers \ {id}
    /\ UNCHANGED <<now, last_timer_id, interval, next_timeout, loopVars, history>>

-----------------------------------------------------------------------------
(* The loop thread.                                                        *)

\* The order of events_: std::pair's, by time and then by id.
Before(e, f) == e[1] < f[1] \/ (e[1] = f[1] /\ e[2] <= f[2])
IsFirst(e) == e \in events /\ \A f \in events : Before(e, f)

\* HandleTriggerEvent has run; HandleTimerEvent reads timers_ without a lock.
CheckEmpty ==
    /\ pc = "trigger"
    /\ pc' = IF timers = {} THEN "remaining" ELSE "lock"
    /\ UNCHANGED <<now, queueVars, time_point, running, timeout, deadline, history>>

ReadClock ==
    /\ pc = "lock"
    /\ pc' = "fire"
    /\ time_point' = now
    /\ pass' = {}
    /\ UNCHANGED <<now, queueVars, running, timeout, deadline, asked, called,
                   unnoticed>>

Due(e) == IsFirst(e) /\ timers # {} /\ e[1] <= time_point

Fire == \E e \in events :
    /\ pc = "fire"
    /\ Due(e)
    /\ pc' = "callback"
    /\ running' = e[2]
    /\ called' = called \cup {e[2]}
    /\ UNCHANGED <<now, queueVars, time_point, timeout, deadline, asked, pass,
                   unnoticed>>

\* Mutant: the old event of a repeating timer is not erased.
Repeats_NoErase == \E e \in events :
    /\ pc = "callback"
    /\ IsFirst(e)
    /\ pc' = "fire"
    /\ running' = NoId
    /\ pass' = pass \cup {e[2]}
    /\ next_timeout' = [next_timeout EXCEPT ![e[2]] = time_point + interval[e[2]]]
    /\ events' = events \cup {<<time_point + interval[e[2]], e[2]>>}
    /\ UNCHANGED <<now, last_timer_id, timers, interval, time_point, timeout,
                   deadline, asked, called, unnoticed>>

\* Mutant: the event moves and next_timeout_ does not.
Repeats_NoSet == \E e \in events :
    /\ pc = "callback"
    /\ IsFirst(e)
    /\ pc' = "fire"
    /\ running' = NoId
    /\ pass' = pass \cup {e[2]}
    /\ events' = (events \ {e}) \cup {<<time_point + interval[e[2]], e[2]>>}
    /\ UNCHANGED <<now, last_timer_id, timers, interval, next_timeout,
                   time_point, timeout, deadline, asked, called, unnoticed>>

\* The callback answers TRUE: it wants to be called again.
Repeats == \E e \in events :
    /\ pc = "callback"
    /\ IsFirst(e)
    /\ pc' = "fire"
    /\ running' = NoId
    /\ pass' = pass \cup {e[2]}
    /\ next_timeout' = [next_timeout EXCEPT ![e[2]] = time_point + interval[e[2]]]
    /\ events' = (events \ {e}) \cup {<<time_point + interval[e[2]], e[2]>>}
    /\ UNCHANGED <<now, last_timer_id, timers, interval, time_point, timeout,
                   deadline, asked, called, unnoticed>>

Ends == \E e \in events :
    /\ pc = "callback"
    /\ IsFirst(e)
    /\ pc' = "fire"
    /\ running' = NoId
    /\ pass' = pass \cup {e[2]}
    /\ events' = events \ {e}
    /\ timers' = timers \ {e[2]}
    /\ UNCHANGED <<now, last_timer_id, interval, next_timeout, time_point,
                   timeout, deadline, asked, called, unnoticed>>

NothingDue == /\ pc = "fire"
              /\ \A e \in events : ~Due(e)
              /\ pc' = "remaining"
              /\ UNCHANGED <<now, queueVars, time_point, running, timeout,
                             deadline, history>>

\* (int)timeout, for the values the clock can produce.
ToInt(n) == IF n > IntMax THEN n - 2 * (IntMax + 1) ELSE n

\* Mutant: the answer for an overdue event is not raised to 0.
GetTimeRemaining_NoClamp ==
    /\ pc = "remaining"
    /\ pc' = "sleep"
    /\ \/ timers = {} /\ timeout' = -1
       \/ /\ timers # {}
          /\ \E e \in events : IsFirst(e) /\ timeout' = ToInt(e[1] - now)
    /\ UNCHANGED <<now, queueVars, time_point, running, deadline, history>>

GetTimeRemaining ==
    /\ pc = "remaining"
    /\ pc' = "sleep"
    /\ \/ timers = {} /\ timeout' = -1
       \/ /\ timers # {}
          /\ \E e \in events :
                /\ IsFirst(e)
                /\ timeout' = ToInt(IF e[1] < now THEN 0 ELSE e[1] - now)
    /\ UNCHANGED <<now, queueVars, time_point, running, deadline, history>>

\* epoll_wait: a negative timeout sleeps until some descriptor is ready.
Sleep == /\ pc = "sleep"
         /\ pc' = "epoll_wait"
         /\ deadline' = IF timeout < 0 THEN Never ELSE now + timeout
         /\ UNCHANGED <<now, queueVars, time_point, running, timeout, history>>

WakeUp == /\ pc = "epoll_wait"
          /\ pc' = "trigger"
          /\ deadline' = Never
          /\ unnoticed' = {}
          /\ UNCHANGED <<now, queueVars, time_point, running, timeout, asked, called, pass>>

Expires == deadline # Never /\ (now >= deadline \/ now = MaxTime) /\ WakeUp

Tick == /\ now < MaxTime
        /\ now' = now + 1
        /\ UNCHANGED <<queueVars, loopVars, history>>

LoopStep == \/ CheckEmpty \/ ReadClock \/ Fire \/ Repeats \/ Ends \/ NothingDue
            \/ GetTimeRemaining \/ Sleep \/ Expires

Next == \/ \E ms \in Delays : AddTimer(ms)
        \/ \E id \in Ids : RemoveTimer(id)
        \/ LoopStep \/ WakeUp
        \/ Tick

Spec == Init /\ [][Next]_vars

\* Time passes and the loop thread runs; nobody must wake it.
FairSpec == Spec /\ WF_vars(Tick) /\ WF_vars(LoopStep)

-----------------------------------------------------------------------------
Due0(id) == asked[id].at + asked[id].ms

TypeOK ==
    /\ now \in 0 .. MaxTime
    /\ last_timer_id \in 0 .. MaxTimers
    /\ timers \subseteq 1 .. last_timer_id
    /\ interval \in [Ids -> Nat] /\ next_timeout \in [Ids -> Nat]
    /\ events \subseteq Nat \X (1 .. last_timer_id)
    /\ pc \in {"trigger", "lock", "fire", "callback", "remaining", "sleep",
               "epoll_wait"}
    /\ time_point \in 0 .. now
    /\ running \in Ids \cup {NoId}
    /\ timeout \in Int
    /\ deadline \in Nat \cup {Never}
    /\ asked \in [Ids -> [at : 0 .. MaxTime, ms : Delays \cup {0}]]
    /\ called \subseteq Ids /\ pass \subseteq Ids /\ unnoticed \subseteq Ids

\* Every registered timer has its event, and only one, so that the loop never
\* reads the first event of an empty map and no timer fires twice for one
\* registration, whatever adds, removals and repeats have come.
EventsCoverTimers ==
    /\ \A id \in timers : \E e \in events : e[2] = id
    /\ \A e, f \in events : e[2] = f[2] => e = f

\* RemoveTimer removes: an event whose timer is no longer registered is one
\* that was asked for with a delay of 0 (its key is not the one that
\* RemoveTimer computes).  Every other removed timer is never called again.
StaleOnlyFromZero ==
    \A e \in events : e[2] \notin timers => asked[e[2]].ms = 0

\* A repeating timer is called at most once in one HandleTimerEvent: what the
\* interval of at least 1 is for.  Otherwise the loop thread would never leave
\* HandleTimerEvent, which holds the mutex.
OncePerPass == running \notin pass

\* The first call of a timer does not come before its delay is over.
FirstCallNotEarly ==
    [][\A id \in Ids : id \in called' \ called => now >= Due0(id)]_vars

\* A timer that falls due is called, or removed before, with nobody to wake the
\* loop thread: epoll_wait never sleeps past it, whatever longer timers there
\* are.  Two kinds are not noticed before something else ends the sleep: one
\* that another thread adds meanwhile, and one whose delay no int can hold.
TimersFire ==
    \A id \in Ids :
        (id \in timers /\ asked[id].ms <= IntMax /\ Due0(id) <= MaxTime)
            ~> (id \in called \/ id \notin timers \/ id \in unnoticed)
=============================================================================
