-------------------------- MODULE TimerQueue_proofs --------------------------
(***************************************************************************)
(* The safety properties of TimerQueue, for any delays, any number of      *)
(* timers and any clock, with other threads using the queue or not.        *)
(***************************************************************************)
EXTENDS TimerQueue, TLAPS

\* A registered timer asked for with a delay has its event where RemoveTimer
\* will look for it.
KeyInv == \A e \in events :
    e[2] \in timers /\ asked[e[2]].ms # 0 => e[1] = next_timeout[e[2]]

\* A timer that exists has an interval of at least 1: a timer called again in
\* this pass would be due after the pass's reading of the clock.
IntervalInv == \A id \in 1 .. last_timer_id : interval[id] >= 1

PassInv == pc \in {"fire", "callback"} =>
    \A e \in events : e[2] \in pass => e[1] > time_point

RunningInv ==
    /\ pc # "callback" => running = NoId
    /\ pc = "callback" =>
         /\ running \in called
         /\ \E e \in events : IsFirst(e) /\ e[2] = running /\ e[1] <= time_point

\* A timer that was never called has the event AddTimer gave it.
FirstInv == \A e \in events : e[2] \notin called => e[1] = Due0(e[2])

IInv == /\ TypeOK /\ EventsCoverTimers /\ StaleOnlyFromZero
        /\ KeyInv /\ IntervalInv /\ PassInv /\ RunningInv /\ FirstInv

-----------------------------------------------------------------------------
LEMMA InitIInv == Init => IInv
<1> USE TimerAssumption DEF Init
<1>1. Init => TypeOK
    BY DEF TypeOK, Ids, NoId, Never
<1>2. Init => /\ EventsCoverTimers /\ StaleOnlyFromZero /\ KeyInv /\ IntervalInv
              /\ PassInv /\ RunningInv /\ FirstInv
    BY DEF EventsCoverTimers, StaleOnlyFromZero, KeyInv, IntervalInv, PassInv,
           RunningInv, FirstInv
<1>3. QED
    BY <1>1, <1>2 DEF IInv

\* What TypeOK says of the numbers the queue compares and adds.
LEMMA Types ==
    ASSUME TypeOK
    PROVE  /\ last_timer_id \in Nat /\ last_timer_id <= MaxTimers
           /\ now \in Nat /\ time_point \in Nat /\ time_point <= now
           /\ \A e \in events : /\ e[1] \in Nat /\ e[2] \in Ids /\ e[2] <= last_timer_id
                               /\ e = <<e[1], e[2]>>
           /\ \A id \in timers : id \in Ids /\ id <= last_timer_id
           /\ \A id \in Ids : /\ interval[id] \in Nat /\ next_timeout[id] \in Nat
                             /\ asked[id].at \in Nat /\ asked[id].ms \in Nat
<1> USE TimerAssumption DEF TypeOK, Ids
<1>1. /\ last_timer_id \in Nat /\ last_timer_id <= MaxTimers
      /\ now \in Nat /\ time_point \in Nat /\ time_point <= now
    OBVIOUS
<1>2. ASSUME NEW e \in events
      PROVE  /\ e[1] \in Nat /\ e[2] \in Ids /\ e[2] <= last_timer_id
             /\ e = <<e[1], e[2]>>
  <2>1. e \in Nat \X (1 .. last_timer_id)
      OBVIOUS
  <2>2. QED
      BY <1>1, <2>1
<1>3. \A id \in timers : id \in Ids /\ id <= last_timer_id
    BY <1>1
<1>4. ASSUME NEW id \in Ids
      PROVE  /\ interval[id] \in Nat /\ next_timeout[id] \in Nat
             /\ asked[id].at \in Nat /\ asked[id].ms \in Nat
  <2>1. asked[id] \in [at : 0 .. MaxTime, ms : Delays \cup {0}]
      OBVIOUS
  <2>2. asked[id].at \in 0 .. MaxTime /\ asked[id].ms \in Delays \cup {0}
      BY <2>1
  <2>3. 0 .. MaxTime \subseteq Nat /\ Delays \cup {0} \subseteq Nat
      OBVIOUS
  <2> HIDE DEF TypeOK
  <2>4. interval[id] \in Nat /\ next_timeout[id] \in Nat
      BY DEF TypeOK
  <2>5. asked[id].at \in Nat /\ asked[id].ms \in Nat
      BY <2>2, <2>3
  <2>6. QED
      BY <2>4, <2>5
<1>5. QED
    BY <1>1, <1>2, <1>3, <1>4

\* What AddTimer changes: id is the new timer and new its event.
Added(ms, id, new) ==
    /\ new[1] = now + ms /\ new[2] = id /\ ms \in Nat
    /\ id = last_timer_id + 1 /\ last_timer_id' = id
    /\ events' = events \cup {new} /\ timers' = timers \cup {id}
    /\ id \notin timers /\ \A e \in events : e[2] # id
    /\ asked'[id].at = now /\ asked'[id].ms = ms
    /\ interval'[id] = IntervalOf(ms) /\ next_timeout'[id] = now + IntervalOf(ms)
    /\ \A i \in Ids \ {id} : /\ asked'[i] = asked[i] /\ interval'[i] = interval[i]
                           /\ next_timeout'[i] = next_timeout[i]

LEMMA AddTimerFacts ==
    ASSUME TypeOK, NEW ms \in Delays, AddTimer(ms)
    PROVE  \E id \in Ids, new \in events' : Added(ms, id, new)
<1> DEFINE id == last_timer_id + 1
           new == <<now + ms, id>>
<1>1. ms \in Nat /\ id \in Ids
    BY TimerAssumption DEF AddTimer
<1>2. new \in events' /\ events' = events \cup {new} /\ timers' = timers \cup {id}
    BY DEF AddTimer
<1>3. id \notin timers /\ \A e \in events : e[2] # id
    BY Types
<1>4. /\ asked'[id].at = now /\ asked'[id].ms = ms
      /\ interval'[id] = IntervalOf(ms) /\ next_timeout'[id] = now + IntervalOf(ms)
      /\ \A i \in Ids \ {id} : /\ asked'[i] = asked[i] /\ interval'[i] = interval[i]
                             /\ next_timeout'[i] = next_timeout[i]
    BY <1>1 DEF AddTimer, TypeOK
<1>5. new[1] = now + ms /\ new[2] = id /\ last_timer_id' = id
    BY DEF AddTimer
<1>6. QED
    BY <1>1, <1>2, <1>3, <1>4, <1>5 DEF Added

\* What a callback that wants to be called again changes: new replaces e.
Repeated(e, new) ==
    /\ e[1] <= time_point /\ e[2] \in Ids /\ e[2] = running
    /\ new[1] = time_point + interval[e[2]] /\ new[2] = e[2]
    /\ events' = (events \ {e}) \cup {new}
    /\ next_timeout'[e[2]] = time_point + interval[e[2]]
    /\ \A i \in Ids \ {e[2]} : next_timeout'[i] = next_timeout[i]
    /\ pc' = "fire" /\ running' = NoId /\ pass' = pass \cup {e[2]}
    /\ UNCHANGED <<now, last_timer_id, timers, interval, time_point, asked, called>>

LEMMA RepeatsFacts ==
    ASSUME TypeOK, RunningInv, Repeats
    PROVE  \E e \in events, new \in events' : Repeated(e, new)
<1>1. PICK e \in events : Repeats!(e)
    BY DEF Repeats
<1> DEFINE new == <<time_point + interval[e[2]], e[2]>>
<1>2. e[2] \in Ids
    BY Types
<1>3. e[2] = running /\ e[1] <= time_point
  <2>1. PICK f \in events : IsFirst(f) /\ f[2] = running /\ f[1] <= time_point
      BY <1>1 DEF RunningInv
  <2>2. Before(e, f) /\ Before(f, e)
      BY <1>1, <2>1 DEF IsFirst
  <2>3. e[1] \in Nat /\ f[1] \in Nat /\ e[2] \in Nat /\ f[2] \in Nat
      BY Types DEF Ids
  <2>4. e[1] = f[1] /\ e[2] = f[2]
      BY <2>2, <2>3 DEF Before
  <2>5. QED
      BY <2>1, <2>4
<1>4. /\ next_timeout'[e[2]] = time_point + interval[e[2]]
      /\ \A i \in Ids \ {e[2]} : next_timeout'[i] = next_timeout[i]
    BY <1>1, <1>2 DEF TypeOK
<1>5. new \in events' /\ events' = (events \ {e}) \cup {new}
    BY <1>1
<1>6. new[1] = time_point + interval[e[2]] /\ new[2] = e[2]
    OBVIOUS
<1>7. QED
    BY <1>1, <1>2, <1>3, <1>4, <1>5, <1>6 DEF Repeated

LEMMA TypeStep == IInv /\ [Next]_vars => TypeOK'
<1> SUFFICES ASSUME TypeOK, IntervalInv, [Next]_vars PROVE TypeOK'
    BY DEF IInv
<1> USE TimerAssumption DEF TypeOK, queueVars, loopVars, history, Ids, NoId, Never
\* What the loop thread does between the callbacks.
<1>0. ASSUME UNCHANGED <<now, queueVars, running, asked, called>>,
             pc' \in {"trigger", "lock", "fire", "callback", "remaining", "sleep",
                     "epoll_wait"},
             time_point' \in {time_point, now}, timeout' \in Int,
             deadline' \in Nat \cup {Never}, pass' \in {pass, {}},
             unnoticed' \in {unnoticed, {}}
      PROVE  TypeOK'
  <2>1. /\ now' = now /\ UNCHANGED queueVars /\ running' = running /\ asked' = asked
        /\ called' = called
      BY <1>0
  <2>2. time_point' \in 0 .. now'
      BY <1>0, <2>1
  <2>3. pass' \subseteq Ids /\ unnoticed' \subseteq Ids
      BY <1>0
  <2> QED
      BY <1>0, <2>1, <2>2, <2>3
<1>1. ASSUME NEW ms \in Delays, AddTimer(ms) PROVE TypeOK'
  <2> DEFINE id == last_timer_id + 1
  <2>1. ms \in Nat /\ IntervalOf(ms) \in Nat /\ id \in Ids /\ now \in Nat
      BY <1>1 DEF AddTimer, IntervalOf
  <2>2. last_timer_id' \in 0 .. MaxTimers /\ timers' \subseteq 1 .. last_timer_id'
      BY <1>1, <2>1 DEF AddTimer
  <2>3. events' \subseteq Nat \X (1 .. last_timer_id')
    <3>1. now + ms \in Nat /\ id \in 1 .. id /\ 1 .. last_timer_id \subseteq 1 .. id
        BY <2>1
    <3>2. events' = events \cup {<<now + ms, id>>} /\ last_timer_id' = id
        BY <1>1 DEF AddTimer
    <3> HIDE DEF id
    <3>3. QED
        BY <3>1, <3>2
  <2>4. interval' \in [Ids -> Nat] /\ next_timeout' \in [Ids -> Nat]
      BY <1>1, <2>1 DEF AddTimer
  <2>5. asked' \in [Ids -> [at : 0 .. MaxTime, ms : Delays \cup {0}]]
      BY <1>1, <2>1 DEF AddTimer
  <2>6. unnoticed' \subseteq Ids /\ UNCHANGED <<now, loopVars, called, pass>>
      BY <1>1, <2>1 DEF AddTimer
  <2>7. now' = now /\ UNCHANGED loopVars /\ called' \subseteq Ids /\ pass' \subseteq Ids
      BY <2>6
  <2>8. /\ now' \in 0 .. MaxTime /\ time_point' \in 0 .. now'
        /\ pc' \in {"trigger", "lock", "fire", "callback", "remaining", "sleep",
                   "epoll_wait"}
        /\ running' \in Ids \cup {NoId} /\ timeout' \in Int
        /\ deadline' \in Nat \cup {Never}
      BY <2>7
  <2>9. last_timer_id' \in 0 .. MaxTimers /\ unnoticed' \subseteq Ids
      BY <2>2, <2>6
  <2> HIDE DEF id
  <2> QED
      BY <2>2, <2>3, <2>4, <2>5, <2>7, <2>8, <2>9, Zenon DEF TypeOK
<1>2. ASSUME NEW id \in Ids, RemoveTimer(id) PROVE TypeOK'
    BY <1>2 DEF RemoveTimer
<1>3. CASE Fire
  <2>1. PICK e \in events : Fire!(e)
      BY <1>3 DEF Fire
  <2>2. e[2] \in Ids
      OBVIOUS
  <2>3. UNCHANGED <<now, queueVars, time_point, timeout, deadline, asked, pass, unnoticed>>
      BY <2>1
  <2>4. pc' = "callback" /\ running' \in Ids \cup {NoId} /\ called' \subseteq Ids
      BY <2>1, <2>2
  <2> QED
      BY <2>3, <2>4
<1>4. CASE Repeats
  <2>1. PICK e \in events : Repeats!(e)
      BY <1>4 DEF Repeats
  <2>2. e[2] \in Ids /\ e[2] \in 1 .. last_timer_id /\ e \in Nat \X (1 .. last_timer_id)
      OBVIOUS
  <2>3. time_point + interval[e[2]] \in Nat
    <3>1. time_point \in Nat /\ interval[e[2]] \in Nat
        BY <2>2, Types
    <3> DEFINE ms == interval[e[2]]
    <3>2. ms \in Nat
        BY <3>1
    <3> HIDE DEF TypeOK, ms
    <3>3. time_point + ms \in Nat
        BY <3>1, <3>2
    <3>4. QED
        BY <3>3 DEF ms
  <2>4. next_timeout' \in [Ids -> Nat]
    <3>1. /\ next_timeout \in [Ids -> Nat]
          /\ next_timeout' = [next_timeout EXCEPT ![e[2]] = time_point + interval[e[2]]]
        BY <2>1
    <3> HIDE DEF TypeOK
    <3>2. QED
        BY <2>2, <2>3, <3>1
  <2>5. events' \subseteq Nat \X (1 .. last_timer_id)
    <3>1. events \subseteq Nat \X (1 .. last_timer_id)
        OBVIOUS
    <3>2. events' = (events \ {e}) \cup {<<time_point + interval[e[2]], e[2]>>}
        BY <2>1
    <3> HIDE DEF TypeOK
    <3>3. QED
        BY <2>2, <2>3, <3>1, <3>2
  <2>6. pass' \subseteq Ids
      BY <2>1, <2>2
  <2>7. pc' = "fire" /\ running' = NoId
        /\ UNCHANGED <<now, last_timer_id, timers, interval, time_point, timeout, deadline,
                       asked, called, unnoticed>>
      BY <2>1
  <2>8. QED
      BY <2>4, <2>5, <2>6, <2>7
<1>5. CASE Ends
    BY <1>5, Types DEF Ends
<1>6. CASE GetTimeRemaining
  <2>1. ASSUME NEW n \in Int PROVE ToInt(n) \in Int
      BY <2>1 DEF ToInt
  <2>2. \A e \in events : (IF e[1] < now THEN 0 ELSE e[1] - now) \in Int
      BY Types
  <2>3. timeout' \in Int
    <3>1. CASE timeout' = -1
        BY <3>1
    <3>2. CASE \E e \in events :
                  timeout' = ToInt(IF e[1] < now THEN 0 ELSE e[1] - now)
        BY <2>1, <2>2, <3>2
    <3>3. QED
        BY <1>6, <3>1, <3>2 DEF GetTimeRemaining
  <2>4. QED
      BY <1>0, <1>6, <2>3 DEF GetTimeRemaining
<1> HIDE DEF TypeOK
<1>0a. timeout \in Int /\ deadline \in Nat \cup {Never} /\ Never \in Nat \cup {Never}
    BY DEF TypeOK
<1>7. CASE CheckEmpty
    BY <1>0, <1>0a, <1>7 DEF CheckEmpty
<1>8. CASE ReadClock
    BY <1>0, <1>0a, <1>8 DEF ReadClock
<1>9. CASE NothingDue
    BY <1>0, <1>0a, <1>9 DEF NothingDue
<1>10. CASE Sleep
  <2>1. deadline' \in Nat \cup {Never}
    <3>1. now \in Nat /\ timeout \in Int
        BY Types DEF TypeOK
    <3>2. QED
        BY <1>10, <3>1 DEF Sleep
  <2>2. QED
      BY <1>0, <1>0a, <1>10, <2>1 DEF Sleep
<1>11. CASE WakeUp
    BY <1>0, <1>0a, <1>11 DEF WakeUp
<1>12. CASE Expires
    BY <1>11, <1>12 DEF Expires
<1> USE DEF TypeOK
<1>13. CASE Tick
  <2>1. now' \in 0 .. MaxTime /\ 0 .. now \subseteq 0 .. now'
      BY <1>13 DEF Tick
  <2>2. QED
      BY <1>13, <2>1 DEF Tick
<1>14. CASE UNCHANGED vars
    BY <1>14 DEF vars
<1>15. QED
    BY <1>1, <1>2, <1>3, <1>4, <1>5, <1>6, <1>7, <1>8, <1>9, <1>10, <1>11, <1>12,
       <1>13, <1>14 DEF Next, LoopStep

LEMMA QueueStep ==
    ASSUME IInv, [Next]_vars
    PROVE  (EventsCoverTimers /\ StaleOnlyFromZero /\ KeyInv /\ IntervalInv)'
<1> DEFINE Goal == EventsCoverTimers /\ StaleOnlyFromZero /\ KeyInv /\ IntervalInv
<1> USE TimerAssumption
    DEF EventsCoverTimers, StaleOnlyFromZero, KeyInv, IntervalInv, queueVars, loopVars,
        history, Added, Repeated
<1>0. TypeOK /\ Goal /\ RunningInv
    BY DEF IInv
<1>1. ASSUME NEW ms \in Delays, AddTimer(ms) PROVE Goal'
  <2>1. PICK id \in Ids, new \in events' : Added(ms, id, new)
      BY <1>0, <1>1, AddTimerFacts
  <2>2. EventsCoverTimers'
      BY <1>0, <2>1
  <2>3. StaleOnlyFromZero'
      BY <1>0, <2>1, Types
  <2>4. IntervalOf(ms) >= 1 /\ (ms # 0 => IntervalOf(ms) = ms)
      BY <2>1 DEF IntervalOf
  <2>5. KeyInv'
      BY <1>0, <2>1, <2>4, Types
  <2>6. IntervalInv'
      BY <1>0, <2>1, <2>4, Types DEF Ids
  <2>7. QED
      BY <2>2, <2>3, <2>5, <2>6
<1>2. ASSUME NEW id \in Ids, RemoveTimer(id) PROVE Goal'
  <2>1. /\ events' = events \ {<<next_timeout[id], id>>} /\ timers' = timers \ {id}
        /\ id \in timers /\ UNCHANGED <<asked, interval, next_timeout, last_timer_id>>
      BY <1>2 DEF RemoveTimer
  <2>2. \A e \in events : e[2] # id => e \in events'
      BY <2>1
  <2>3. ASSUME NEW e \in events', e[2] = id, asked[id].ms # 0 PROVE FALSE
    <3>1. e \in events /\ e = <<e[1], e[2]>>
        BY <1>0, <2>1, Types
    <3>2. e[1] = next_timeout[id]
        BY <1>0, <2>1, <2>3, <3>1
    <3>3. QED
        BY <2>1, <2>3, <3>1, <3>2
  <2>4. EventsCoverTimers'
      BY <1>0, <2>1, <2>2
  <2>5. StaleOnlyFromZero' /\ KeyInv' /\ IntervalInv'
      BY <1>0, <2>1, <2>3
  <2>6. QED
      BY <2>4, <2>5
<1>3. CASE Fire
    BY <1>0, <1>3 DEF Fire
<1>4. CASE Repeats
  <2>1. PICK e \in events, new \in events' : Repeated(e, new)
      BY <1>0, <1>4, RepeatsFacts
  <2>2. EventsCoverTimers'
    <3>1. \A f \in events' \ {new} : f \in events /\ f[2] # e[2]
        BY <1>0, <2>1
    <3>2. \A f, g \in events' : f[2] = g[2] => f = g
        BY <1>0, <2>1, <3>1
    <3>3. ASSUME NEW id \in timers' PROVE \E f \in events' : f[2] = id
        BY <1>0, <2>1
    <3>4. QED
        BY <3>2, <3>3
  <2>3. StaleOnlyFromZero' /\ IntervalInv'
      BY <1>0, <2>1
  <2>4. KeyInv'
    <3> SUFFICES ASSUME NEW f \in events', f[2] \in timers, asked[f[2]].ms # 0
                 PROVE  f[1] = next_timeout'[f[2]]
        BY <2>1
    <3>1. CASE f = new
        BY <2>1, <3>1
    <3>2. CASE f # new
      <4>1. f \in events /\ f # e
          BY <2>1, <3>2
      <4>2. f[2] # e[2] /\ f[2] \in Ids
          BY <1>0, <4>1, Types
      <4>3. QED
          BY <1>0, <2>1, <4>1, <4>2
    <3>3. QED
        BY <3>1, <3>2
  <2>5. QED
      BY <2>2, <2>3, <2>4
<1>5. CASE Ends
  <2>1. PICK e \in events : Ends!(e)
      BY <1>5 DEF Ends
  <2>2. QED
      BY <1>0, <2>1
<1>6. CASE CheckEmpty
    BY <1>6, <1>0 DEF CheckEmpty
<1>7. CASE ReadClock
    BY <1>7, <1>0 DEF ReadClock
<1>8. CASE NothingDue
    BY <1>8, <1>0 DEF NothingDue
<1>9. CASE GetTimeRemaining
    BY <1>9, <1>0 DEF GetTimeRemaining
<1>10. CASE Sleep
    BY <1>10, <1>0 DEF Sleep
<1>11. CASE WakeUp
    BY <1>11, <1>0 DEF WakeUp
<1>12. CASE Expires
    BY <1>12, <1>0 DEF Expires, WakeUp
<1>13. CASE Tick
    BY <1>13, <1>0 DEF Tick
<1>14. CASE UNCHANGED vars
    BY <1>14, <1>0 DEF vars
<1>15. QED
    BY <1>1, <1>2, <1>3, <1>4, <1>5, <1>6, <1>7, <1>8, <1>9, <1>10, <1>11, <1>12, <1>13, <1>14 DEF Next, LoopStep

LEMMA PassStep ==
    ASSUME IInv, [Next]_vars
    PROVE  (PassInv /\ RunningInv /\ FirstInv)'
<1> DEFINE Goal == PassInv /\ RunningInv /\ FirstInv
<1> USE TimerAssumption
    DEF PassInv, RunningInv, FirstInv, Due0, queueVars, loopVars, history, IsFirst,
        Added, Repeated
<1>0. /\ TypeOK /\ Goal /\ IntervalInv
      /\ \A e, f \in events : e[2] = f[2] => e = f
    BY DEF IInv, EventsCoverTimers
<1>1. ASSUME NEW ms \in Delays, AddTimer(ms) PROVE Goal'
  <2>1. PICK id \in Ids, new \in events' : Added(ms, id, new)
      BY <1>0, <1>1, AddTimerFacts
  <2>2. pc \notin {"fire", "callback"} /\ UNCHANGED <<pc, running, called>>
      BY <1>1 DEF AddTimer, MayCall, MutexFree
  <2>3. FirstInv'
      BY <1>0, <2>1, <2>2, Types
  <2>4. QED
      BY <1>0, <2>2, <2>3
<1>2. ASSUME NEW id \in Ids, RemoveTimer(id) PROVE Goal'
    BY <1>0, <1>2 DEF RemoveTimer, MayCall, MutexFree
<1>3. CASE Fire
    BY <1>0, <1>3 DEF Fire, Due
<1>4. CASE Repeats
  <2>1. PICK e \in events, new \in events' : Repeated(e, new)
      BY <1>0, <1>4, RepeatsFacts
  <2>2. interval[e[2]] \in Nat /\ interval[e[2]] >= 1 /\ time_point \in Nat
      BY <1>0, Types DEF IntervalInv, Ids
  <2>3. e[2] \in called'
      BY <1>0, <1>4, <2>1 DEF Repeats
  <2>4. PassInv'
    <3> SUFFICES ASSUME NEW f \in events', f[2] \in pass' PROVE f[1] > time_point
        BY <2>1
    <3>1. CASE f = new
        BY <2>1, <2>2, <3>1
    <3>2. CASE f # new
      <4>1. f \in events /\ f # e
          BY <2>1, <3>2
      <4>2. CASE f[2] \in pass
          BY <1>0, <1>4, <4>1, <4>2 DEF Repeats
      <4>3. CASE f[2] = e[2]
          BY <1>0, <2>1, <4>1, <4>3
      <4>4. QED
          BY <2>1, <4>2, <4>3
    <3>3. QED
        BY <3>1, <3>2
  <2>5. RunningInv'
      BY <2>1
  <2>6. FirstInv'
      BY <1>0, <2>1, <2>3
  <2>7. QED
      BY <2>4, <2>5, <2>6
<1>5. CASE Ends
  <2>1. PICK e \in events : Ends!(e)
      BY <1>5 DEF Ends
  <2>2. \A f \in events' : f \in events /\ f[2] # e[2]
      BY <1>0, <2>1
  <2>3. QED
      BY <1>0, <1>5, <2>1, <2>2
<1>6. CASE CheckEmpty
    BY <1>6, <1>0 DEF CheckEmpty
<1>7. CASE ReadClock
    BY <1>7, <1>0 DEF ReadClock
<1>8. CASE NothingDue
    BY <1>8, <1>0 DEF NothingDue
<1>9. CASE GetTimeRemaining
    BY <1>9, <1>0 DEF GetTimeRemaining
<1>10. CASE Sleep
    BY <1>10, <1>0 DEF Sleep
<1>11. CASE WakeUp
    BY <1>11, <1>0 DEF WakeUp
<1>12. CASE Expires
    BY <1>12, <1>0 DEF Expires, WakeUp
<1>13. CASE Tick
    BY <1>13, <1>0 DEF Tick
<1>14. CASE UNCHANGED vars
    BY <1>14, <1>0 DEF vars
<1>15. QED
    BY <1>1, <1>2, <1>3, <1>4, <1>5, <1>6, <1>7, <1>8, <1>9, <1>10, <1>11, <1>12, <1>13, <1>14 DEF Next, LoopStep

LEMMA Inductive == IInv /\ [Next]_vars => IInv'
BY TypeStep, QueueStep, PassStep DEF IInv

LEMMA Invariant == Spec => []IInv
BY InitIInv, Inductive, PTL DEF Spec
-----------------------------------------------------------------------------
(* The theorems.                                                           *)

\* TypeOK, for any delays: an id is never 0 and the clock reading of a pass is
\* never ahead of the clock.
THEOREM TypeCorrect == Spec => []TypeOK
<1>1. IInv => TypeOK
    BY DEF IInv
<1>2. QED
    BY <1>1, Invariant, PTL

\* EventsCoverTimers: timers_ and events_ never drift apart, so TimerQueue never
\* reads the first element of an empty events_.
THEOREM EventsAreKept == Spec => []EventsCoverTimers
<1>1. IInv => EventsCoverTimers
    BY DEF IInv
<1>2. QED
    BY <1>1, Invariant, PTL

\* StaleOnlyFromZero: RemoveTimer erases the event of every timer but one asked
\* for with a delay of 0.
THEOREM RemovalIsComplete == Spec => []StaleOnlyFromZero
<1>1. IInv => StaleOnlyFromZero
    BY DEF IInv
<1>2. QED
    BY <1>1, Invariant, PTL

\* OncePerPass: HandleTimerEvent never calls a timer twice, which is why it
\* ends whatever the callbacks answer.
THEOREM PassesAreFinite == Spec => []OncePerPass
<1>1. IInv => OncePerPass
    BY Types DEF IInv, OncePerPass, RunningInv, PassInv, TypeOK, Ids, NoId
<1>2. QED
    BY <1>1, Invariant, PTL

\* FirstCallNotEarly: HandleTimerEvent calls a timer for the first time when the
\* delay AddTimer was given has passed.
THEOREM CallsAreNotEarly == Spec => FirstCallNotEarly
<1> DEFINE OnTime == \A id \in Ids : id \in called' \ called => now >= Due0(id)
<1>1. IInv /\ [Next]_vars => [OnTime]_vars
  <2> SUFFICES ASSUME IInv, Next PROVE OnTime
      OBVIOUS
  <2>1. CASE Fire
      BY <2>1, Types DEF Fire, Due, IInv, FirstInv
  <2>2. CASE UNCHANGED called
      BY <2>2
  <2>3. QED
      BY <2>1, <2>2 DEF Next, LoopStep, AddTimer, RemoveTimer, CheckEmpty, ReadClock,
         Repeats, Ends, NothingDue, GetTimeRemaining, Sleep, WakeUp, Expires, Tick,
         history
<1>2. QED
    BY <1>1, Invariant, PTL DEF Spec, FirstCallNotEarly

=============================================================================
