--------------------------- MODULE EngineLoopProofs ---------------------------
(***************************************************************************)
(* The scheduler's safety, for any number of timers, frames and messages:  *)
(* timers are accounted for and the loop does not sleep past its work.     *)
(***************************************************************************)
EXTENDS EngineLoop, WellFoundedInduction, TLAPS

\* Timers are out of the queue within one pump only, the one that runs has been
\* counted as fired, and a frame's callbacks last until the last has returned.
Batches ==
  /\ due # {} => phase = "timer"
  /\ running # None => phase = "timer" /\ running \in fired
  /\ phase = "frame" => frames > 0

IInv == TypeOK /\ TimersAccounted /\ Batches /\ SleepsNoLongerThanWork

\* A set of naturals has a least member.
LEMMA LeastMember ==
  ASSUME NEW S, S \subseteq Nat, S # {}
  PROVE  \E m \in S : \A k \in S : m <= k
<1>1. PICK m \in S : \A k \in S : <<k, m>> \notin OpToRel(<, Nat)
  BY WFMin, NatLessThanWellFounded
<1>2. \A k \in S : ~(k < m)
  BY <1>1 DEF OpToRel
<1>3. \A k \in S : m <= k
  BY <1>2
<1> QED
  BY <1>3

\* Settle finds the first timer: a delay no armed timer is before.
LEMMA SoonestIsFirst ==
  ASSUME TypeOK, armed # {}
  PROVE  Soonest \in Delay /\ \A id \in armed : Soonest <= left[id]
<1> DEFINE L == {left[id] : id \in armed}
<1>1. \A id \in armed : left[id] \in Delay
  BY BoundsAssumption DEF TypeOK, TimerId
<1>2. L \subseteq Nat /\ L # {}
  BY <1>1, BoundsAssumption DEF Delay
<1>3. PICK m \in L : \A k \in L : m <= k
  BY <1>2, LeastMember
<1>4. /\ m \in Delay /\ \E id \in armed : left[id] = m
      /\ \A id \in armed : m <= left[id]
  BY <1>1, <1>3
<1> QED
  BY <1>4 DEF Soonest

\* A timer scheduled is one more, in the queue only.
LEMMA SchedulePreserves ==
  ASSUME IInv, NEW delay \in Delay, NEW repeat \in Delay, ScheduleTimer(delay, repeat)
  PROVE  IInv'
<1>1. /\ phase \in ScriptPhase /\ next_id < MaxTimers /\ next_id' = next_id + 1
      /\ armed' = armed \cup {next_id + 1}
      /\ left' = [left EXCEPT ![next_id + 1] = delay]
      /\ period' = [period EXCEPT ![next_id + 1] = repeat]
      /\ UNCHANGED <<phase, control, wake, due, running, lag, fired, cleared,
                     raf, frames, records, inbound>>
  BY DEF ScheduleTimer
<1>2. TypeOK
  BY DEF IInv
<1>3. /\ next_id \in Nat /\ next_id + 1 \in TimerId /\ next_id + 1 \in 1..next_id'
      /\ 1..next_id \subseteq 1..next_id' /\ 0..next_id \subseteq 0..next_id'
      /\ next_id' \in 0..MaxTimers
      /\ \A id \in 1..next_id' : id = next_id + 1 \/ id \in 1..next_id
  BY <1>1, <1>2, BoundsAssumption DEF TypeOK, TimerId
<1>4. left' \in [TimerId -> Delay] /\ period' \in [TimerId -> Delay]
  BY <1>1, <1>2, <1>3 DEF TypeOK
<1>5. TypeOK'
  BY <1>1, <1>2, <1>3, <1>4 DEF TypeOK
<1>6. next_id + 1 \notin due \cup fired /\ running # next_id + 1
  BY <1>2, <1>3 DEF TypeOK
<1>7. \A id \in 1..next_id : id # next_id + 1 /\ id \in TimerId /\ period'[id] = period[id]
  BY <1>1, <1>2, <1>3, BoundsAssumption DEF TypeOK, TimerId
<1>8. TimersAccounted'
  BY <1>1, <1>3, <1>6, <1>7 DEF IInv, TimersAccounted, Pending
<1>9. Batches'
  BY <1>1 DEF IInv, Batches
<1>10. SleepsNoLongerThanWork'
  BY <1>1 DEF SleepsNoLongerThanWork, ScriptPhase
<1> QED
  BY <1>5, <1>8, <1>9, <1>10 DEF IInv

\* The pump takes the due timers out of the queue, and none other is out of it.
LEMMA PumpPreserves ==
  ASSUME IInv, PumpTimers
  PROVE  IInv'
<1>1. /\ phase = "about" /\ phase' = IF Due = {} THEN "paint" ELSE "timer"
      /\ armed' = armed \ Due /\ due' = Due /\ lag' = 0
      /\ UNCHANGED <<control, wake, next_id, left, period, running, fired, cleared,
                     raf, frames, records, inbound>>
  BY DEF PumpTimers
<1>2. due = {} /\ running = None
  BY <1>1 DEF IInv, Batches
<1>3. /\ armed' \cup due' = armed /\ armed' \cap due' = {}
      /\ armed' \subseteq armed /\ due' \subseteq armed
  BY <1>1 DEF Due
<1>4. armed \subseteq 1..next_id
  BY DEF IInv, TypeOK
<1>5. 0 \in Delay /\ phase' \in {"paint", "timer"} /\ (due' # {} => phase' = "timer")
  BY <1>1, BoundsAssumption DEF Delay
<1>6. TypeOK'
  <2>1. phase' \in Phase
    BY <1>5 DEF Phase, ScriptPhase
  <2> QED
    BY <1>1, <1>3, <1>4, <1>5, <2>1 DEF IInv, TypeOK
<1>7. TimersAccounted'
  BY <1>1, <1>2, <1>3, <1>4 DEF IInv, TypeOK, TimersAccounted, Pending, None
<1>8. Batches' /\ SleepsNoLongerThanWork'
  BY <1>1, <1>2, <1>5 DEF IInv, Batches, None, SleepsNoLongerThanWork
<1> QED
  BY <1>6, <1>7, <1>8 DEF IInv

\* A timeout that has run stays out of the queue, an interval is back in it.
LEMMA ReturnPreserves ==
  ASSUME IInv, ReturnTimer
  PROVE  IInv'
<1>1. /\ phase = "timer" /\ running # None /\ running' = None
      /\ UNCHANGED <<phase, control, wake, next_id, period, due, lag, fired, cleared,
                     raf, frames, records, inbound>>
  BY DEF ReturnTimer
<1>2. running \in 1..next_id /\ running \in TimerId /\ running \in fired
  BY <1>1, BoundsAssumption DEF IInv, TypeOK, Batches, None, TimerId
<1>3. SleepsNoLongerThanWork' /\ Batches'
  BY <1>1 DEF IInv, SleepsNoLongerThanWork, Batches
<1>4. ASSUME period[running] = 0 PROVE TypeOK' /\ TimersAccounted'
  <2>1. UNCHANGED <<armed, left>>
    BY <1>4 DEF ReturnTimer
  <2>2. TypeOK'
    BY <1>1, <1>2, <2>1 DEF IInv, TypeOK, None
  <2>3. TimersAccounted'
    BY <1>1, <1>2, <1>4, <2>1 DEF IInv, TypeOK, TimersAccounted, Pending, None
  <2> QED
    BY <2>2, <2>3
<1>5. ASSUME period[running] # 0 PROVE TypeOK' /\ TimersAccounted'
  <2> DEFINE again == IF lag < period[running] THEN period[running] - lag ELSE 0
  <2>1. armed' = armed \cup {running} /\ left' = [left EXCEPT ![running] = again]
    BY <1>5 DEF ReturnTimer
  <2>2. lag \in Delay /\ period[running] \in Delay
    BY <1>2 DEF IInv, TypeOK
  <2>3. again \in Delay
    BY <2>2, BoundsAssumption DEF Delay
  <2> HIDE DEF again
  <2>4. left' \in [TimerId -> Delay]
    BY <2>1, <2>3 DEF IInv, TypeOK
  <2>5. TypeOK'
    BY <1>1, <1>2, <2>1, <2>4 DEF IInv, TypeOK, None
  <2>6. TimersAccounted'
    BY <1>1, <1>2, <1>5, <2>1 DEF IInv, TypeOK, TimersAccounted, Pending, None
  <2> QED
    BY <2>5, <2>6
<1> QED
  BY <1>3, <1>4, <1>5 DEF IInv

\* The loop goes to sleep no longer than until the first timer.
LEMMA SettlePreserves ==
  ASSUME IInv, Settle
  PROVE  IInv'
<1>1. /\ phase' = "waiting"
      /\ control' = IF raf > 0 THEN "Poll" ELSE IF armed # {} THEN "WaitUntil" ELSE "Wait"
      /\ wake' = IF raf = 0 /\ armed # {} THEN Soonest ELSE 0
      /\ UNCHANGED <<next_id, armed, left, period, due, running, lag, fired, cleared,
                     raf, frames, records, inbound>>
  BY DEF Settle, timerVars
<1>2. phase = "settle" /\ raf \in Nat
  BY BoundsAssumption DEF Settle, IInv, TypeOK
<1>3. armed # {} => Soonest \in Delay /\ \A id \in armed : Soonest <= left[id]
  BY SoonestIsFirst DEF IInv
<1>4. wake' \in Delay /\ control' \in {"Poll", "WaitUntil", "Wait"} /\ phase' \in Phase
  BY <1>1, <1>3, BoundsAssumption DEF Delay, Phase
<1>5. TypeOK' /\ TimersAccounted'
  BY <1>1, <1>4 DEF IInv, TypeOK, TimersAccounted, Pending
<1>6. Batches'
  BY <1>1, <1>2 DEF IInv, Batches
<1>7. SleepsNoLongerThanWork'
  BY <1>1, <1>2, <1>3 DEF SleepsNoLongerThanWork
<1> QED
  BY <1>5, <1>6, <1>7 DEF IInv

\* Time passes for the sleep and for the timers alike.
LEMMA TickPreserves ==
  ASSUME IInv, Tick
  PROVE  IInv'
<1>1. /\ left' = [id \in TimerId |-> Sooner(left[id])]
      /\ wake' = Sooner(wake)
      /\ lag' = IF lag = MaxDelay THEN lag ELSE lag + 1
      /\ UNCHANGED <<phase, control, next_id, armed, period, due, running, fired,
                     cleared, raf, frames, records, inbound>>
  BY DEF Tick
<1>2. \A s, t \in Delay : Sooner(t) \in Delay /\ (s <= t => Sooner(s) <= Sooner(t))
  BY BoundsAssumption DEF Sooner, Delay
<1>3. left \in [TimerId -> Delay] /\ wake \in Delay /\ lag \in Delay
  BY DEF IInv, TypeOK
<1>4. lag' \in Delay
  BY <1>1, <1>3, BoundsAssumption DEF Delay
<1>5. left' \in [TimerId -> Delay] /\ wake' \in Delay
  BY <1>1, <1>2, <1>3
<1>6. TypeOK' /\ TimersAccounted'
  BY <1>1, <1>4, <1>5 DEF IInv, TypeOK, TimersAccounted, Pending
<1>7. Batches'
  BY <1>1 DEF IInv, Batches
<1>8. armed \subseteq TimerId
  BY BoundsAssumption DEF IInv, TypeOK, TimerId
<1>9. \A id \in armed : wake <= left[id] => wake' <= left'[id]
  BY <1>1, <1>2, <1>3, <1>8
<1>10. SleepsNoLongerThanWork'
  BY <1>1, <1>9 DEF IInv, SleepsNoLongerThanWork
<1> QED
  BY <1>6, <1>7, <1>10 DEF IInv

\* What the page starts with.
LEMMA Initially == Init => IInv
<1>1. Init => records \in BOOLEAN
  BY Zenon DEF Init
<1> QED
  BY <1>1, BoundsAssumption DEF Init, IInv, TypeOK, TimersAccounted, Batches, Pending, None,
     SleepsNoLongerThanWork, TimerId, Delay, Phase, ScriptPhase

\* Every step of the loop, of scripts and of the rest of the world.
LEMMA Preserved == IInv /\ [Next]_vars => IInv'
<1> SUFFICES ASSUME IInv, [Next]_vars PROVE IInv'
  OBVIOUS
<1> USE BoundsAssumption
<1> USE DEF IInv, TypeOK, TimersAccounted, Batches, Pending, None,
     SleepsNoLongerThanWork, TimerId, Delay, Phase, ScriptPhase, timerVars
<1>1. ASSUME NEW delay \in Delay, NEW repeat \in Delay, ScheduleTimer(delay, repeat)
      PROVE  IInv'
  BY <1>1, SchedulePreserves
<1>2. ASSUME NEW id \in 1..next_id, ClearTimer(id) PROVE IInv'
  BY <1>2 DEF ClearTimer
<1>3. CASE RequestFrame
  BY <1>3 DEF RequestFrame
<1>4. CASE CancelFrame
  BY <1>4 DEF CancelFrame
<1>5. CASE MutateDom
  BY <1>5 DEF MutateDom
<1>6. CASE WakeByClock
  BY <1>6 DEF WakeByClock
<1>7. CASE WakeByUser
  BY <1>7 DEF WakeByUser
<1>8. CASE DispatchEvent
  BY <1>8 DEF DispatchEvent
<1>9. CASE IgnoreEvent
  BY <1>9 DEF IgnoreEvent
<1>10. CASE EndEvent
  <2>1. records' \in BOOLEAN
    BY <1>10, Zenon DEF EndEvent, DrainInto
  <2> QED
    BY <1>10, <2>1 DEF EndEvent, DrainInto
<1>11. CASE EndEventDrain
  BY <1>11 DEF EndEventDrain
<1>12. CASE PumpTimers
  BY <1>12, PumpPreserves
<1>13. ASSUME NEW id \in TimerId, FireTimer(id) PROVE IInv'
  BY <1>13 DEF FireTimer
<1>14. CASE ReturnTimer
  BY <1>14, ReturnPreserves
<1>15. CASE EndTimers
  <2>1. records' \in BOOLEAN
    BY <1>15, Zenon DEF EndTimers, DrainInto
  <2> QED
    BY <1>15, <2>1 DEF EndTimers, DrainInto
<1>16. CASE EndTimerDrain
  BY <1>16 DEF EndTimerDrain
<1>17. CASE PumpFrames
  BY <1>17 DEF PumpFrames
<1>18. CASE ReturnFrame
  BY <1>18 DEF ReturnFrame
<1>19. CASE Settle
  BY <1>19, SettlePreserves
<1>20. CASE Arrive
  BY <1>20 DEF Arrive
<1>21. CASE Tick
  BY <1>21, TickPreserves
<1>22. CASE UNCHANGED vars
  BY <1>22 DEF vars
<1> HIDE DEF IInv, Delay, TimerId, timerVars
<1>23. CASE Script
  <2>1. 0 \in Delay /\ \A delay \in Delay : Period(delay) \in Delay
    BY DEF Delay, Period
  <2> QED
    BY <1>1, <1>2, <1>3, <1>4, <1>5, <1>23, <2>1 DEF Script
<1>24. CASE Loop
  BY <1>6, <1>9, <1>10, <1>11, <1>12, <1>13, <1>14, <1>15, <1>16, <1>17, <1>18, <1>19,
     <1>24 DEF Loop
<1> QED
  BY <1>7, <1>8, <1>20, <1>21, <1>22, <1>23, <1>24 DEF Next

\* The invariant, of every behaviour (engine.rs, about_to_wait of main.rs).
THEOREM SchedulerSound == Spec => []IInv
<1> QED
  BY Initially, Preserved, PTL DEF Spec

\* The queues, the batch and the loop's state keep to their types.
THEOREM SchedulerTypes == Spec => []TypeOK
<1>1. IInv => TypeOK
  BY DEF IInv
<1> QED
  BY <1>1, SchedulerSound, PTL

\* pump_timers loses no timer and doubles none, whatever callbacks schedule and clear.
THEOREM NoTimerLost == Spec => []TimersAccounted
<1>1. IInv => TimersAccounted
  BY DEF IInv
<1> QED
  BY <1>1, SchedulerSound, PTL

\* about_to_wait never sleeps past the first timer, nor while a frame is requested.
THEOREM NoOversleep == Spec => []SleepsNoLongerThanWork
<1>1. IInv => SleepsNoLongerThanWork
  BY DEF IInv
<1> QED
  BY <1>1, SchedulerSound, PTL

===============================================================================
