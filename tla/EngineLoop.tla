----------------------------- MODULE EngineLoop -----------------------------
(***************************************************************************)
(* The page's scheduler: the JS engine's timer and animation-frame queues  *)
(* (src/src/js/engine.rs), pumped by the window event loop                 *)
(* (src/src/main.rs about_to_wait), which also decides how long to sleep.  *)
(*                                                                         *)
(* Time is relative: left[id] is what remains until a timer's fire_at.     *)
(* A callback is a phase during which the script may make any calls, one   *)
(* at a time, until it returns.  Messages that reader and worker threads   *)
(* queue for the page are counted, and drained where the engine drains     *)
(* them.  The order in which one pump fires its due timers is left open.   *)
(***************************************************************************)
EXTENDS Integers, FiniteSets

CONSTANTS
  MaxTimers,      \* bound: timers a page ever creates
  MaxDelay,       \* bound: longest delay and period, in clock ticks
  MaxFrames,      \* bound: animation-frame requests queued at once
  MaxInbound      \* bound: messages queued by other threads at once

ASSUME BoundsAssumption ==
  /\ MaxTimers \in Nat \ {0} /\ MaxDelay \in Nat \ {0}
  /\ MaxFrames \in Nat \ {0} /\ MaxInbound \in Nat \ {0}

None == 0
TimerId == 1..MaxTimers
Delay == 0..MaxDelay

VARIABLES
  phase,          \* where the event loop is
  control,        \* winit's ControlFlow while the loop waits
  wake,           \* what remains until WaitUntil's instant
  next_id,        \* ids handed out so far
  armed,          \* ids in the engine's timer queue
  left,           \* time to each timer's fire_at
  period,         \* re-arming period, 0 for setTimeout
  due,            \* taken out of the queue by this pump, not fired yet
  running,        \* the timer whose callback runs
  lag,            \* time since this pump took its `now`
  raf,            \* requested animation frames
  frames,         \* callbacks of the current frame still to run
  records,        \* a mutation record waits for the observers
  inbound,        \* messages queued for the page by other threads
  fired, cleared  \* history: timers whose callback started; timers cleared

timerVars == <<next_id, armed, left, period, due, running, lag, fired, cleared>>
vars == <<phase, control, wake, timerVars, raf, frames, records, inbound>>

ScriptPhase == {"event", "timer", "frame", "eventDrain", "timerDrain"}
Phase == ScriptPhase \cup {"waiting", "events", "about", "paint", "settle"}

Init ==
  /\ phase = "about" /\ control = "Wait" /\ wake = 0
  /\ next_id = 0 /\ armed = {} /\ due = {} /\ running = None /\ lag = 0
  /\ left = [id \in TimerId |-> 0] /\ period = [id \in TimerId |-> 0]
  /\ raf = 0 /\ frames = 0 /\ records = FALSE /\ inbound = 0
  /\ fired = {} /\ cleared = {}

----------------------------------------------------------------------------
(* What a running script may call. *)

\* Mutant of ScheduleTimer: the id handed out is not counted.
ScheduleUncounted(delay, repeat) ==
  /\ phase \in ScriptPhase /\ next_id < MaxTimers
  /\ armed' = armed \cup {next_id + 1}
  /\ left' = [left EXCEPT ![next_id + 1] = delay]
  /\ period' = [period EXCEPT ![next_id + 1] = repeat]
  /\ UNCHANGED <<phase, control, wake, next_id, due, running, lag, fired, cleared,
                 raf, frames, records, inbound>>

\* setTimeout (repeat = 0) and setInterval (repeat >= 1).
ScheduleTimer(delay, repeat) ==
  /\ phase \in ScriptPhase /\ next_id < MaxTimers
  /\ next_id' = next_id + 1
  /\ armed' = armed \cup {next_id + 1}
  /\ left' = [left EXCEPT ![next_id + 1] = delay]
  /\ period' = [period EXCEPT ![next_id + 1] = repeat]
  /\ UNCHANGED <<phase, control, wake, due, running, lag, fired, cleared,
                 raf, frames, records, inbound>>

\* clearTimeout and clearInterval look at the queue only.
ClearTimer(id) ==
  /\ phase \in ScriptPhase
  /\ armed' = armed \ {id}
  /\ cleared' = cleared \cup {id}
  /\ UNCHANGED <<phase, control, wake, next_id, left, period, due, running, lag,
                 fired, raf, frames, records, inbound>>

RequestFrame ==
  /\ phase \in ScriptPhase /\ raf < MaxFrames
  /\ raf' = raf + 1
  /\ UNCHANGED <<phase, control, wake, timerVars, frames, records, inbound>>

CancelFrame ==
  /\ phase \in ScriptPhase /\ raf > 0
  /\ raf' = raf - 1
  /\ UNCHANGED <<phase, control, wake, timerVars, frames, records, inbound>>

MutateDom ==
  /\ phase \in ScriptPhase
  /\ records' = TRUE
  /\ UNCHANGED <<phase, control, wake, timerVars, raf, frames, inbound>>

\* An interval of no delay fires at once, and then every millisecond.
Period(delay) == IF delay = 0 THEN 1 ELSE delay

Script ==
  \/ \E delay \in Delay : ScheduleTimer(delay, 0)
  \/ \E delay \in Delay : ScheduleTimer(delay, Period(delay))
  \/ \E id \in 1..next_id : ClearTimer(id)
  \/ RequestFrame
  \/ CancelFrame
  \/ MutateDom

----------------------------------------------------------------------------
(* The event loop. *)

\* The end of a turn: run_jobs, then every drain; the handlers the drains call
\* run in the phase entered.
DrainInto(p) ==
  /\ phase' = p
  /\ records' = FALSE
  /\ inbound' = 0

\* WaitUntil's instant has come, or the loop polls.
WakeByClock ==
  /\ phase = "waiting"
  /\ control = "Poll" \/ (control = "WaitUntil" /\ wake = 0)
  /\ phase' = "events"
  /\ UNCHANGED <<control, wake, timerVars, raf, frames, records, inbound>>

\* The window system has something to say.
WakeByUser ==
  /\ phase = "waiting"
  /\ phase' = "events"
  /\ UNCHANGED <<control, wake, timerVars, raf, frames, records, inbound>>

\* An event is dispatched into the page.
DispatchEvent ==
  /\ phase = "events"
  /\ phase' = "event"
  /\ UNCHANGED <<control, wake, timerVars, raf, frames, records, inbound>>

\* The event is none of the page's business.
IgnoreEvent ==
  /\ phase = "events"
  /\ phase' = "about"
  /\ UNCHANGED <<control, wake, timerVars, raf, frames, records, inbound>>

\* The last handler has returned.
EndEvent ==
  /\ phase = "event"
  /\ DrainInto("eventDrain")
  /\ UNCHANGED <<control, wake, timerVars, raf, frames>>

EndEventDrain ==
  /\ phase = "eventDrain"
  /\ phase' = "about"
  /\ UNCHANGED <<control, wake, timerVars, raf, frames, records, inbound>>

Due == {id \in armed : left[id] = 0}

\* Mutant of PumpTimers: the due timers also stay in the queue.
PumpWithoutTaking ==
  /\ phase = "about"
  /\ due' = Due
  /\ lag' = 0
  /\ phase' = IF Due = {} THEN "paint" ELSE "timer"
  /\ UNCHANGED <<control, wake, next_id, armed, left, period, running, fired,
                 cleared, raf, frames, records, inbound>>

\* about_to_wait: pump_timers takes the due timers; with none it does nothing.
PumpTimers ==
  /\ phase = "about"
  /\ armed' = armed \ Due
  /\ due' = Due
  /\ lag' = 0
  /\ phase' = IF Due = {} THEN "paint" ELSE "timer"
  /\ UNCHANGED <<control, wake, next_id, left, period, running, fired, cleared,
                 raf, frames, records, inbound>>

\* Call the callback of a timer taken.
FireTimer(id) ==
  /\ phase = "timer" /\ running = None /\ id \in due
  /\ due' = due \ {id}
  /\ running' = id
  /\ fired' = fired \cup {id}
  /\ UNCHANGED <<phase, control, wake, next_id, armed, left, period, lag, cleared,
                 raf, frames, records, inbound>>

\* The callback has returned: an interval is put back, due a period after the
\* pump began.
ReturnTimer ==
  /\ phase = "timer" /\ running # None
  /\ running' = None
  /\ IF period[running] = 0
     THEN UNCHANGED <<armed, left>>
     ELSE /\ armed' = armed \cup {running}
          /\ left' = [left EXCEPT ![running] =
                        IF lag < period[running] THEN period[running] - lag ELSE 0]
  /\ UNCHANGED <<phase, control, wake, next_id, period, due, lag, fired, cleared,
                 raf, frames, records, inbound>>

\* Mutants of EndTimers: the pump forgets the message queues, or the observers.
EndTimersInboundKept ==
  /\ phase = "timer" /\ running = None /\ due = {}
  /\ phase' = "timerDrain"
  /\ records' = FALSE
  /\ UNCHANGED <<control, wake, timerVars, raf, frames, inbound>>
EndTimersRecordsKept ==
  /\ phase = "timer" /\ running = None /\ due = {}
  /\ phase' = "timerDrain"
  /\ inbound' = 0
  /\ UNCHANGED <<control, wake, timerVars, raf, frames, records>>

\* All of them have been fired.
EndTimers ==
  /\ phase = "timer" /\ running = None /\ due = {}
  /\ DrainInto("timerDrain")
  /\ UNCHANGED <<control, wake, timerVars, raf, frames>>

EndTimerDrain ==
  /\ phase = "timerDrain"
  /\ phase' = "paint"
  /\ UNCHANGED <<control, wake, timerVars, raf, frames, records, inbound>>

\* pump_animation_frames takes the whole queue.
PumpFrames ==
  /\ phase = "paint"
  /\ frames' = raf
  /\ raf' = 0
  /\ phase' = IF raf = 0 THEN "settle" ELSE "frame"
  /\ UNCHANGED <<control, wake, timerVars, records, inbound>>

\* A frame callback returns; after the last one there is run_jobs and no drain.
ReturnFrame ==
  /\ phase = "frame"
  /\ frames' = frames - 1
  /\ phase' = IF frames = 1 THEN "settle" ELSE "frame"
  /\ UNCHANGED <<control, wake, timerVars, raf, records, inbound>>

Soonest == CHOOSE t \in Delay : /\ \E id \in armed : left[id] = t
                                /\ \A id \in armed : t <= left[id]

\* Mutants of Settle: requested frames, or armed timers, do not count as work.
SettleForgetsFrames ==
  /\ phase = "settle"
  /\ phase' = "waiting"
  /\ control' = IF armed # {} THEN "WaitUntil" ELSE "Wait"
  /\ wake' = IF armed # {} THEN Soonest ELSE 0
  /\ UNCHANGED <<timerVars, raf, frames, records, inbound>>
SettleForgetsTimers ==
  /\ phase = "settle"
  /\ phase' = "waiting"
  /\ control' = IF raf > 0 THEN "Poll" ELSE "Wait"
  /\ wake' = 0
  /\ UNCHANGED <<timerVars, raf, frames, records, inbound>>

\* The rest of about_to_wait: how long to sleep.
Settle ==
  /\ phase = "settle"
  /\ phase' = "waiting"
  /\ control' = IF raf > 0 THEN "Poll"
                ELSE IF armed # {} THEN "WaitUntil" ELSE "Wait"
  /\ wake' = IF raf = 0 /\ armed # {} THEN Soonest ELSE 0
  /\ UNCHANGED <<timerVars, raf, frames, records, inbound>>

----------------------------------------------------------------------------
(* The rest of the world. *)

\* A socket reader or a worker thread queues a message.
Arrive ==
  /\ inbound < MaxInbound
  /\ inbound' = inbound + 1
  /\ UNCHANGED <<phase, control, wake, timerVars, raf, frames, records>>

Sooner(t) == IF t = 0 THEN 0 ELSE t - 1

\* Time passes, also while callbacks run.
Tick ==
  /\ left' = [id \in TimerId |-> Sooner(left[id])]
  /\ wake' = Sooner(wake)
  /\ lag' = IF lag = MaxDelay THEN lag ELSE lag + 1
  /\ UNCHANGED <<phase, control, next_id, armed, period, due, running, fired,
                 cleared, raf, frames, records, inbound>>

\* The loop's own steps, which it takes whenever it can.
Loop ==
  \/ WakeByClock \/ IgnoreEvent \/ EndEvent \/ EndEventDrain
  \/ PumpTimers \/ (\E id \in TimerId : FireTimer(id)) \/ ReturnTimer
  \/ EndTimers \/ EndTimerDrain \/ PumpFrames \/ ReturnFrame \/ Settle

Next == Loop \/ Script \/ WakeByUser \/ DispatchEvent \/ Arrive \/ Tick

Spec == Init /\ [][Next]_vars

\* The loop runs, callbacks return and the clock advances.  Nothing obliges the
\* user, the page's scripts or the other threads to do anything.
FairSpec == Spec /\ WF_vars(Loop) /\ WF_vars(Tick)

----------------------------------------------------------------------------
(* Properties. *)

TypeOK ==
  /\ phase \in Phase
  /\ control \in {"Poll", "WaitUntil", "Wait"} /\ wake \in Delay
  /\ next_id \in 0..MaxTimers
  /\ armed \subseteq 1..next_id /\ due \subseteq 1..next_id
  /\ running \in 0..next_id
  /\ left \in [TimerId -> Delay] /\ period \in [TimerId -> Delay]
  /\ lag \in Delay
  /\ raf \in 0..MaxFrames /\ frames \in 0..MaxFrames
  /\ records \in BOOLEAN /\ inbound \in 0..MaxInbound
  /\ fired \subseteq 1..next_id /\ cleared \subseteq 1..next_id

Pending == armed \cup due \cup ({running} \ {None})

\* No timer is lost or doubled between the queue, the batch a pump took out and
\* the callback that runs: a timer neither fired (for good) nor cleared is in
\* exactly one of them, and a fired timeout never comes back (pump_timers).
TimersAccounted ==
  /\ armed \cap due = {} /\ running \notin armed \cup due
  /\ \A id \in 1..next_id :
       IF period[id] = 0
       THEN id \in armed \cup due \cup fired \cup cleared
            /\ (id \in fired => id \notin armed \cup due)
       ELSE id \in Pending \cup cleared

\* The loop never sleeps past the first timer, and never sleeps at all while an
\* animation frame is requested (about_to_wait).
SleepsNoLongerThanWork ==
  phase = "waiting" =>
    /\ control = "Wait" => armed = {} /\ raf = 0
    /\ control = "WaitUntil" => raf = 0 /\ \A id \in armed : wake <= left[id]

\* Every timer fires, or is cleared, however busy scripts keep the loop.
TimersFire ==
  \A id \in TimerId : (id \in armed /\ id \notin fired) ~> (id \in fired \cup cleared)

\* Every animation frame requested runs or is cancelled.
FramesRun == (raf > 0) ~> (raf = 0)

\* A timer in flight carries the waiting messages to the page: the turn that
\* fires it drains them, unless a script clears that very timer (pump_timers).
\* Without a timer a message waits for the user's next event.
TimersCarryInbound ==
  \A id \in TimerId : (inbound > 0 /\ id \in Pending) ~> (inbound = 0 \/ id \in cleared)

\* So do the mutation records that animation frames and the handlers of a drain
\* leave behind: pump_animation_frames serves no observer, and what a handler of
\* the drain changes comes after the observers were served, but the records do
\* not wait longer than for the next timer.
TimersCarryRecords ==
  \A id \in TimerId : (records /\ id \in Pending) ~> (~records \/ id \in cleared)

\* The test set_interval_re_arms_until_cleared (engine.rs): an interval re-arms
\* until it is cleared, from its own callback too.
ClearedNotReArmed == cleared \cap armed = {}

============================================================================
