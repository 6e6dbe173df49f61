---------------------------- MODULE TimerService ----------------------------
(***************************************************************************)
(* What a timer_queue promises, without slots: time is a number of turns,  *)
(* an armed timer has a deadline, and a turn finds exactly the armed       *)
(* timers whose deadline has come. It calls them one after another; what a *)
(* callback arms, rearms or disarms takes effect at once, but a timer that *)
(* was found together with the running one is called whatever happens.     *)
(***************************************************************************)
EXTENDS Integers

CONSTANTS
  Timers,   \* the timers
  Periods,  \* what a timer may be armed with
  NoTimer   \* no timer's callback is running

VARIABLES
  now,      \* turns made
  armed,    \* the timers that wait for their deadline
  period,   \* how long each waits, from when it was armed or rearmed
  deadline, \* the turn each is due at
  batch,    \* found by the current turn and not called yet
  running   \* whose callback is running

service_vars == <<now, armed, period, deadline, batch, running>>

Init ==
  /\ now = 0
  /\ armed = {}
  /\ period = [t \in Timers |-> 0]
  /\ deadline = [t \in Timers |-> 0]
  /\ batch = {}
  /\ running = NoTimer

Arm(t, d) ==
  /\ t \notin armed \cup batch \cup {running}
  /\ armed' = armed \cup {t}
  /\ period' = [period EXCEPT ![t] = d]
  /\ deadline' = [deadline EXCEPT ![t] = now + d]
  /\ UNCHANGED <<now, batch, running>>

Rearm(t) ==
  /\ t \in armed
  /\ deadline' = [deadline EXCEPT ![t] = now + period[t]]
  /\ UNCHANGED <<now, armed, period, batch, running>>

Disarm(t) ==
  /\ t \in armed
  /\ armed' = armed \ {t}
  /\ UNCHANGED <<now, period, deadline, batch, running>>

\* The timers of s are called one after another: the next one, or none.
CallNext(s) ==
  \/ s = {} /\ running' = NoTimer /\ batch' = {}
  \/ \E t \in s : running' = t /\ batch' = s \ {t}

Turn ==
  /\ batch = {} /\ running = NoTimer
  /\ now' = now + 1
  /\ LET found == {t \in armed : deadline[t] <= now + 1}
     IN  armed' = armed \ found /\ CallNext(found)
  /\ UNCHANGED <<period, deadline>>

Return ==
  /\ running # NoTimer
  /\ CallNext(batch)
  /\ UNCHANGED <<now, armed, period, deadline>>

Next ==
  \/ \E t \in Timers : Rearm(t) \/ Disarm(t) \/ \E d \in Periods : Arm(t, d)
  \/ Turn \/ Return

Spec == Init /\ [][Next]_service_vars
=============================================================================
