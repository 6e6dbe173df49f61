----------------------------- MODULE TimerQueue -----------------------------
(***************************************************************************)
(* The timer_queue of an event_loop: a timing_wheel turned by a            *)
(* steady_timer of the loop, and the callbacks of the timers it finds      *)
(* expired. A callback, like every other handler of the loop, may add,     *)
(* reset and cancel timers, also those found expired together with it.     *)
(* All of it runs on the thread of the loop.                               *)
(***************************************************************************)
EXTENDS TimingWheel

CONSTANTS
  NoTimer,      \* no callback is running
  Seconds,      \* the values given to add_timer as sec
  Scale,        \* ticks for each of them: 1000 in add_timer
  tick_HZ,      \* turns in a second
  MaxTick,      \* bound: turns
  CancelZero    \* whether a timer of 0 seconds may be cancelled

ASSUME QueueAssumption ==
  /\ NoTimer \notin Entries
  /\ Seconds \subseteq Nat
  /\ Scale \in Nat
  /\ tick_HZ \in Nat \ {0}
  /\ MaxTick \in Nat
  /\ CancelZero \in BOOLEAN

VARIABLES
  w,        \* wheel_
  expired,  \* expired_ without those whose callback has begun
  running,  \* the timer whose callback is running
  made,     \* the timers made so far
  since,    \* history: the turn a timer was added or last reset in
  sec,      \* history: the seconds it was added with
  called    \* history: the calls, with the turn of each

vars == <<w, expired, running, made, since, sec, called>>

Init ==
  /\ w = empty_wheel
  /\ expired = {}
  /\ running = NoTimer
  /\ made = {}
  /\ since = [p \in Entries |-> 0]
  /\ sec = [p \in Entries |-> 0]
  /\ called = {}

-----------------------------------------------------------------------------
(* Calls of the handlers of the loop, the timers' callbacks among them *)

add_timer(p, s) ==
  /\ p \notin made
  /\ made' = made \cup {p}
  /\ w' = add(w, p, s * Scale)
  /\ since' = [since EXCEPT ![p] = w.current_tick]
  /\ sec' = [sec EXCEPT ![p] = s]
  /\ UNCHANGED <<expired, running, called>>

reset_timer(p) ==
  /\ p \in made
  /\ w' = reset(w, p)
  /\ since' = IF p \in w.all_entries /\ w.duration[p] # 0
                THEN [since EXCEPT ![p] = w.current_tick] ELSE since
  /\ UNCHANGED <<expired, running, made, sec, called>>

cancel_timer(p) ==
  /\ p \in made
  /\ CancelZero \/ p \notin w.immediate_entries
  /\ w' = cancel(w, p)
  /\ UNCHANGED <<expired, running, made, since, sec, called>>

-----------------------------------------------------------------------------
(* The turn of the wheel *)

\* The loop over expired_ begins the next callback in turn t, or ends.
call_next(s, t) ==
  \/ s = {} /\ running' = NoTimer /\ expired' = {} /\ UNCHANGED called
  \/ \E p \in s :
       /\ running' = p
       /\ expired' = s \ {p}
       /\ called' = called \cup
            {[timer |-> p, at |-> t]}

\* Mutant: polled before the tick.
turn_wheel_late ==
  /\ expired = {} /\ running = NoTimer
  /\ w.current_tick < MaxTick
  /\ w' = tick(get_expired(w, w.current_tick))
  /\ call_next(due(w, w.current_tick), w.current_tick + 1)
  /\ UNCHANGED <<made, since, sec>>

turn_wheel ==
  /\ expired = {} /\ running = NoTimer
  /\ w.current_tick < MaxTick
  /\ LET v == tick(w)
     IN  /\ w' = get_expired(v, v.current_tick)
         /\ call_next(due(v, v.current_tick), v.current_tick)
  /\ UNCHANGED <<made, since, sec>>

callback_returns ==
  /\ running # NoTimer
  /\ call_next(expired, w.current_tick)
  /\ UNCHANGED <<w, made, since, sec>>

Next ==
  \/ \E p \in Entries :
       reset_timer(p) \/ cancel_timer(p) \/ \E s \in Seconds : add_timer(p, s)
  \/ turn_wheel \/ callback_returns

Spec == Init /\ [][Next]_vars

-----------------------------------------------------------------------------
(* Correctness *)

\* Types of the variables.
TypeOK ==
  /\ w \in Wheel
  /\ expired \subseteq Entries
  /\ running \in Entries \cup {NoTimer}
  /\ made \subseteq Entries
  /\ since \in [Entries -> Nat]
  /\ sec \in [Entries -> Nat]
  /\ called \subseteq [timer : Entries, at : Nat]

\* Every entry of the wheel is where it is looked for, and the sizes the wheel
\* asserts agree.
EntriesPlaced == Placed(w) /\ SizesAgree(w)

\* Since the wheel is polled in every turn no timer is ever overdue: what is
\* still armed is due in a turn to come, an immediate timer in the next one.
NeverOverdue ==
  \A p \in w.all_entries :
    IF w.duration[p] = 0 THEN w.tick[p] = w.current_tick ELSE w.tick[p] > w.current_tick

\* What is found expired has left the wheel: a reset or a cancel from a callback
\* of the same turn does not bring it back.
ExpiredIsGone == (expired \cup {running}) \cap w.all_entries = {}

\* A callback comes exactly sec * Scale turns after its timer was added or last
\* reset (in the next turn when that is 0), and once.
OnTime ==
  \A c \in called :
    /\ c.at - since[c.timer] = IF sec[c.timer] * Scale = 0 THEN 1 ELSE sec[c.timer] * Scale
    /\ \A d \in called : d.timer = c.timer => d = c

\* The queue keeps the promise of TimerService.
Service == INSTANCE TimerService WITH
  Timers <- Entries, Periods <- {s * Scale : s \in Seconds}, now <- w.current_tick, armed <- w.all_entries,
  period <- w.duration, deadline <- w.tick, batch <- expired

ServiceSpec == Service!Spec

-----------------------------------------------------------------------------
(* What names and messages say and the code does not keep *)

\* default_read_timeout_seconds() and the parameter sec: a timer of that many
\* seconds expires after as many seconds, in turns of 1000 / tick_HZ milliseconds.
LastsSeconds ==
  \A c \in called :
    (c.at - since[c.timer]) * (1000 \div tick_HZ) <= (sec[c.timer] + 1) * 1000
=============================================================================
