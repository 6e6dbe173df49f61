-------------------------- MODULE TimerQueueProofs --------------------------
(***************************************************************************)
(* Theorems about TimerQueue, for every number of slots, of timers and of  *)
(* turns: the wheel stays in order, callbacks come on time and once, and   *)
(* the queue implements TimerService. All of it under the assumption that  *)
(* no timer of 0 seconds is cancelled.                                     *)
(***************************************************************************)
EXTENDS TimerQueue, TimingWheelProofs

\* What a timer waits for, in turns.
Wait(p) == IF sec[p] * Scale = 0 THEN 1 ELSE sec[p] * Scale

\* The histories agree with the wheel: with the ticks of the armed timers, with
\* the turn in which the others were found, and with the calls made.
HistoryAgrees ==
  /\ \A p \in made : w.duration[p] = sec[p] * Scale
  /\ \A p \in w.all_entries : w.tick[p] = since[p] + w.duration[p]
  /\ \A p \in expired : w.current_tick - since[p] = Wait(p)
  /\ \A c \in called :
       /\ c.timer \in made /\ c.timer \notin w.all_entries \cup expired
       /\ c.at - since[c.timer] = Wait(c.timer)
       /\ \A d \in called : d.timer = c.timer => d = c

TInv ==
  /\ TypeOK
  /\ Placed(w)
  /\ NeverOverdue
  /\ ExpiredIsGone
  /\ w.all_entries \cup expired \subseteq made
  /\ running # NoTimer => running \in made
  /\ running = NoTimer => expired = {}
  /\ running \notin expired
  /\ HistoryAgrees

LEMMA InitTInv == Init => TInv
<1> SUFFICES ASSUME Init PROVE TInv
  OBVIOUS
<1>1. empty_wheel \in Wheel
  BY DEF empty_wheel, Wheel
<1>2. /\ w.wheel = {} /\ w.immediate_entries = {} /\ w.all_entries = {} /\ w \in Wheel
      /\ expired = {} /\ made = {} /\ called = {} /\ running = NoTimer
  BY <1>1 DEF Init, empty_wheel
<1>3. TypeOK
  BY <1>2 DEF Init, TypeOK
<1>4. Placed(w)
  BY <1>2 DEF Placed
<1> QED
  BY <1>2, <1>3, <1>4, QueueAssumption DEF TInv, NeverOverdue, ExpiredIsGone, HistoryAgrees

\* add_timer of a timer never made before.
LEMMA AddStep ==
  ASSUME TInv, NEW p \in Entries, NEW s \in Seconds, add_timer(p, s)
  PROVE  TInv' /\ Service!Next
<1> DEFINE d == s * Scale
<1>1. /\ w \in Wheel /\ p \notin w.all_entries /\ p \notin expired /\ p \notin made
      /\ p # running /\ d \in Nat /\ w.current_tick \in Nat /\ s \in Nat /\ Scale \in Nat
  BY QueueAssumption DEF TInv, TypeOK, add_timer, Wheel
<1>2. w' = add(w, p, d)
  BY DEF add_timer
<1>3. /\ made' = made \cup {p} /\ since' = [since EXCEPT ![p] = w.current_tick]
      /\ sec' = [sec EXCEPT ![p] = s] /\ UNCHANGED <<expired, running, called>>
  BY DEF add_timer
<1> HIDE DEF d
<1>4. /\ w' \in Wheel /\ Placed(w')
      /\ w'.all_entries = w.all_entries \cup {p}
      /\ w'.tick = [w.tick EXCEPT ![p] = w.current_tick + d]
      /\ w'.duration = [w.duration EXCEPT ![p] = d]
      /\ w'.current_tick = w.current_tick
  BY <1>1, <1>2, AddPlaced DEF TInv
<1>5. /\ w.tick \in [Entries -> Nat] /\ w.duration \in [Entries -> Nat]
      /\ since \in [Entries -> Nat] /\ sec \in [Entries -> Nat]
      /\ w.all_entries \subseteq Entries
  BY DEF TInv, TypeOK, Wheel
<1>6. TypeOK'
  BY <1>1, <1>3, <1>4 DEF TInv, TypeOK
<1>7. /\ w'.tick[p] = w.current_tick + d /\ w'.duration[p] = d
      /\ since'[p] = w.current_tick /\ sec'[p] = s
      /\ \A q \in Entries \ {p} :
           /\ w'.tick[q] = w.tick[q] /\ w'.duration[q] = w.duration[q]
           /\ since'[q] = since[q] /\ sec'[q] = sec[q]
  BY <1>3, <1>4, <1>5
<1>8. NeverOverdue'
  <2>1. IF d = 0 THEN w.current_tick + d = w.current_tick
                 ELSE w.current_tick + d > w.current_tick
    BY <1>1
  <2> QED
    BY <1>1, <1>4, <1>5, <1>7, <2>1 DEF TInv, NeverOverdue
<1>9. ExpiredIsGone'
  BY <1>1, <1>3, <1>4 DEF TInv, ExpiredIsGone
<1>10. HistoryAgrees'
  <2>1. \A q \in made' : w'.duration[q] = sec'[q] * Scale
    BY <1>3, <1>7 DEF TInv, TypeOK, HistoryAgrees, d
  <2>2. \A q \in w'.all_entries : w'.tick[q] = since'[q] + w'.duration[q]
    BY <1>4, <1>5, <1>7 DEF TInv, HistoryAgrees
  <2>3. \A q \in Entries \ {p} : Wait(q)' = Wait(q)
    BY <1>7 DEF Wait
  <2>4. \A q \in expired' : w'.current_tick - since'[q] = Wait(q)'
    <3>1. \A q \in expired : q \in Entries \ {p}
      BY <1>1 DEF TInv, TypeOK
    <3> QED
      BY <1>3, <1>4, <1>7, <2>3, <3>1 DEF TInv, HistoryAgrees
  <2>5. \A c \in called : c.timer \in Entries \ {p}
    BY <1>1 DEF TInv, TypeOK, HistoryAgrees
  <2>6. \A c \in called' :
          /\ c.timer \in made' /\ c.timer \notin w'.all_entries \cup expired'
          /\ c.at - since'[c.timer] = Wait(c.timer)'
          /\ \A e \in called' : e.timer = c.timer => e = c
    BY <1>3, <1>4, <1>7, <2>3, <2>5 DEF TInv, HistoryAgrees
  <2> QED
    BY <2>1, <2>2, <2>4, <2>6 DEF HistoryAgrees
<1>11. TInv'
  BY <1>3, <1>4, <1>6, <1>8, <1>9, <1>10 DEF TInv
<1>12. Service!Arm(p, d)
  BY <1>1, <1>3, <1>4 DEF Service!Arm
<1> QED
  BY <1>11, <1>12 DEF Service!Next, d

LEMMA ResetStep ==
  ASSUME TInv, NEW p \in Entries, reset_timer(p)
  PROVE  TInv' /\ (Service!Next \/ UNCHANGED Service!service_vars)
<1> DEFINE moves == p \in w.all_entries /\ w.duration[p] # 0
<1>1. /\ w \in Wheel /\ w.current_tick \in Nat /\ w.all_entries \subseteq Entries
      /\ w.tick \in [Entries -> Nat] /\ w.duration \in [Entries -> Nat]
      /\ since \in [Entries -> Nat] /\ sec \in [Entries -> Nat]
  BY DEF TInv, TypeOK, Wheel
<1>2. /\ w' = reset(w, p) /\ UNCHANGED <<expired, running, made, sec, called>>
      /\ since' = IF moves THEN [since EXCEPT ![p] = w.current_tick] ELSE since
  BY DEF reset_timer
<1>3. /\ w' \in Wheel /\ Placed(w') /\ w'.all_entries = w.all_entries
      /\ w'.tick = IF moves THEN [w.tick EXCEPT ![p] = w.current_tick + w.duration[p]]
                            ELSE w.tick
      /\ w'.duration = w.duration /\ w'.current_tick = w.current_tick
  BY <1>1, <1>2, ResetPlaced DEF TInv
<1>4. TypeOK'
  BY <1>1, <1>2, <1>3 DEF TInv, TypeOK
<1> HIDE DEF moves
<1>5. NeverOverdue'
  BY <1>1, <1>2, <1>3 DEF TInv, NeverOverdue, moves
<1>6. ExpiredIsGone'
  BY <1>2, <1>3 DEF TInv, ExpiredIsGone
<1>7. HistoryAgrees'
  <2>1. \A q \in made' : w'.duration[q] = sec'[q] * Scale
    BY <1>2, <1>3 DEF TInv, HistoryAgrees
  <2>2. \A q \in w'.all_entries : w'.tick[q] = since'[q] + w'.duration[q]
    BY <1>1, <1>2, <1>3 DEF TInv, HistoryAgrees, moves
  <2>3. \A q \in Entries : q \notin w.all_entries => since'[q] = since[q] /\ Wait(q)' = Wait(q)
    BY <1>1, <1>2 DEF moves, Wait
  <2>4. \A q \in expired : q \in Entries /\ q \notin w.all_entries
    BY DEF TInv, TypeOK, ExpiredIsGone
  <2>5. \A q \in expired' : w'.current_tick - since'[q] = Wait(q)'
    BY <1>2, <1>3, <2>3, <2>4 DEF TInv, HistoryAgrees
  <2>6. \A c \in called : c.timer \in Entries /\ c.timer \notin w.all_entries
    BY DEF TInv, TypeOK, HistoryAgrees
  <2>7. \A c \in called' :
          /\ c.timer \in made' /\ c.timer \notin w'.all_entries \cup expired'
          /\ c.at - since'[c.timer] = Wait(c.timer)'
          /\ \A e \in called' : e.timer = c.timer => e = c
    BY <1>2, <1>3, <2>3, <2>6 DEF TInv, HistoryAgrees
  <2> QED
    BY <2>1, <2>2, <2>5, <2>7 DEF HistoryAgrees
<1>8. TInv'
  BY <1>2, <1>3, <1>4, <1>5, <1>6, <1>7 DEF TInv
<1>9. CASE moves
  <2>1. Service!Rearm(p)
    BY <1>2, <1>3, <1>9 DEF Service!Rearm, moves
  <2> QED
    BY <1>8, <2>1 DEF Service!Next
<1>10. CASE ~moves
  BY <1>2, <1>3, <1>8, <1>10 DEF Service!service_vars
<1> QED
  BY <1>9, <1>10

LEMMA CancelStep ==
  ASSUME ~CancelZero, TInv, NEW p \in Entries, cancel_timer(p)
  PROVE  TInv' /\ (Service!Next \/ UNCHANGED Service!service_vars)
<1>1. w \in Wheel /\ p \notin w.immediate_entries
  BY DEF TInv, TypeOK, cancel_timer
<1>2. w' = cancel(w, p) /\ UNCHANGED <<expired, running, made, since, sec, called>>
  BY DEF cancel_timer
<1>3. /\ w' \in Wheel /\ Placed(w') /\ w'.all_entries = w.all_entries \ {p}
      /\ w'.tick = w.tick /\ w'.duration = w.duration /\ w'.current_tick = w.current_tick
  BY <1>1, <1>2, CancelPlaced DEF TInv
<1>4. TypeOK'
  BY <1>2, <1>3 DEF TInv, TypeOK
<1>5. NeverOverdue' /\ ExpiredIsGone'
  BY <1>2, <1>3 DEF TInv, NeverOverdue, ExpiredIsGone
<1>6. HistoryAgrees'
  <2>1. \A q : Wait(q)' = Wait(q)
    BY <1>2 DEF Wait
  <2> QED
    BY <1>2, <1>3, <2>1 DEF TInv, HistoryAgrees
<1>7. TInv'
  BY <1>2, <1>3, <1>4, <1>5, <1>6 DEF TInv
<1>8. CASE p \in w.all_entries
  BY <1>2, <1>3, <1>7, <1>8 DEF Service!Disarm, Service!Next
<1>9. CASE p \notin w.all_entries
  <2>1. w'.all_entries = w.all_entries
    BY <1>3, <1>9
  <2> QED
    BY <1>2, <1>3, <1>7, <2>1 DEF Service!service_vars
<1> QED
  BY <1>8, <1>9

\* The loop over expired_ in turn t, from a state in which all that is found in
\* s is due now, to the next.
LEMMA CallNextStep ==
  ASSUME TInv, NEW s \in SUBSET made, NEW t \in Nat, call_next(s, t),
         UNCHANGED <<made, since, sec>>,
         w' \in Wheel, Placed(w'), NeverOverdue',
         w'.tick = w.tick, w'.duration = w.duration, w'.current_tick = t,
         w'.all_entries \subseteq w.all_entries,
         s \cap w'.all_entries = {},
         \A q \in s : t - since[q] = Wait(q),
         \A c \in called : c.timer \notin s
  PROVE  TInv' /\ Service!CallNext(s)
<1>1. /\ expired' \subseteq s /\ running' \in s \cup {NoTimer} /\ running' \notin expired'
      /\ (running' = NoTimer => expired' = {}) /\ Service!CallNext(s)
  <2>1. made \subseteq Entries
    BY DEF TInv, TypeOK
  <2> QED
    BY <2>1, QueueAssumption DEF call_next, Service!CallNext
<1>2. \A c \in called' : \/ c \in called
                         \/ c.timer = running' /\ c.at = t /\ c.timer \in s
  BY DEF call_next
<1>3. \A c, d \in called' : c.timer = d.timer => c = d
  <2>1. CASE called' = called
    BY <2>1 DEF TInv, HistoryAgrees
  <2>2. ASSUME NEW p \in s,
               called' = called \cup {[timer |-> p, at |-> t]}
        PROVE  \A c, d \in called' : c.timer = d.timer => c = d
    BY <2>2 DEF TInv, HistoryAgrees
  <2> QED
    BY <2>1, <2>2 DEF call_next
<1>4. called' \subseteq [timer : Entries, at : Nat]
  <2>1. made \subseteq Entries /\ w.duration \in [Entries -> Nat]
        /\ called \subseteq [timer : Entries, at : Nat]
    BY DEF TInv, TypeOK, Wheel
  <2> QED
    BY <2>1 DEF call_next
<1>5. TypeOK'
  <2>1. s \subseteq Entries
    BY DEF TInv, TypeOK
  <2> QED
    BY <1>1, <1>4, <2>1 DEF TInv, TypeOK
<1>6. ExpiredIsGone'
  <2>1. NoTimer \notin w'.all_entries
    BY QueueAssumption DEF Wheel
  <2> QED
    BY <1>1, <2>1 DEF ExpiredIsGone
<1>7. HistoryAgrees'
  <2>1. \A q : Wait(q)' = Wait(q)
    BY DEF Wait
  <2>2. \A c \in called' : c.timer \notin expired'
    BY <1>1, <1>2
  <2>3. \A c \in called' : /\ c.timer \in made /\ c.timer \notin w'.all_entries
                           /\ c.at - since[c.timer] = Wait(c.timer)
    BY <1>2 DEF TInv, HistoryAgrees
  <2>4. \A q \in expired' : w'.current_tick - since'[q] = Wait(q)'
    BY <1>1, <2>1
  <2>5. \A q \in w'.all_entries : w'.tick[q] = since'[q] + w'.duration[q]
    BY DEF TInv, HistoryAgrees
  <2>6. \A q \in made' : w'.duration[q] = sec'[q] * Scale
    BY DEF TInv, HistoryAgrees
  <2> QED
    BY <1>3, <2>1, <2>2, <2>3, <2>4, <2>5, <2>6 DEF HistoryAgrees
<1>8. /\ w'.all_entries \cup expired' \subseteq made'
      /\ running' # NoTimer => running' \in made'
  BY <1>1 DEF TInv
<1> QED
  BY <1>1, <1>5, <1>6, <1>7, <1>8 DEF TInv

LEMMA TurnStep ==
  ASSUME TInv, turn_wheel
  PROVE  TInv' /\ Service!Turn
<1> DEFINE v == tick(w)
           t == v.current_tick
           D == due(v, t)
<1>1. /\ w \in Wheel /\ w.current_tick \in Nat /\ w.all_entries \subseteq Entries
      /\ w.tick \in [Entries -> Nat] /\ w.duration \in [Entries -> Nat]
      /\ w.immediate_entries = {e \in w.all_entries : w.duration[e] = 0}
      /\ since \in [Entries -> Nat] /\ made \subseteq Entries
  BY DEF TInv, TypeOK, Wheel, Placed
<1>2. /\ v \in Wheel /\ t = w.current_tick + 1 /\ t \in Nat
      /\ v.all_entries = w.all_entries /\ v.immediate_entries = w.immediate_entries
      /\ v.tick = w.tick /\ v.duration = w.duration /\ v.wheel = w.wheel
  BY <1>1 DEF tick, Wheel
<1>3. /\ expired = {} /\ running = NoTimer /\ w' = get_expired(v, t)
      /\ call_next(D, t) /\ UNCHANGED <<made, since, sec>>
  BY DEF turn_wheel
<1> HIDE DEF v, t
<1>4. Placed(v)
  BY <1>2 DEF TInv, Placed
<1>5. D = {e \in w.all_entries : w.tick[e] <= t}
  <2>1. \A e \in v.all_entries \ v.immediate_entries : v.tick[e] >= t
    BY <1>1, <1>2 DEF TInv, NeverOverdue
  <2>2. \A e \in v.immediate_entries : v.tick[e] <= t
    <3> SUFFICES ASSUME NEW e \in w.immediate_entries PROVE w.tick[e] <= t
      BY <1>2
    <3>1. e \in Entries /\ w.duration[e] = 0 /\ e \in w.all_entries /\ e \in made
      BY <1>1 DEF TInv
    <3>2. w.tick[e] = w.current_tick
      BY <3>1 DEF TInv, NeverOverdue
    <3> QED
      BY <1>1, <1>2, <3>2
  <2>3. v.current_tick = t
    BY DEF t
  <2> QED
    BY <1>2, <1>4, <2>1, <2>2, <2>3, DueIsDue
<1>6. /\ w' \in Wheel /\ Placed(w') /\ w'.all_entries = w.all_entries \ D
      /\ w'.tick = w.tick /\ w'.duration = w.duration /\ w'.current_tick = t
  <2>1. v.current_tick = t
    BY DEF t
  <2> QED
    BY <1>2, <1>3, <1>4, <2>1, GetExpiredPlaced
<1> HIDE DEF D
<1>7. NeverOverdue'
  <2> SUFFICES ASSUME NEW e \in w'.all_entries
               PROVE  w.duration[e] # 0 /\ w.tick[e] > t
    BY <1>6 DEF NeverOverdue
  <2>1. e \in w.all_entries /\ e \in Entries /\ w.tick[e] \in Nat /\ w.tick[e] > t
    BY <1>1, <1>2, <1>5, <1>6
  <2>2. w.duration[e] = 0 => w.tick[e] = w.current_tick
    BY <2>1 DEF TInv, NeverOverdue
  <2> QED
    BY <1>1, <1>2, <2>1, <2>2
<1>8. D \in SUBSET made /\ D \cap w'.all_entries = {} /\ \A c \in called : c.timer \notin D
  BY <1>5, <1>6 DEF TInv, HistoryAgrees
<1>9. \A q \in D : t - since[q] = Wait(q)
  <2> SUFFICES ASSUME NEW q \in D PROVE t - since[q] = Wait(q)
    OBVIOUS
  <2>1. /\ q \in Entries /\ q \in w.all_entries /\ q \in made /\ w.tick[q] <= t
        /\ w.duration[q] = sec[q] * Scale /\ w.tick[q] = since[q] + w.duration[q]
    BY <1>1, <1>5 DEF TInv, HistoryAgrees
  <2>2. IF w.duration[q] = 0 THEN w.tick[q] = w.current_tick
                             ELSE w.tick[q] > w.current_tick
    BY <2>1 DEF TInv, NeverOverdue
  <2>3. w.tick[q] \in Nat /\ since[q] \in Nat /\ w.duration[q] \in Nat
    BY <1>1, <2>1
  <2>4. CASE w.duration[q] = 0
    <3>1. t - since[q] = 1
      BY <1>1, <1>2, <2>1, <2>2, <2>3, <2>4
    <3> QED
      BY <2>1, <2>4, <3>1 DEF Wait
  <2>5. CASE w.duration[q] # 0
    <3>1. t - since[q] = w.duration[q]
      BY <1>1, <1>2, <2>1, <2>2, <2>3, <2>5
    <3> QED
      BY <2>1, <2>5, <3>1 DEF Wait
  <2> QED
    BY <2>4, <2>5
<1>10. TInv' /\ Service!CallNext(D)
  BY <1>2, <1>3, <1>6, <1>7, <1>8, <1>9, CallNextStep
<1>11. Service!Turn
  BY <1>2, <1>3, <1>5, <1>6, <1>10 DEF Service!Turn
<1> QED
  BY <1>10, <1>11

LEMMA ReturnStep ==
  ASSUME TInv, callback_returns
  PROVE  TInv' /\ Service!Return
<1>1. /\ running # NoTimer /\ call_next(expired, w.current_tick)
      /\ UNCHANGED <<w, made, since, sec>>
  BY DEF callback_returns
<1>2. /\ w' \in Wheel /\ Placed(w') /\ NeverOverdue' /\ expired \in SUBSET made
      /\ w.current_tick \in Nat /\ expired \cap w.all_entries = {}
      /\ \A q \in expired : w.current_tick - since[q] = Wait(q)
      /\ \A c \in called : c.timer \notin expired
  BY <1>1 DEF TInv, TypeOK, Wheel, NeverOverdue, ExpiredIsGone, HistoryAgrees
<1>3. TInv' /\ Service!CallNext(expired)
  BY <1>1, <1>2, CallNextStep
<1> QED
  BY <1>1, <1>3 DEF Service!Return

\* Every step preserves the invariant and is a step of the service, or none.
LEMMA NextTInv ==
  ASSUME ~CancelZero, TInv, [Next]_vars
  PROVE  TInv' /\ [Service!Next]_(Service!service_vars)
<1>1. CASE UNCHANGED vars
  BY <1>1 DEF vars, TInv, TypeOK, NeverOverdue, ExpiredIsGone, HistoryAgrees, Wait,
     Service!service_vars
<1>2. ASSUME NEW p \in Entries, NEW s \in Seconds, add_timer(p, s)
      PROVE  TInv' /\ Service!Next
  BY <1>2, AddStep
<1>3. ASSUME NEW p \in Entries, reset_timer(p) \/ cancel_timer(p)
      PROVE  TInv' /\ (Service!Next \/ UNCHANGED Service!service_vars)
  BY <1>3, ResetStep, CancelStep
<1>4. CASE turn_wheel \/ callback_returns
  BY <1>4, TurnStep, ReturnStep DEF Service!Next
<1> QED
  BY <1>1, <1>2, <1>3, <1>4 DEF Next

LEMMA TInvariance == ASSUME ~CancelZero PROVE Spec => []TInv
<1>1. TInv /\ [Next]_vars => TInv'
  BY NextTInv
<1> QED
  BY <1>1, InitTInv, PTL DEF Spec

-----------------------------------------------------------------------------
(* What follows *)

\* The wheel of the queue stays in order: each entry is in one place, the one in
\* which it is looked for, and the sizes agree.
THEOREM WheelInOrder == ASSUME ~CancelZero PROVE Spec => []EntriesPlaced
<1>1. TInv => EntriesPlaced
  BY PlacedSizes DEF TInv, TypeOK, EntriesPlaced
<1> QED
  BY <1>1, TInvariance, PTL

\* No armed timer is ever overdue.
THEOREM NoneOverdue == ASSUME ~CancelZero PROVE Spec => []NeverOverdue
<1>1. TInv => NeverOverdue
  BY DEF TInv
<1> QED
  BY <1>1, TInvariance, PTL

\* Callbacks come sec * Scale turns after the timer was added or last reset, and
\* once.
THEOREM CalledOnTime == ASSUME ~CancelZero PROVE Spec => []OnTime
<1>1. TInv => OnTime
  BY DEF TInv, HistoryAgrees, Wait, OnTime
<1> QED
  BY <1>1, TInvariance, PTL

\* The queue implements the service.
THEOREM Implements == ASSUME ~CancelZero PROVE Spec => ServiceSpec
<1>1. Init => Service!Init
  BY DEF Init, empty_wheel, Service!Init
<1>2. TInv /\ [Next]_vars => [Service!Next]_(Service!service_vars)
  BY NextTInv
<1> QED
  BY <1>1, <1>2, TInvariance, PTL DEF Spec, ServiceSpec, Service!Spec
=============================================================================
