------------------------ MODULE TimingWheelUseProofs ------------------------
(***************************************************************************)
(* Theorems about TimingWheelUse, for every number of slots, all entries,  *)
(* all durations and every order of calls.                                 *)
(***************************************************************************)
EXTENDS TimingWheelUse, TimingWheelProofs

USE SlotsAssumption, UseAssumption

-----------------------------------------------------------------------------
(* Arithmetic of the slots *)

\* Quotient and remainder.
LEMMA Division ==
  ASSUME NEW n \in Int, n > 0, NEW a \in Int
  PROVE  a = n * (a \div n) + (a % n) /\ a \div n \in Int /\ a % n \in Int
BY Z3

LEMMA Multiple ==
  ASSUME NEW n \in Int, n > 0, NEW m \in Int
  PROVE  (n * m) % n = 0
OBVIOUS

LEMMA Distribute ==
  ASSUME NEW n \in Int, NEW q \in Int, NEW p \in Int, NEW r \in Int
  PROVE  (n * q + r) - (n * p + r) = n * (q - p)
OBVIOUS

\* Ticks of one slot are whole revolutions apart.
LEMMA SameSlot ==
  ASSUME NEW n \in Int, n > 0, NEW a \in Int, NEW b \in Int, a % n = b % n
  PROVE  (a - b) % n = 0
<1> DEFINE q == a \div n
           p == b \div n
           r == a % n
<1>1. a = n * q + r /\ b = n * p + r /\ q \in Int /\ p \in Int /\ r \in Int
  BY Division
<1> HIDE DEF q, p, r
<1>2. a - b = n * (q - p) /\ q - p \in Int
  BY <1>1, Distribute
<1>3. (n * (q - p)) % n = 0
  BY <1>2, Multiple
<1> QED
  BY <1>2, <1>3

-----------------------------------------------------------------------------
(* What is reported *)

\* An entry has an item only while it is armed, under its tick_, and only if it is
\* not immediate. An immediate entry may be cancelled here: it stays in its set,
\* due since it was added.
Kept ==
  /\ \A x \in w.wheel :
       /\ x = item(x.entry, w.tick[x.entry])
       /\ x.entry \in w.all_entries
       /\ w.duration[x.entry] # 0
  /\ \A e \in w.immediate_entries : w.duration[e] = 0 /\ w.tick[e] <= w.current_tick

\* What was reported is known, and out of the wheel for good.
Gone(e) == e \in made /\ e \notin w.all_entries /\ e \notin w.immediate_entries

Reports ==
  /\ \A r \in reported : Gone(r.entry) /\ r.at \in Nat /\ r.due \in Nat
  /\ ReportedOnTime

ReportInv ==
  /\ w \in Wheel /\ made \subseteq Entries
  /\ w.all_entries \subseteq made /\ w.immediate_entries \subseteq made
  /\ Kept /\ Reports

LEMMA InitReports == Init => ReportInv
<1> SUFFICES ASSUME Init PROVE ReportInv
  OBVIOUS
<1>1. empty_wheel \in Wheel
  BY DEF empty_wheel, Wheel
<1> QED
  BY <1>1 DEF Init, ReportInv, Kept, Reports, ReportedOnTime, empty_wheel

\* What leaves the reported entries alone keeps what was reported.
LEMMA KeepsReports ==
  ASSUME Reports, reported' = reported, made \subseteq made',
         \A e : Gone(e) => /\ e \notin w'.all_entries /\ e \notin w'.immediate_entries
                           /\ w'.duration[e] = w.duration[e]
  PROVE  Reports'
<1>1. \A e : Gone(e) => Gone(e)' /\ w'.duration[e] = w.duration[e]
  BY DEF Gone
<1> QED
  BY <1>1 DEF Reports, ReportedOnTime

LEMMA AddReports ==
  ASSUME ReportInv, NEW e \in Entries, NEW d \in Durations, Add(e, d)
  PROVE  ReportInv'
<1> DEFINE t == d + w.current_tick
<1>1. /\ w \in Wheel /\ d \in Nat /\ t \in Nat /\ w.current_tick \in Nat
      /\ w.tick \in [Entries -> Nat] /\ w.duration \in [Entries -> Nat]
      /\ w.wheel \in SUBSET Item /\ w.all_entries \subseteq Entries
      /\ w.immediate_entries \subseteq Entries /\ w.missing \in BOOLEAN
      /\ made \subseteq Entries /\ w' = add(w, e, d)
      /\ e \notin made /\ made' = made \cup {e} /\ reported' = reported
  BY DEF ReportInv, Wheel, Add
<1>2. item(e, t) \in Item /\ item(e, t).entry = e
  BY <1>1, ItemType
<1>3. /\ w' \in Wheel /\ w'.all_entries = w.all_entries \cup {e}
      /\ w'.duration = [w.duration EXCEPT ![e] = d]
      /\ w'.current_tick = w.current_tick
      /\ IF d = 0
           THEN /\ w'.immediate_entries = w.immediate_entries \cup {e}
                /\ w'.wheel = w.wheel /\ w'.tick = [w.tick EXCEPT ![e] = w.current_tick]
           ELSE /\ w'.immediate_entries = w.immediate_entries
                /\ w'.wheel = w.wheel \cup {item(e, t)} /\ w'.tick = [w.tick EXCEPT ![e] = t]
  BY <1>1, <1>2 DEF add, insert_entry, Wheel
<1>4. \A x \in w.wheel : x.entry # e /\ x.entry \in Entries
  BY <1>1 DEF ReportInv, Kept
<1> HIDE DEF t
<1>5. Kept'
  <2>1. \A x \in w.wheel : /\ w'.tick[x.entry] = w.tick[x.entry]
                           /\ w'.duration[x.entry] = w.duration[x.entry]
    BY <1>1, <1>3, <1>4
  <2>2. \A x \in w.wheel :
          /\ x = item(x.entry, w'.tick[x.entry])
          /\ x.entry \in w'.all_entries
          /\ w'.duration[x.entry] # 0
    BY <1>3, <2>1 DEF ReportInv, Kept
  <2>3. \A i \in w.immediate_entries : w'.duration[i] = 0 /\ w'.tick[i] <= w'.current_tick
    BY <1>1, <1>3 DEF ReportInv, Kept
  <2>4. CASE d = 0
    BY <1>1, <1>3, <2>2, <2>3, <2>4 DEF Kept
  <2>5. CASE d # 0
    BY <1>1, <1>2, <1>3, <2>2, <2>3, <2>5 DEF Kept
  <2> QED
    BY <2>4, <2>5
<1>6. Reports'
  <2>1. \A x : Gone(x) => /\ x \notin w'.all_entries /\ x \notin w'.immediate_entries
                          /\ w'.duration[x] = w.duration[x]
    BY <1>1, <1>3 DEF Gone
  <2> QED
    BY <1>1, <2>1, KeepsReports DEF ReportInv
<1> QED
  BY <1>1, <1>3, <1>5, <1>6 DEF ReportInv

LEMMA CancelReports ==
  ASSUME ReportInv, NEW e \in Entries, Cancel(e)
  PROVE  ReportInv'
<1>1. /\ w \in Wheel /\ made \subseteq Entries /\ w' = cancel(w, e)
      /\ made' = made /\ reported' = reported
  BY DEF ReportInv, Cancel
<1>2. CASE e \notin w.all_entries
  BY <1>1, <1>2 DEF cancel, ReportInv, Kept, Reports, Gone, ReportedOnTime
<1>3. CASE e \in w.all_entries
  <2>1. /\ w' \in Wheel /\ w'.all_entries = w.all_entries \ {e}
        /\ w'.wheel = w.wheel \ {item(e, w.tick[e])}
        /\ w'.immediate_entries = w.immediate_entries
        /\ w'.tick = w.tick /\ w'.duration = w.duration /\ w'.current_tick = w.current_tick
    BY <1>1, <1>3 DEF cancel, slot_remove_entry, Wheel
  <2>2. Kept'
    BY <2>1 DEF ReportInv, Kept
  <2>3. Reports'
    BY <1>1, <2>1, KeepsReports DEF ReportInv, Gone
  <2> QED
    BY <1>1, <2>1, <2>2, <2>3 DEF ReportInv
<1> QED
  BY <1>2, <1>3

LEMMA ResetReports ==
  ASSUME ReportInv, NEW e \in Entries, Reset(e)
  PROVE  ReportInv'
<1> DEFINE t == w.duration[e] + w.current_tick
<1>1. /\ w \in Wheel /\ t \in Nat /\ w.current_tick \in Nat
      /\ w.tick \in [Entries -> Nat] /\ w.duration \in [Entries -> Nat]
      /\ w' = reset(w, e) /\ made' = made /\ reported' = reported
  BY DEF ReportInv, Wheel, Reset
<1> DEFINE moves == e \in w.all_entries /\ w.duration[e] # 0 /\ w.tick[e] # t
<1>2. CASE ~moves
  <2>1. w' = w
    BY <1>1, <1>2 DEF reset
  <2> QED
    BY <1>1, <2>1 DEF ReportInv, Kept, Reports, Gone, ReportedOnTime
<1>3. CASE moves
  <2>1. item(e, t) \in Item /\ item(e, t).entry = e
    BY <1>1, ItemType
  <2>2. /\ w' \in Wheel /\ w'.all_entries = w.all_entries
        /\ w'.wheel = (w.wheel \ {item(e, w.tick[e])}) \cup {item(e, t)}
        /\ w'.immediate_entries = w.immediate_entries
        /\ w'.tick = [w.tick EXCEPT ![e] = t] /\ w'.duration = w.duration
        /\ w'.current_tick = w.current_tick
    BY <1>1, <1>3, <2>1 DEF reset, slot_remove_entry, insert_entry, Wheel
  <2> HIDE DEF t
  <2>3. Kept'
    <3>1. \A x \in w.wheel \ {item(e, w.tick[e])} :
            x.entry # e /\ x.entry \in Entries /\ w'.tick[x.entry] = w.tick[x.entry]
      BY <1>1, <2>2 DEF ReportInv, Kept, Wheel
    <3>2. \A x \in w'.wheel :
            /\ x = item(x.entry, w'.tick[x.entry])
            /\ x.entry \in w'.all_entries
            /\ w'.duration[x.entry] # 0
      BY <1>1, <1>3, <2>1, <2>2, <3>1 DEF ReportInv, Kept
    <3>3. \A i \in w.immediate_entries : i # e
      BY <1>3 DEF ReportInv, Kept
    <3> QED
      BY <1>1, <2>2, <3>2, <3>3 DEF ReportInv, Kept
  <2>4. Reports'
    BY <1>1, <2>2, KeepsReports DEF ReportInv, Gone
  <2> QED
    BY <1>1, <2>2, <2>3, <2>4 DEF ReportInv
<1> QED
  BY <1>2, <1>3

\* The items that a poll finds in the slot of its tick are those of the entries
\* due then or whole revolutions before.
LEMMA FoundInSlot ==
  ASSUME ReportInv, NEW x \in w.wheel, in_range(w, x, w.current_tick)
  PROVE  /\ w.tick[x.entry] <= w.current_tick
         /\ (w.current_tick - w.tick[x.entry]) % N = 0
<1> DEFINE c == w.current_tick
           k == w.tick[x.entry]
<1>1. c \in Nat /\ k \in Nat /\ x = item(x.entry, k)
  BY DEF ReportInv, Kept, Wheel
<1>2. x.slot = k % N /\ x.key = k
  BY <1>1 DEF item
<1>3. k % N = c % N /\ k <= c
  BY <1>2 DEF in_range
<1> HIDE DEF c, k
<1>4. (c - k) % N = 0
  <2>1. N \in Int /\ N > 0 /\ c \in Int /\ k \in Int /\ c % N = k % N
    BY <1>1, <1>3
  <2> QED
    BY <2>1, SameSlot
<1> QED
  BY <1>3, <1>4 DEF c, k

LEMMA PollReports ==
  ASSUME ReportInv, Poll
  PROVE  ReportInv'
<1> DEFINE c == w.current_tick
           D == due(w, c)
           new == {[entry |-> e, at |-> c, due |-> w.tick[e]] : e \in D}
<1>1. /\ w \in Wheel /\ c \in Nat /\ w.tick \in [Entries -> Nat]
      /\ made' = made /\ reported' = reported \cup new
      /\ w.immediate_entries \subseteq Entries /\ w.all_entries \subseteq Entries
  BY DEF ReportInv, Wheel, Poll
<1>2. /\ w' \in Wheel /\ w'.all_entries = w.all_entries \ D
      /\ w'.immediate_entries = {}
      /\ w'.wheel = {x \in w.wheel : ~in_range(w, x, c)}
      /\ w'.tick = w.tick /\ w'.duration = w.duration /\ w'.current_tick = c
  BY <1>1 DEF Poll, get_expired, Wheel
<1>3. \A e \in D :
        /\ e \in made /\ e \in Entries /\ e \notin {r.entry : r \in reported}
        /\ w.tick[e] <= c
        /\ w.duration[e] # 0 => (c - w.tick[e]) % N = 0
  <2> SUFFICES ASSUME NEW e \in D
               PROVE  /\ e \in made /\ e \in Entries /\ e \notin {r.entry : r \in reported}
                      /\ w.tick[e] <= c
                      /\ w.duration[e] # 0 => (c - w.tick[e]) % N = 0
    OBVIOUS
  <2>1. CASE e \in w.immediate_entries
    BY <1>1, <2>1 DEF ReportInv, Kept, Reports, Gone
  <2>2. CASE e \notin w.immediate_entries
    <3>1. PICK x \in w.wheel : in_range(w, x, c) /\ e = x.entry
      BY <2>2 DEF due
    <3>2. e \in w.all_entries
      BY <3>1 DEF ReportInv, Kept
    <3> QED
      BY <1>1, <3>1, <3>2, FoundInSlot DEF ReportInv, Reports, Gone
  <2> QED
    BY <2>1, <2>2
<1>4. Kept'
  <2>1. \A x \in w'.wheel : x.entry \notin D
    <3> SUFFICES ASSUME NEW x \in w.wheel, ~in_range(w, x, c), x.entry \in D
                 PROVE  FALSE
      BY <1>2
    <3>1. x.entry \notin w.immediate_entries
      BY DEF ReportInv, Kept
    <3>2. PICK y \in w.wheel : in_range(w, y, c) /\ y.entry = x.entry
      BY <3>1 DEF due
    <3>3. x = y
      BY <3>2 DEF ReportInv, Kept
    <3> QED
      BY <3>2, <3>3
  <2> QED
    BY <1>2, <2>1 DEF ReportInv, Kept
<1> HIDE DEF D
<1>5. Reports'
  <2>1. \A e : Gone(e) \/ e \in D => Gone(e)'
    BY <1>1, <1>2, <1>3 DEF Gone
  <2>2. \A r \in new : /\ r.entry \in D /\ r.at = c /\ r.due = w.tick[r.entry]
                       /\ \A s \in new : r.entry = s.entry => r = s
    OBVIOUS
  <2> HIDE DEF new, c
  <2>3. \A r \in reported' : Gone(r.entry)' /\ r.at \in Nat /\ r.due \in Nat
    BY <1>1, <1>3, <2>1, <2>2 DEF ReportInv, Reports
  <2>4. \A r \in reported' : r.at >= r.due /\ (w'.duration[r.entry] # 0 => (r.at - r.due) % N = 0)
    BY <1>1, <1>2, <1>3, <2>2 DEF ReportInv, Reports, ReportedOnTime
  <2>5. \A r, s \in reported' : r.entry = s.entry => r = s
    BY <1>1, <1>3, <2>2 DEF ReportInv, Reports, ReportedOnTime
  <2> QED
    BY <2>3, <2>4, <2>5 DEF Reports, ReportedOnTime
<1> QED
  BY <1>1, <1>2, <1>4, <1>5 DEF ReportInv

\* An entry is reported once, never before its tick, and later than it only by
\* whole revolutions of the wheel: whatever is reset, cancelled or cleared, also
\* an immediate entry, and whatever polls are skipped.
THEOREM ReportedAtItsTick == Spec => []ReportedOnTime
<1>1. Init => ReportInv
  BY InitReports
<1>2. ReportInv /\ [Next]_use_vars => ReportInv'
  <2> SUFFICES ASSUME ReportInv, [Next]_use_vars PROVE ReportInv'
    OBVIOUS
  <2>1. ASSUME NEW e \in Entries, Cancel(e) \/ Reset(e) \/ \E d \in Durations : Add(e, d)
        PROVE  ReportInv'
    BY <2>1, AddReports, CancelReports, ResetReports
  <2>2. ASSUME Tick PROVE ReportInv'
    <3>1. /\ w' \in Wheel /\ w'.current_tick = w.current_tick + 1 /\ w.current_tick \in Nat
          /\ w'.wheel = w.wheel /\ w'.immediate_entries = w.immediate_entries
          /\ w'.all_entries = w.all_entries /\ w'.tick = w.tick
          /\ w'.duration = w.duration /\ made' = made /\ reported' = reported
          /\ w.tick \in [Entries -> Nat] /\ w.immediate_entries \subseteq Entries
      BY <2>2 DEF Tick, tick, ReportInv, Wheel
    <3>2. Kept'
      BY <3>1 DEF ReportInv, Kept
    <3>3. Reports'
      BY <3>1, KeepsReports DEF ReportInv, Gone
    <3> QED
      BY <3>1, <3>2, <3>3 DEF ReportInv
  <2>3. ASSUME Poll PROVE ReportInv'
    BY <2>3, PollReports
  <2>4. ASSUME Clear PROVE ReportInv'
    <3>1. /\ w' \in Wheel /\ w'.wheel = {} /\ w'.immediate_entries = {}
          /\ w'.all_entries = {} /\ w'.duration = w.duration
          /\ made' = made /\ reported' = reported
      BY <2>4 DEF Clear, clear, ReportInv, Wheel
    <3>2. Reports'
      BY <3>1, KeepsReports DEF ReportInv, Gone
    <3> QED
      BY <3>1, <3>2 DEF ReportInv, Kept
  <2>5. ASSUME UNCHANGED use_vars PROVE ReportInv'
    BY <2>5 DEF use_vars, ReportInv, Kept, Reports, Gone, ReportedOnTime
  <2> QED
    BY <2>1, <2>2, <2>3, <2>4, <2>5 DEF Next
<1>3. ReportInv => ReportedOnTime
  BY DEF ReportInv, Reports
<1> QED
  BY <1>1, <1>2, <1>3, PTL DEF Spec

-----------------------------------------------------------------------------
(* What is missed *)

\* What is armed is due in a tick that was not polled, except what expires at the
\* next poll.
Unpolled == \A e \in w.all_entries : w.duration[e] # 0 => w.tick[e] \notin polled

MissInv ==
  /\ w \in Wheel /\ Placed(w) /\ ~w.missing
  /\ w.all_entries \subseteq made
  /\ \A p \in polled : p \in Nat /\ p <= w.current_tick
  /\ Unpolled

LEMMA InitMisses == Init => MissInv
<1> SUFFICES ASSUME Init PROVE MissInv
  OBVIOUS
<1>1. empty_wheel \in Wheel /\ Placed(empty_wheel)
  BY DEF empty_wheel, Wheel, Placed
<1> QED
  BY <1>1 DEF Init, MissInv, Unpolled, empty_wheel

LEMMA AddMisses ==
  ASSUME MissInv, NEW e \in Entries, NEW d \in Durations, Add(e, d)
  PROVE  MissInv'
<1>1. /\ w \in Wheel /\ d \in Nat /\ w.current_tick \in Nat /\ e \notin w.all_entries
      /\ w.tick \in [Entries -> Nat] /\ w.duration \in [Entries -> Nat]
      /\ w.all_entries \subseteq Entries
      /\ w' = add(w, e, d) /\ made' = made \cup {e} /\ polled' = polled
  BY DEF MissInv, Wheel, Add
<1>2. /\ w' \in Wheel /\ Placed(w')
      /\ w'.all_entries = w.all_entries \cup {e}
      /\ w'.tick = [w.tick EXCEPT ![e] = w.current_tick + d]
      /\ w'.duration = [w.duration EXCEPT ![e] = d]
      /\ w'.current_tick = w.current_tick
  <2>1. w \in Wheel /\ Placed(w) /\ e \in Entries /\ e \notin w.all_entries /\ d \in Nat
    BY <1>1 DEF MissInv
  <2>2. /\ add(w, e, d) \in Wheel /\ Placed(add(w, e, d))
        /\ add(w, e, d).all_entries = w.all_entries \cup {e}
        /\ add(w, e, d).tick = [w.tick EXCEPT ![e] = w.current_tick + d]
        /\ add(w, e, d).duration = [w.duration EXCEPT ![e] = d]
        /\ add(w, e, d).current_tick = w.current_tick
    BY ONLY <2>1, AddPlaced
  <2> QED
    BY <1>1, <2>2
<1>3. ~w'.missing
  BY <1>1 DEF add, insert_entry, Wheel, MissInv
<1>4. Unpolled'
  <2>1. ASSUME NEW x \in w.all_entries, w'.duration[x] # 0 PROVE w'.tick[x] \notin polled
    BY <1>1, <1>2, <2>1 DEF MissInv, Unpolled
  <2>2. ASSUME d # 0 PROVE w'.tick[e] \notin polled
    <3>1. w'.tick[e] = w.current_tick + d
      BY <1>1, <1>2
    <3> QED
      BY <1>1, <2>2, <3>1 DEF MissInv
  <2>3. w'.duration[e] = d
    BY <1>1, <1>2
  <2> QED
    BY <1>1, <1>2, <2>1, <2>2, <2>3 DEF Unpolled
<1>5. Placed(w)'
  BY <1>2 DEF Placed
<1> QED
  BY <1>1, <1>2, <1>3, <1>4, <1>5 DEF MissInv

LEMMA CancelMisses ==
  ASSUME MissInv, ~CancelImmediate, NEW e \in Entries, Cancel(e)
  PROVE  MissInv'
<1>1. /\ w \in Wheel /\ Placed(w) /\ e \notin w.immediate_entries
      /\ w' = cancel(w, e) /\ made' = made /\ polled' = polled
  BY DEF MissInv, Cancel
<1>2. /\ w' \in Wheel /\ Placed(w') /\ w'.all_entries = w.all_entries \ {e}
      /\ w'.tick = w.tick /\ w'.duration = w.duration
      /\ w'.current_tick = w.current_tick /\ w'.missing = w.missing
  BY <1>1, CancelPlaced
<1>3. Placed(w)'
  BY <1>2 DEF Placed
<1> QED
  BY <1>1, <1>2, <1>3 DEF MissInv, Unpolled

LEMMA ResetMisses ==
  ASSUME MissInv, NEW e \in Entries, Reset(e)
  PROVE  MissInv'
<1>1. /\ w \in Wheel /\ Placed(w) /\ w' = reset(w, e) /\ made' = made /\ polled' = polled
      /\ w.current_tick \in Nat /\ w.duration[e] \in Nat /\ w.tick \in [Entries -> Nat]
      /\ w.all_entries \subseteq Entries
  BY DEF MissInv, Reset, Wheel
<1>2. /\ w' \in Wheel /\ Placed(w') /\ w'.all_entries = w.all_entries
      /\ w'.tick = IF e \in w.all_entries /\ w.duration[e] # 0
                     THEN [w.tick EXCEPT ![e] = w.current_tick + w.duration[e]]
                     ELSE w.tick
      /\ w'.duration = w.duration
      /\ w'.current_tick = w.current_tick /\ w'.missing = w.missing
  BY <1>1, ResetPlaced
<1>3. Unpolled'
  <2> SUFFICES ASSUME NEW x \in w.all_entries, w.duration[x] # 0
               PROVE  w'.tick[x] \notin polled
    BY <1>1, <1>2 DEF Unpolled
  <2>1. CASE x = e
    <3>1. w'.tick[x] = w.current_tick + w.duration[e]
      BY <1>1, <1>2, <2>1
    <3> QED
      BY <1>1, <2>1, <3>1 DEF MissInv
  <2>2. CASE x # e
    BY <1>1, <1>2, <2>2 DEF MissInv, Unpolled
  <2> QED
    BY <2>1, <2>2
<1>4. Placed(w)'
  BY <1>2 DEF Placed
<1> QED
  BY <1>1, <1>2, <1>3, <1>4 DEF MissInv

LEMMA PollMisses ==
  ASSUME MissInv, Poll
  PROVE  MissInv'
<1> DEFINE c == w.current_tick
<1>1. /\ w \in Wheel /\ Placed(w) /\ w' = get_expired(w, c) /\ made' = made
      /\ polled' = polled \cup {c} /\ c \in Nat /\ w.tick \in [Entries -> Nat]
      /\ w.all_entries \subseteq Entries
  BY DEF MissInv, Poll, Wheel
<1>2. /\ w' \in Wheel /\ Placed(w') /\ w'.all_entries = w.all_entries \ due(w, c)
      /\ w'.tick = w.tick /\ w'.duration = w.duration
      /\ w'.current_tick = c /\ w'.missing = w.missing
  BY <1>1, GetExpiredPlaced
<1>3. ASSUME NEW e \in w.all_entries, w.duration[e] # 0, w.tick[e] = c
      PROVE  e \in due(w, c)
  <2>1. item(e, c) \in w.wheel
    BY <1>1, <1>3 DEF Placed
  <2>2. in_range(w, item(e, c), c) /\ item(e, c).entry = e
    BY <1>1, <1>3 DEF in_range, item
  <2> QED
    BY <2>1, <2>2 DEF due
<1>4. Unpolled'
  BY <1>1, <1>2, <1>3 DEF MissInv, Unpolled
<1>5. Placed(w)'
  BY <1>2 DEF Placed
<1> QED
  BY <1>1, <1>2, <1>4, <1>5 DEF MissInv

\* No poll leaves behind what it should have reported, whatever ticks pass without
\* one: add and reset arm for a tick that is still to come. Every entry stays where
\* cancel and reset look for it. An immediate entry must not be cancelled, the
\* wheel would look for it in a slot.
THEOREM NothingIsMissed ==
  ASSUME ~CancelImmediate
  PROVE  Spec => []NothingMissed
<1>1. Init => MissInv
  BY InitMisses
<1>2. MissInv /\ [Next]_use_vars => MissInv'
  <2> SUFFICES ASSUME MissInv, [Next]_use_vars PROVE MissInv'
    OBVIOUS
  <2>1. ASSUME NEW e \in Entries, Cancel(e) \/ Reset(e) \/ \E d \in Durations : Add(e, d)
        PROVE  MissInv'
    BY <2>1, AddMisses, CancelMisses, ResetMisses
  <2>2. ASSUME Tick PROVE MissInv'
    <3>1. /\ w' \in Wheel /\ w'.current_tick = w.current_tick + 1 /\ w.current_tick \in Nat
          /\ w'.wheel = w.wheel /\ w'.immediate_entries = w.immediate_entries
          /\ w'.all_entries = w.all_entries /\ w'.tick = w.tick
          /\ w'.duration = w.duration /\ w'.missing = w.missing
          /\ made' = made /\ polled' = polled
      BY <2>2 DEF Tick, tick, MissInv, Wheel
    <3>2. Placed(w)' /\ Unpolled'
      BY <3>1 DEF MissInv, Placed, Unpolled
    <3>3. \A p \in polled' : p \in Nat /\ p <= w'.current_tick
      BY <3>1 DEF MissInv
    <3> QED
      BY <3>1, <3>2, <3>3 DEF MissInv
  <2>3. ASSUME Poll PROVE MissInv'
    BY <2>3, PollMisses
  <2>4. ASSUME Clear PROVE MissInv'
    <3>1. /\ w' \in Wheel /\ w'.wheel = {} /\ w'.immediate_entries = {}
          /\ w'.all_entries = {} /\ w'.missing = w.missing /\ polled' = {}
      BY <2>4 DEF Clear, clear, MissInv, Wheel
    <3> QED
      BY <3>1 DEF MissInv, Placed, Unpolled
  <2>5. ASSUME UNCHANGED use_vars PROVE MissInv'
    BY <2>5 DEF use_vars, MissInv, Placed, Unpolled
  <2> QED
    BY <2>1, <2>2, <2>3, <2>4, <2>5 DEF Next
<1>3. MissInv => NothingMissed
  <2> SUFFICES ASSUME MissInv PROVE NothingMissed
    OBVIOUS
  <2>1. SizesAgree(w)
    BY PlacedSizes DEF MissInv
  <2> QED
    BY <2>1 DEF MissInv, Unpolled, NothingMissed
<1> QED
  BY <1>1, <1>2, <1>3, PTL DEF Spec
=============================================================================
