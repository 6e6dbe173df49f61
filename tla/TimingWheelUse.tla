--------------------------- MODULE TimingWheelUse ---------------------------
(***************************************************************************)
(* Any single-threaded use of a timing_wheel through its public functions, *)
(* in any order: unlike timer_queue it may tick without polling, poll more *)
(* than once in a tick, and clear.                                         *)
(***************************************************************************)
EXTENDS TimingWheel

CONSTANTS
  Durations,        \* the durations given to add()
  MaxTick,          \* bound: tick() is called up to here
  CancelImmediate   \* whether an entry added with duration 0 may be cancelled

ASSUME UseAssumption ==
  Durations \subseteq Nat /\ MaxTick \in Nat /\ CancelImmediate \in BOOLEAN

VARIABLES
  w,        \* the timing_wheel
  made,     \* the entries added so far: each add() makes a new one
  reported, \* history: entries in the out vectors, with the tick of the poll
  polled    \* history: the ticks, since clear(), in which get_expired was called

use_vars == <<w, made, reported, polled>>

Init ==
  /\ w = empty_wheel
  /\ made = {}
  /\ reported = {}
  /\ polled = {}

Add(e, d) ==
  /\ e \notin made
  /\ made' = made \cup {e}
  /\ w' = add(w, e, d)
  /\ UNCHANGED <<reported, polled>>

Cancel(e) ==
  /\ e \in made
  /\ CancelImmediate \/ e \notin w.immediate_entries
  /\ w' = cancel(w, e)
  /\ UNCHANGED <<made, reported, polled>>

Reset(e) ==
  /\ e \in made
  /\ w' = reset(w, e)
  /\ UNCHANGED <<made, reported, polled>>

Tick ==
  /\ w.current_tick < MaxTick
  /\ w' = tick(w)
  /\ UNCHANGED <<made, reported, polled>>

\* get_expired() and get_expired(out) pass current_tick.
Poll ==
  /\ w' = get_expired(w, w.current_tick)
  /\ reported' = reported \cup
       {[entry |-> e, at |-> w.current_tick, due |-> w.tick[e]] : e \in due(w, w.current_tick)}
  /\ polled' = polled \cup {w.current_tick}
  /\ UNCHANGED made

Clear ==
  /\ w' = clear(w)
  /\ polled' = {}
  /\ UNCHANGED <<made, reported>>

Next ==
  \/ \E e \in Entries : Cancel(e) \/ Reset(e) \/ \E d \in Durations : Add(e, d)
  \/ Tick \/ Poll \/ Clear

Spec == Init /\ [][Next]_use_vars

-----------------------------------------------------------------------------
(* Correctness *)

\* An entry is reported at its tick, or, when polls were skipped, whole
\* revolutions later: never before, and once.
ReportedOnTime ==
  \A r, s \in reported :
    /\ r.at >= r.due
    /\ w.duration[r.entry] # 0 => (r.at - r.due) % N = 0
    /\ r.entry = s.entry => r = s

\* A poll leaves nothing behind that it should have reported: an entry that is
\* still armed was never due in a tick that was polled. It is found where cancel and
\* reset look for it, whatever was skipped, reset or cleared before, the sizes that
\* every function asserts agree, and assert(it != s->entries_.end()) of
\* slot_remove_entry never fails. This needs that no entry added with duration 0 is
\* cancelled: it is in no slot.
NothingMissed ==
  /\ \A e \in w.all_entries : w.duration[e] # 0 => w.tick[e] \notin polled
  /\ Placed(w) /\ SizesAgree(w) /\ ~w.missing
=============================================================================
