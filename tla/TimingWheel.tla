---------------------------- MODULE TimingWheel ----------------------------
(***************************************************************************)
(* The data structure timing_wheel<T, N> of zysoft/timer: N slots, each a  *)
(* multimap from the tick an entry expires at to the entry, a set of       *)
(* entries that expire at the next poll, and the set of all entries.       *)
(*                                                                         *)
(* The member functions are operators from record to record. An entry is   *)
(* identified with the shared_ptr that add() makes; the order in which one *)
(* poll reports what expired is not modelled.                              *)
(***************************************************************************)
EXTENDS Integers, FiniteSets

CONSTANTS
  N,        \* the number of slots, static_capacity
  Entries   \* the entries that are ever added

ASSUME SlotsAssumption == N \in Nat \ {0}
ASSUME EntriesAssumption == IsFiniteSet(Entries)

\* The N multimaps are one set of triples.
Item == [slot : 0 .. N - 1, key : Nat, entry : Entries]

Wheel == [wheel             : SUBSET Item,
          immediate_entries : SUBSET Entries,
          all_entries       : SUBSET Entries,
          tick              : [Entries -> Nat],   \* entry::tick_
          duration          : [Entries -> Nat],   \* entry::duration_
          current_tick      : Nat,
          missing           : BOOLEAN]            \* history: slot_remove_entry
                                                  \* did not find its entry
empty_wheel ==
  [wheel |-> {}, immediate_entries |-> {}, all_entries |-> {},
   tick |-> [e \in Entries |-> 0], duration |-> [e \in Entries |-> 0],
   current_tick |-> 0, missing |-> FALSE]

item(e, t) == [slot |-> t % N, key |-> t, entry |-> e]

insert_entry(w, e, t) == [w EXCEPT !.tick[e] = t, !.wheel = @ \cup {item(e, t)}]

\* Erasing what was not found is undefined; the model notes it and goes on.
slot_remove_entry(w, e) ==
  [w EXCEPT !.wheel = @ \ {item(e, w.tick[e])},
            !.missing = @ \/ item(e, w.tick[e]) \notin w.wheel]

add(w, e, d) ==
  LET a == [w EXCEPT !.all_entries = @ \cup {e}, !.duration[e] = d]
  IN  IF d = 0
        THEN [a EXCEPT !.immediate_entries = @ \cup {e}, !.tick[e] = w.current_tick]
        ELSE insert_entry(a, e, d + w.current_tick)

\* Mutant: the entry is dropped from all_entries_ only.
cancel_lookup_only(w, e) == [w EXCEPT !.all_entries = @ \ {e}]

\* A handle whose entry expired or was cancelled cannot be locked: no effect.
cancel(w, e) ==
  IF e \in w.all_entries
    THEN [slot_remove_entry(w, e) EXCEPT !.all_entries = @ \ {e}]
    ELSE w

\* Mutant: the tick of the entry changes before it is looked up in its slot.
reset_tick_first(w, e) ==
  IF e \in w.all_entries /\ w.duration[e] # 0
    THEN insert_entry(slot_remove_entry(
           [w EXCEPT !.tick[e] = w.duration[e] + w.current_tick], e),
           e, w.duration[e] + w.current_tick)
    ELSE w

reset(w, e) ==
  LET t == w.duration[e] + w.current_tick
  IN  IF e \in w.all_entries /\ w.duration[e] # 0 /\ w.tick[e] # t
        THEN insert_entry(slot_remove_entry(w, e), e, t)
        ELSE w

tick(w) == [w EXCEPT !.current_tick = @ + 1]

\* Mutants: lower_bound for upper_bound (the "TODO" of line 97); all of the slot.
in_range_lower(w, x, t) == x.slot = w.current_tick % N /\ x.key < t
in_range_slot(w, x, t) == x.slot = w.current_tick % N

\* The items of the current slot from begin() to upper_bound(t).
in_range(w, x, t) == x.slot = w.current_tick % N /\ x.key <= t

due(w, t) == w.immediate_entries \cup {x.entry : x \in {y \in w.wheel : in_range(w, y, t)}}

\* What get_expired(t) leaves; it reports due(w, t).
get_expired(w, t) ==
  [w EXCEPT !.immediate_entries = {},
            !.wheel = {x \in @ : ~in_range(w, x, t)},
            !.all_entries = @ \ due(w, t)]

clear(w) == [w EXCEPT !.wheel = {}, !.immediate_entries = {}, !.all_entries = {},
                      !.current_tick = 0]

-----------------------------------------------------------------------------
(* What the functions assert of the structure *)

\* all_entries_.size() == wheel_entries_count() + immediate_entries_.size()
SizesAgree(w) ==
  Cardinality(w.all_entries) = Cardinality(w.wheel) + Cardinality(w.immediate_entries)

\* Every entry is in one place: an immediate one in its set, any other in the
\* slot and under the key of its tick_, which is where cancel looks for it.
Placed(w) ==
  /\ w.immediate_entries = {e \in w.all_entries : w.duration[e] = 0}
  /\ w.wheel = {item(e, w.tick[e]) : e \in w.all_entries \ w.immediate_entries}
=============================================================================
