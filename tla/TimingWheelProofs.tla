------------------------- MODULE TimingWheelProofs -------------------------
(***************************************************************************)
(* What the operations of a timing_wheel preserve, for every number of     *)
(* slots and every duration.                                               *)
(***************************************************************************)
EXTENDS TimingWheel, FiniteSetTheorems, TLAPS

\* An item is well formed: its slot exists.
LEMMA ItemType ==
  ASSUME NEW e \in Entries, NEW t \in Nat
  PROVE  /\ item(e, t) \in Item
         /\ item(e, t).slot = t % N /\ item(e, t).key = t /\ item(e, t).entry = e
<1>1. t % N \in 0 .. N - 1
  BY SlotsAssumption
<1> QED
  BY <1>1 DEF item, Item

\* The sizes that every function asserts follow from each entry being in one
\* place: the items are as many as the entries that are not immediate.
LEMMA PlacedSizes ==
  ASSUME NEW w \in Wheel, Placed(w)
  PROVE  SizesAgree(w)
<1> DEFINE A == w.all_entries
           I == w.immediate_entries
           R == A \ I
           f == [e \in R |-> item(e, w.tick[e])]
<1>1. A \subseteq Entries /\ I \subseteq A /\ w.tick \in [Entries -> Nat]
  BY DEF Wheel, Placed
<1>2. IsFiniteSet(A) /\ IsFiniteSet(I) /\ IsFiniteSet(R)
  <2>1. IsFiniteSet(A)
    BY <1>1, EntriesAssumption, FS_Subset
  <2>2. IsFiniteSet(I)
    BY <1>1, <2>1, FS_Subset
  <2>3. IsFiniteSet(R)
    BY <2>1, FS_Difference
  <2> QED
    BY <2>1, <2>2, <2>3
<1>3. w.wheel = {f[e] : e \in R}
  BY DEF Placed
<1>4. \A d, e \in R : f[d] = f[e] => d = e
  <2> SUFFICES ASSUME NEW d \in R, NEW e \in R, f[d] = f[e]
               PROVE  d = e
    OBVIOUS
  <2>1. f[d].entry = d /\ f[e].entry = e
    BY <1>1, ItemType
  <2> QED
    BY <2>1
<1> HIDE DEF f, R
<1>5. f \in Bijection(R, w.wheel)
  <2>1. f \in [R -> w.wheel]
    BY <1>3 DEF f
  <2>2. \A y \in w.wheel : \E e \in R : f[e] = y
    BY <1>3
  <2> QED
    BY <1>4, <2>1, <2>2 DEF Bijection, Injection, Surjection, IsInjective
<1>6. Cardinality(w.wheel) = Cardinality(R)
  BY <1>2, <1>5, FS_Bijection DEF ExistsBijection
<1>7. Cardinality(R) = Cardinality(A) - Cardinality(A \cap I)
  BY <1>2, FS_Difference DEF R
<1>8. A \cap I = I
  BY <1>1
<1>9. Cardinality(A) \in Nat /\ Cardinality(I) \in Nat
  BY <1>2, FS_CardinalityType
<1>10. Cardinality(w.wheel) = Cardinality(A) - Cardinality(I)
  BY <1>6, <1>7, <1>8
<1> QED
  BY <1>9, <1>10 DEF SizesAgree

\* add() of a new entry.
LEMMA AddPlaced ==
  ASSUME NEW w \in Wheel, Placed(w), NEW e \in Entries, e \notin w.all_entries,
         NEW d \in Nat
  PROVE  LET v == add(w, e, d)
         IN  /\ v \in Wheel /\ Placed(v)
             /\ v.all_entries = w.all_entries \cup {e}
             /\ v.tick = [w.tick EXCEPT ![e] = w.current_tick + d]
             /\ v.duration = [w.duration EXCEPT ![e] = d]
             /\ v.current_tick = w.current_tick
<1> DEFINE v == add(w, e, d)
           t == d + w.current_tick
<1>1. /\ w.current_tick \in Nat /\ t \in Nat /\ w.all_entries \subseteq Entries
      /\ w.immediate_entries \subseteq w.all_entries
      /\ w.tick \in [Entries -> Nat] /\ w.duration \in [Entries -> Nat]
  BY DEF Wheel, Placed
<1>2. /\ v.all_entries = w.all_entries \cup {e}
      /\ v.tick = [w.tick EXCEPT ![e] = t]
      /\ v.duration = [w.duration EXCEPT ![e] = d]
      /\ v.current_tick = w.current_tick /\ v.missing = w.missing
      /\ v.immediate_entries = IF d = 0 THEN w.immediate_entries \cup {e}
                                        ELSE w.immediate_entries
      /\ v.wheel = IF d = 0 THEN w.wheel ELSE w.wheel \cup {item(e, t)}
  BY <1>1 DEF add, insert_entry, Wheel
<1>3. v \in Wheel
  <2>1. item(e, t) \in Item
    BY <1>1, ItemType
  <2> QED
    BY <1>1, <2>1 DEF add, insert_entry, Wheel
<1> HIDE DEF v, t
<1>4. Placed(v)
  <2>1. \A x \in w.all_entries : v.tick[x] = w.tick[x] /\ v.duration[x] = w.duration[x]
    BY <1>1, <1>2
  <2>2. v.tick[e] = t /\ v.duration[e] = d
    BY <1>1, <1>2
  <2>3. v.immediate_entries = {x \in v.all_entries : v.duration[x] = 0}
    BY <1>2, <2>1, <2>2 DEF Placed
  <2>4. v.wheel = {item(x, v.tick[x]) : x \in v.all_entries \ v.immediate_entries}
    <3>1. w.wheel = {item(x, w.tick[x]) : x \in w.all_entries \ w.immediate_entries}
      BY DEF Placed
    <3>2. CASE d = 0
      BY <1>2, <2>1, <3>1, <3>2
    <3>3. CASE d # 0
      BY <1>1, <1>2, <2>1, <2>2, <3>1, <3>3
    <3> QED
      BY <3>2, <3>3
  <2> QED
    BY <2>3, <2>4 DEF Placed
<1> QED
  BY <1>1, <1>2, <1>3, <1>4 DEF v, t

\* cancel() of an entry that is not immediate: it is found.
LEMMA CancelPlaced ==
  ASSUME NEW w \in Wheel, Placed(w), NEW e \in Entries, e \notin w.immediate_entries
  PROVE  LET v == cancel(w, e)
         IN  /\ v \in Wheel /\ Placed(v)
             /\ v.all_entries = w.all_entries \ {e}
             /\ v.tick = w.tick /\ v.duration = w.duration
             /\ v.current_tick = w.current_tick /\ v.missing = w.missing
<1> DEFINE v == cancel(w, e)
<1>1. CASE e \notin w.all_entries
  BY <1>1 DEF cancel
<1>2. CASE e \in w.all_entries
  <2>1. /\ w.all_entries \subseteq Entries /\ w.tick \in [Entries -> Nat]
        /\ w.immediate_entries \subseteq w.all_entries
        /\ w.wheel = {item(x, w.tick[x]) : x \in w.all_entries \ w.immediate_entries}
    BY DEF Wheel, Placed
  <2>2. item(e, w.tick[e]) \in w.wheel
    BY <1>2, <2>1
  <2>3. /\ v.all_entries = w.all_entries \ {e} /\ v.wheel = w.wheel \ {item(e, w.tick[e])}
        /\ v.immediate_entries = w.immediate_entries /\ v.tick = w.tick
        /\ v.duration = w.duration /\ v.current_tick = w.current_tick
        /\ v.missing = w.missing /\ v \in Wheel
    BY <1>2, <2>2 DEF cancel, slot_remove_entry, Wheel
  <2> HIDE DEF v
  <2>4. \A x \in w.all_entries : item(x, w.tick[x]) = item(e, w.tick[e]) => x = e
    <3> SUFFICES ASSUME NEW x \in w.all_entries, item(x, w.tick[x]) = item(e, w.tick[e])
                 PROVE  x = e
      OBVIOUS
    <3>1. item(x, w.tick[x]).entry = x /\ item(e, w.tick[e]).entry = e
      BY <2>1, ItemType
    <3> QED
      BY <3>1
  <2>5. v.wheel = {item(x, w.tick[x]) : x \in v.all_entries \ v.immediate_entries}
    BY <2>1, <2>3, <2>4
  <2>6. v.immediate_entries = {x \in v.all_entries : v.duration[x] = 0}
    BY <2>3 DEF Placed
  <2> QED
    BY <2>3, <2>5, <2>6 DEF Placed, v
<1> QED
  BY <1>1, <1>2

\* reset(): the entry moves to the slot of its new tick, an immediate one stays.
LEMMA ResetPlaced ==
  ASSUME NEW w \in Wheel, Placed(w), NEW e \in Entries
  PROVE  LET v == reset(w, e)
         IN  /\ v \in Wheel /\ Placed(v)
             /\ v.all_entries = w.all_entries
             /\ v.tick = IF e \in w.all_entries /\ w.duration[e] # 0
                           THEN [w.tick EXCEPT ![e] = w.current_tick + w.duration[e]]
                           ELSE w.tick
             /\ v.duration = w.duration
             /\ v.current_tick = w.current_tick /\ v.missing = w.missing
<1> DEFINE v == reset(w, e)
           t == w.duration[e] + w.current_tick
<1>1. /\ w.current_tick \in Nat /\ t \in Nat /\ w.all_entries \subseteq Entries
      /\ w.immediate_entries \subseteq w.all_entries
      /\ w.tick \in [Entries -> Nat] /\ w.duration \in [Entries -> Nat]
      /\ w.wheel = {item(x, w.tick[x]) : x \in w.all_entries \ w.immediate_entries}
      /\ w.immediate_entries = {x \in w.all_entries : w.duration[x] = 0}
  BY DEF Wheel, Placed
<1>2. CASE ~(e \in w.all_entries /\ w.duration[e] # 0)
  BY <1>2 DEF reset
<1>3. CASE e \in w.all_entries /\ w.duration[e] # 0 /\ w.tick[e] = t
  <2>1. v = w
    BY <1>3 DEF reset
  <2>2. [w.tick EXCEPT ![e] = w.current_tick + w.duration[e]] = w.tick
    BY <1>1, <1>3
  <2> QED
    BY <1>3, <2>1, <2>2
<1>4. CASE e \in w.all_entries /\ w.duration[e] # 0 /\ w.tick[e] # t
  <2>1. item(e, w.tick[e]) \in w.wheel /\ item(e, t) \in Item
    BY <1>1, <1>4, ItemType
  <2>2. /\ v.all_entries = w.all_entries
        /\ v.wheel = (w.wheel \ {item(e, w.tick[e])}) \cup {item(e, t)}
        /\ v.immediate_entries = w.immediate_entries
        /\ v.tick = [w.tick EXCEPT ![e] = t]
        /\ v.duration = w.duration /\ v.current_tick = w.current_tick
        /\ v.missing = w.missing /\ v \in Wheel
    BY <1>1, <1>4, <2>1 DEF reset, slot_remove_entry, insert_entry, Wheel
  <2> HIDE DEF v, t
  <2>3. \A x \in w.all_entries : item(x, w.tick[x]) = item(e, w.tick[e]) => x = e
    <3> SUFFICES ASSUME NEW x \in w.all_entries, item(x, w.tick[x]) = item(e, w.tick[e])
                 PROVE  x = e
      OBVIOUS
    <3>1. item(x, w.tick[x]).entry = x /\ item(e, w.tick[e]).entry = e
      BY <1>1, ItemType
    <3> QED
      BY <3>1
  <2>4. v.tick[e] = t /\ \A x \in w.all_entries \ {e} : v.tick[x] = w.tick[x]
    BY <1>1, <2>2
  <2>5. v.wheel = {item(x, v.tick[x]) : x \in v.all_entries \ v.immediate_entries}
    BY <1>1, <1>4, <2>2, <2>3, <2>4
  <2>6. v.tick = [w.tick EXCEPT ![e] = w.current_tick + w.duration[e]]
    BY <1>1, <2>2 DEF t
  <2> QED
    BY <1>1, <1>4, <2>2, <2>5, <2>6 DEF Placed, v
<1> QED
  BY <1>2, <1>3, <1>4

\* A poll: the entries that are due leave, from wherever they are.
LEMMA GetExpiredPlaced ==
  ASSUME NEW w \in Wheel, Placed(w), NEW t
  PROVE  LET v == get_expired(w, t)
         IN  /\ v \in Wheel /\ Placed(v)
             /\ v.all_entries = w.all_entries \ due(w, t)
             /\ v.tick = w.tick /\ v.duration = w.duration
             /\ v.current_tick = w.current_tick /\ v.missing = w.missing
<1> DEFINE v == get_expired(w, t)
           D == due(w, t)
<1>1. /\ w.all_entries \subseteq Entries /\ w.tick \in [Entries -> Nat]
      /\ w.immediate_entries \subseteq w.all_entries
      /\ w.wheel = {item(x, w.tick[x]) : x \in w.all_entries \ w.immediate_entries}
  BY DEF Wheel, Placed
<1>2. /\ v.all_entries = w.all_entries \ D
      /\ v.wheel = {x \in w.wheel : ~in_range(w, x, t)}
      /\ v.immediate_entries = {} /\ v.tick = w.tick
      /\ v.duration = w.duration /\ v.current_tick = w.current_tick
      /\ v.missing = w.missing /\ v \in Wheel
  BY DEF get_expired, Wheel
<1>3. \A x \in w.all_entries \ w.immediate_entries :
        x \in D <=> in_range(w, item(x, w.tick[x]), t)
  <2> SUFFICES ASSUME NEW x \in w.all_entries \ w.immediate_entries
               PROVE  x \in D <=> in_range(w, item(x, w.tick[x]), t)
    OBVIOUS
  <2>1. \A y \in w.wheel : y.entry = x => y = item(x, w.tick[x])
    <3> SUFFICES ASSUME NEW z \in w.all_entries, item(z, w.tick[z]).entry = x
                 PROVE  z = x
      BY <1>1
    <3> QED
      BY <1>1, ItemType
  <2>2. item(x, w.tick[x]) \in w.wheel /\ item(x, w.tick[x]).entry = x
    BY <1>1, ItemType
  <2> QED
    BY <2>1, <2>2 DEF due
<1>4. w.immediate_entries \subseteq D
  BY DEF due
<1> HIDE DEF v, D
<1>5. v.wheel = {item(x, v.tick[x]) : x \in v.all_entries \ v.immediate_entries}
  BY <1>1, <1>2, <1>3, <1>4
<1>6. v.immediate_entries = {x \in v.all_entries : v.duration[x] = 0}
  <2>1. \A x \in w.all_entries : w.duration[x] = 0 => x \in D
    BY <1>4 DEF Placed
  <2> QED
    BY <1>2, <2>1
<1> QED
  BY <1>2, <1>5, <1>6 DEF Placed, v, D

\* When nothing is overdue a poll of tick t finds exactly the entries whose
\* tick has come: they are all in the current slot, and a longer timer that
\* shares the slot stays.
LEMMA DueIsDue ==
  ASSUME NEW w \in Wheel, Placed(w), NEW t \in Nat, w.current_tick = t,
         \A e \in w.all_entries \ w.immediate_entries : w.tick[e] >= t,
         \A e \in w.immediate_entries : w.tick[e] <= t
  PROVE  due(w, t) = {e \in w.all_entries : w.tick[e] <= t}
<1>1. /\ w.all_entries \subseteq Entries /\ w.tick \in [Entries -> Nat]
      /\ w.immediate_entries \subseteq w.all_entries
      /\ w.wheel = {item(x, w.tick[x]) : x \in w.all_entries \ w.immediate_entries}
  BY DEF Wheel, Placed
<1>2. \A x \in w.all_entries \ w.immediate_entries :
        in_range(w, item(x, w.tick[x]), t) <=> w.tick[x] <= t
  <2> SUFFICES ASSUME NEW x \in w.all_entries \ w.immediate_entries
               PROVE  in_range(w, item(x, w.tick[x]), t) <=> w.tick[x] <= t
    OBVIOUS
  <2>1. item(x, w.tick[x]).slot = w.tick[x] % N /\ item(x, w.tick[x]).key = w.tick[x]
    BY <1>1, ItemType
  <2>2. w.tick[x] \in Nat /\ w.tick[x] >= t
    BY <1>1
  <2>3. w.tick[x] <= t => w.tick[x] = t
    BY <2>2
  <2> QED
    BY <2>1, <2>3 DEF in_range
<1>3. \A x \in w.all_entries \ w.immediate_entries : item(x, w.tick[x]).entry = x
  BY <1>1, ItemType
<1>4. {y.entry : y \in {y \in w.wheel : in_range(w, y, t)}}
        = {x \in w.all_entries \ w.immediate_entries : w.tick[x] <= t}
  BY <1>1, <1>2, <1>3
<1> QED
  BY <1>1, <1>4 DEF due
=============================================================================
