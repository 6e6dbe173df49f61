----------------------------- MODULE AutoBuffer -----------------------------
(***************************************************************************)
(* auto_buffer: up to N items in the object itself, more in a block from   *)
(* the allocator, which may have none to give.                             *)
(***************************************************************************)
EXTENDS Naturals, Sequences

CONSTANTS
  N,         \* items in the object
  Values,    \* what the application stores in an item
  Junk,      \* what memory holds that was just allocated
  MaxItems   \* bound: items asked for

ASSUME AutoBufferAssumption ==
  N \in Nat \ {0} /\ MaxItems \in Nat /\ Junk \notin Values \cup {0}

VARIABLES
  made,       \* the object exists
  internal_,  \* the items in the object
  block,      \* the allocated items, << >> without a block
  buffer_,    \* what the pointer points to
  items_, external_,
  heap        \* blocks allocated and not given back

auto_vars == <<made, internal_, block, buffer_, items_, external_, heap>>

\* 0 is what block_fill and value initialisation store.
Cells == Values \cup {0, Junk}
zeros(n) == [i \in 1 .. n |-> 0]

AutoInit ==
  /\ made = FALSE
  /\ internal_ = zeros(N)
  /\ block = << >>
  /\ buffer_ = "internal"
  /\ items_ = 0
  /\ external_ = FALSE
  /\ heap = 0

\* What data() points to.
data == IF buffer_ = "internal" THEN internal_ ELSE block

\* A block of n items that begins with the first k of s.
alloc(n, s, k) == [i \in 1 .. n |-> IF i <= k THEN s[i] ELSE Junk]

construct(n) ==
  /\ ~made /\ made' = TRUE
  /\ internal_' = zeros(N)
  /\ external_' = (n >= N)
  /\ items_' = n
  /\ IF n < N
       THEN buffer_' = "internal" /\ block' = << >> /\ UNCHANGED heap
       ELSE buffer_' = "block" /\ block' = zeros(n) /\ heap' = heap + 1

\* alloc returned nullptr.
construct_without(n) ==
  /\ ~made /\ made' = TRUE
  /\ n >= N
  /\ internal_' = zeros(N)
  /\ external_' = TRUE
  /\ items_' = 0
  /\ buffer_' = "null" /\ block' = << >>
  /\ UNCHANGED heap

\* dealloc of what buffer_ points to; a null pointer is no block.
dealloc == IF buffer_ = "block" THEN heap - 1 ELSE heap

resize_to_none ==
  /\ made
  /\ items_' = 0
  /\ IF external_
       THEN external_' = FALSE /\ buffer_' = "internal" /\ block' = << >> /\ heap' = dealloc
       ELSE UNCHANGED <<external_, buffer_, block, heap>>
  /\ UNCHANGED <<made, internal_>>

\* Mutant: the items are not copied to the block.
resize_to_block_empty(n) ==
  /\ buffer_' = "block" /\ external_' = TRUE
  /\ block' = alloc(n, data, IF external_ THEN items_ ELSE 0)
  /\ heap' = (IF external_ THEN dealloc ELSE heap) + 1

needs_block(n) == items_ < n /\ (external_ \/ N < n)

resize_to_block(n) ==
  /\ buffer_' = "block" /\ external_' = TRUE
  /\ block' = alloc(n, data, items_)
  /\ heap' = (IF external_ THEN dealloc ELSE heap) + 1

\* Without memory resize returns false, or alloc throws, and nothing changes.
resize(n) ==
  /\ made /\ n > 0
  /\ items_' = n
  /\ IF needs_block(n) THEN resize_to_block(n) ELSE UNCHANGED <<external_, buffer_, block, heap>>
  /\ UNCHANGED <<made, internal_>>

\* The application stores v through operator[].
store(i, v) ==
  /\ made /\ i <= items_
  /\ IF buffer_ = "internal"
       THEN internal_' = [internal_ EXCEPT ![i] = v] /\ UNCHANGED block
       ELSE block' = [block EXCEPT ![i] = v] /\ UNCHANGED internal_
  /\ UNCHANGED <<made, buffer_, items_, external_, heap>>

\* Destroyed; a model of the next object may begin.
destruct ==
  /\ made /\ made' = FALSE
  /\ block' = << >> /\ buffer_' = "internal" /\ internal_' = zeros(N)
  /\ items_' = 0 /\ external_' = FALSE
  /\ heap' = IF external_ THEN dealloc ELSE heap

AutoNext ==
  \/ \E n \in 0 .. MaxItems :
       construct(n) \/ construct_without(n) \/ resize(n)
  \/ resize_to_none
  \/ \E i \in 1 .. MaxItems, v \in Values : store(i, v)
  \/ destruct

AutoSpec == AutoInit /\ [][AutoNext]_auto_vars

-----------------------------------------------------------------------------
(* Correctness *)

\* The items lie in the storage that buffer_ points to, external_ says which it is,
\* and there is a block only while it is used.
Stored ==
  /\ items_ <= (IF buffer_ = "null" THEN 0 ELSE Len(data))
  /\ external_ <=> buffer_ # "internal"
  /\ block # << >> <=> buffer_ = "block"
  /\ heap = (IF buffer_ = "block" THEN 1 ELSE 0)

\* resize keeps the items that both sizes have, wherever they are moved to, and
\* leaves them in storage that holds them, and no block is lost or given back twice,
\* after allocations that failed too.
ResizeKeeps ==
  [][/\ Stored'
     /\ made /\ made' /\ items_' # items_ =>
          \A i \in 1 .. items_ : i <= items_' => data'[i] = data[i]]_auto_vars
=============================================================================
