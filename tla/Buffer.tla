------------------------------- MODULE Buffer -------------------------------
(***************************************************************************)
(* net::buffer and basic_flat_buffer: bytes between two positions of a     *)
(* vector, with some free bytes in front. The two classes have the same    *)
(* text but for consume.                                                   *)
(* A buffer that was moved from has an empty vector under its old          *)
(* positions, which clear does not repair: the program may only assign,    *)
(* swap, clear and destroy it.                                             *)
(***************************************************************************)
EXTENDS Naturals, Sequences

CONSTANTS
  PrependBytes, InitSize,
  Bytes,         \* the values a byte is given
  Chunks,        \* what is appended at a time
  Buffers,       \* the buffers of the program
  MaxReadable    \* bound: readable bytes of a buffer

ASSUME BufferAssumption ==
  /\ PrependBytes \in Nat /\ InitSize \in Nat /\ MaxReadable \in Nat
  /\ Chunks \subseteq Seq(Bytes)

VARIABLES
  bufs,      \* the buffers
  returned   \* what flat_buffer's consume returned last

buffer_vars == <<bufs, returned>>

\* The constructor; vector's cells are zero.
new_buffer ==
  [buffer_ |-> [i \in 1 .. PrependBytes + InitSize |-> 0],
   read_pos_ |-> PrependBytes, write_pos_ |-> PrependBytes]

readable_bytes(b) == b.write_pos_ - b.read_pos_
writable_bytes(b) == Len(b.buffer_) - b.write_pos_

\* The positions lie in the vector: nothing was moved from it.
usable(b) == b.write_pos_ <= Len(b.buffer_)

\* What readable_ptr() and readable_bytes() delimit.
readable(b) == SubSeq(b.buffer_, b.read_pos_ + 1, b.write_pos_)

clear(b) == [b EXCEPT !.read_pos_ = PrependBytes, !.write_pos_ = PrependBytes]

\* The positions are offsets, cells are counted from 1.
copy(v, s, at) ==
  [i \in DOMAIN v |-> IF i \in at + 1 .. at + Len(s) THEN s[i - at] ELSE v[i]]

resized(v, n) == [i \in 1 .. n |-> IF i <= Len(v) THEN v[i] ELSE 0]

to_front(b) ==
  [b EXCEPT !.buffer_ = copy(@, readable(b), PrependBytes),
            !.read_pos_ = PrependBytes,
            !.write_pos_ = PrependBytes + readable_bytes(b)]

make_space(b, len) ==
  IF b.read_pos_ - PrependBytes + writable_bytes(b) < len
    THEN [b EXCEPT !.buffer_ = resized(@, b.write_pos_ + len)]
    ELSE to_front(b)

prepare_writable_bytes(b, len) ==
  IF writable_bytes(b) < len THEN make_space(b, len) ELSE b

append(b, s) ==
  IF s = << >> THEN b
  ELSE LET r == prepare_writable_bytes(b, Len(s))
       IN  [r EXCEPT !.buffer_ = copy(@, s, r.write_pos_), !.write_pos_ = @ + Len(s)]

consume(b, len) ==
  IF len < readable_bytes(b) THEN [b EXCEPT !.read_pos_ = @ + len] ELSE clear(b)

consume_returns(b, len) == IF len < readable_bytes(b) THEN len ELSE readable_bytes(b)

shrink(b) ==
  LET r == to_front(b) IN [r EXCEPT !.buffer_ = resized(@, r.write_pos_)]

\* The defaulted move leaves the positions.
moved_from(b) == [b EXCEPT !.buffer_ = << >>]

BufferInit == bufs = [b \in Buffers |-> new_buffer] /\ returned = 0

Put(b, s) ==
  /\ usable(bufs[b]) /\ readable_bytes(bufs[b]) + Len(s) <= MaxReadable
  /\ bufs' = [bufs EXCEPT ![b] = append(@, s)]
  /\ UNCHANGED returned

\* net::buffer asserts that there is as much.
Consume(b, len) ==
  /\ usable(bufs[b]) /\ len <= readable_bytes(bufs[b])
  /\ bufs' = [bufs EXCEPT ![b] = consume(@, len)]
  /\ UNCHANGED returned

FlatConsume(b, len) ==
  /\ usable(bufs[b])
  /\ bufs' = [bufs EXCEPT ![b] = consume(@, len)]
  /\ returned' = consume_returns(bufs[b], len)

Clear(b) == bufs' = [bufs EXCEPT ![b] = clear(@)] /\ UNCHANGED returned
Shrink(b) ==
  usable(bufs[b]) /\ bufs' = [bufs EXCEPT ![b] = shrink(@)] /\ UNCHANGED returned

Swap(a, b) ==
  bufs' = [bufs EXCEPT ![a] = bufs[b], ![b] = bufs[a]] /\ UNCHANGED returned

\* The copy and the move, constructors or assignments, of a into b.
Copy(a, b) == bufs' = [bufs EXCEPT ![b] = bufs[a]] /\ UNCHANGED returned

\* Mutant: the move exchanges the vectors and leaves the positions of both.
MoveVectors(a, b) ==
  /\ a # b
  /\ bufs' = [bufs EXCEPT ![a].buffer_ = bufs[b].buffer_, ![b].buffer_ = bufs[a].buffer_]
  /\ UNCHANGED returned

Move(a, b) ==
  /\ a # b
  /\ bufs' = [bufs EXCEPT ![a] = moved_from(@), ![b] = bufs[a]]
  /\ UNCHANGED returned

BufferNext ==
  \E b \in Buffers :
    \/ \E s \in Chunks : Put(b, s)
    \/ \E len \in 0 .. MaxReadable : Consume(b, len)
    \/ \E len \in 0 .. MaxReadable + 1 : FlatConsume(b, len)
    \/ Clear(b) \/ Shrink(b)
    \/ \E a \in Buffers : Swap(a, b) \/ Copy(a, b) \/ Move(a, b)

BufferSpec == BufferInit /\ [][BufferNext]_buffer_vars

-----------------------------------------------------------------------------
(* Correctness *)

\* The readable bytes are what was appended and not consumed, in order, whatever
\* was moved to the front, resized, shrunk, swapped, copied or moved to another
\* buffer in between, and consume returns what it took.
Queue == INSTANCE ByteQueue WITH
  contents <- [b \in Buffers |-> IF usable(bufs[b]) THEN readable(bufs[b]) ELSE << >>]
FifoSpec == Queue!Spec
=============================================================================
