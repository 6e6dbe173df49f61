--------------------------- MODULE LibraryProofs ----------------------------
(***************************************************************************)
(* Theorems about Buffer, LineReader, AutoBuffer, Clocks, SplitFunctions,  *)
(* CmdArgs and TextUtility: for any number of buffers, any sizes and       *)
(* chunks, any pieces, any items, any allocations that fail, any clocks,   *)
(* any arguments and any texts.                                            *)
(***************************************************************************)
EXTENDS LineReader, AutoBuffer, CmdArgs, Clocks, TextUtility, SequenceTheorems,
  FiniteSetTheorems, NaturalsInduction, WellFoundedInduction, TLAPS

-----------------------------------------------------------------------------
(* net::buffer and basic_flat_buffer *)

USE BufferAssumption

Cell == Bytes \cup {0}

Buf == [buffer_ : Seq(Cell), read_pos_ : Nat, write_pos_ : Nat]

\* The positions are in order and behind the free bytes in front.
InOrder(b) == PrependBytes <= b.read_pos_ /\ b.read_pos_ <= b.write_pos_

\* A buffer that can be used, with its bytes.
Holds(b, s) == b \in Buf /\ InOrder(b) /\ usable(b) /\ readable(b) = s

-----------------------------------------------------------------------------
(* Cells *)

LEMMA CopyCells ==
  ASSUME NEW v \in Seq(Cell), NEW s \in Seq(Cell), NEW off \in Nat
  PROVE  /\ copy(v, s, off) \in Seq(Cell)
         /\ Len(copy(v, s, off)) = Len(v)
         /\ \A i \in 1 .. Len(v) :
              copy(v, s, off)[i] = IF i \in off + 1 .. off + Len(s) THEN s[i - off] ELSE v[i]
<1> DEFINE f == copy(v, s, off)
<1>1. /\ DOMAIN v = 1 .. Len(v) /\ Len(v) \in Nat /\ Len(s) \in Nat
      /\ \A i \in 1 .. Len(v) : v[i] \in Cell
      /\ \A i \in 1 .. Len(s) : s[i] \in Cell
  BY LenProperties, ElementOfSeq
<1>2. \A i \in 1 .. Len(v) : i \in off + 1 .. off + Len(s) => i - off \in 1 .. Len(s)
  BY <1>1
<1>3. f = [i \in 1 .. Len(v) |-> IF i \in off + 1 .. off + Len(s) THEN s[i - off] ELSE v[i]]
  BY <1>1 DEF copy
<1> HIDE DEF f
<1>4. f \in [1 .. Len(v) -> Cell]
  BY <1>1, <1>2, <1>3
<1>5. f \in Seq(Cell)
  BY <1>1, <1>4, SeqDef
<1>6. DOMAIN f = 1 .. Len(f) /\ Len(f) \in Nat /\ DOMAIN f = 1 .. Len(v)
  BY <1>4, <1>5, LenProperties
<1> QED
  BY <1>1, <1>3, <1>5, <1>6 DEF f

LEMMA ResizedCells ==
  ASSUME NEW v \in Seq(Cell), NEW n \in Nat
  PROVE  /\ resized(v, n) \in Seq(Cell)
         /\ Len(resized(v, n)) = n
         /\ \A i \in 1 .. n : i <= Len(v) => resized(v, n)[i] = v[i]
<1> DEFINE f == resized(v, n)
<1>1. Len(v) \in Nat /\ \A i \in 1 .. Len(v) : v[i] \in Cell
  BY LenProperties, ElementOfSeq
<1>2. f = [i \in 1 .. n |-> IF i <= Len(v) THEN v[i] ELSE 0]
  BY DEF resized
<1> HIDE DEF f
<1>3. f \in [1 .. n -> Cell]
  BY <1>1, <1>2 DEF Cell
<1>4. f \in Seq(Cell)
  BY <1>3, SeqDef
<1>5. DOMAIN f = 1 .. Len(f) /\ Len(f) \in Nat /\ DOMAIN f = 1 .. n
  BY <1>3, <1>4, LenProperties
<1> QED
  BY <1>1, <1>2, <1>4, <1>5 DEF f

-----------------------------------------------------------------------------
(* The functions of the buffer *)

\* What readable() is.
LEMMA Readable ==
  ASSUME NEW b \in Buf, InOrder(b), usable(b)
  PROVE  /\ readable(b) \in Seq(Cell)
         /\ Len(readable(b)) = b.write_pos_ - b.read_pos_
         /\ Len(readable(b)) \in Nat
         /\ \A i \in 1 .. Len(readable(b)) : readable(b)[i] = b.buffer_[b.read_pos_ + i]
<1> DEFINE v == b.buffer_
           m == b.read_pos_
           n == b.write_pos_
<1>1. v \in Seq(Cell) /\ m \in Nat /\ n \in Nat /\ m <= n /\ n <= Len(v) /\ Len(v) \in Nat
  BY LenProperties DEF Buf, InOrder, usable
<1>2. readable(b) = SubSeq(v, m + 1, n)
  BY DEF readable
<1> HIDE DEF v, m, n
<1>3. \A i \in m + 1 .. n : v[i] \in Cell
  BY <1>1, ElementOfSeq
<1>4. /\ SubSeq(v, m + 1, n) \in Seq(Cell)
      /\ Len(SubSeq(v, m + 1, n)) = n - m
      /\ \A i \in 1 .. n - m : SubSeq(v, m + 1, n)[i] = v[m + i]
  <2>1. /\ SubSeq(v, m + 1, n) \in Seq(Cell)
        /\ Len(SubSeq(v, m + 1, n)) = IF m + 1 <= n THEN n - (m + 1) + 1 ELSE 0
        /\ \A i \in 1 .. n - (m + 1) + 1 : SubSeq(v, m + 1, n)[i] = v[m + 1 + i - 1]
    BY <1>1, <1>3, SubSeqProperties
  <2> QED
    BY <1>1, <2>1
<1> QED
  BY <1>1, <1>2, <1>4 DEF v, m, n

\* The same bytes elsewhere.
LEMMA SameBytes ==
  ASSUME NEW e \in Buf, InOrder(e), usable(e),
         NEW s \in Seq(Cell), Len(s) = e.write_pos_ - e.read_pos_,
         \A i \in 1 .. Len(s) : e.buffer_[e.read_pos_ + i] = s[i]
  PROVE  readable(e) = s
<1>1. /\ readable(e) \in Seq(Cell) /\ Len(readable(e)) = Len(s)
      /\ \A i \in 1 .. Len(readable(e)) : readable(e)[i] = s[i]
  BY Readable
<1> QED
  BY <1>1, SeqEqual

LEMMA ToFront ==
  ASSUME NEW b, NEW s, Holds(b, s)
  PROVE  /\ Holds(to_front(b), s)
         /\ Len(to_front(b).buffer_) = Len(b.buffer_)
         /\ to_front(b).write_pos_ = PrependBytes + (b.write_pos_ - b.read_pos_)
<1> DEFINE e == to_front(b)
           P == PrependBytes
           n == b.write_pos_ - b.read_pos_
           c == copy(b.buffer_, s, P)
<1>1. /\ b \in Buf /\ InOrder(b) /\ usable(b) /\ s = readable(b)
      /\ b.buffer_ \in Seq(Cell) /\ b.read_pos_ \in Nat /\ b.write_pos_ \in Nat
      /\ P <= b.read_pos_ /\ b.read_pos_ <= b.write_pos_ /\ b.write_pos_ <= Len(b.buffer_)
      /\ Len(b.buffer_) \in Nat /\ P \in Nat
  BY LenProperties DEF Holds, Buf, InOrder, usable
<1>2. s \in Seq(Cell) /\ Len(s) = n /\ n \in Nat
  BY <1>1, Readable
<1>3. e = [b EXCEPT !.buffer_ = c, !.read_pos_ = P, !.write_pos_ = P + n]
  BY <1>1 DEF to_front, readable_bytes, Buf
<1>4. /\ c \in Seq(Cell) /\ Len(c) = Len(b.buffer_)
      /\ \A i \in 1 .. Len(b.buffer_) :
           c[i] = IF i \in P + 1 .. P + Len(s) THEN s[i - P] ELSE b.buffer_[i]
  BY <1>1, <1>2, CopyCells
<1> HIDE DEF e, c
<1>5. e.buffer_ = c /\ e.read_pos_ = P /\ e.write_pos_ = P + n /\ e \in Buf
  <2>1. P + n \in Nat
    BY <1>1, <1>2
  <2> HIDE DEF n
  <2> QED
    BY <1>1, <1>3, <1>4, <2>1 DEF Buf
<1>6. InOrder(e) /\ usable(e)
  BY <1>1, <1>2, <1>4, <1>5 DEF InOrder, usable
<1>7. \A i \in 1 .. Len(s) : e.buffer_[e.read_pos_ + i] = s[i]
  <2> SUFFICES ASSUME NEW i \in 1 .. Len(s) PROVE c[P + i] = s[i]
    BY <1>5
  <2>1. P + i \in 1 .. Len(b.buffer_) /\ P + i \in P + 1 .. P + Len(s) /\ (P + i) - P = i
    BY <1>1, <1>2
  <2> QED
    BY <1>4, <2>1
<1>8. readable(e) = s
  <2>1. Len(s) = e.write_pos_ - e.read_pos_
    BY <1>1, <1>2, <1>5
  <2> QED
    BY ONLY <1>2, <1>5, <1>6, <1>7, <2>1, SameBytes
<1> QED
  BY <1>4, <1>5, <1>6, <1>8 DEF Holds, e

\* A vector of another size that holds all that was written.
LEMMA Resize ==
  ASSUME NEW b, NEW s, Holds(b, s), NEW n \in Nat, b.write_pos_ <= n
  PROVE  LET e == [b EXCEPT !.buffer_ = resized(@, n)]
         IN  Holds(e, s) /\ Len(e.buffer_) = n /\ e.write_pos_ = b.write_pos_
<1> DEFINE e == [b EXCEPT !.buffer_ = resized(@, n)]
<1>1. /\ b \in Buf /\ InOrder(b) /\ usable(b) /\ s = readable(b)
      /\ b.buffer_ \in Seq(Cell) /\ b.read_pos_ \in Nat /\ b.write_pos_ \in Nat
      /\ b.read_pos_ <= b.write_pos_ /\ b.write_pos_ <= Len(b.buffer_)
      /\ Len(b.buffer_) \in Nat
  BY LenProperties DEF Holds, Buf, InOrder, usable
<1>2. /\ s \in Seq(Cell) /\ Len(s) = b.write_pos_ - b.read_pos_
      /\ \A i \in 1 .. Len(s) : s[i] = b.buffer_[b.read_pos_ + i]
  BY <1>1, Readable
<1>3. /\ resized(b.buffer_, n) \in Seq(Cell) /\ Len(resized(b.buffer_, n)) = n
      /\ \A i \in 1 .. n : i <= Len(b.buffer_) => resized(b.buffer_, n)[i] = b.buffer_[i]
  BY <1>1, ResizedCells
<1>4. /\ e \in Buf /\ e.buffer_ = resized(b.buffer_, n)
      /\ e.read_pos_ = b.read_pos_ /\ e.write_pos_ = b.write_pos_
  BY <1>1, <1>3 DEF Buf
<1> HIDE DEF e
<1>5. InOrder(e) /\ usable(e)
  BY <1>1, <1>3, <1>4 DEF InOrder, usable
<1>6. \A i \in 1 .. Len(s) : e.buffer_[e.read_pos_ + i] = s[i]
  <2> SUFFICES ASSUME NEW i \in 1 .. Len(s)
               PROVE  resized(b.buffer_, n)[b.read_pos_ + i] = s[i]
    BY <1>4
  <2>1. /\ b.read_pos_ + i \in 1 .. n /\ b.read_pos_ + i <= Len(b.buffer_)
        /\ s[i] = b.buffer_[b.read_pos_ + i]
    BY <1>1, <1>2
  <2> QED
    BY <1>3, <2>1
<1>7. readable(e) = s
  BY <1>1, <1>2, <1>4, <1>5, <1>6, SameBytes
<1> QED
  BY <1>3, <1>4, <1>5, <1>7 DEF Holds, e

\* prepare_writable_bytes makes room and keeps the bytes.
LEMMA Prepare ==
  ASSUME NEW b, NEW s, Holds(b, s), NEW len \in Nat
  PROVE  LET r == prepare_writable_bytes(b, len)
         IN  Holds(r, s) /\ r.write_pos_ + len <= Len(r.buffer_)
<1> DEFINE P == PrependBytes
<1>1. /\ b.read_pos_ \in Nat /\ b.write_pos_ \in Nat /\ Len(b.buffer_) \in Nat
      /\ P <= b.read_pos_ /\ b.read_pos_ <= b.write_pos_ /\ b.write_pos_ <= Len(b.buffer_)
      /\ P \in Nat
  BY LenProperties DEF Holds, Buf, InOrder, usable
<1>2. CASE writable_bytes(b) >= len
  <2>1. prepare_writable_bytes(b, len) = b
    BY <1>1, <1>2 DEF prepare_writable_bytes, writable_bytes
  <2> QED
    BY <1>1, <1>2, <2>1 DEF writable_bytes
<1>3. CASE writable_bytes(b) < len /\ b.read_pos_ - P + writable_bytes(b) < len
  <2> DEFINE e == [b EXCEPT !.buffer_ = resized(@, b.write_pos_ + len)]
  <2>1. prepare_writable_bytes(b, len) = e
    BY <1>3 DEF prepare_writable_bytes, make_space
  <2>2. Holds(e, s) /\ Len(e.buffer_) = b.write_pos_ + len /\ e.write_pos_ = b.write_pos_
    <3>1. b.write_pos_ + len \in Nat /\ b.write_pos_ <= b.write_pos_ + len
      BY <1>1
    <3> HIDE DEF e, P
    <3> QED
      BY <3>1, Resize DEF e
  <2> HIDE DEF e
  <2> QED
    BY <1>1, <2>1, <2>2
<1>4. CASE writable_bytes(b) < len /\ ~(b.read_pos_ - P + writable_bytes(b) < len)
  <2>1. prepare_writable_bytes(b, len) = to_front(b)
    BY <1>4 DEF prepare_writable_bytes, make_space
  <2>2. /\ Holds(to_front(b), s) /\ Len(to_front(b).buffer_) = Len(b.buffer_)
        /\ to_front(b).write_pos_ = P + (b.write_pos_ - b.read_pos_)
    BY ToFront
  <2>3. P + (b.write_pos_ - b.read_pos_) + len <= Len(b.buffer_)
    BY <1>1, <1>4 DEF writable_bytes
  <2> QED
    BY <2>1, <2>2, <2>3
<1>5. writable_bytes(b) >= len \/ writable_bytes(b) < len
  BY <1>1 DEF writable_bytes
<1> QED
  BY <1>2, <1>3, <1>4, <1>5

LEMMA AppendHolds ==
  ASSUME NEW b, NEW s, Holds(b, s), NEW t \in Seq(Bytes)
  PROVE  Holds(append(b, t), s \o t)
<1>0. t \in Seq(Cell) /\ s \in Seq(Cell)
  BY Readable DEF Cell, Holds
<1>1. CASE t = << >>
  BY <1>0, <1>1, ConcatEmptySeq DEF append
<1>2. CASE t # << >>
  <2> DEFINE r == prepare_writable_bytes(b, Len(t))
             w == r.write_pos_
             e == [r EXCEPT !.buffer_ = copy(@, t, w), !.write_pos_ = @ + Len(t)]
  <2>1. Len(t) \in Nat /\ Len(s) \in Nat
    BY <1>0, LenProperties
  <2>2. append(b, t) = e
    BY <1>2 DEF append
  <2>3. Holds(r, s) /\ w + Len(t) <= Len(r.buffer_)
    BY <2>1, Prepare
  <2> HIDE DEF r
  <2>4. /\ r \in Buf /\ InOrder(r) /\ usable(r) /\ s = readable(r)
        /\ r.buffer_ \in Seq(Cell) /\ r.read_pos_ \in Nat /\ w \in Nat
        /\ PrependBytes <= r.read_pos_ /\ r.read_pos_ <= w /\ Len(r.buffer_) \in Nat
    BY <2>3, LenProperties DEF Holds, Buf, InOrder, usable
  <2>5. /\ Len(s) = w - r.read_pos_
        /\ \A i \in 1 .. Len(s) : s[i] = r.buffer_[r.read_pos_ + i]
    BY <2>4, Readable
  <2>6. /\ copy(r.buffer_, t, w) \in Seq(Cell)
        /\ Len(copy(r.buffer_, t, w)) = Len(r.buffer_)
        /\ \A i \in 1 .. Len(r.buffer_) :
             copy(r.buffer_, t, w)[i] = IF i \in w + 1 .. w + Len(t) THEN t[i - w]
                                                                     ELSE r.buffer_[i]
    BY <1>0, <2>4, CopyCells
  <2>7. /\ e \in Buf /\ e.buffer_ = copy(r.buffer_, t, w) /\ e.read_pos_ = r.read_pos_
        /\ e.write_pos_ = w + Len(t)
    <3>1. w + Len(t) \in Nat
      BY <2>1, <2>4
    <3> HIDE DEF w
    <3>2. e = [r EXCEPT !.buffer_ = copy(r.buffer_, t, w), !.write_pos_ = w + Len(t)]
      BY <2>4 DEF Buf, w
    <3> HIDE DEF e
    <3> QED
      BY <2>4, <2>6, <3>1, <3>2 DEF Buf
  <2> HIDE DEF e, w
  <2>8. InOrder(e) /\ usable(e)
    BY <2>1, <2>3, <2>4, <2>6, <2>7 DEF InOrder, usable
  <2>9. /\ s \o t \in Seq(Cell) /\ Len(s \o t) = Len(s) + Len(t)
        /\ \A i \in 1 .. Len(s) + Len(t) :
             (s \o t)[i] = IF i <= Len(s) THEN s[i] ELSE t[i - Len(s)]
    BY <1>0, ConcatProperties
  <2>10. \A i \in 1 .. Len(s \o t) : e.buffer_[e.read_pos_ + i] = (s \o t)[i]
    <3> SUFFICES ASSUME NEW i \in 1 .. Len(s) + Len(t)
                 PROVE  copy(r.buffer_, t, w)[r.read_pos_ + i] = (s \o t)[i]
      BY <2>7, <2>9
    <3>0. /\ r.read_pos_ + i \in 1 .. Len(r.buffer_)
          /\ i > Len(s) => /\ r.read_pos_ + i \in w + 1 .. w + Len(t)
                          /\ (r.read_pos_ + i) - w = i - Len(s)
      <4> DEFINE p == r.read_pos_
                 m == Len(s)
                 k == Len(t)
                 n == Len(r.buffer_)
      <4>1. /\ p \in Nat /\ m \in Nat /\ k \in Nat /\ n \in Nat /\ w \in Nat
            /\ w = p + m /\ w + k <= n /\ i \in 1 .. m + k
        BY <2>1, <2>3, <2>4, <2>5
      <4> HIDE DEF p, m, k, n
      <4>2. i \in Nat /\ 1 <= i /\ i <= m + k
        BY <4>1
      <4>3. p + i \in 1 .. n /\ (i > m => p + i \in w + 1 .. w + k /\ (p + i) - w = i - m)
        BY ONLY <4>1, <4>2
      <4> QED
        BY <4>3 DEF p, m, k, n
    <3>1. r.read_pos_ + i \in 1 .. Len(r.buffer_)
      BY <3>0
    <3>2. CASE i <= Len(s)
      <4>1. i \in 1 .. Len(s) /\ r.read_pos_ + i \notin w + 1 .. w + Len(t)
        <5> DEFINE p == r.read_pos_
                   m == Len(s)
        <5>1. p \in Nat /\ m \in Nat /\ w \in Nat /\ m = w - p /\ i \in Nat /\ 1 <= i /\ i <= m
          BY <2>1, <2>4, <2>5, <3>2
        <5>2. i \in 1 .. m /\ ~(p + i >= w + 1)
          <6> HIDE DEF p, m
          <6> QED
            BY ONLY <5>1
        <5> QED
          BY <5>2
      <4>2. (s \o t)[i] = s[i] /\ s[i] = r.buffer_[r.read_pos_ + i]
        BY <2>5, <2>9, <3>2, <4>1
      <4>3. copy(r.buffer_, t, w)[r.read_pos_ + i] = r.buffer_[r.read_pos_ + i]
        BY <2>6, <3>1, <4>1
      <4> QED
        BY <4>2, <4>3
    <3>3. CASE i > Len(s)
      <4>1. PICK j \in 1 .. Len(r.buffer_) : j = r.read_pos_ + i
        BY <3>1
      <4>2. j \in w + 1 .. w + Len(t) /\ j - w = i - Len(s)
        BY <3>0, <3>3, <4>1
      <4>3. (s \o t)[i] = t[i - Len(s)]
        BY <2>1, <2>9, <3>3
      <4>4. copy(r.buffer_, t, w)[j] = t[j - w]
        BY <2>6, <4>2
      <4> QED
        BY <4>1, <4>2, <4>3, <4>4
    <3> QED
      BY <2>1, <3>2, <3>3
  <2>11. readable(e) = s \o t
    <3>1. Len(s \o t) = e.write_pos_ - e.read_pos_
      BY <2>1, <2>4, <2>5, <2>7, <2>9
    <3> QED
      BY <2>4, <2>7, <2>8, <2>9, <2>10, <3>1, SameBytes
  <2> QED
    BY <2>2, <2>7, <2>8, <2>11 DEF Holds
<1> QED
  BY <1>1, <1>2

\* clear leaves no bytes; a buffer that could be used still can.
LEMMA ClearHolds ==
  ASSUME NEW b \in Buf
  PROVE  /\ clear(b) \in Buf /\ InOrder(clear(b))
         /\ readable(clear(b)) = << >>
         /\ usable(b) /\ InOrder(b) => usable(clear(b))
<1> DEFINE e == clear(b)
<1>1. /\ e \in Buf /\ e.buffer_ = b.buffer_
      /\ e.read_pos_ = PrependBytes /\ e.write_pos_ = PrependBytes
  BY DEF clear, Buf
<1> HIDE DEF e
<1>2. InOrder(e)
  BY <1>1 DEF InOrder
<1>3. readable(e) = << >>
  BY <1>1, SubSeqEmpty DEF readable
<1>4. ASSUME usable(b), InOrder(b) PROVE usable(e)
  <2>1. /\ b.buffer_ \in Seq(Cell) /\ b.read_pos_ \in Nat /\ b.write_pos_ \in Nat
        /\ Len(b.buffer_) \in Nat
    BY LenProperties DEF Buf
  <2> QED
    BY <1>1, <1>4, <2>1 DEF usable, InOrder
<1> QED
  BY <1>1, <1>2, <1>3, <1>4 DEF e

\* consume takes the bytes it reports from the front, all if there are no more.
LEMMA ConsumeHolds ==
  ASSUME NEW b, NEW s, Holds(b, s), NEW len \in Nat
  PROVE  LET n == consume_returns(b, len)
         IN  n \in 0 .. Len(s) /\ Holds(consume(b, len), SubSeq(s, n + 1, Len(s)))
<1>1. /\ b \in Buf /\ InOrder(b) /\ usable(b) /\ s = readable(b)
      /\ b.buffer_ \in Seq(Cell) /\ b.read_pos_ \in Nat /\ b.write_pos_ \in Nat
      /\ PrependBytes <= b.read_pos_ /\ b.read_pos_ <= b.write_pos_
      /\ b.write_pos_ <= Len(b.buffer_) /\ Len(b.buffer_) \in Nat
  BY LenProperties DEF Holds, Buf, InOrder, usable
<1>2. /\ s \in Seq(Cell) /\ Len(s) = b.write_pos_ - b.read_pos_ /\ Len(s) \in Nat
      /\ \A i \in 1 .. Len(s) : s[i] = b.buffer_[b.read_pos_ + i]
  BY <1>1, Readable
<1>3. CASE len < readable_bytes(b)
  <2> DEFINE e == [b EXCEPT !.read_pos_ = @ + len]
             r == SubSeq(s, len + 1, Len(s))
  <2>1. consume(b, len) = e /\ consume_returns(b, len) = len /\ len < Len(s)
    BY <1>2, <1>3 DEF consume, consume_returns, readable_bytes
  <2>2. b.read_pos_ + len \in Nat
    BY <1>1
  <2>3. /\ e \in Buf /\ e.buffer_ = b.buffer_ /\ e.read_pos_ = b.read_pos_ + len
        /\ e.write_pos_ = b.write_pos_
    BY <1>1, <2>2 DEF Buf
  <2>4. /\ r \in Seq(Cell) /\ Len(r) = Len(s) - len
        /\ \A i \in 1 .. Len(s) - len : r[i] = s[i + len]
    <3>1. \A i \in len + 1 .. Len(s) : s[i] \in Cell
      BY <1>2, ElementOfSeq
    <3>2. /\ r \in Seq(Cell)
          /\ Len(r) = IF len + 1 <= Len(s) THEN Len(s) - (len + 1) + 1 ELSE 0
          /\ \A i \in 1 .. Len(s) - (len + 1) + 1 : r[i] = s[len + 1 + i - 1]
      BY <1>2, <3>1, SubSeqProperties
    <3> HIDE DEF r
    <3>3. Len(r) = Len(s) - len /\ Len(s) - (len + 1) + 1 = Len(s) - len
      BY <1>2, <2>1, <3>2
    <3>4. ASSUME NEW i \in 1 .. Len(s) - len PROVE r[i] = s[i + len]
      <4>1. len + 1 + i - 1 = i + len
        OBVIOUS
      <4>2. r[i] = s[len + 1 + i - 1]
        BY <3>2, <3>3
      <4> QED
        BY <4>1, <4>2
    <3> QED
      BY <3>2, <3>3, <3>4
  <2> HIDE DEF e, r
  <2>5. InOrder(e) /\ usable(e)
    BY <1>1, <1>2, <2>1, <2>3 DEF InOrder, usable
  <2>6. Len(r) = e.write_pos_ - e.read_pos_
    BY <1>1, <1>2, <2>1, <2>3, <2>4
  <2>7. \A i \in 1 .. Len(r) : e.buffer_[e.read_pos_ + i] = r[i]
    <3> SUFFICES ASSUME NEW i \in 1 .. Len(r) PROVE b.buffer_[e.read_pos_ + i] = r[i]
      BY <2>3
    <3>1. PICK j \in 1 .. Len(s) : j = i + len
      BY <1>2, <2>1, <2>4
    <3>2. r[i] = s[j]
      BY <1>2, <2>4, <3>1
    <3>3. e.read_pos_ + i = b.read_pos_ + j
      BY <1>1, <1>2, <2>3, <2>4, <3>1
    <3> QED
      BY <1>2, <3>2, <3>3
  <2>8. readable(e) = r
    BY ONLY <2>3, <2>4, <2>5, <2>6, <2>7, SameBytes
  <2> QED
    BY <1>2, <2>1, <2>3, <2>5, <2>8 DEF Holds, r
<1>4. CASE ~(len < readable_bytes(b))
  <2>1. consume(b, len) = clear(b) /\ consume_returns(b, len) = Len(s)
    BY <1>2, <1>4 DEF consume, consume_returns, readable_bytes
  <2>2. Holds(clear(b), << >>)
    BY <1>1, ClearHolds DEF Holds
  <2>3. SubSeq(s, Len(s) + 1, Len(s)) = << >>
    BY <1>2, SubSeqEmpty
  <2>4. Len(s) \in 0 .. Len(s)
    BY <1>2
  <2> QED
    BY ONLY <2>1, <2>2, <2>3, <2>4
<1> QED
  BY <1>3, <1>4

LEMMA ShrinkHolds ==
  ASSUME NEW b, NEW s, Holds(b, s)
  PROVE  Holds(shrink(b), s)
<1> DEFINE r == to_front(b)
<1>1. Holds(r, s) /\ r.write_pos_ \in Nat /\ r.write_pos_ <= r.write_pos_
  <2>1. Holds(r, s)
    BY ToFront
  <2> QED
    BY <2>1 DEF Holds, Buf
<1>2. shrink(b) = [r EXCEPT !.buffer_ = resized(@, r.write_pos_)]
  BY DEF shrink
<1> HIDE DEF r
<1> QED
  BY <1>1, <1>2, Resize

-----------------------------------------------------------------------------
(* The queues *)

\* The bytes of a buffer: a vector that was moved away has none.
Content(b) == IF usable(b) THEN readable(b) ELSE << >>

BInv == bufs \in [Buffers -> Buf] /\ \A b \in Buffers : InOrder(bufs[b])

\* What the refinement takes for contents.
Contents == [b \in Buffers |-> Content(bufs[b])]

LEMMA HoldsContent ==
  ASSUME NEW b \in Buf, InOrder(b), usable(b)
  PROVE  Holds(b, Content(b)) /\ Content(b) \in Seq(Cell)
<1>1. Content(b) = readable(b)
  BY DEF Content
<1> QED
  BY <1>1, Readable DEF Holds

LEMMA ContentHolds ==
  ASSUME NEW e, NEW s, Holds(e, s)
  PROVE  e \in Buf /\ InOrder(e) /\ Content(e) = s
BY DEF Holds, Content

\* One buffer is replaced.
LEMMA Replaced ==
  ASSUME BInv, NEW b \in Buffers, NEW e \in Buf, InOrder(e), bufs' = [bufs EXCEPT ![b] = e]
  PROVE  BInv' /\ Contents' = [Contents EXCEPT ![b] = Content(e)]
<1>1. \A c \in Buffers : bufs'[c] = IF c = b THEN e ELSE bufs[c]
  BY DEF BInv
<1>2. BInv'
  BY <1>1 DEF BInv
<1>3. Contents' = [c \in Buffers |-> Content(bufs'[c])]
  BY DEF Contents, Content, usable, readable
<1>4. [Contents EXCEPT ![b] = Content(e)]
         = [c \in Buffers |-> IF c = b THEN Content(e) ELSE Content(bufs[c])]
  BY DEF Contents
<1>5. \A c \in Buffers : Content(bufs'[c]) = IF c = b THEN Content(e) ELSE Content(bufs[c])
  BY <1>1
<1> QED
  BY ONLY <1>2, <1>3, <1>4, <1>5

-----------------------------------------------------------------------------
(* The steps *)

LEMMA PutStep ==
  ASSUME BInv, NEW b \in Buffers, NEW s \in Chunks, Put(b, s)
  PROVE  BInv' /\ Queue!Put(b, s)
<1>1. bufs[b] \in Buf /\ InOrder(bufs[b]) /\ usable(bufs[b]) /\ s \in Seq(Bytes)
  BY DEF BInv, Put
<1> DEFINE q == Content(bufs[b])
           e == append(bufs[b], s)
<1>2. Holds(e, q \o s)
  BY <1>1, HoldsContent, AppendHolds
<1>3. e \in Buf /\ InOrder(e) /\ Content(e) = q \o s
  BY <1>2, ContentHolds
<1>4. bufs' = [bufs EXCEPT ![b] = e] /\ UNCHANGED returned
  BY DEF Put
<1> HIDE DEF e
<1>5. BInv' /\ Contents' = [Contents EXCEPT ![b] = q \o s]
  BY <1>3, <1>4, Replaced
<1>6. Contents[b] = q
  BY DEF Contents
<1> HIDE DEF q
<1>7. Contents' = [Contents EXCEPT ![b] = @ \o s]
  BY <1>5, <1>6
<1> QED
  BY <1>4, <1>5, <1>7 DEF Queue!Put, Contents, Content

\* Both consume functions.
LEMMA TakeStep ==
  ASSUME BInv, NEW b \in Buffers, NEW len \in Nat, usable(bufs[b]),
         bufs' = [bufs EXCEPT ![b] = consume(@, len)],
         returned' \in {returned, consume_returns(bufs[b], len)}
  PROVE  BInv' /\ \E n \in 0 .. Len(Contents[b]) : Queue!Take(b, n)
<1>1. bufs[b] \in Buf /\ InOrder(bufs[b])
  BY DEF BInv
<1> DEFINE q == Content(bufs[b])
           e == consume(bufs[b], len)
           n == consume_returns(bufs[b], len)
<1>2. n \in 0 .. Len(q) /\ Holds(e, SubSeq(q, n + 1, Len(q)))
  BY <1>1, HoldsContent, ConsumeHolds
<1>3. e \in Buf /\ InOrder(e) /\ Content(e) = SubSeq(q, n + 1, Len(q))
  BY <1>2, ContentHolds
<1>4. bufs' = [bufs EXCEPT ![b] = e] /\ returned' \in {returned, n}
  OBVIOUS
<1> HIDE DEF e, n
<1>5. BInv' /\ Contents' = [Contents EXCEPT ![b] = SubSeq(q, n + 1, Len(q))]
  BY <1>3, <1>4, Replaced
<1>6. Contents[b] = q
  BY DEF Contents
<1> HIDE DEF q
<1>7. Contents' = [Contents EXCEPT ![b] = SubSeq(@, n + 1, Len(@))]
  BY <1>5, <1>6
<1>8. Queue!Take(b, n)
  BY <1>4, <1>7 DEF Queue!Take, Contents, Content
<1> QED
  BY <1>2, <1>5, <1>6, <1>8

LEMMA ClearStep ==
  ASSUME BInv, NEW b \in Buffers, Clear(b)
  PROVE  BInv' /\ \E n \in 0 .. Len(Contents[b]) : Queue!Take(b, n)
<1> DEFINE q == Content(bufs[b])
           e == clear(bufs[b])
<1>1. bufs[b] \in Buf /\ InOrder(bufs[b])
  BY DEF BInv
<1>2. e \in Buf /\ InOrder(e) /\ Content(e) = << >>
  BY <1>1, ClearHolds DEF Content
<1>3. bufs' = [bufs EXCEPT ![b] = e] /\ UNCHANGED returned
  BY DEF Clear
<1> HIDE DEF e
<1>4. BInv' /\ Contents' = [Contents EXCEPT ![b] = << >>]
  BY <1>1, <1>2, <1>3, Replaced
<1>5. Len(q) \in Nat /\ SubSeq(q, Len(q) + 1, Len(q)) = << >>
  <2>1. q \in Seq(Cell)
    <3>1. CASE usable(bufs[b])
      BY <1>1, <3>1, HoldsContent
    <3>2. CASE ~usable(bufs[b])
      BY <3>2, EmptySeq DEF Content
    <3> QED
      BY <3>1, <3>2
  <2> HIDE DEF q
  <2>2. Len(q) \in Nat
    BY <2>1, LenProperties
  <2> QED
    BY <2>2, SubSeqEmpty
<1>6. Contents[b] = q
  BY DEF Contents
<1> HIDE DEF q
<1>7. Contents' = [Contents EXCEPT ![b] = SubSeq(@, Len(q) + 1, Len(@))]
  BY <1>4, <1>5, <1>6
<1>8. Queue!Take(b, Len(q))
  BY <1>3, <1>7 DEF Queue!Take, Contents, Content
<1> QED
  BY <1>4, <1>5, <1>6, <1>8

LEMMA ShrinkStep ==
  ASSUME BInv, NEW b \in Buffers, Shrink(b)
  PROVE  BInv' /\ UNCHANGED <<Contents, returned>>
<1> DEFINE q == Content(bufs[b])
           e == shrink(bufs[b])
<1>1. bufs[b] \in Buf /\ InOrder(bufs[b]) /\ usable(bufs[b])
  BY DEF BInv, Shrink
<1>2. Holds(e, q)
  BY <1>1, HoldsContent, ShrinkHolds
<1>3. e \in Buf /\ InOrder(e) /\ Content(e) = q
  BY <1>2, ContentHolds
<1>4. bufs' = [bufs EXCEPT ![b] = e] /\ UNCHANGED returned
  BY DEF Shrink
<1> HIDE DEF e
<1>5. BInv' /\ Contents' = [Contents EXCEPT ![b] = q]
  BY <1>3, <1>4, Replaced
<1>6. [Contents EXCEPT ![b] = q] = Contents
  BY DEF Contents
<1> QED
  BY <1>4, <1>5, <1>6

LEMMA SwapStep ==
  ASSUME BInv, NEW a \in Buffers, NEW b \in Buffers, Swap(a, b)
  PROVE  BInv' /\ Queue!Exchange(a, b)
<1>1. bufs' = [bufs EXCEPT ![a] = bufs[b], ![b] = bufs[a]] /\ UNCHANGED returned
  BY DEF Swap
<1>2. \A c \in Buffers : bufs'[c] = IF c = b THEN bufs[a] ELSE IF c = a THEN bufs[b] ELSE bufs[c]
  BY <1>1 DEF BInv
<1>3. BInv'
  BY <1>1, <1>2 DEF BInv
<1>4. \A c \in Buffers :
        Content(bufs'[c]) = IF c = b THEN Content(bufs[a])
                            ELSE IF c = a THEN Content(bufs[b]) ELSE Content(bufs[c])
  BY <1>2
<1>5. Contents' = [c \in Buffers |-> Content(bufs'[c])]
  BY DEF Contents, Content, usable, readable
<1>6. [Contents EXCEPT ![a] = Contents[b], ![b] = Contents[a]]
      = [c \in Buffers |-> IF c = b THEN Content(bufs[a])
                           ELSE IF c = a THEN Content(bufs[b]) ELSE Content(bufs[c])]
  BY DEF Contents
<1>7. Contents' = [Contents EXCEPT ![a] = Contents[b], ![b] = Contents[a]]
  BY ONLY <1>4, <1>5, <1>6
<1> QED
  BY <1>1, <1>3, <1>7 DEF Queue!Exchange, Contents, Content

LEMMA CopyStep ==
  ASSUME BInv, NEW a \in Buffers, NEW b \in Buffers, Copy(a, b)
  PROVE  BInv' /\ Queue!Assign(a, b)
<1>1. bufs' = [bufs EXCEPT ![b] = bufs[a]] /\ UNCHANGED returned
  BY DEF Copy
<1>2. bufs[a] \in Buf /\ InOrder(bufs[a])
  BY DEF BInv
<1>3. BInv' /\ Contents' = [Contents EXCEPT ![b] = Content(bufs[a])]
  BY <1>1, <1>2, Replaced
<1>4. Contents' = [Contents EXCEPT ![b] = Contents[a]]
  BY <1>3 DEF Contents
<1> QED
  BY <1>1, <1>3, <1>4 DEF Queue!Assign, Contents, Content

LEMMA MoveStep ==
  ASSUME BInv, NEW a \in Buffers, NEW b \in Buffers, Move(a, b)
  PROVE  BInv' /\ Queue!Assign(a, b)
<1> DEFINE e == moved_from(bufs[a])
<1>1. bufs' = [bufs EXCEPT ![a] = e, ![b] = bufs[a]] /\ UNCHANGED returned /\ a # b
  BY DEF Move
<1>2. e \in Buf /\ InOrder(e) /\ Content(e) = << >>
  <2>1. /\ bufs[a] \in Buf /\ InOrder(bufs[a])
        /\ bufs[a].read_pos_ \in Nat /\ bufs[a].write_pos_ \in Nat
    BY DEF BInv, Buf
  <2>2. << >> \in Seq(Cell) /\ Len(<< >>) = 0
    BY EmptySeq
  <2>3. /\ e \in Buf /\ e.buffer_ = << >> /\ e.read_pos_ = bufs[a].read_pos_
        /\ e.write_pos_ = bufs[a].write_pos_
    BY <2>1, <2>2 DEF moved_from, Buf
  <2> HIDE DEF e
  <2>4. InOrder(e)
    BY <2>1, <2>3 DEF InOrder
  <2>5. ASSUME usable(e) PROVE readable(e) = << >>
    <3>1. e.write_pos_ < e.read_pos_ + 1
      BY <2>1, <2>2, <2>3, <2>5 DEF usable
    <3> QED
      BY <2>1, <2>3, <3>1, SubSeqEmpty DEF readable
  <2> QED
    BY <2>3, <2>4, <2>5 DEF Content
<1> HIDE DEF e
<1>3. \A c \in Buffers : bufs'[c] = IF c = b THEN bufs[a] ELSE IF c = a THEN e ELSE bufs[c]
  BY <1>1 DEF BInv
<1>4. BInv'
  BY <1>1, <1>2, <1>3 DEF BInv
<1>5. \A c \in Buffers :
        Content(bufs'[c]) = IF c = b THEN Content(bufs[a])
                            ELSE IF c = a THEN << >> ELSE Content(bufs[c])
  BY <1>2, <1>3
<1>6. Contents' = [c \in Buffers |-> Content(bufs'[c])]
  BY DEF Contents, Content, usable, readable
<1>7. [Contents EXCEPT ![a] = << >>, ![b] = Contents[a]]
      = [c \in Buffers |-> IF c = b THEN Content(bufs[a])
                           ELSE IF c = a THEN << >> ELSE Content(bufs[c])]
  BY DEF Contents
<1>8. Contents' = [Contents EXCEPT ![a] = << >>, ![b] = Contents[a]]
  BY ONLY <1>5, <1>6, <1>7
<1> QED
  BY <1>1, <1>4, <1>8 DEF Queue!Assign, Contents, Content

LEMMA InitBuffers == BufferInit => BInv /\ Queue!Init
<1> SUFFICES ASSUME BufferInit PROVE BInv /\ Queue!Init
  OBVIOUS
<1> DEFINE v == [i \in 1 .. PrependBytes + InitSize |-> 0]
           e == new_buffer
<1>1. v \in Seq(Cell)
  <2>1. PrependBytes + InitSize \in Nat
    OBVIOUS
  <2> DEFINE n == PrependBytes + InitSize
  <2> HIDE DEF n
  <2>2. [i \in 1 .. n |-> 0] \in [1 .. n -> Cell]
    BY DEF Cell
  <2> QED
    BY <2>1, <2>2, SeqDef DEF n
<1>2. e \in Buf /\ e.read_pos_ = PrependBytes /\ e.write_pos_ = PrependBytes
  BY <1>1 DEF new_buffer, Buf
<1> HIDE DEF e, v
<1>3. InOrder(e) /\ Content(e) = << >>
  BY <1>2, SubSeqEmpty DEF InOrder, Content, readable
<1>4. bufs = [b \in Buffers |-> e] /\ returned = 0
  BY DEF BufferInit, e
<1>5. BInv /\ Contents = [b \in Buffers |-> << >>]
  BY <1>2, <1>3, <1>4 DEF BInv, Contents
<1> QED
  BY <1>4, <1>5 DEF Queue!Init, Contents, Content

LEMMA StepBuffers ==
  BInv /\ [BufferNext]_buffer_vars => BInv' /\ [Queue!Next]_(Queue!queue_vars)
<1> SUFFICES ASSUME BInv, [BufferNext]_buffer_vars
             PROVE  BInv' /\ [Queue!Next]_(Queue!queue_vars)
  OBVIOUS
<1>0. /\ \A b \in Buffers : \A s \in Chunks : Queue!Put(b, s) => Queue!Next
      /\ \A b \in Buffers : \A n \in 0 .. Len(Contents[b]) : Queue!Take(b, n) => Queue!Next
      /\ \A a, b \in Buffers : Queue!Exchange(a, b) \/ Queue!Assign(a, b) => Queue!Next
  BY DEF Queue!Next, Contents, Content
<1>1. ASSUME NEW b \in Buffers, NEW s \in Chunks, Put(b, s)
      PROVE  BInv' /\ Queue!Next
  BY <1>0, <1>1, PutStep
<1>2. ASSUME NEW b \in Buffers, NEW len \in Nat, Consume(b, len)
      PROVE  BInv' /\ Queue!Next
  <2>1. /\ usable(bufs[b]) /\ bufs' = [bufs EXCEPT ![b] = consume(@, len)]
        /\ returned' \in {returned, consume_returns(bufs[b], len)}
    BY <1>2 DEF Consume
  <2> QED
    BY <1>0, <2>1, TakeStep
<1>3. ASSUME NEW b \in Buffers, NEW len \in Nat, FlatConsume(b, len)
      PROVE  BInv' /\ Queue!Next
  <2>1. /\ usable(bufs[b]) /\ bufs' = [bufs EXCEPT ![b] = consume(@, len)]
        /\ returned' \in {returned, consume_returns(bufs[b], len)}
    BY <1>3 DEF FlatConsume
  <2> QED
    BY <1>0, <2>1, TakeStep
<1>4. ASSUME NEW b \in Buffers, Clear(b) PROVE BInv' /\ Queue!Next
  BY <1>0, <1>4, ClearStep
<1>5. ASSUME NEW b \in Buffers, Shrink(b)
      PROVE  BInv' /\ UNCHANGED Queue!queue_vars
  BY <1>5, ShrinkStep DEF Queue!queue_vars, Contents, Content
<1>6. ASSUME NEW a \in Buffers, NEW b \in Buffers, Swap(a, b) \/ Copy(a, b) \/ Move(a, b)
      PROVE  BInv' /\ Queue!Next
  BY <1>0, <1>6, SwapStep, CopyStep, MoveStep
<1>7. ASSUME UNCHANGED buffer_vars PROVE BInv' /\ UNCHANGED Queue!queue_vars
  BY <1>7 DEF buffer_vars, BInv, Queue!queue_vars
<1>8. 0 .. MaxReadable \subseteq Nat /\ 0 .. MaxReadable + 1 \subseteq Nat
  OBVIOUS
<1> QED
  BY <1>1, <1>2, <1>3, <1>4, <1>5, <1>6, <1>7, <1>8 DEF BufferNext

\* The readable bytes of every buffer are what was appended and not consumed,
\* in order, whatever append, make_space, consume, clear, shrink, swap, copy
\* and move did to the vectors.
THEOREM BuffersAreQueues == BufferSpec => FifoSpec
<1>1. BInv /\ [BufferNext]_buffer_vars => BInv'
  BY StepBuffers
<1>2. BufferSpec => []BInv
  BY <1>1, InitBuffers, PTL DEF BufferSpec
<1>3. BInv /\ [BufferNext]_buffer_vars => [Queue!Next]_(Queue!queue_vars)
  BY StepBuffers
<1> QED
  BY <1>2, <1>3, InitBuffers, PTL DEF BufferSpec, FifoSpec, Queue!Spec

-----------------------------------------------------------------------------
(* Lines *)

\* What a line and its end are made of.
Sym == Cell \cup {CR, LF}

\* f gives the text of the first lines of ls, each with its end e.
TextOf(f, ls, e) ==
  f = [n \in 0 .. Len(ls) |-> IF n = 0 THEN << >> ELSE f[n - 1] \o ls[n] \o e]

\* No end e in a line before its own.
Unbroken(line, e) == \A i \in 1 .. Len(line) : ~at(line \o e, e, i)

\* The text of the lines taken and what is readable are what came, whichever
\* function gives that text: there is one, and a step extends or restricts it.
LInv ==
  /\ end \in Ends /\ received \in Seq(Bytes) /\ lines \in Seq(Seq(Cell))
  /\ Holds(input, readable(input))
  /\ \E f : TextOf(f, lines, end)
  /\ \A f : TextOf(f, lines, end) =>
       f[Len(lines)] \in Seq(Sym) /\ f[Len(lines)] \o readable(input) = received
  /\ \A n \in 1 .. Len(lines) : Unbroken(lines[n], end)

\* Concatenation is associative on them.
LEMMA SymAssociative ==
  ASSUME NEW s \in Seq(Sym), NEW t \in Seq(Sym), NEW u \in Seq(Sym)
  PROVE  (s \o t) \o u = s \o (t \o u) /\ s \o t \in Seq(Sym)
<1>0. s \in Seq(Sym) /\ t \in Seq(Sym) /\ u \in Seq(Sym)
  OBVIOUS
<1>1. (s \o t) \o u = s \o (t \o u)
  BY ONLY <1>0, ConcatAssociative, SMT
<1>2. s \o t \in Seq(Sym)
  BY ONLY <1>0, ConcatProperties, SMT
<1> QED
  BY <1>1, <1>2

\* A line more, its text after the text before it.
LEMMA TextGoesOn ==
  ASSUME NEW ls \in Seq(Seq(Cell)), NEW line \in Seq(Cell), NEW e, NEW f, TextOf(f, ls, e)
  PROVE  \E g : TextOf(g, Append(ls, line), e)
<1> DEFINE k == Len(ls)
           more == Append(ls, line)
           g == [n \in 0 .. k + 1 |-> IF n <= k THEN f[n] ELSE f[k] \o line \o e]
<1>1. /\ k \in Nat /\ Len(more) = k + 1 /\ more[k + 1] = line
      /\ \A n \in 1 .. k : more[n] = ls[n]
  BY LenProperties, AppendProperties
<1>2. \A n \in 0 .. k : f[n] = IF n = 0 THEN << >> ELSE f[n - 1] \o ls[n] \o e
  BY DEF TextOf
<1> HIDE DEF k, more
<1>3. ASSUME NEW n \in 0 .. k + 1
      PROVE  g[n] = IF n = 0 THEN << >> ELSE g[n - 1] \o more[n] \o e
  <2>1. CASE n = 0
    BY <1>1, <1>2, <2>1
  <2>2. CASE n \in 1 .. k
    BY <1>1, <1>2, <2>2
  <2>3. CASE n = k + 1
    BY <1>1, <2>3
  <2> QED
    BY <1>1, <2>1, <2>2, <2>3
<1>4. g = [n \in 0 .. k + 1 |-> IF n = 0 THEN << >> ELSE g[n - 1] \o more[n] \o e]
  <2>1. g = [n \in 0 .. k + 1 |-> g[n]]
    OBVIOUS
  <2> HIDE DEF g
  <2> QED
    BY <1>3, <2>1
<1> HIDE DEF g
<1> QED
  BY <1>1, <1>4 DEF TextOf, more

\* The text of a line more is that of the lines before, the line and its end.
LEMMA TextBefore ==
  ASSUME NEW ls \in Seq(Seq(Cell)), NEW line \in Seq(Cell), NEW e,
         NEW g, TextOf(g, Append(ls, line), e)
  PROVE  \E f : /\ TextOf(f, ls, e)
                /\ g[Len(ls) + 1] = f[Len(ls)] \o line \o e
<1> DEFINE k == Len(ls)
           more == Append(ls, line)
           f == [n \in 0 .. k |-> g[n]]
<1>1. /\ k \in Nat /\ Len(more) = k + 1 /\ more[k + 1] = line
      /\ \A n \in 1 .. k : more[n] = ls[n]
  BY LenProperties, AppendProperties
<1> HIDE DEF more
<1>2. \A n \in 0 .. k + 1 : g[n] = IF n = 0 THEN << >> ELSE g[n - 1] \o more[n] \o e
  <2>1. g = [n \in 0 .. Len(more) |-> IF n = 0 THEN << >> ELSE g[n - 1] \o more[n] \o e]
    BY DEF TextOf, more
  <2> HIDE DEF k
  <2> QED
    BY <1>1, <2>1
<1> HIDE DEF k
<1>3. ASSUME NEW n \in 0 .. k
      PROVE  f[n] = IF n = 0 THEN << >> ELSE f[n - 1] \o ls[n] \o e
  BY <1>1, <1>2
<1>4. f = [n \in 0 .. k |-> IF n = 0 THEN << >> ELSE f[n - 1] \o ls[n] \o e]
  <2>1. f = [n \in 0 .. k |-> f[n]]
    OBVIOUS
  <2> HIDE DEF f
  <2> QED
    BY <1>3, <2>1
<1>5. g[k + 1] = f[k] \o line \o e
  <2>1. k + 1 \in 0 .. k + 1 /\ k + 1 # 0 /\ (k + 1) - 1 = k /\ k \in 0 .. k
    BY <1>1
  <2>2. g[k + 1] = g[k] \o more[k + 1] \o e
    BY <1>2, <2>1
  <2>3. f[k] = g[k]
    BY <2>1
  <2> QED
    BY <1>1, <2>2, <2>3
<1> HIDE DEF f
<1> QED
  BY <1>4, <1>5 DEF TextOf, k

\* Where an end is found, the bytes are a line without an end in it, the end and
\* what comes after.
LEMMA Found ==
  ASSUME NEW r \in Seq(Cell), NEW e \in Ends, NEW i \in find_in(r, e)
  PROVE  LET line == SubSeq(r, 1, i - 1)
             n    == i + Len(e) - 1
         IN  /\ n \in 0 .. Len(r)
             /\ line \in Seq(Cell) /\ e \in Seq(Sym)
             /\ r = (line \o e) \o SubSeq(r, n + 1, Len(r))
             /\ Unbroken(line, e)
<1> DEFINE line == SubSeq(r, 1, i - 1)
           L == Len(e)
           n == i + L - 1
<1>1. Len(r) \in Nat /\ i \in 1 .. Len(r) /\ at(r, e, i) /\ \A h \in 1 .. i - 1 : ~at(r, e, h)
  BY LenProperties DEF find_in
<1>2. e \in Seq(Sym) /\ L \in {1, 2} /\ L \in Nat
  <2>1. CR \in Sym /\ LF \in Sym
    BY DEF Sym
  <2>2. CASE e = <<CR, LF>>
    <3>1. <<CR, LF>> \in Seq(Sym) /\ Len(<<CR, LF>>) = 2
      BY <2>1
    <3> QED
      BY <2>2, <3>1
  <2>3. CASE e = <<LF>>
    <3>1. <<LF>> \in Seq(Sym) /\ Len(<<LF>>) = 1
      BY <2>1
    <3> QED
      BY <2>3, <3>1
  <2> QED
    BY <2>2, <2>3 DEF Ends
<1> HIDE DEF L
<1>3. n <= Len(r) /\ SubSeq(r, i, n) = e
  BY <1>1 DEF at, L
<1>4. line \in Seq(Cell) /\ Len(line) = i - 1
  <2>1. \A h \in 1 .. i - 1 : r[h] \in Cell
    BY <1>1, ElementOfSeq
  <2>2. line \in Seq(Cell) /\ Len(line) = IF 1 <= i - 1 THEN (i - 1) - 1 + 1 ELSE 0
    BY ONLY <1>1, <2>1, SubSeqProperties
  <2> QED
    BY <1>1, <2>2
<1>5. line \o e = SubSeq(r, 1, n)
  <2>1. SubSeq(r, 1, i - 1) \o SubSeq(r, (i - 1) + 1, n) = SubSeq(r, 1, n)
    <3>1. /\ 1 \in 1 .. Len(r) + 1 /\ i - 1 \in 1 - 1 .. Len(r) /\ n \in i - 1 .. Len(r)
      BY <1>1, <1>2, <1>3
    <3> HIDE DEF n
    <3> QED
      BY ONLY <3>1, ConcatAdjacentSubSeq
  <2>2. (i - 1) + 1 = i
    BY <1>1
  <2> QED
    BY <1>3, <2>1, <2>2
<1>6. n \in 0 .. Len(r) /\ n \in Int
  BY <1>1, <1>2, <1>3
<1> HIDE DEF n, line
<1>7. r = SubSeq(r, 1, n) \o SubSeq(r, n + 1, Len(r))
  <2>1. SubSeq(r, 1, n) \o SubSeq(r, n + 1, Len(r)) = SubSeq(r, 1, Len(r))
    <3>1. 1 \in 1 .. Len(r) + 1 /\ n \in 1 - 1 .. Len(r) /\ Len(r) \in n .. Len(r)
      BY <1>1, <1>6
    <3> QED
      BY ONLY <3>1, ConcatAdjacentSubSeq
  <2> QED
    BY <2>1, SubSeqFull
<1>8. ASSUME NEW h \in 1 .. Len(line), at(line \o e, e, h) PROVE FALSE
  <2> DEFINE t == SubSeq(r, 1, n)
             m == h + L - 1
  <2>1. /\ h \in 1 .. i - 1 /\ h \in Int /\ m \in Int /\ m <= n /\ m <= Len(r) /\ h <= m
    BY <1>1, <1>2, <1>3, <1>4 DEF n
  <2>2. \A j \in 1 .. n : r[j] \in Cell
    BY <1>1, <1>6, ElementOfSeq
  <2>3. t \in Seq(Cell) /\ Len(t) = n /\ \A j \in 1 .. n : t[j] = r[j]
    <3>1. /\ t \in Seq(Cell) /\ Len(t) = IF 1 <= n THEN n - 1 + 1 ELSE 0
          /\ \A j \in 1 .. n - 1 + 1 : t[j] = r[1 + j - 1]
      BY ONLY <1>6, <2>2, SubSeqProperties
    <3> HIDE DEF t
    <3> QED
      BY <1>6, <3>1
  <2> HIDE DEF t, m
  <2>4. SubSeq(t, h, m) = e
    BY <1>5, <1>8 DEF at, t, m, L
  <2>5. \A j \in h .. m : t[j] = r[j] /\ r[j] \in Cell /\ t[j] \in Cell
    BY <1>6, <2>1, <2>2, <2>3
  <2>6. /\ SubSeq(t, h, m) \in Seq(Cell) /\ Len(SubSeq(t, h, m)) = m - h + 1
        /\ \A j \in 1 .. m - h + 1 : SubSeq(t, h, m)[j] = t[h + j - 1]
    BY <2>1, <2>5, SubSeqProperties
  <2>7. /\ SubSeq(r, h, m) \in Seq(Cell) /\ Len(SubSeq(r, h, m)) = m - h + 1
        /\ \A j \in 1 .. m - h + 1 : SubSeq(r, h, m)[j] = r[h + j - 1]
    BY <2>1, <2>5, SubSeqProperties
  <2>8. \A j \in 1 .. m - h + 1 : SubSeq(t, h, m)[j] = SubSeq(r, h, m)[j]
    <3> SUFFICES ASSUME NEW j \in 1 .. m - h + 1
                 PROVE  SubSeq(t, h, m)[j] = SubSeq(r, h, m)[j]
      OBVIOUS
    <3>1. h + j - 1 \in h .. m
      BY <2>1
    <3>2. t[h + j - 1] = r[h + j - 1]
      BY <2>5, <3>1
    <3> QED
      BY <2>6, <2>7, <3>2
  <2>9. SubSeq(t, h, m) = SubSeq(r, h, m)
    BY <2>6, <2>7, <2>8, SeqEqual
  <2> QED
    BY <1>1, <2>1, <2>4, <2>9 DEF at, m, L
<1> QED
  BY <1>2, <1>4, <1>5, <1>6, <1>7, <1>8 DEF Unbroken, line, n, L

LEMMA NewHolds == Holds(new_buffer, << >>)
<1> DEFINE n == PrependBytes + InitSize
           v == [i \in 1 .. n |-> 0]
           e == new_buffer
<1>1. n \in Nat /\ PrependBytes \in Nat /\ PrependBytes <= n
  OBVIOUS
<1>2. /\ e.buffer_ = v /\ e.read_pos_ = PrependBytes /\ e.write_pos_ = PrependBytes
      /\ e = [buffer_ |-> v, read_pos_ |-> PrependBytes, write_pos_ |-> PrependBytes]
  BY DEF new_buffer
<1> HIDE DEF n, e
<1>3. v \in Seq(Cell) /\ Len(v) = n
  <2>1. v \in [1 .. n -> Cell]
    BY DEF Cell
  <2>2. v \in Seq(Cell)
    BY <1>1, <2>1, SeqDef
  <2>3. Len(v) \in Nat /\ 1 .. Len(v) = 1 .. n
    BY <2>1, <2>2, LenProperties
  <2> HIDE DEF v
  <2>4. n \in 1 .. Len(v) \/ n = 0
    BY <1>1, <2>3
  <2>5. Len(v) \in 1 .. n \/ Len(v) = 0
    <3>1. Len(v) \in 1 .. Len(v) \/ Len(v) = 0
      BY <2>3
    <3> QED
      BY <2>3, <3>1
  <2> QED
    BY <1>1, <2>2, <2>3, <2>4, <2>5
<1> HIDE DEF v
<1>4. e \in Buf /\ InOrder(e) /\ usable(e)
  BY <1>1, <1>2, <1>3 DEF Buf, InOrder, usable
<1>5. readable(e) = << >>
  BY <1>2, SubSeqEmpty DEF readable
<1> QED
  BY <1>4, <1>5 DEF Holds, e

LEMMA InitLines == LineInit => LInv
<1> SUFFICES ASSUME LineInit PROVE LInv
  OBVIOUS
<1>1. /\ end \in Ends /\ received = << >> /\ lines = << >> /\ Len(lines) = 0
      /\ input = new_buffer
  BY DEF LineInit
<1>2. Holds(input, << >>) /\ readable(input) = << >>
  BY <1>1, NewHolds DEF Holds
<1>3. TextOf([n \in 0 .. 0 |-> << >>], lines, end)
  BY <1>1 DEF TextOf
<1>4. ASSUME NEW f, TextOf(f, lines, end)
      PROVE  f[Len(lines)] \in Seq(Sym) /\ f[Len(lines)] \o readable(input) = received
  <2>1. f[0] = << >>
    BY <1>1, <1>4 DEF TextOf
  <2>2. << >> \in Seq(Sym) /\ << >> \o << >> = << >>
    BY ConcatEmptySeq
  <2> QED
    BY <1>1, <1>2, <2>1, <2>2
<1> QED
  <2>1. << >> \in Seq(Bytes) /\ << >> \in Seq(Seq(Cell))
    OBVIOUS
  <2>2. \A n \in 1 .. Len(lines) : Unbroken(lines[n], end)
    BY <1>1
  <2> QED
    BY <1>1, <1>2, <1>3, <1>4, <2>1, <2>2 DEF LInv

LEMMA StepLines == LInv /\ [LineNext]_line_vars => LInv'
<1> SUFFICES ASSUME LInv, [LineNext]_line_vars PROVE LInv'
  OBVIOUS
<1> DEFINE old == readable(input)
<1>0. /\ end \in Ends /\ received \in Seq(Bytes) /\ lines \in Seq(Seq(Cell))
      /\ Holds(input, old) /\ old \in Seq(Cell)
  BY Readable DEF LInv, Holds
<1>1. ASSUME UNCHANGED line_vars PROVE LInv'
  <2>1. Holds(input', readable(input')) /\ readable(input)' = readable(input')
    BY <1>0, <1>1 DEF line_vars, readable
  <2> QED
    BY <1>1, <2>1 DEF LInv, line_vars
<1>2. ASSUME NEW s \in Pieces, handle_read(s) PROVE LInv'
  <2> DEFINE b == append(input, s)
             r == old \o s
  <2>1. s \in Seq(Bytes) /\ s \in Seq(Cell)
    BY LineReaderAssumption DEF Cell
  <2>2. Holds(b, r) /\ readable(b) = r
    BY <1>0, <2>1, AppendHolds DEF Holds
  <2>3. r \in Seq(Cell) /\ Len(r) \in Nat
    BY <1>0, <2>1, ConcatProperties, LenProperties
  <2>4. /\ received' = received \o s /\ end' = end
        /\ \/ input' = b /\ lines' = lines
           \/ \E i \in find_in(r, end) :
                /\ lines' = Append(lines, SubSeq(r, 1, i - 1))
                /\ input' = consume(b, i + Len(end) - 1)
    BY <1>2, <2>2 DEF handle_read, find_end, take_line
  <2> HIDE DEF b
  <2>5. received' \in Seq(Bytes)
    BY <1>0, <2>1, <2>4, ConcatProperties
  <2>6. \A f : TextOf(f, lines, end) =>
          f[Len(lines)] \in Seq(Sym) /\ f[Len(lines)] \o r = received \o s
    <3> SUFFICES ASSUME NEW f, TextOf(f, lines, end)
                 PROVE  f[Len(lines)] \in Seq(Sym) /\ f[Len(lines)] \o r = received \o s
      OBVIOUS
    <3> DEFINE x == f[Len(lines)]
    <3>1. x \in Seq(Sym) /\ x \o old = received
      BY DEF LInv
    <3>2. old \in Seq(Sym) /\ s \in Seq(Sym)
      BY <1>0, <2>1 DEF Sym
    <3> HIDE DEF x, old
    <3>3. (x \o old) \o s = x \o (old \o s)
      BY ONLY <3>1, <3>2, SymAssociative
    <3> QED
      BY <3>1, <3>3 DEF x
  <2>7. CASE input' = b /\ lines' = lines
    <3>1. readable(input)' = r /\ readable(input') = r
      BY <2>2, <2>7 DEF readable
    <3>2. Holds(input, readable(input))'
      BY <2>2, <2>7, <3>1
    <3> HIDE DEF r
    <3>3. \A f : TextOf(f, lines, end)' =>
            f[Len(lines')] \in Seq(Sym) /\ f[Len(lines')] \o r = received'
      BY <2>4, <2>6, <2>7 DEF TextOf
    <3>4. (\E f : TextOf(f, lines, end))' /\ lines' \in Seq(Seq(Cell)) /\ end' \in Ends
          /\ \A n \in 1 .. Len(lines') : Unbroken(lines'[n], end')
      BY <1>0, <2>4, <2>7 DEF LInv, TextOf
    <3> QED
      BY <2>5, <3>1, <3>2, <3>3, <3>4 DEF LInv, TextOf, Unbroken, at
  <2>8. ASSUME NEW i \in find_in(r, end),
               lines' = Append(lines, SubSeq(r, 1, i - 1)),
               input' = consume(b, i + Len(end) - 1)
        PROVE  LInv'
    <3> DEFINE line == SubSeq(r, 1, i - 1)
               k == i + Len(end) - 1
               rest == SubSeq(r, k + 1, Len(r))
    <3> HIDE DEF r
    <3>1. /\ k \in 0 .. Len(r) /\ line \in Seq(Cell) /\ end \in Seq(Sym)
          /\ r = (line \o end) \o rest /\ Unbroken(line, end)
      BY <1>0, <2>3, Found
    <3>2. Holds(consume(b, k), rest)
      <4>1. k \in Nat
        BY <2>3, <3>1
      <4> HIDE DEF k
      <4>2. /\ consume_returns(b, k) = k
            /\ Holds(consume(b, k), SubSeq(r, consume_returns(b, k) + 1, Len(r)))
        <5>1. Holds(consume(b, k), SubSeq(r, consume_returns(b, k) + 1, Len(r)))
          BY <2>2, <4>1, ConsumeHolds
        <5>2. readable_bytes(b) = Len(r)
          BY <2>2, Readable DEF Holds, readable_bytes
        <5> QED
          BY <2>3, <3>1, <5>1, <5>2 DEF consume_returns
      <4> QED
        BY <4>2 DEF rest
    <3>3. /\ readable(input') = rest /\ readable(input)' = rest /\ rest \in Seq(Cell)
          /\ Holds(input, readable(input))'
      BY <2>8, <3>2, Readable DEF Holds, readable
    <3> HIDE DEF line, k, rest
    <3>4. lines' = Append(lines, line) /\ end' = end
      BY <2>4, <2>8 DEF line
    <3>5. /\ lines' \in Seq(Seq(Cell)) /\ Len(lines') = Len(lines) + 1
          /\ lines'[Len(lines) + 1] = line /\ \A n \in 1 .. Len(lines) : lines'[n] = lines[n]
          /\ Len(lines) \in Nat
      BY <1>0, <3>1, <3>4, AppendProperties, LenProperties
    <3>6. (\E f : TextOf(f, lines, end))'
      <4>1. PICK f : TextOf(f, lines, end)
        BY DEF LInv
      <4>2. \E g : TextOf(g, Append(lines, line), end)
        BY <1>0, <3>1, <4>1, TextGoesOn
      <4> QED
        BY <3>4, <4>2 DEF TextOf
    <3>7. ASSUME NEW g, TextOf(g, lines', end')
          PROVE  g[Len(lines')] \in Seq(Sym) /\ g[Len(lines')] \o rest = received'
      <4>0. TextOf(g, Append(lines, line), end)
        BY <3>4, <3>7
      <4>1. PICK f : TextOf(f, lines, end) /\ g[Len(lines) + 1] = f[Len(lines)] \o line \o end
        <5>1. lines \in Seq(Seq(Cell)) /\ line \in Seq(Cell)
          BY <1>0, <3>1
        <5>2. \E f : TextOf(f, lines, end) /\ g[Len(lines) + 1] = f[Len(lines)] \o line \o end
          BY ONLY <4>0, <5>1, TextBefore
        <5> QED
          BY <5>2
      <4> DEFINE x == f[Len(lines)]
      <4>2. x \in Seq(Sym) /\ x \o r = received'
        BY <2>4, <2>6, <4>1
      <4>3. g[Len(lines')] = (x \o line) \o end
        BY <3>5, <4>1
      <4>4. line \in Seq(Sym) /\ rest \in Seq(Sym)
        BY <3>1, <3>3 DEF Sym
      <4> HIDE DEF x
      <4>5. (x \o line) \o end = x \o (line \o end) /\ line \o end \in Seq(Sym)
            /\ x \o (line \o end) \in Seq(Sym)
        BY ONLY <3>1, <4>2, <4>4, SymAssociative
      <4>6. (x \o (line \o end)) \o rest = x \o ((line \o end) \o rest)
        BY ONLY <4>2, <4>4, <4>5, SymAssociative
      <4> QED
        BY <3>1, <4>2, <4>3, <4>5, <4>6
    <3>8. \A n \in 1 .. Len(lines') : Unbroken(lines'[n], end')
      BY <3>1, <3>4, <3>5 DEF LInv
    <3>9. \A g : TextOf(g, lines, end)' =>
            g[Len(lines')] \in Seq(Sym) /\ g[Len(lines')] \o rest = received'
      BY <3>7 DEF TextOf
    <3>10. lines' \in Seq(Seq(Cell)) /\ end' \in Ends
      BY <1>0, <3>4, <3>5
    <3> QED
      BY <2>5, <3>3, <3>6, <3>8, <3>9, <3>10 DEF LInv, TextOf, Unbroken, at
  <2> QED
    BY <2>4, <2>7, <2>8
<1>3. CASE Silent
  BY <1>1, <1>3 DEF Silent
<1> QED
  BY <1>1, <1>2, <1>3 DEF LineNext

\* However the bytes of the peer are cut into pieces and whatever the pieces are,
\* the lines a read callback takes, each with its end, and what is left to read are
\* what the peer sent, and no line has an end within.
THEOREM LinesAreWhole == LineSpec => []LinesExact
<1>1. LInv => LinesExact
  <2> SUFFICES ASSUME LInv PROVE LinesExact
    OBVIOUS
  <2> DEFINE whole[n \in 0 .. Len(lines)] ==
               IF n = 0 THEN << >> ELSE whole[n - 1] \o lines[n] \o end
  <2>1. TextOf(whole, lines, end)
    BY DEF LInv, TextOf
  <2>2. whole[Len(lines)] \o readable(input) = received
    <3> HIDE DEF whole
    <3> QED
      BY <2>1 DEF LInv
  <2>3. \A n \in 1 .. Len(lines) :
          \A i \in 1 .. Len(lines[n]) : ~at(lines[n] \o end, end, i)
    BY DEF LInv, Unbroken
  <2> QED
    BY <2>2, <2>3 DEF LinesExact
<1> QED
  BY <1>1, InitLines, StepLines, PTL DEF LineSpec

HIDE BufferAssumption

-----------------------------------------------------------------------------
(* auto_buffer *)

USE AutoBufferAssumption

\* The items in the object stay N; a block is never empty.
AInv ==
  /\ made \in BOOLEAN
  /\ internal_ \in Seq(Cells) /\ Len(internal_) = N
  /\ block \in Seq(Cells)
  /\ buffer_ \in {"internal", "block", "null"}
  /\ items_ \in Nat
  /\ external_ \in BOOLEAN
  /\ heap \in Nat
  /\ buffer_ = "null" => block = << >>
  /\ ~made => buffer_ = "internal"
  /\ Stored

LEMMA Zeros ==
  ASSUME NEW n \in Nat
  PROVE  zeros(n) \in Seq(Cells) /\ Len(zeros(n)) = n
<1> DEFINE f == zeros(n)
<1>1. f \in [1 .. n -> Cells]
  BY DEF zeros, Cells
<1> HIDE DEF f
<1>2. f \in Seq(Cells)
  BY <1>1, SeqDef
<1>3. DOMAIN f = 1 .. Len(f) /\ Len(f) \in Nat /\ DOMAIN f = 1 .. n
  BY <1>1, <1>2, LenProperties
<1>4. Len(f) = n
  <2> DEFINE m == Len(f)
  <2>1. m \in Nat /\ 1 .. m = 1 .. n
    BY <1>3
  <2> HIDE DEF m
  <2>2. m = n
    BY <2>1
  <2> QED
    BY <2>2 DEF m
<1> QED
  BY <1>2, <1>4 DEF f

LEMMA Allocated ==
  ASSUME NEW n \in Nat, NEW s \in Seq(Cells), NEW k \in Nat, k <= Len(s)
  PROVE  /\ alloc(n, s, k) \in Seq(Cells) /\ Len(alloc(n, s, k)) = n
         /\ \A i \in 1 .. n : i <= k => alloc(n, s, k)[i] = s[i]
<1> DEFINE f == alloc(n, s, k)
<1>1. f = [i \in 1 .. n |-> IF i <= k THEN s[i] ELSE Junk]
  BY DEF alloc
<1>2. Len(s) \in Nat /\ \A i \in 1 .. Len(s) : s[i] \in Cells
  BY LenProperties, ElementOfSeq
<1> HIDE DEF f
<1>3. f \in [1 .. n -> Cells]
  BY <1>1, <1>2 DEF Cells
<1>4. f \in Seq(Cells)
  BY <1>3, SeqDef
<1>5. DOMAIN f = 1 .. Len(f) /\ Len(f) \in Nat /\ DOMAIN f = 1 .. n
  BY <1>3, <1>4, LenProperties
<1> QED
  BY <1>1, <1>4, <1>5 DEF f

\* What data() points to holds the items.
LEMMA Data ==
  ASSUME AInv
  PROVE  data \in Seq(Cells) /\ Len(data) \in Nat /\ items_ <= Len(data)
<1>1. data \in Seq(Cells) /\ Len(<< >>) = 0
  BY EmptySeq DEF AInv, data
<1>2. Len(data) \in Nat
  BY <1>1, LenProperties
<1> QED
  BY <1>1, <1>2 DEF AInv, Stored, data

\* What a step of an object that goes on does to the items.
Keeps ==
  made /\ made' /\ items_' # items_ =>
    \A i \in 1 .. items_ : i <= items_' => data'[i] = data[i]

LEMMA InitAuto == AutoInit => AInv
<1> SUFFICES ASSUME AutoInit PROVE AInv
  OBVIOUS
<1>1. internal_ \in Seq(Cells) /\ Len(internal_) = N /\ << >> \in Seq(Cells)
  BY Zeros, EmptySeq DEF AutoInit
<1>2. Stored
  BY <1>1 DEF AutoInit, Stored, data
<1> QED
  BY <1>1, <1>2 DEF AutoInit, AInv

LEMMA ConstructAuto ==
  ASSUME AInv, NEW n \in Nat, construct(n) \/ construct_without(n)
  PROVE  AInv' /\ Keeps
<1>1. /\ zeros(N) \in Seq(Cells) /\ Len(zeros(N)) = N
      /\ zeros(n) \in Seq(Cells) /\ Len(zeros(n)) = n
      /\ << >> \in Seq(Cells) /\ Len(<< >>) = 0 /\ N \in Nat /\ N > 0
  BY Zeros, EmptySeq
<1>2. heap = 0 /\ ~made
  BY DEF AInv, Stored, construct, construct_without
<1>3. CASE construct(n) /\ n < N
  BY <1>1, <1>2, <1>3 DEF construct, AInv, Stored, data, Keeps
<1>4. CASE construct(n) /\ ~(n < N)
  <2>1. zeros(n) # << >>
    BY <1>1, <1>4
  <2> QED
    <3>1. /\ made' = TRUE /\ internal_' = zeros(N) /\ external_' = TRUE /\ items_' = n
          /\ buffer_' = "block" /\ block' = zeros(n) /\ heap' = 1
      <4>1. external_' = (n >= N) /\ n >= N
        BY <1>4 DEF construct
      <4>2. (n >= N) = TRUE
        BY <4>1
      <4>3. external_' = TRUE
        BY <4>1, <4>2
      <4> QED
        BY <1>2, <1>4, <4>3 DEF construct
    <3>2. data' = zeros(n)
      BY <3>1 DEF data
    <3>3. Stored'
      BY <1>1, <2>1, <3>1, <3>2 DEF Stored
    <3> QED
      BY <1>1, <1>2, <3>1, <3>3 DEF AInv, Keeps
<1>5. CASE construct_without(n)
  BY <1>1, <1>2, <1>5 DEF construct_without, AInv, Stored, data, Keeps
<1> QED
  BY <1>3, <1>4, <1>5

LEMMA ResizeAuto ==
  ASSUME AInv, NEW n \in Nat, resize(n)
  PROVE  AInv' /\ Keeps
<1>1. /\ made /\ n > 0 /\ items_' = n /\ UNCHANGED <<made, internal_>>
      /\ data \in Seq(Cells) /\ Len(data) \in Nat /\ items_ \in Nat /\ items_ <= Len(data)
  BY Data DEF resize, AInv
<1>2. CASE needs_block(n)
  <2> DEFINE f == alloc(n, data, items_)
  <2>1. /\ f \in Seq(Cells) /\ Len(f) = n
        /\ \A i \in 1 .. n : i <= items_ => f[i] = data[i]
    BY <1>1, Allocated
  <2>2. /\ buffer_' = "block" /\ external_' = TRUE /\ block' = f
        /\ heap' = (IF external_ THEN dealloc ELSE heap) + 1
    BY <1>2 DEF resize, resize_to_block
  <2>3. heap' = 1
    BY <2>2 DEF dealloc, AInv, Stored
  <2> HIDE DEF f
  <2>4. f # << >>
    BY <1>1, <2>1, EmptySeq
  <2>5. data' = f
    BY <2>2 DEF data
  <2> QED
    BY <1>1, <2>1, <2>2, <2>3, <2>4, <2>5 DEF AInv, Stored, Keeps
<1>3. CASE ~needs_block(n)
  <2>1. UNCHANGED <<external_, buffer_, block, heap>> /\ data' = data
    BY <1>1, <1>3 DEF resize, data
  <2>2. n <= (IF buffer_ = "null" THEN 0 ELSE Len(data))
    BY <1>1, <1>3 DEF needs_block, AInv, Stored, data
  <2> QED
    BY <1>1, <2>1, <2>2 DEF AInv, Stored, Keeps
<1> QED
  BY <1>2, <1>3

LEMMA ResizeToNoneAuto ==
  ASSUME AInv, resize_to_none
  PROVE  AInv' /\ Keeps
<1>1. /\ items_' = 0 /\ UNCHANGED <<made, internal_>> /\ made
      /\ << >> \in Seq(Cells) /\ Len(<< >>) = 0
      /\ Len(internal_) \in Nat /\ Len(data) \in Nat
  BY Data, EmptySeq, LenProperties DEF resize_to_none, AInv
<1>2. Keeps
  BY <1>1 DEF Keeps
<1>3. CASE external_
  <2>1. external_' = FALSE /\ buffer_' = "internal" /\ block' = << >> /\ heap' = 0
    BY <1>3 DEF resize_to_none, dealloc, AInv, Stored
  <2>2. Stored'
    BY <1>1, <2>1 DEF AInv, Stored, data
  <2> QED
    BY <1>1, <1>2, <2>1, <2>2 DEF AInv
<1>4. CASE ~external_
  <2>1. UNCHANGED <<external_, buffer_, block, heap>> /\ data' = data
    BY <1>1, <1>4 DEF resize_to_none, data
  <2> QED
    BY <1>1, <1>2, <1>4, <2>1 DEF AInv, Stored
<1> QED
  BY <1>3, <1>4

LEMMA StoreAuto ==
  ASSUME AInv, NEW i \in Nat, i > 0, NEW v \in Values, store(i, v)
  PROVE  AInv' /\ Keeps
<1>1. /\ made /\ i <= items_ /\ UNCHANGED <<made, buffer_, items_, external_, heap>>
      /\ v \in Cells /\ items_ \in Nat
      /\ data \in Seq(Cells) /\ Len(data) \in Nat /\ items_ <= Len(data)
  BY Data DEF store, AInv, Cells
<1>2. i \in 1 .. Len(data)
  BY <1>1
<1>3. [data EXCEPT ![i] = v] \in Seq(Cells) /\ Len([data EXCEPT ![i] = v]) = Len(data)
  BY <1>1, <1>2, ExceptSeq
<1>4. data' = [data EXCEPT ![i] = v]
  BY <1>1 DEF store, data
<1>5. Keeps
  BY <1>1 DEF Keeps
<1>6. CASE buffer_ = "internal"
  <2>1. internal_' = [data EXCEPT ![i] = v] /\ block' = block /\ Len(data) = N
    BY <1>6 DEF store, data, AInv
  <2> QED
    BY <1>1, <1>3, <1>4, <1>5, <1>6, <2>1 DEF AInv, Stored
<1>7. CASE buffer_ # "internal"
  <2>1. block' = [data EXCEPT ![i] = v] /\ internal_' = internal_ /\ data = block
    BY <1>7 DEF store, data
  <2>2. buffer_ = "block"
    BY <1>1, <1>7 DEF AInv, Stored
  <2>3. block' # << >>
    BY <1>1, <1>2, <1>3, <2>1, EmptySeq
  <2> QED
    BY <1>1, <1>3, <1>4, <1>5, <2>1, <2>2, <2>3 DEF AInv, Stored
<1> QED
  BY <1>6, <1>7

LEMMA DestructAuto ==
  ASSUME AInv, destruct
  PROVE  AInv' /\ Keeps
<1>1. zeros(N) \in Seq(Cells) /\ Len(zeros(N)) = N /\ << >> \in Seq(Cells)
  BY Zeros, EmptySeq
<1>2. /\ made' = FALSE /\ internal_' = zeros(N) /\ block' = << >> /\ buffer_' = "internal"
      /\ items_' = 0 /\ external_' = FALSE /\ heap' = 0
  BY DEF destruct, dealloc, AInv, Stored
<1>3. Stored'
  BY <1>1, <1>2 DEF Stored, data
<1> QED
  BY <1>1, <1>2, <1>3 DEF AInv, Keeps

\* resize keeps the items that both sizes have and no block is lost or given back
\* twice, for any number of items in the object, any sizes asked for and any
\* allocations that fail.
THEOREM ItemsAreKept == AutoSpec => ResizeKeeps
<1>1. AutoInit => AInv
  BY InitAuto
<1>2. AInv /\ [AutoNext]_auto_vars => AInv'
  <2> SUFFICES ASSUME AInv, [AutoNext]_auto_vars PROVE AInv'
    OBVIOUS
  <2>1. CASE UNCHANGED auto_vars
    BY <2>1 DEF auto_vars, AInv, Stored, data
  <2> QED
    BY <2>1, ConstructAuto, ResizeAuto, ResizeToNoneAuto, StoreAuto, DestructAuto DEF AutoNext
<1>3. AInv /\ AInv' /\ [AutoNext]_auto_vars =>
        [/\ Stored'
         /\ made /\ made' /\ items_' # items_ =>
              \A i \in 1 .. items_ : i <= items_' => data'[i] = data[i]]_auto_vars
  <2> SUFFICES ASSUME AInv, AInv', AutoNext PROVE Stored' /\ Keeps
    BY DEF Keeps
  <2>1. Stored'
    BY DEF AInv
  <2>2. Keeps
    BY ConstructAuto, ResizeAuto, ResizeToNoneAuto, StoreAuto, DestructAuto DEF AutoNext
  <2> QED
    BY <2>1, <2>2
<1> QED
  BY <1>1, <1>2, <1>3, PTL DEF AutoSpec, ResizeKeeps

HIDE AutoBufferAssumption

-----------------------------------------------------------------------------
(* The readings of the clocks *)

USE ClocksAssumption

(* Division *)

LEMMA Product ==
  ASSUME NEW d \in Nat, NEW k \in Int, k >= 1
  PROVE  d * k >= d
OBVIOUS

LEMMA ProductMonotonic ==
  ASSUME NEW d \in Nat, NEW a \in Int, NEW b \in Int, a <= b
  PROVE  d * a <= d * b
OBVIOUS

LEMMA Difference ==
  ASSUME NEW d \in Int, NEW a \in Int, NEW b \in Int
  PROVE  d * (a - b) = d * a - d * b
OBVIOUS

\* Quotient and remainder.
LEMMA Quotient ==
  ASSUME NEW d \in Nat, d > 0, NEW a \in Int
  PROVE  /\ a = d * (a \div d) + (a % d)
         /\ a \div d \in Int /\ a % d \in 0 .. d - 1
BY Z3

\* There is only one.
LEMMA OneQuotient ==
  ASSUME NEW d \in Nat, d > 0, NEW a \in Int, NEW q \in Int, NEW r \in 0 .. d - 1,
         a = d * q + r
  PROVE  a \div d = q /\ a % d = r
<1> DEFINE p == a \div d
           s == a % d
<1>1. a = d * p + s /\ p \in Int /\ s \in 0 .. d - 1
  BY Quotient
<1> HIDE DEF p, s
<1>2. d * (p - q) = r - s /\ d * (q - p) = s - r
  <2>1. d * (p - q) = d * p - d * q /\ d * (q - p) = d * q - d * p
    BY <1>1, Difference
  <2>2. d * p \in Int /\ d * q \in Int
    BY <1>1
  <2> QED
    BY <1>1, <2>1, <2>2
<1>3. ~(p - q >= 1)
  <2> SUFFICES ASSUME p - q >= 1 PROVE FALSE
    OBVIOUS
  <2>1. d * (p - q) >= d
    BY <1>1, Product
  <2> QED
    BY <1>1, <1>2, <2>1
<1>4. ~(q - p >= 1)
  <2> SUFFICES ASSUME q - p >= 1 PROVE FALSE
    OBVIOUS
  <2>1. d * (q - p) >= d
    BY <1>1, Product
  <2> QED
    BY <1>1, <1>2, <2>1
<1>5. p = q
  BY <1>1, <1>3, <1>4
<1>6. s = r
  <2>1. d * q \in Int
    OBVIOUS
  <2> QED
    BY <1>1, <1>5, <2>1
<1> QED
  BY <1>5, <1>6 DEF p, s

\* Whole parts come out of the division.
LEMMA WholeParts ==
  ASSUME NEW d \in Nat, d > 0, NEW q \in Int, NEW x \in Int
  PROVE  (q * d + x) \div d = q + x \div d
<1> DEFINE p == x \div d
           r == x % d
           a == q * d + x
<1>1. x = d * p + r /\ p \in Int /\ r \in 0 .. d - 1
  BY Quotient
<1> HIDE DEF p, r
<1>2. q * d + x = d * (q + p) + r
  <2>1. d * (q + p) = q * d + d * p
    BY <1>1
  <2>2. q * d \in Int /\ d * p \in Int
    BY <1>1
  <2> QED
    BY <1>1, <2>1, <2>2
<1>3. a \in Int /\ a = d * (q + p) + r
  BY <1>2
<1> HIDE DEF a
<1>4. a \div d = q + p
  BY <1>1, <1>3, OneQuotient
<1> QED
  BY <1>4 DEF a, p

\* The quotient is the greatest that fits.
LEMMA Greatest ==
  ASSUME NEW d \in Nat, d > 0, NEW a \in Int, NEW q \in Int, d * q <= a
  PROVE  q <= a \div d
<1> DEFINE p == a \div d
           s == a % d
<1>1. a = d * p + s /\ p \in Int /\ s \in 0 .. d - 1
  BY Quotient
<1> HIDE DEF p, s
<1>2. ~(q - p >= 1)
  <2> SUFFICES ASSUME q - p >= 1 PROVE FALSE
    OBVIOUS
  <2>1. d * (q - p) >= d /\ d * (q - p) = d * q - d * p
    BY <1>1, Product, Difference
  <2>2. d * q \in Int /\ d * p \in Int
    BY <1>1
  <2> QED
    BY <1>1, <2>1, <2>2
<1> QED
  BY <1>1, <1>2 DEF p

LEMMA QuotientMonotonic ==
  ASSUME NEW d \in Nat, d > 0, NEW a \in Int, NEW b \in Int, a <= b
  PROVE  a \div d <= b \div d
<1> DEFINE p == a \div d
           s == a % d
<1>1. a = d * p + s /\ p \in Int /\ s \in 0 .. d - 1
  BY Quotient
<1> HIDE DEF p, s
<1>2. d * p <= b
  <2>1. d * p \in Int
    BY <1>1
  <2> QED
    BY <1>1, <2>1
<1> QED
  BY <1>1, <1>2, Greatest DEF p

-----------------------------------------------------------------------------
(* What the conversions compute *)

RoundedUp(t) == (t + Scale - 1) \div Scale
RoundedDown(t) == t \div Scale

\* A timeval holds its microseconds, and its milliseconds are rounded once.
LEMMA Readings ==
  ASSUME NEW t \in Int
  PROVE  LET tv == microseconds_to_timeval(t)
         IN  /\ timeval_to_milliseconds(tv) = RoundedUp(t)
             /\ unix_time_milliseconds(tv) = RoundedDown(t)
             /\ timeval_to_microseconds(tv) = t
             /\ unix_time_microseconds(tv) = t
<1> DEFINE D == Scale * Scale
           a == t \div D
           u == t % D
           tv == microseconds_to_timeval(t)
<1>1. D \in Nat /\ D > 0
  <2>1. D >= Scale
    BY Product
  <2> QED
    BY <2>1
<1>2. tv.tv_sec = a /\ tv.tv_usec = u
  BY DEF microseconds_to_timeval
<1>3. t = D * a + u /\ a \in Int /\ u \in Int
  <2> HIDE DEF D
  <2> QED
    BY <1>1, Quotient
<1> HIDE DEF a, u, tv
<1>4. a * Scale \in Int /\ D * a = (a * Scale) * Scale
  BY <1>3
<1> DEFINE b == a * Scale
<1>5. t = b * Scale + u /\ b \in Int
  BY <1>1, <1>3, <1>4
<1> HIDE DEF D
<1>6. timeval_to_milliseconds(tv) = RoundedUp(t)
  <2>1. timeval_to_milliseconds(tv) = b + (u + Scale - 1) \div Scale
    BY <1>2 DEF timeval_to_milliseconds
  <2> HIDE DEF b
  <2>2. b * Scale \in Int
    BY <1>5
  <2>3. t + Scale - 1 = b * Scale + (u + Scale - 1) /\ u + Scale - 1 \in Int
    BY <1>3, <1>5, <2>2
  <2> QED
    BY <1>5, <2>1, <2>3, WholeParts DEF RoundedUp
<1>7. unix_time_milliseconds(tv) = RoundedDown(t)
  <2>1. unix_time_milliseconds(tv) = b + u \div Scale
    BY <1>2 DEF unix_time_milliseconds
  <2> HIDE DEF b
  <2> QED
    BY <1>3, <1>5, <2>1, WholeParts DEF RoundedDown
<1>8. timeval_to_microseconds(tv) = t /\ unix_time_microseconds(tv) = t
  <2>1. /\ timeval_to_microseconds(tv) = b * Scale + u
        /\ unix_time_microseconds(tv) = b * Scale + u
    BY <1>2 DEF timeval_to_microseconds, unix_time_microseconds
  <2> QED
    BY <1>5, <2>1
<1> QED
  BY <1>6, <1>7, <1>8 DEF tv

\* The two roundings are one apart at most.
LEMMA Apart ==
  ASSUME NEW t \in Int
  PROVE  /\ RoundedUp(t) \in Int /\ RoundedDown(t) \in Int
         /\ RoundedDown(t) <= RoundedUp(t) /\ RoundedUp(t) <= RoundedDown(t) + 1
<1>1. RoundedUp(t) \in Int /\ RoundedDown(t) \in Int
  BY Quotient DEF RoundedUp, RoundedDown
<1>2. RoundedDown(t) <= RoundedUp(t)
  BY QuotientMonotonic DEF RoundedUp, RoundedDown
<1>3. RoundedUp(t) <= (1 * Scale + t) \div Scale
  BY QuotientMonotonic DEF RoundedUp
<1>4. (1 * Scale + t) \div Scale = 1 + RoundedDown(t)
  BY WholeParts DEF RoundedDown
<1> QED
  BY <1>1, <1>2, <1>3, <1>4

\* Neither goes back while the clock goes on.
LEMMA Later ==
  ASSUME NEW t \in Int, NEW s \in Int, t <= s
  PROVE  RoundedUp(t) <= RoundedUp(s) /\ RoundedDown(t) <= RoundedDown(s)
BY QuotientMonotonic DEF RoundedUp, RoundedDown

\* Whole milliseconds come back from a timeval as they were.
LEMMA WholeMilliseconds ==
  ASSUME NEW ms \in Int
  PROVE  LET tv == milliseconds_to_timeval(ms)
         IN  timeval_to_milliseconds(tv) = ms /\ unix_time_milliseconds(tv) = ms
<1> DEFINE tv == milliseconds_to_timeval(ms)
           a == ms \div Scale
           k == ms % Scale
<1>1. ms = Scale * a + k /\ a \in Int /\ k \in Int
  BY Quotient
<1>2. tv.tv_sec = a /\ tv.tv_usec = k * Scale
  BY DEF milliseconds_to_timeval
<1> HIDE DEF a, k, tv
<1>3. (Scale - 1) \div Scale = 0 /\ 0 \div Scale = 0
  <2>1. Scale - 1 \in 0 .. Scale - 1 /\ Scale - 1 = Scale * 0 + (Scale - 1)
        /\ 0 \in 0 .. Scale - 1 /\ 0 = Scale * 0 + 0 /\ Scale - 1 \in Int
    OBVIOUS
  <2> QED
    BY <2>1, OneQuotient
<1>4. (k * Scale + Scale - 1) \div Scale = k
  <2>1. k * Scale + Scale - 1 = k * Scale + (Scale - 1) /\ Scale - 1 \in Int
    BY <1>1
  <2>2. (k * Scale + (Scale - 1)) \div Scale = k + (Scale - 1) \div Scale
    BY <1>1, <2>1, WholeParts
  <2> QED
    BY <1>1, <1>3, <2>1, <2>2
<1>5. (k * Scale) \div Scale = k
  <2>1. k * Scale = k * Scale + 0
    BY <1>1
  <2>2. (k * Scale + 0) \div Scale = k + 0 \div Scale
    BY <1>1, WholeParts
  <2> QED
    BY <1>1, <1>3, <2>1, <2>2
<1>6. timeval_to_milliseconds(tv) = a * Scale + k
  BY <1>2, <1>4 DEF timeval_to_milliseconds
<1>7. unix_time_milliseconds(tv) = a * Scale + k
  BY <1>2, <1>5 DEF unix_time_milliseconds
<1>8. a * Scale + k = ms
  BY <1>1
<1> QED
  BY <1>6, <1>7, <1>8 DEF tv

-----------------------------------------------------------------------------
(* The clocks *)

\* While nobody sets the system's clock it is as far from the steady clock as it
\* was when a timer was started or stopped.
CInv ==
  /\ now \in Nat \ {0} /\ steady \in Nat /\ adjusted \in BOOLEAN
  /\ stamp \in [ms : Int, up : BOOLEAN]
  /\ timer \in [start_ : Nat, end_ : Nat]
  /\ timer.start_ <= timer.end_ /\ timer.end_ <= steady
  /\ micro \in [tb_ : Nat, te_ : Nat] /\ span \in [from : Nat, to : Nat]
  /\ ~adjusted =>
       /\ stamp.ms <= RoundedUp(now)
       /\ stamp.ms <= (IF stamp.up THEN RoundedDown(now) + 1 ELSE RoundedDown(now))
       /\ micro.tb_ # 0 => micro.tb_ - span.from = now - steady
       /\ micro.te_ # 0 => micro.te_ - span.to = now - steady

LEMMA InitClocks == ClocksInit => CInv
<1> SUFFICES ASSUME ClocksInit PROVE CInv
  OBVIOUS
<1>1. now \in Nat \ {0} /\ now \in Int
  BY DEF ClocksInit
<1>2. 0 <= RoundedDown(now)
  <2>1. Scale * 0 <= now
    BY <1>1
  <2> QED
    BY <1>1, <2>1, Greatest DEF RoundedDown
<1>3. 0 <= RoundedUp(now)
  BY <1>1, <1>2, Apart
<1> QED
  <2>1. stamp.ms = 0 /\ stamp.up = FALSE /\ stamp \in [ms : Int, up : BOOLEAN]
    BY DEF ClocksInit
  <2>2. /\ timer \in [start_ : Nat, end_ : Nat] /\ timer.start_ = 0 /\ timer.end_ = 0
        /\ micro \in [tb_ : Nat, te_ : Nat] /\ micro.tb_ = 0 /\ micro.te_ = 0
        /\ span \in [from : Nat, to : Nat] /\ steady = 0 /\ adjusted = FALSE
    BY DEF ClocksInit
  <2>3. stamp.ms <= RoundedUp(now) /\ stamp.ms <= RoundedDown(now)
    BY <1>2, <1>3, <2>1
  <2>4. (IF stamp.up THEN RoundedDown(now) + 1 ELSE RoundedDown(now)) = RoundedDown(now)
    BY <2>1
  <2>5. timer.start_ <= timer.end_ /\ timer.end_ <= steady /\ steady \in Nat
    BY <2>2
  <2>6. adjusted \in BOOLEAN
    BY <2>2
  <2> QED
    BY <1>1, <2>1, <2>2, <2>3, <2>4, <2>5, <2>6 DEF CInv

LEMMA StepClocks == CInv /\ [ClocksNext]_clock_vars => CInv'
<1> SUFFICES ASSUME CInv, [ClocksNext]_clock_vars PROVE CInv'
  OBVIOUS
<1>0. /\ now \in Nat \ {0} /\ now \in Int /\ steady \in Nat /\ adjusted \in BOOLEAN
      /\ RoundedUp(now) \in Int /\ RoundedDown(now) \in Int
  BY Apart DEF CInv
<1>1. CASE Pass
  <2>1. /\ now' = now + 1 /\ steady' = steady + 1
        /\ UNCHANGED <<stamp, adjusted, timer, micro, span>>
    BY <1>1 DEF Pass
  <2>2. /\ now + 1 \in Int /\ RoundedUp(now) <= RoundedUp(now + 1)
        /\ RoundedDown(now) <= RoundedDown(now + 1)
        /\ RoundedUp(now + 1) \in Int /\ RoundedDown(now + 1) \in Int
    BY <1>0, Later, Apart
  <2>3. ~adjusted' =>
          /\ stamp'.ms <= RoundedUp(now')
          /\ stamp'.ms <= (IF stamp'.up THEN RoundedDown(now') + 1 ELSE RoundedDown(now'))
    BY <1>0, <2>1, <2>2 DEF CInv
  <2>4. ~adjusted' =>
          /\ micro'.tb_ # 0 => micro'.tb_ - span'.from = now' - steady'
          /\ micro'.te_ # 0 => micro'.te_ - span'.to = now' - steady'
    BY <1>0, <2>1 DEF CInv
  <2>5. /\ now' \in Nat \ {0} /\ steady' \in Nat
        /\ timer'.start_ <= timer'.end_ /\ timer'.end_ <= steady'
    BY <1>0, <2>1 DEF CInv
  <2>6. RoundedUp(now)' = RoundedUp(now') /\ RoundedDown(now)' = RoundedDown(now')
    BY DEF RoundedUp, RoundedDown
  <2> QED
    BY <2>1, <2>3, <2>4, <2>5, <2>6 DEF CInv
<1>2. ASSUME NEW t \in 1 .. MaxTime, Adjust(t) PROVE CInv'
  BY <1>2 DEF Adjust, CInv
<1>3. ASSUME NEW up \in BOOLEAN, read_clock(up) PROVE CInv'
  <2>1. UNCHANGED <<now, steady, adjusted, timer, micro, span>>
    BY <1>3 DEF read_clock
  <2>2. stamp' = [up |-> up, ms |-> IF up THEN RoundedUp(now) ELSE RoundedDown(now)]
    BY <1>0, <1>3, Readings DEF read_clock, gettimeofday
  <2>3. /\ stamp' \in [ms : Int, up : BOOLEAN] /\ stamp'.up = up
        /\ stamp'.ms = IF up THEN RoundedUp(now) ELSE RoundedDown(now)
    BY <1>0, <2>2
  <2>4. /\ stamp'.ms <= RoundedUp(now)
        /\ stamp'.ms <= (IF stamp'.up THEN RoundedDown(now) + 1 ELSE RoundedDown(now))
    BY <1>0, <2>3, Apart
  <2>5. RoundedUp(now)' = RoundedUp(now) /\ RoundedDown(now)' = RoundedDown(now)
    BY <2>1 DEF RoundedUp, RoundedDown
  <2> QED
    BY <2>1, <2>3, <2>4, <2>5 DEF CInv
<1>4. CASE reset
  BY <1>0, <1>4 DEF reset, CInv, RoundedUp, RoundedDown
<1>5. CASE stop
  BY <1>0, <1>5 DEF stop, CInv, RoundedUp, RoundedDown
<1>6. CASE Start
  <2>1. /\ micro' = [tb_ |-> now, te_ |-> 0] /\ span' = [from |-> steady, to |-> steady]
        /\ UNCHANGED <<now, steady, stamp, adjusted, timer>>
    BY <1>0, <1>6, Readings DEF Start, gettimeofday
  <2>2. RoundedUp(now)' = RoundedUp(now) /\ RoundedDown(now)' = RoundedDown(now)
    BY <2>1 DEF RoundedUp, RoundedDown
  <2> QED
    BY <1>0, <2>1, <2>2 DEF CInv
<1>7. CASE Stop
  <2>1. /\ micro' = [micro EXCEPT !.te_ = now] /\ span' = [span EXCEPT !.to = steady]
        /\ UNCHANGED <<now, steady, stamp, adjusted, timer>>
    BY <1>0, <1>7, Readings DEF Stop, gettimeofday
  <2>2. RoundedUp(now)' = RoundedUp(now) /\ RoundedDown(now)' = RoundedDown(now)
    BY <2>1 DEF RoundedUp, RoundedDown
  <2> QED
    BY <1>0, <2>1, <2>2 DEF CInv
<1>8. CASE UNCHANGED clock_vars
  BY <1>8 DEF clock_vars, CInv, RoundedUp, RoundedDown
<1> QED
  BY <1>1, <1>2, <1>3, <1>4, <1>5, <1>6, <1>7, <1>8 DEF ClocksNext

\* Division by a unit loses less than the unit, also one unit after the other.
LEMMA Truncated ==
  ASSUME NEW d \in Nat, d > 0, NEW x \in Int
  PROVE  (x \div d) * d <= x /\ (x \div (d * d)) * d <= x \div d
<1> DEFINE p == x \div d
           r == x % d
           D == d * d
           q == x \div D
           s == x % D
<1>1. D \in Nat /\ D > 0
  <2>1. D >= d
    BY Product
  <2> QED
    BY <2>1
<1>2. p \in Int /\ p * d <= x
  <2>1. x = d * p + r /\ p \in Int /\ r \in 0 .. d - 1
    BY Quotient
  <2> HIDE DEF p, r
  <2>2. d * p \in Int /\ p * d = d * p
    BY <2>1
  <2> QED
    BY <2>1, <2>2
<1>3. q \in Int /\ D * q <= x
  <2> HIDE DEF D
  <2>1. x = D * q + s /\ q \in Int /\ s \in 0 .. D - 1
    BY <1>1, Quotient
  <2> HIDE DEF q, s
  <2>2. D * q \in Int
    BY <1>1, <2>1
  <2> QED
    BY <1>1, <2>1, <2>2
<1> HIDE DEF q
<1>4. d * (q * d) <= x /\ q * d \in Int
  <2>1. d * (q * d) = D * q
    BY <1>3
  <2> QED
    BY <1>3, <2>1
<1>5. q * d <= p
  <2> DEFINE m == q * d
  <2>1. m \in Int /\ d * m <= x
    BY <1>4
  <2> HIDE DEF m
  <2>2. m <= x \div d
    BY <2>1, Greatest
  <2> QED
    BY <2>2 DEF m
<1> QED
  BY <1>2, <1>5 DEF q

\* What the clocks tell agrees with the time that passed, whatever a second is
\* divided into and however often the system's clock is set.
THEOREM ClocksAgree == ClocksSpec => []ReadingsAgree
<1>1. CInv => ReadingsAgree
  <2> SUFFICES ASSUME CInv PROVE ReadingsAgree
    OBVIOUS
  <2> DEFINE up == timeval_to_milliseconds(gettimeofday)
             down == unix_time_milliseconds(gettimeofday)
             x == timer.end_ - timer.start_
  <2>1. now \in Int /\ up = RoundedUp(now) /\ down = RoundedDown(now)
        /\ timeval_to_microseconds(gettimeofday) = now
    BY Readings DEF CInv, gettimeofday
  <2>2. up \in Int /\ down \in Int
    BY <2>1, Apart
  <2>3. ~adjusted => stamp.ms <= up /\ stamp.ms <= (IF stamp.up THEN down + 1 ELSE down)
    BY <2>1 DEF CInv
  <2> HIDE DEF up, down
  <2>4. ~adjusted /\ micro.tb_ # 0 /\ micro.te_ # 0 => Delta = span.to - span.from
    BY DEF CInv, Delta
  <2>5. micro.te_ = 0 => Delta <= 0
    BY DEF CInv, Delta
  <2>6. x \in 0 .. steady - timer.start_ /\ x \in Int
    BY DEF CInv
  <2>7. cost(1) = x
    <3> HIDE DEF x
    <3>1. x = 1 * x + 0 /\ 0 \in 0 .. 1 - 1 /\ 1 \in Nat
      BY <2>6
    <3>2. x \div 1 = x
      BY <2>6, <3>1, OneQuotient
    <3> QED
      BY <3>2 DEF cost, x
  <2>8. cost(Scale) * Scale <= x /\ cost(Scale * Scale) * Scale <= cost(Scale)
    <3> HIDE DEF x
    <3>1. (x \div Scale) * Scale <= x /\ (x \div (Scale * Scale)) * Scale <= x \div Scale
      <4>1. x \in Int /\ Scale \in Nat /\ Scale > 0
        BY <2>6
      <4> QED
        BY ONLY <4>1, Truncated
    <3> QED
      BY <3>1 DEF cost, x
  <2>9. \A ms \in {up, down} :
          LET tv == milliseconds_to_timeval(ms)
          IN  timeval_to_milliseconds(tv) = ms /\ unix_time_milliseconds(tv) = ms
    BY <2>2, WholeMilliseconds
  <2> QED
    BY <2>1, <2>3, <2>4, <2>5, <2>6, <2>7, <2>8, <2>9 DEF ReadingsAgree, up, down
<1> QED
  BY <1>1, InitClocks, StepClocks, PTL DEF ClocksSpec

HIDE ClocksAssumption

-----------------------------------------------------------------------------
(* split and str_split: induction, over sets of numbers *)

\* A set of numbers has a least one.
LEMMA LeastNumber ==
  ASSUME NEW T, T \subseteq Nat, T # {}
  PROVE  \E x \in T : \A y \in T : x <= y
<1> DEFINE R == OpToRel(<, Nat)
<1>1. IsWellFoundedOn(R, Nat)
  BY NatLessThanWellFounded
<1>2. \A x, y \in Nat : x < y => <<x, y>> \in R
  BY DEF OpToRel
<1> HIDE DEF R
<1>3. \E x \in T : \A y \in T : ~(<<y, x>> \in R)
  BY <1>1, WFMin
<1>4. PICK x \in T : \A y \in T : ~(<<y, x>> \in R)
  BY <1>3
<1>5. \A y \in T : x <= y
  <2> SUFFICES ASSUME NEW y \in T PROVE x <= y
    OBVIOUS
  <2>1. ~(y < x) /\ x \in Nat /\ y \in Nat
    BY <1>2, <1>4
  <2> QED
    BY <2>1
<1> QED
  BY <1>5

\* What holds of 0 and goes on from each number to the next holds of all: the set is
\* of those it holds of.
LEMMA FromZero ==
  ASSUME NEW S, 0 \in S, \A n \in Nat : n \in S => n + 1 \in S
  PROVE  \A n \in Nat : n \in S
<1> DEFINE T == {n \in Nat : n \notin S}
<1> SUFFICES ASSUME T # {} PROVE FALSE
  OBVIOUS
<1>1. \E x \in T : \A y \in T : x <= y
  <2>1. T \subseteq Nat
    OBVIOUS
  <2> HIDE DEF T
  <2> QED
    BY <2>1, LeastNumber
<1>2. PICK x \in T : \A y \in T : x <= y
  BY <1>1
<1>3. x \in Nat /\ x \notin S /\ x # 0
  BY <1>2
<1>4. x - 1 \in Nat /\ (x - 1) + 1 = x /\ ~(x <= x - 1)
  BY <1>3
<1>5. x - 1 \notin T
  BY <1>2, <1>4
<1>6. x - 1 \in S
  BY <1>4, <1>5
<1> QED
  BY <1>3, <1>4, <1>6

\* f starts with v and goes on by h.
FollowsFrom(f, n, V, v, h) ==
  f \in [0 .. n -> V] /\ f[0] = v /\ \A i \in 1 .. n : f[i] = h[i][f[i - 1]]

\* A function may be defined by what follows from its value before.
LEMMA StepByStep ==
  ASSUME NEW n \in Nat, NEW V, NEW v \in V, NEW h \in [1 .. n -> [V -> V]]
  PROVE  \E f : FollowsFrom(f, n, V, v, h)
<1> DEFINE Is(f, m) == \A i \in 0 .. m : f[i] = IF i = 0 THEN v ELSE h[i][f[i - 1]]
           S == {m \in Nat : m <= n => \E f \in [0 .. m -> V] : Is(f, m)}
<1>1. 0 \in S
  <2> DEFINE f == [i \in 0 .. 0 |-> v]
  <2>1. f \in [0 .. 0 -> V] /\ Is(f, 0)
    OBVIOUS
  <2> HIDE DEF f, Is
  <2> QED
    BY <2>1
<1>2. ASSUME NEW m \in Nat, m \in S PROVE m + 1 \in S
  <2> SUFFICES ASSUME m + 1 <= n PROVE \E f \in [0 .. m + 1 -> V] : Is(f, m + 1)
    OBVIOUS
  <2>1. PICK f \in [0 .. m -> V] : Is(f, m)
    BY <1>2
  <2> DEFINE g == [i \in 0 .. m + 1 |-> IF i <= m THEN f[i] ELSE h[m + 1][f[m]]]
  <2>2. h[m + 1][f[m]] \in V
    <3>1. m + 1 \in 1 .. n /\ f[m] \in V
      OBVIOUS
    <3>2. h[m + 1] \in [V -> V]
      BY <3>1
    <3> QED
      BY <3>1, <3>2
  <2>3. g \in [0 .. m + 1 -> V]
    BY <2>2
  <2>4. ASSUME NEW i \in 0 .. m + 1
        PROVE  g[i] = IF i = 0 THEN v ELSE h[i][g[i - 1]]
    <3>1. CASE i \in 0 .. m
      BY <2>1, <3>1
    <3>2. CASE i = m + 1
      <4>1. g[m + 1] = h[m + 1][f[m]] /\ g[m] = f[m] /\ (m + 1) - 1 = m /\ m + 1 # 0
        OBVIOUS
      <4> HIDE DEF g
      <4> QED
        BY <3>2, <4>1
    <3> QED
      BY <3>1, <3>2
  <2> HIDE DEF g
  <2> QED
    BY <2>3, <2>4
<1> HIDE DEF S
<1>3. \A m \in Nat : m \in S
  BY <1>1, <1>2, FromZero
<1>4. \E f \in [0 .. n -> V] : Is(f, n)
  BY <1>3 DEF S
<1>5. PICK f \in [0 .. n -> V] : Is(f, n)
  BY <1>4
<1> QED
  BY <1>5 DEF FollowsFrom

-----------------------------------------------------------------------------
(* Texts *)

\* The characters of arguments and of texts.
Characters == Chars \cup Letters

Str == Seq(Characters)

LEMMA Concat ==
  ASSUME NEW a \in Str, NEW b \in Str
  PROVE  /\ a \o b \in Str /\ a \o << >> = a /\ << >> \o a = a
         /\ Len(a \o b) = Len(a) + Len(b)
BY ConcatProperties, ConcatEmptySeq DEF Str

\* The order of concatenation does not matter; named, for the provers cite it better
\* so.
Associates(a, b, c) == (a \o b) \o c = a \o (b \o c)

LEMMA Regroup ==
  ASSUME NEW a \in Str, NEW b \in Str, NEW c \in Str
  PROVE  Associates(a, b, c)
BY ConcatAssociative, SMT DEF Associates, Str

\* How JoinMore regroups what it joins.
Regrouped(p, q, x, y) == ((p \o (q \o x)) \o q) \o y = p \o (q \o ((x \o q) \o y))

LEMMA RegroupAll ==
  ASSUME NEW p \in Str, NEW q \in Str, NEW x \in Str, NEW y \in Str
  PROVE  Regrouped(p, q, x, y)
<1> DEFINE a == q \o x
           b == x \o q
           d == a \o q
<1>1. a \in Str /\ b \in Str
  BY Concat
<1>2. Associates(q, x, q)
  BY Regroup
<1> HIDE DEF a, b
<1>3. d \in Str
  BY <1>1, Concat
<1>4. Associates(p, a, q)
  BY <1>1, Regroup
<1> HIDE DEF d
<1>5. Associates(p, d, y)
  BY <1>3, Regroup
<1>6. Associates(q, b, y)
  BY <1>1, Regroup
<1>7. ((p \o a) \o q) \o y = p \o (q \o (b \o y))
  <2>1. d = q \o b
    BY <1>2 DEF Associates, a, b, d
  <2>2. (p \o a) \o q = p \o d
    BY <1>4 DEF Associates, d
  <2>3. (p \o d) \o y = p \o (d \o y) /\ (q \o b) \o y = q \o (b \o y)
    BY <1>5, <1>6 DEF Associates
  <2> QED
    BY <2>1, <2>2, <2>3
<1> QED
  BY <1>7 DEF Regrouped, a, b

\* A part of a text.
LEMMA Part ==
  ASSUME NEW s \in Str, NEW i \in 1 .. Len(s) + 1, NEW j \in 0 .. Len(s), i <= j + 1
  PROVE  /\ SubSeq(s, i, j) \in Str /\ Len(SubSeq(s, i, j)) = j + 1 - i
         /\ \A h \in 1 .. j + 1 - i : SubSeq(s, i, j)[h] = s[i + h - 1]
<1>1. Len(s) \in Nat /\ \A h \in 1 .. Len(s) : s[h] \in Characters
  BY LenProperties, ElementOfSeq DEF Str
<1>2. \A h \in i .. j : s[h] \in Characters
  BY <1>1
<1>3. /\ SubSeq(s, i, j) \in Seq(Characters)
      /\ Len(SubSeq(s, i, j)) = IF i <= j THEN j - i + 1 ELSE 0
      /\ \A h \in 1 .. j - i + 1 : SubSeq(s, i, j)[h] = s[i + h - 1]
  BY <1>1, <1>2, SubSeqProperties
<1> QED
  BY <1>1, <1>3 DEF Str

\* Two parts of a text with the character between them.
LEMMA Around ==
  ASSUME NEW s \in Str, NEW i \in 1 .. Len(s) + 1, NEW j \in i .. Len(s),
         NEW k \in j .. Len(s)
  PROVE  (SubSeq(s, i, j - 1) \o <<s[j]>>) \o SubSeq(s, j + 1, k) = SubSeq(s, i, k)
<1>1. Len(s) \in Nat /\ s \in Seq(Characters) /\ s[j] \in Characters
  BY LenProperties, ElementOfSeq DEF Str
<1>2. SubSeq(s, i, j - 1) \o SubSeq(s, j, j) = SubSeq(s, i, j)
  <2>1. j - 1 \in i - 1 .. Len(s) /\ j \in j - 1 .. Len(s) /\ (j - 1) + 1 = j
    BY <1>1
  <2>2. SubSeq(s, i, j - 1) \o SubSeq(s, (j - 1) + 1, j) = SubSeq(s, i, j)
    BY <1>1, <2>1, ConcatAdjacentSubSeq
  <2> QED
    BY <2>1, <2>2
<1>3. SubSeq(s, j, j) = <<s[j]>>
  <2> DEFINE p == SubSeq(s, j, j)
             q == <<s[j]>>
  <2>1. p \in Seq(Characters) /\ Len(p) = 1 /\ p[1] = s[j]
    BY <1>1, Part DEF Str
  <2>2. q \in Seq(Characters) /\ Len(q) = 1 /\ q[1] = s[j]
    BY <1>1
  <2> HIDE DEF p, q
  <2>3. \A h \in 1 .. Len(p) : p[h] = q[h]
    BY <2>1, <2>2
  <2>4. p = q
    BY <2>1, <2>2, <2>3, SeqEqual
  <2> QED
    BY <2>4 DEF p, q
<1>4. SubSeq(s, i, j) \o SubSeq(s, j + 1, k) = SubSeq(s, i, k)
  <2>1. j \in i - 1 .. Len(s)
    BY <1>1
  <2> QED
    BY <1>1, <2>1, ConcatAdjacentSubSeq
<1> QED
  BY <1>2, <1>3, <1>4

-----------------------------------------------------------------------------
(* find *)

\* find gives the first place of c from i on, or the end.
LEMMA FindFirst ==
  ASSUME NEW s \in Str, NEW i \in 1 .. Len(s) + 1, NEW c
  PROVE  /\ find(s, i, c) \in i .. Len(s) + 1
         /\ find(s, i, c) <= Len(s) => s[find(s, i, c)] = c
         /\ \A h \in i .. find(s, i, c) - 1 : s[h] # c
<1> DEFINE n == Len(s)
           Is(j) == j = n + 1 \/ s[j] = c
           T == {j \in i .. n + 1 : Is(j)}
<1>1. n \in Nat
  BY LenProperties DEF Str
<1>2. T \subseteq Nat /\ n + 1 \in T
  BY <1>1
<1>3. PICK x \in T : \A y \in T : x <= y
  <2> HIDE DEF T
  <2> QED
    BY <1>2, LeastNumber
<1>4. x \in i .. n + 1 /\ Is(x) /\ \A h \in i .. x - 1 : s[h] # c
  <2>1. x \in i .. n + 1 /\ Is(x)
    OBVIOUS
  <2>2. ASSUME NEW h \in i .. x - 1, s[h] = c PROVE FALSE
    <3>1. h \in i .. n + 1 /\ ~(x <= h)
      BY <1>1, <2>1
    <3>2. h \in T
      BY <2>2, <3>1
    <3> QED
      BY <1>3, <3>1, <3>2
  <2> QED
    BY <2>1, <2>2
<1> DEFINE First(j) == (j = n + 1 \/ s[j] = c) /\ \A h \in i .. j - 1 : s[h] # c
<1>5. \E j \in i .. n + 1 : First(j)
  BY <1>4
<1>6. find(s, i, c) = CHOOSE j \in i .. n + 1 : First(j)
  BY DEF find
<1> HIDE DEF First
<1>7. find(s, i, c) \in i .. n + 1 /\ First(find(s, i, c))
  BY <1>5, <1>6
<1> QED
  BY <1>1, <1>7 DEF First

-----------------------------------------------------------------------------
(* The cuts of split_impl *)

\* What cuts gives, place by place.
LEMMA Cuts ==
  ASSUME NEW s \in Str, NEW c, NEW k \in Nat \ {0}
  PROVE  /\ cuts(s, c, k) \in [0 .. k -> 0 .. Len(s) + 1]
         /\ cuts(s, c, k)[0] = 0
         /\ \A i \in 1 .. k : cuts(s, c, k)[i] =
              IF i = k \/ cuts(s, c, k)[i - 1] > Len(s) THEN Len(s) + 1
              ELSE find(s, cuts(s, c, k)[i - 1] + 1, c)
<1> DEFINE n == Len(s)
           V == 0 .. n + 1
           h == [i \in 1 .. k |-> [x \in V |-> IF i = k \/ x > n THEN n + 1
                                               ELSE find(s, x + 1, c)]]
           Is(f) == f = [i \in 0 .. k |-> IF i = 0 THEN 0
                                          ELSE IF i = k \/ f[i - 1] > n THEN n + 1
                                          ELSE find(s, f[i - 1] + 1, c)]
<1>1. n \in Nat /\ 0 \in V
  BY LenProperties DEF Str
<1>2. h \in [1 .. k -> [V -> V]]
  <2> SUFFICES ASSUME NEW i \in 1 .. k, NEW x \in V
               PROVE  (IF i = k \/ x > n THEN n + 1 ELSE find(s, x + 1, c)) \in V
    OBVIOUS
  <2>1. CASE i = k \/ x > n
    BY <1>1, <2>1
  <2>2. CASE ~(i = k \/ x > n)
    <3>1. x + 1 \in 1 .. n + 1
      BY <1>1, <2>2
    <3>2. find(s, x + 1, c) \in x + 1 .. n + 1
      BY <3>1, FindFirst
    <3> QED
      BY <1>1, <2>2, <3>2
  <2> QED
    BY <2>1, <2>2
<1>3. PICK f \in [0 .. k -> V] : f[0] = 0 /\ \A i \in 1 .. k : f[i] = h[i][f[i - 1]]
  <2> HIDE DEF V, h
  <2>1. k \in Nat
    OBVIOUS
  <2>2. \E f : FollowsFrom(f, k, V, 0, h)
    BY ONLY <1>1, <1>2, <2>1, StepByStep
  <2> QED
    BY <2>2 DEF FollowsFrom
<1>4. \A i \in 1 .. k : h[i][f[i - 1]] = IF i = k \/ f[i - 1] > n THEN n + 1
                                         ELSE find(s, f[i - 1] + 1, c)
  <2> SUFFICES ASSUME NEW i \in 1 .. k
               PROVE  h[i][f[i - 1]] = IF i = k \/ f[i - 1] > n THEN n + 1
                                       ELSE find(s, f[i - 1] + 1, c)
    OBVIOUS
  <2>1. i - 1 \in 0 .. k
    OBVIOUS
  <2>2. f[i - 1] \in V
    BY <2>1
  <2> QED
    BY <2>2
<1>5. Is(f)
  <2> HIDE DEF h
  <2>1. \A i \in 0 .. k : f[i] = IF i = 0 THEN 0
                                  ELSE IF i = k \/ f[i - 1] > n THEN n + 1
                                  ELSE find(s, f[i - 1] + 1, c)
    <3>1. \A i \in 0 .. k : i # 0 => i \in 1 .. k
      OBVIOUS
    <3> QED
      BY <1>3, <1>4, <3>1
  <2>2. f = [i \in 0 .. k |-> f[i]]
    OBVIOUS
  <2> QED
    BY <2>1, <2>2
<1>6. cuts(s, c, k) = CHOOSE cut : Is(cut)
  BY DEF cuts
<1> DEFINE cut == cuts(s, c, k)
<1> HIDE DEF h
<1>7. Is(cut)
  <2> HIDE DEF Is
  <2> QED
    BY <1>5, <1>6
<1> HIDE DEF cut
<1>8. cut[0] = 0 /\ \A i \in 1 .. k : cut[i] = IF i = k \/ cut[i - 1] > n THEN n + 1
                                               ELSE find(s, cut[i - 1] + 1, c)
  BY <1>7
<1>9. \A i \in Nat : i \in {j \in Nat : j <= k => cut[j] \in V}
  <2> DEFINE S == {j \in Nat : j <= k => cut[j] \in V}
  <2>1. 0 \in S
    BY <1>1, <1>8
  <2>2. ASSUME NEW i \in Nat, i \in S PROVE i + 1 \in S
    <3> SUFFICES ASSUME i + 1 <= k PROVE cut[i + 1] \in V
      OBVIOUS
    <3>1. cut[i] \in V /\ i + 1 \in 1 .. k /\ (i + 1) - 1 = i
      BY <2>2
    <3>2. cut[i + 1] = IF i + 1 = k \/ cut[i] > n THEN n + 1 ELSE find(s, cut[i] + 1, c)
      BY <1>8, <3>1
    <3>3. CASE i + 1 = k \/ cut[i] > n
      BY <1>1, <3>2, <3>3
    <3>4. CASE ~(i + 1 = k \/ cut[i] > n)
      <4>1. cut[i] + 1 \in 1 .. n + 1
        BY <1>1, <3>1, <3>4
      <4>2. find(s, cut[i] + 1, c) \in cut[i] + 1 .. n + 1
        BY <4>1, FindFirst
      <4> QED
        BY <1>1, <3>1, <3>2, <3>4, <4>2
    <3> QED
      BY <3>3, <3>4
  <2> HIDE DEF S
  <2>3. \A i \in Nat : i \in S
    BY <2>1, <2>2, FromZero
  <2> QED
    BY <2>3 DEF S
<1>10. cut \in [0 .. k -> V]
  <2>1. DOMAIN cut = 0 .. k /\ cut = [i \in 0 .. k |-> cut[i]]
    BY <1>7
  <2>2. \A i \in 0 .. k : cut[i] \in V
    BY <1>9
  <2> HIDE DEF V, Is
  <2> QED
    BY <2>1, <2>2
<1> QED
  BY <1>8, <1>10 DEF cut

\* The cuts are at the first delimiters, m of them, and then at the end.
AtDelimiters(cut, m, s, c, k) ==
  /\ \A i \in 1 .. m : cut[i] \in cut[i - 1] + 1 .. Len(s) /\ s[cut[i]] = c
  /\ \A i \in m + 1 .. k : cut[i] = Len(s) + 1
  /\ \A i \in 1 .. k - 1 : \A h \in cut[i - 1] + 1 .. cut[i] - 1 : s[h] # c

LEMMA Delimiters ==
  ASSUME NEW s \in Str, NEW c, NEW k \in Nat \ {0}
  PROVE  \E m \in 0 .. k - 1 : AtDelimiters(cuts(s, c, k), m, s, c, k)
<1> DEFINE cut == cuts(s, c, k)
           n == Len(s)
           T == {i \in 1 .. k : cut[i] > n}
<1>1. n \in Nat /\ k \in Nat /\ k >= 1
  BY LenProperties DEF Str
<1>2. /\ \A i \in 0 .. k : cut[i] \in 0 .. n + 1
      /\ cut[0] = 0
      /\ \A i \in 1 .. k : cut[i] = IF i = k \/ cut[i - 1] > n THEN n + 1
                                    ELSE find(s, cut[i - 1] + 1, c)
  BY Cuts
<1> HIDE DEF cut
<1>3. PICK x \in T : \A y \in T : x <= y
  <2>1. k \in T /\ T \subseteq Nat
    BY <1>1, <1>2
  <2> HIDE DEF T
  <2> QED
    BY <2>1, LeastNumber
<1>4. x \in 1 .. k /\ cut[x] > n /\ \A i \in 1 .. x - 1 : cut[i] <= n
  <2>1. x \in 1 .. k /\ cut[x] > n
    OBVIOUS
  <2>2. ASSUME NEW i \in 1 .. x - 1, ~(cut[i] <= n) PROVE FALSE
    <3>1. i \in 1 .. k /\ cut[i] \in 0 .. n + 1 /\ ~(x <= i)
      BY <1>1, <1>2, <2>1
    <3>2. i \in T
      BY <1>1, <2>2, <3>1
    <3> QED
      BY <1>3, <3>1, <3>2
  <2> QED
    BY <2>1, <2>2
<1> HIDE DEF T
<1>5. x - 1 \in 0 .. k - 1 /\ (x - 1) + 1 = x /\ x \in Nat
  BY <1>1, <1>4
<1>6. ASSUME NEW i \in 1 .. k, i # k, cut[i - 1] <= n
      PROVE  /\ cut[i] \in cut[i - 1] + 1 .. n + 1
             /\ cut[i] <= n => s[cut[i]] = c
             /\ \A h \in cut[i - 1] + 1 .. cut[i] - 1 : s[h] # c
  <2>1. i - 1 \in 0 .. k /\ cut[i - 1] \in 0 .. n + 1
    BY <1>1, <1>2
  <2>2. cut[i - 1] + 1 \in 1 .. n + 1 /\ cut[i] = find(s, cut[i - 1] + 1, c)
    BY <1>1, <1>2, <1>6, <2>1
  <2> QED
    BY <2>2, FindFirst
<1>7. \A i \in 1 .. x - 1 : cut[i] \in cut[i - 1] + 1 .. n /\ s[cut[i]] = c
  <2> SUFFICES ASSUME NEW i \in 1 .. x - 1
               PROVE  cut[i] \in cut[i - 1] + 1 .. n /\ s[cut[i]] = c
    OBVIOUS
  <2>1. i \in 1 .. k /\ i # k /\ cut[i] <= n /\ i \in Nat
    BY <1>1, <1>4
  <2>2. cut[i - 1] <= n
    <3>1. CASE i = 1
      BY <1>1, <1>2, <3>1
    <3>2. CASE i # 1
      <4>1. i - 1 \in 1 .. x - 1
        BY <1>4, <3>2
      <4> QED
        BY <1>4, <4>1
    <3> QED
      BY <3>1, <3>2
  <2>3. i - 1 \in 0 .. k /\ cut[i - 1] \in 0 .. n + 1
    BY <1>2, <2>1
  <2> QED
    BY <1>1, <1>6, <2>1, <2>2, <2>3
<1>8. \A i \in x .. k : cut[i] = n + 1
  <2> DEFINE S == {j \in Nat : x + j <= k => cut[x + j] = n + 1}
  <2>1. 0 \in S
    <3>1. x \in 0 .. k /\ cut[x] \in 0 .. n + 1
      BY <1>2, <1>4
    <3> QED
      BY <1>1, <1>4, <1>5, <3>1
  <2>2. ASSUME NEW j \in Nat, j \in S PROVE j + 1 \in S
    <3> SUFFICES ASSUME x + (j + 1) <= k PROVE cut[x + (j + 1)] = n + 1
      OBVIOUS
    <3>1. PICK i \in 1 .. k : i = x + (j + 1)
      BY <1>4, <1>5
    <3>2. i - 1 = x + j /\ cut[i - 1] = n + 1
      BY <1>1, <1>5, <2>2, <3>1
    <3> QED
      BY <1>1, <1>2, <3>1, <3>2
  <2> HIDE DEF S
  <2>3. \A j \in Nat : j \in S
    BY <2>1, <2>2, FromZero
  <2> SUFFICES ASSUME NEW i \in x .. k PROVE cut[i] = n + 1
    OBVIOUS
  <2>4. PICK j \in Nat : j = i - x
    BY <1>5
  <2>5. j \in S /\ x + j = i /\ i <= k
    BY <1>1, <1>5, <2>3, <2>4
  <2> QED
    BY <2>5 DEF S
<1>9. \A i \in 1 .. k - 1 : \A h \in cut[i - 1] + 1 .. cut[i] - 1 : s[h] # c
  <2> SUFFICES ASSUME NEW i \in 1 .. k - 1, NEW h \in cut[i - 1] + 1 .. cut[i] - 1
               PROVE  s[h] # c
    OBVIOUS
  <2>1. /\ i \in 1 .. k /\ i # k /\ i - 1 \in 0 .. k
        /\ cut[i] \in 0 .. n + 1 /\ cut[i - 1] \in 0 .. n + 1
    BY <1>1, <1>2
  <2>2. CASE cut[i - 1] <= n
    BY <1>6, <2>1, <2>2
  <2>3. CASE cut[i - 1] > n
    <3>1. cut[i - 1] = n + 1 /\ cut[i] <= n + 1
      BY <1>1, <2>1, <2>3
    <3> QED
      BY <1>1, <2>1, <3>1
  <2> QED
    BY <1>1, <2>1, <2>2, <2>3
<1> QED
  <2> DEFINE m == x - 1
  <2>1. m \in 0 .. k - 1 /\ m + 1 = x
    BY <1>5
  <2>2. \A i \in 1 .. m : cut[i] \in cut[i - 1] + 1 .. n /\ s[cut[i]] = c
    BY <1>7
  <2> HIDE DEF m
  <2>3. \A i \in m + 1 .. k : cut[i] = n + 1
    BY <1>8, <2>1
  <2>4. AtDelimiters(cut, m, s, c, k)
    BY <1>9, <2>2, <2>3 DEF AtDelimiters
  <2> QED
    BY <2>1, <2>4 DEF cut

-----------------------------------------------------------------------------
(* Join *)

\* f is the text joined, part by part.
JoinedBy(f, parts, c) ==
  /\ f \in [0 .. Len(parts) -> Str]
  /\ Join(parts, c) = f[Len(parts)]
  /\ f[0] = << >>
  /\ \A i \in 1 .. Len(parts) :
       f[i] = (f[i - 1] \o (IF i = 1 THEN << >> ELSE <<c>>)) \o parts[i]

LEMMA Joined ==
  ASSUME NEW parts \in Seq(Str), NEW c \in Characters
  PROVE  \E f : JoinedBy(f, parts, c)
<1> DEFINE n == Len(parts)
           sep(i) == IF i = 1 THEN << >> ELSE <<c>>
           h == [i \in 1 .. n |-> [x \in Str |-> (x \o sep(i)) \o parts[i]]]
           Is(f) == f = [i \in 0 .. n |-> IF i = 0 THEN << >>
                                          ELSE (f[i - 1] \o sep(i)) \o parts[i]]
<1>1. n \in Nat /\ << >> \in Str
  BY LenProperties DEF Str
<1>2. \A i \in 1 .. n : sep(i) \in Str /\ parts[i] \in Str
  BY ElementOfSeq DEF Str
<1> HIDE DEF sep
<1>3. h \in [1 .. n -> [Str -> Str]]
  <2>1. \A i \in 1 .. n : \A x \in Str : (x \o sep(i)) \o parts[i] \in Str
    BY <1>2, Concat
  <2> QED
    BY <2>1
<1>4. \E f \in [0 .. n -> Str] : f[0] = << >> /\ \A i \in 1 .. n : f[i] = h[i][f[i - 1]]
  <2> HIDE DEF n, h
  <2>1. \E f : FollowsFrom(f, n, Str, << >>, h)
    BY ONLY <1>1, <1>3, StepByStep
  <2> QED
    BY <2>1 DEF FollowsFrom
<1>5. PICK f \in [0 .. n -> Str] : f[0] = << >> /\ \A i \in 1 .. n : f[i] = h[i][f[i - 1]]
  BY <1>4
<1>6. \A i \in 1 .. n : h[i][f[i - 1]] = (f[i - 1] \o sep(i)) \o parts[i]
  <2> SUFFICES ASSUME NEW i \in 1 .. n
               PROVE  h[i][f[i - 1]] = (f[i - 1] \o sep(i)) \o parts[i]
    OBVIOUS
  <2>1. i - 1 \in 0 .. n
    BY <1>1
  <2>2. f[i - 1] \in Str
    BY <2>1
  <2> QED
    BY <2>2
<1>7. Is(f)
  <2> HIDE DEF h
  <2>1. \A i \in 0 .. n : f[i] = IF i = 0 THEN << >> ELSE (f[i - 1] \o sep(i)) \o parts[i]
    <3>1. \A i \in 0 .. n : i # 0 => i \in 1 .. n
      BY <1>1
    <3> QED
      BY <1>5, <1>6, <3>1
  <2>2. f = [i \in 0 .. n |-> f[i]]
    OBVIOUS
  <2> QED
    BY <2>1, <2>2
<1>8. Join(parts, c) = (CHOOSE g : Is(g))[n]
  BY DEF Join, sep
<1> DEFINE g == CHOOSE g : Is(g)
<1>9. Is(g)
  <2> HIDE DEF Is
  <2> QED
    BY <1>7
<1> HIDE DEF g, h
<1>10. g[0] = << >> /\ \A i \in 1 .. n : g[i] = (g[i - 1] \o sep(i)) \o parts[i]
  <2>1. \A i \in 0 .. n : g[i] = IF i = 0 THEN << >> ELSE (g[i - 1] \o sep(i)) \o parts[i]
    BY <1>9
  <2>2. 0 \in 0 .. n /\ \A i \in 1 .. n : i \in 0 .. n /\ i # 0
    BY <1>1
  <2> HIDE DEF Is
  <2> QED
    BY <2>1, <2>2
<1>11. g \in [0 .. n -> Str]
  <2> DEFINE S == {i \in Nat : i <= n => g[i] \in Str}
  <2>1. 0 \in S
    BY <1>1, <1>10
  <2>2. ASSUME NEW i \in Nat, i \in S PROVE i + 1 \in S
    <3> SUFFICES ASSUME i + 1 <= n PROVE g[i + 1] \in Str
      OBVIOUS
    <3>1. i + 1 \in 1 .. n /\ (i + 1) - 1 = i /\ g[i] \in Str
      BY <1>1, <2>2
    <3>2. g[i + 1] = (g[i] \o sep(i + 1)) \o parts[i + 1]
      BY <1>10, <3>1
    <3> QED
      BY <1>2, <3>1, <3>2, Concat
  <2> HIDE DEF S
  <2>3. \A i \in Nat : i \in S
    BY <2>1, <2>2, FromZero
  <2>4. \A i \in 0 .. n : g[i] \in Str
    BY <2>3 DEF S
  <2>5. g = [i \in 0 .. n |-> g[i]]
    BY <1>9
  <2> HIDE DEF Is
  <2> QED
    BY <2>4, <2>5
<1>12. JoinedBy(g, parts, c)
  BY <1>8, <1>10, <1>11 DEF JoinedBy, g, sep
<1> QED
  BY <1>12

-----------------------------------------------------------------------------
(* split *)

\* What split gives: the m + 1 parts between m delimiters.
LEMMA SplitParts ==
  ASSUME NEW s \in Str, NEW c, NEW k \in Nat \ {0}
  PROVE  LET cut == cuts(s, c, k)
             r   == split_impl(s, c, k)
         IN  /\ r.parts \in Seq(Str) /\ Len(r.parts) = k
             /\ \A i \in 1 .. k : r.parts[i] = SubSeq(s, cut[i - 1] + 1, cut[i] - 1)
             /\ \A m \in 0 .. k - 1 :
                  (\A i \in 1 .. k : cut[i] <= Len(s) <=> i <= m) =>
                    r.count = IF m = 0 THEN 0 ELSE m + 1
<1> DEFINE cut == cuts(s, c, k)
           r == split_impl(s, c, k)
           n == Len(s)
           p == [i \in 1 .. k |-> SubSeq(s, cut[i - 1] + 1, cut[i] - 1)]
           found == Cardinality({i \in 1 .. k - 1 : cut[i] <= n})
<1>1. r.parts = p /\ r.count = IF found = 0 THEN 0 ELSE found + 1
  BY DEF split_impl
<1>2. n \in Nat /\ s \in Seq(Characters) /\ \A i \in 1 .. n : s[i] \in Characters
  BY LenProperties, ElementOfSeq DEF Str
<1>3. \A i \in 0 .. k : cut[i] \in 0 .. n + 1
  BY Cuts
<1> HIDE DEF cut, r
<1>4. \A i \in 1 .. k : SubSeq(s, cut[i - 1] + 1, cut[i] - 1) \in Str
  <2> SUFFICES ASSUME NEW i \in 1 .. k
               PROVE  SubSeq(s, cut[i - 1] + 1, cut[i] - 1) \in Str
    OBVIOUS
  <2>1. cut[i - 1] \in 0 .. n + 1 /\ cut[i] \in 0 .. n + 1
    BY <1>3
  <2>2. cut[i - 1] + 1 \in Int /\ cut[i] - 1 \in Int
    BY <1>2, <2>1
  <2>3. \A h \in cut[i - 1] + 1 .. cut[i] - 1 : s[h] \in Characters
    BY <1>2, <2>1
  <2>4. SubSeq(s, cut[i - 1] + 1, cut[i] - 1) \in Seq(Characters)
    BY ONLY <2>2, <2>3, SubSeqProperties
  <2> QED
    BY <2>4 DEF Str
<1>5. p \in Seq(Str) /\ Len(p) = k
  <2>1. p \in [1 .. k -> Str] /\ k \in Nat
    BY <1>4
  <2> HIDE DEF p
  <2>2. p \in Seq(Str)
    BY <2>1, SeqDef
  <2> QED
    BY <2>1, <2>2, LenProperties
<1>6. ASSUME NEW m \in 0 .. k - 1, \A i \in 1 .. k : cut[i] <= n <=> i <= m
      PROVE  r.count = IF m = 0 THEN 0 ELSE m + 1
  <2>1. {i \in 1 .. k - 1 : cut[i] <= n} = 1 .. m
    BY <1>6
  <2>2. Cardinality(1 .. m) = m
    BY FS_Interval
  <2> QED
    BY <1>1, <2>1, <2>2
<1> QED
  BY <1>1, <1>5, <1>6 DEF cut, r

\* The parts are the text, cut at its first delimiters.
LEMMA SplitExactly ==
  ASSUME NEW s \in Str, NEW c \in Characters, NEW k \in Nat \ {0}
  PROVE  SplitsExactly(s, c, k)
<1> DEFINE cut == cuts(s, c, k)
           r == split_impl(s, c, k)
           n == Len(s)
           used == IF r.count = 0 THEN 1 ELSE r.count
<1>1. n \in Nat /\ k \in Nat /\ k >= 1
  BY LenProperties DEF Str
<1>0. PICK m \in 0 .. k - 1 : AtDelimiters(cut, m, s, c, k)
  BY Delimiters
<1>2. /\ \A i \in 1 .. m : cut[i] \in cut[i - 1] + 1 .. n /\ s[cut[i]] = c
      /\ \A i \in m + 1 .. k : cut[i] = n + 1
      /\ \A i \in 1 .. k - 1 : \A h \in cut[i - 1] + 1 .. cut[i] - 1 : s[h] # c
  BY <1>0 DEF AtDelimiters
<1>3. \A i \in 0 .. k : cut[i] \in 0 .. n + 1
  BY Cuts
<1>4. cut[0] = 0
  BY Cuts
<1> HIDE DEF cut
<1>5. \A i \in 1 .. k : cut[i] <= n <=> i <= m
  <2> SUFFICES ASSUME NEW i \in 1 .. k PROVE cut[i] <= n <=> i <= m
    OBVIOUS
  <2>1. i \in 1 .. m \/ i \in m + 1 .. k
    BY <1>1
  <2>2. i \in 1 .. m => cut[i] <= n
    BY <1>1, <1>2, <1>3
  <2>3. i \in m + 1 .. k => cut[i] = n + 1
    BY <1>2
  <2> QED
    BY <1>1, <2>1, <2>2, <2>3
<1>6. /\ r.parts \in Seq(Str) /\ Len(r.parts) = k
      /\ \A i \in 1 .. k : r.parts[i] = SubSeq(s, cut[i - 1] + 1, cut[i] - 1)
      /\ r.count = IF m = 0 THEN 0 ELSE m + 1
  <2>1. /\ r.parts \in Seq(Str) /\ Len(r.parts) = k
        /\ \A i \in 1 .. k : r.parts[i] = SubSeq(s, cut[i - 1] + 1, cut[i] - 1)
        /\ \A q \in 0 .. k - 1 :
             (\A i \in 1 .. k : cut[i] <= n <=> i <= q) => r.count = IF q = 0 THEN 0 ELSE q + 1
    BY SplitParts DEF cut
  <2> HIDE DEF r
  <2> QED
    BY <1>5, <2>1
<1> HIDE DEF r
<1>7. used = m + 1 /\ used \in 1 .. k /\ r.count \in {0} \cup 2 .. k
  BY <1>1, <1>6
<1>8. Join(SubSeq(r.parts, 1, used), c) = s
  <2> DEFINE P == SubSeq(r.parts, 1, m + 1)
  <2>1. /\ P \in Seq(Str) /\ Len(P) = m + 1
        /\ \A i \in 1 .. m + 1 : P[i] = SubSeq(s, cut[i - 1] + 1, cut[i] - 1)
    <3>1. \A i \in 1 .. m + 1 : r.parts[i] \in Str /\ i \in 1 .. k
      BY <1>1, <1>6, ElementOfSeq
    <3>2. /\ P \in Seq(Str) /\ Len(P) = IF 1 <= m + 1 THEN (m + 1) - 1 + 1 ELSE 0
          /\ \A i \in 1 .. (m + 1) - 1 + 1 : P[i] = r.parts[1 + i - 1]
      <4>1. m + 1 \in Int
        OBVIOUS
      <4> QED
        BY ONLY <3>1, <4>1, SubSeqProperties
    <3> HIDE DEF P
    <3>3. \A i \in 1 .. m + 1 : i \in 1 .. (m + 1) - 1 + 1 /\ 1 + i - 1 = i
      OBVIOUS
    <3>4. \A i \in 1 .. m + 1 : P[i] = r.parts[i]
      BY <3>2, <3>3
    <3>5. Len(P) = m + 1
      BY <3>2
    <3> QED
      BY <1>6, <3>1, <3>2, <3>4, <3>5
  <2> HIDE DEF P
  <2>0. PICK f : JoinedBy(f, P, c)
    BY <2>1, Joined
  <2>2. /\ Join(P, c) = f[m + 1]
        /\ f[0] = << >>
        /\ \A i \in 1 .. m + 1 : f[i] = (f[i - 1] \o (IF i = 1 THEN << >> ELSE <<c>>)) \o P[i]
    BY <2>0, <2>1 DEF JoinedBy
  <2> DEFINE S == {i \in Nat : i <= m => f[i + 1] = SubSeq(s, 1, cut[i + 1] - 1)}
  <2>3. 0 \in S
    <3>1. f[1] = (<< >> \o << >>) \o SubSeq(s, 1, cut[1] - 1)
      <4>1. 1 \in 1 .. m + 1 /\ 1 - 1 = 0 /\ cut[0] + 1 = 1
        BY <1>4
      <4>2. P[1] = SubSeq(s, cut[0] + 1, cut[1] - 1)
        BY <2>1, <4>1
      <4>3. f[1] = (f[0] \o << >>) \o P[1]
        BY <2>2, <4>1
      <4> QED
        BY <2>2, <4>1, <4>2, <4>3
    <3>2. SubSeq(s, 1, cut[1] - 1) \in Str
      <4>1. 1 \in 1 .. m + 1 /\ 1 - 1 = 0 /\ cut[0] + 1 = 1
        BY <1>4
      <4>2. P[1] \in Str
        BY <2>1, <4>1, ElementOfSeq
      <4>3. P[1] = SubSeq(s, cut[0] + 1, cut[1] - 1)
        BY <2>1, <4>1
      <4> QED
        BY <4>1, <4>2, <4>3
    <3>3. << >> \in Str
      BY DEF Str
    <3>4. f[1] = SubSeq(s, 1, cut[1] - 1)
      BY <3>1, <3>2, <3>3, Concat
    <3> QED
      BY <3>4
  <2>4. ASSUME NEW i \in Nat, i \in S PROVE i + 1 \in S
    <3> SUFFICES ASSUME i + 1 <= m PROVE f[(i + 1) + 1] = SubSeq(s, 1, cut[(i + 1) + 1] - 1)
      OBVIOUS
    <3> DEFINE a == cut[i + 1]
               b == cut[i + 2]
    <3>1. /\ i + 1 \in 1 .. m /\ i + 2 \in 1 .. m + 1 /\ i + 2 # 1 /\ (i + 2) - 1 = i + 1
          /\ (i + 1) + 1 = i + 2 /\ i + 2 \in 1 .. k
      BY <1>1
    <3>2. f[i + 2] = (SubSeq(s, 1, a - 1) \o <<c>>) \o SubSeq(s, a + 1, b - 1)
      <4>1. f[i + 1] = SubSeq(s, 1, a - 1)
        BY <2>4, <3>1
      <4>2. f[i + 2] = (f[i + 1] \o <<c>>) \o P[i + 2]
        BY <2>2, <3>1
      <4>3. P[i + 2] = SubSeq(s, a + 1, b - 1)
        BY <2>1, <3>1
      <4> QED
        BY <4>1, <4>2, <4>3
    <3>3. a \in 1 .. n /\ s[a] = c /\ b - 1 \in a .. n
      <4>1. a \in cut[(i + 1) - 1] + 1 .. n /\ s[a] = c /\ (i + 1) - 1 \in 0 .. k
        BY <1>1, <1>2, <3>1
      <4>2. cut[(i + 1) - 1] \in 0 .. n + 1
        BY <1>3, <4>1
      <4>3. a \in 1 .. n
        BY <1>1, <4>1, <4>2
      <4>4. b \in a + 1 .. n \/ b = n + 1
        <5>1. i + 2 \in 1 .. m \/ i + 2 \in m + 1 .. k
          BY <1>1, <3>1
        <5>2. i + 2 \in 1 .. m => b \in cut[(i + 2) - 1] + 1 .. n
          BY <1>2
        <5> QED
          BY <1>2, <3>1, <5>1, <5>2
      <4> HIDE DEF a, b
      <4> QED
        BY <1>1, <4>1, <4>3, <4>4
    <3> HIDE DEF a, b
    <3>4. (SubSeq(s, 1, a - 1) \o <<s[a]>>) \o SubSeq(s, a + 1, b - 1) = SubSeq(s, 1, b - 1)
      <4>1. 1 \in 1 .. n + 1 /\ a \in 1 .. n
        BY <1>1, <3>3
      <4> QED
        BY <3>3, <4>1, Around
    <3> QED
      BY <3>1, <3>2, <3>3, <3>4 DEF b
  <2> HIDE DEF S
  <2>5. \A i \in Nat : i \in S
    BY <2>3, <2>4, FromZero
  <2>6. f[m + 1] = SubSeq(s, 1, cut[m + 1] - 1)
    BY <2>5 DEF S
  <2>7. cut[m + 1] - 1 = n
    <3>1. m + 1 \in m + 1 .. k
      BY <1>1
    <3> QED
      BY <1>1, <1>2, <3>1
  <2>8. SubSeq(s, 1, n) = s
    BY SubSeqFull DEF Str
  <2> QED
    BY <1>7, <2>2, <2>6, <2>7, <2>8 DEF P
<1>9. ASSUME NEW i \in 1 .. k
      PROVE  /\ i < k \/ i > used => ~Has(r.parts[i], c)
             /\ i > used => r.parts[i] = << >>
  <2> DEFINE a == cut[i - 1]
             b == cut[i]
             p == r.parts[i]
  <2>1. p = SubSeq(s, a + 1, b - 1) /\ a \in 0 .. n + 1 /\ b \in 0 .. n + 1
    BY <1>1, <1>3, <1>6
  <2>2. i > used => a = n + 1
    <3>1. i > used => i - 1 \in m + 1 .. k
      BY <1>1, <1>7
    <3> QED
      BY <1>2, <3>1
  <2>3. i < k => \A h \in a + 1 .. b - 1 : s[h] # c
    BY <1>1, <1>2
  <2> HIDE DEF a, b, p, used
  <2>4. a = n + 1 => p = << >>
    BY <1>1, <2>1, SubSeqEmpty
  <2>5. ASSUME \A h \in a + 1 .. b - 1 : s[h] # c PROVE ~Has(p, c)
    <3>1. CASE a >= b
      <4>1. p = << >>
        BY <1>1, <2>1, <3>1, SubSeqEmpty
      <4> QED
        BY <4>1 DEF Has
    <3>2. CASE a < b
      <4>1. a + 1 \in 1 .. n + 1 /\ b - 1 \in 0 .. n /\ a + 1 <= (b - 1) + 1
        BY <1>1, <2>1, <3>2
      <4>2. /\ Len(p) = (b - 1) + 1 - (a + 1)
            /\ \A h \in 1 .. (b - 1) + 1 - (a + 1) : p[h] = s[(a + 1) + h - 1]
        BY <2>1, <4>1, Part
      <4>3. ASSUME NEW h \in 1 .. Len(p) PROVE p[h] # c
        <5>1. (a + 1) + h - 1 \in a + 1 .. b - 1 /\ h \in 1 .. (b - 1) + 1 - (a + 1)
          BY <1>1, <2>1, <4>2
        <5> QED
          BY <2>5, <4>2, <5>1
      <4> QED
        BY <4>3 DEF Has
    <3> QED
      BY <1>1, <2>1, <3>1, <3>2
  <2>6. ~Has(<< >>, c)
    BY DEF Has
  <2> QED
    BY <2>2, <2>3, <2>4, <2>5, <2>6 DEF p
<1> QED
  BY <1>7, <1>8, <1>9 DEF SplitsExactly, r, used

-----------------------------------------------------------------------------
(* str_split *)

\* Nothing joined is nothing.
LEMMA JoinNone ==
  ASSUME NEW c \in Characters
  PROVE  Join(<< >>, c) = << >>
<1>1. << >> \in Seq(Str) /\ Len(<< >>) = 0
  OBVIOUS
<1>2. PICK f : JoinedBy(f, << >>, c)
  BY <1>1, Joined
<1> QED
  BY <1>1, <1>2 DEF JoinedBy

\* A part before others.
LEMMA JoinMore ==
  ASSUME NEW p \in Str, NEW more \in Seq(Str), NEW c \in Characters
  PROVE  Join(<<p>> \o more, c) = IF more = << >> THEN p ELSE p \o (<<c>> \o Join(more, c))
<1> DEFINE all == <<p>> \o more
           n == Len(more)
<1>1. /\ all \in Seq(Str) /\ Len(all) = n + 1 /\ n \in Nat
      /\ all[1] = p /\ \A i \in 1 .. n : all[i + 1] = more[i]
      /\ \A i \in 1 .. n : more[i] \in Str
  <2>1. <<p>> \in Seq(Str) /\ Len(<<p>>) = 1 /\ <<p>>[1] = p
    OBVIOUS
  <2>2. n \in Nat /\ \A i \in 1 .. n : more[i] \in Str
    BY LenProperties, ElementOfSeq
  <2> DEFINE one == <<p>>
  <2> HIDE DEF one
  <2>3. /\ one \o more \in Seq(Str) /\ Len(one \o more) = Len(one) + n
        /\ \A i \in 1 .. Len(one) + n :
             (one \o more)[i] = IF i <= Len(one) THEN one[i] ELSE more[i - Len(one)]
    BY ONLY <2>1, ConcatProperties DEF one
  <2>4. Len(one) = 1 /\ one[1] = p
    BY <2>1 DEF one
  <2>5. \A i \in 1 .. n + 1 :
          (one \o more)[i] = IF i <= 1 THEN one[i] ELSE more[i - 1]
    BY <2>2, <2>3, <2>4
  <2>6. (one \o more)[1] = p
    BY <2>2, <2>4, <2>5
  <2>7. ASSUME NEW i \in 1 .. n PROVE (one \o more)[i + 1] = more[i]
    <3>1. i + 1 \in 1 .. n + 1 /\ ~(i + 1 <= 1) /\ (i + 1) - 1 = i
      BY <2>2
    <3> QED
      BY <2>5, <3>1
  <2>8. Len(one \o more) = n + 1
    BY <2>2, <2>3, <2>4
  <2> QED
    BY <2>2, <2>3, <2>6, <2>7, <2>8 DEF one
<1> HIDE DEF all
<1>2. PICK f : JoinedBy(f, all, c)
  BY <1>1, Joined
<1>3. PICK g : JoinedBy(g, more, c)
  BY Joined
<1>4. << >> \in Str /\ <<c>> \in Str
  BY DEF Str
<1>5. f[1] = p
  <2>1. 1 \in 1 .. n + 1 /\ 1 - 1 = 0
    BY <1>1
  <2>2. f[1] = (f[0] \o << >>) \o all[1] /\ f[0] = << >>
    BY <1>1, <1>2, <2>1 DEF JoinedBy
  <2> QED
    BY <1>1, <1>4, <2>2, Concat
<1>6. ASSUME NEW i \in 1 .. n
      PROVE  /\ f[i] \in Str /\ f[i + 1] = (f[i] \o <<c>>) \o more[i]
             /\ g[i - 1] \in Str
             /\ g[i] = (g[i - 1] \o (IF i = 1 THEN << >> ELSE <<c>>)) \o more[i]
  <2>1. i \in 0 .. n + 1 /\ i + 1 \in 1 .. n + 1 /\ i + 1 # 1 /\ (i + 1) - 1 = i /\ i - 1 \in 0 .. n
    BY <1>1
  <2>2. f[i] \in Str /\ f[i + 1] = (f[i] \o <<c>>) \o all[i + 1]
    BY <1>1, <1>2, <2>1 DEF JoinedBy
  <2>3. g[i - 1] \in Str
    BY <1>3, <2>1 DEF JoinedBy
  <2>4. g[i] = (g[i - 1] \o (IF i = 1 THEN << >> ELSE <<c>>)) \o more[i]
    BY <1>3 DEF JoinedBy
  <2> QED
    BY <1>1, <2>2, <2>3, <2>4
<1> DEFINE S == {i \in Nat : i + 1 <= n => f[i + 2] = p \o (<<c>> \o g[i + 1])}
<1>7. 0 \in S
  <2> SUFFICES ASSUME 1 <= n PROVE f[2] = p \o (<<c>> \o g[1])
    OBVIOUS
  <2>1. 1 \in 1 .. n /\ more[1] \in Str
    BY <1>1
  <2>2. f[1 + 1] = (f[1] \o <<c>>) \o more[1] /\ g[1] = (g[1 - 1] \o << >>) \o more[1]
    BY <1>6, <2>1
  <2>3. g[1 - 1] = << >>
    BY <1>3 DEF JoinedBy
  <2>4. g[1] = more[1]
    BY <1>4, <2>1, <2>2, <2>3, Concat
  <2>5. f[2] = (p \o <<c>>) \o more[1]
    <3>1. 1 + 1 = 2
      OBVIOUS
    <3> QED
      BY <1>5, <2>2, <3>1
  <2>6. (p \o <<c>>) \o more[1] = p \o (<<c>> \o more[1])
    <3>1. Associates(p, <<c>>, more[1])
      BY <1>4, <2>1, Regroup
    <3> QED
      BY <3>1 DEF Associates
  <2> QED
    BY <2>4, <2>5, <2>6
<1>8. ASSUME NEW i \in Nat, i \in S PROVE i + 1 \in S
  <2> SUFFICES ASSUME (i + 1) + 1 <= n
               PROVE  f[(i + 1) + 2] = p \o (<<c>> \o g[(i + 1) + 1])
    OBVIOUS
  <2>1. PICK j \in 2 .. n : j = i + 2
    BY <1>1
  <2>2. /\ (i + 1) + 2 = j + 1 /\ (i + 1) + 1 = j /\ i + 1 = j - 1 /\ j \in 1 .. n /\ j # 1
        /\ i + 1 <= n
    BY <1>1, <2>1
  <2>3. f[j] = p \o (<<c>> \o g[j - 1])
    BY <1>8, <2>1, <2>2
  <2>4. /\ f[j + 1] = (f[j] \o <<c>>) \o more[j] /\ g[j] = (g[j - 1] \o <<c>>) \o more[j]
        /\ g[j - 1] \in Str /\ more[j] \in Str
    BY <1>1, <1>6, <2>2
  <2> DEFINE x == g[j - 1]
             y == more[j]
             sep == <<c>>
  <2> HIDE DEF x, y, sep
  <2>5. p \in Str /\ sep \in Str /\ x \in Str /\ y \in Str
    BY <1>4, <2>4 DEF x, y, sep
  <2>6. ((p \o (sep \o x)) \o sep) \o y = p \o (sep \o ((x \o sep) \o y))
    <3>1. Regrouped(p, sep, x, y)
      BY ONLY <2>5, RegroupAll
    <3> QED
      BY <3>1 DEF Regrouped
  <2> QED
    BY <2>2, <2>3, <2>4, <2>6 DEF x, y, sep
<1> HIDE DEF S
<1>9. \A i \in Nat : i \in S
  BY <1>7, <1>8, FromZero
<1>10. Join(all, c) = f[n + 1] /\ Join(more, c) = g[n]
  BY <1>1, <1>2, <1>3 DEF JoinedBy
<1>11. CASE n = 0
  <2>1. more = << >>
    BY <1>11, EmptySeq
  <2> QED
    BY <1>5, <1>10, <1>11, <2>1 DEF all
<1>12. CASE n # 0
  <2>1. more # << >>
    BY <1>12
  <2>2. PICK i \in Nat : i + 1 = n
    <3>1. n - 1 \in Nat /\ (n - 1) + 1 = n
      BY <1>1, <1>12
    <3> QED
      BY <3>1
  <2>3. f[i + 2] = p \o (<<c>> \o g[i + 1]) /\ i + 2 = n + 1
    BY <1>9, <2>2 DEF S
  <2> QED
    BY <1>10, <2>1, <2>2, <2>3 DEF all
<1> QED
  BY <1>11, <1>12

\* The lines from i on: the text up to the next c, and what comes after it.
LineAt(L, s, c, i) ==
  L[i] = IF i > Len(s) THEN << >>
         ELSE <<SubSeq(s, i, find(s, i, c) - 1)>>
                \o (IF find(s, i, c) > Len(s) THEN << >> ELSE L[find(s, i, c) + 1])

\* The part up to the next c has none in it.
LEMMA LinePart ==
  ASSUME NEW s \in Str, NEW c, NEW i \in 1 .. Len(s)
  PROVE  /\ find(s, i, c) \in i .. Len(s) + 1
         /\ SubSeq(s, i, find(s, i, c) - 1) \in Str
         /\ ~Has(SubSeq(s, i, find(s, i, c) - 1), c)
<1> DEFINE n == Len(s)
           j == find(s, i, c)
           p == SubSeq(s, i, j - 1)
<1>1. n \in Nat
  BY LenProperties DEF Str
<1>2. i \in 1 .. n + 1
  BY <1>1
<1>3. j \in i .. n + 1 /\ \A h \in i .. j - 1 : s[h] # c
  BY <1>2, FindFirst
<1> HIDE DEF j
<1>4. j - 1 \in 0 .. n /\ i <= (j - 1) + 1
  BY <1>1, <1>2, <1>3
<1>5. /\ p \in Str /\ Len(p) = (j - 1) + 1 - i
      /\ \A h \in 1 .. (j - 1) + 1 - i : p[h] = s[i + h - 1]
  BY <1>2, <1>4, Part
<1> HIDE DEF p
<1>6. ASSUME NEW h \in 1 .. Len(p) PROVE p[h] # c
  <2>1. h \in 1 .. (j - 1) + 1 - i /\ i + h - 1 \in i .. j - 1
    BY <1>1, <1>3, <1>5
  <2> QED
    BY <1>3, <1>5, <2>1
<1> QED
  BY <1>3, <1>5, <1>6 DEF Has, p, j

\* str_split gives the lines from the first place on.
LEMMA Lines ==
  ASSUME NEW s \in Str, NEW c
  PROVE  \E L : /\ L \in [1 .. Len(s) + 1 -> Seq(Str)]
                /\ \A i \in 1 .. Len(s) + 1 : LineAt(L, s, c, i)
                /\ str_split(s, c) = L[1]
<1> DEFINE n == Len(s)
           V == Seq(Str)
           D(m) == n + 1 - m .. n + 1
           S == {m \in Nat : m <= n => \E L \in [D(m) -> V] : \A i \in D(m) : LineAt(L, s, c, i)}
<1>1. n \in Nat /\ << >> \in V
  BY LenProperties DEF Str
<1>2. 0 \in S
  <2> DEFINE L == [i \in D(0) |-> << >>]
  <2>1. L \in [D(0) -> V]
    BY <1>1
  <2>2. \A i \in D(0) : LineAt(L, s, c, i)
    BY <1>1 DEF LineAt
  <2> QED
    BY <2>1, <2>2
<1>3. ASSUME NEW m \in Nat, m \in S PROVE m + 1 \in S
  <2> SUFFICES ASSUME m + 1 <= n
               PROVE  \E L \in [D(m + 1) -> V] : \A i \in D(m + 1) : LineAt(L, s, c, i)
    OBVIOUS
  <2>1. PICK L \in [D(m) -> V] : \A i \in D(m) : LineAt(L, s, c, i)
    BY <1>1, <1>3
  <2> DEFINE k == n - m
             j == find(s, k, c)
             x == <<SubSeq(s, k, j - 1)>> \o (IF j > n THEN << >> ELSE L[j + 1])
             G == [i \in D(m + 1) |-> IF i = k THEN x ELSE L[i]]
  <2>2. k \in 1 .. n /\ D(m) = k + 1 .. n + 1 /\ D(m + 1) = k .. n + 1
    BY <1>1
  <2>3. j \in k .. n + 1 /\ SubSeq(s, k, j - 1) \in Str
    BY <2>2, LinePart
  <2> HIDE DEF k, j
  <2>4. x \in V
    <3>1. <<SubSeq(s, k, j - 1)>> \in V
      BY <2>3
    <3>2. (IF j > n THEN << >> ELSE L[j + 1]) \in V
      <4>1. ~(j > n) => j + 1 \in k + 1 .. n + 1
        BY <1>1, <2>2, <2>3
      <4> HIDE DEF V
      <4> QED
        BY <1>1, <2>1, <2>2, <4>1
    <3> QED
      BY ONLY <3>1, <3>2, ConcatProperties DEF V
  <2> HIDE DEF x, V
  <2>5. G \in [D(m + 1) -> V]
    <3>1. \A i \in D(m + 1) : i # k => i \in D(m)
      BY <1>1, <2>2
    <3> HIDE DEF D
    <3> QED
      BY <2>1, <2>4, <3>1
  <2>6. \A i \in k + 1 .. n + 1 : G[i] = L[i]
    BY <1>1, <2>2
  <2>7. G[k] = x
    BY <1>1, <2>2
  <2> HIDE DEF G
  <2>8. ASSUME NEW i \in k + 1 .. n + 1 PROVE LineAt(G, s, c, i)
    <3>1. LineAt(L, s, c, i) /\ G[i] = L[i]
      BY <2>1, <2>2, <2>6, <2>8
    <3>2. CASE i > n
      BY <3>1, <3>2 DEF LineAt
    <3>3. CASE ~(i > n)
      <4>1. i \in 1 .. n
        BY <1>1, <2>2, <2>8, <3>3
      <4>2. find(s, i, c) \in i .. n + 1
        BY <4>1, LinePart
      <4>3. ~(find(s, i, c) > n) => find(s, i, c) + 1 \in k + 1 .. n + 1
        BY <1>1, <2>2, <2>8, <4>1, <4>2
      <4>4. ~(find(s, i, c) > n) => G[find(s, i, c) + 1] = L[find(s, i, c) + 1]
        BY <2>6, <4>3
      <4> QED
        BY <3>1, <3>3, <4>4 DEF LineAt
    <3> QED
      BY <3>2, <3>3
  <2>9. LineAt(G, s, c, k)
    <3>1. ~(j > n) => j + 1 \in k + 1 .. n + 1
      BY <1>1, <2>2, <2>3
    <3>2. ~(j > n) => G[j + 1] = L[j + 1]
      BY <2>6, <3>1
    <3>3. ~(k > n)
      BY <1>1, <2>2
    <3> QED
      BY <2>7, <3>2, <3>3 DEF LineAt, j, x
  <2>10. \A i \in D(m + 1) : i = k \/ i \in k + 1 .. n + 1
    BY <1>1, <2>2
  <2>11. \A i \in D(m + 1) : LineAt(G, s, c, i)
    BY <2>8, <2>9, <2>10
  <2> QED
    BY <2>5, <2>11 DEF V
<1> HIDE DEF S
<1>4. \A m \in Nat : m \in S
  BY <1>2, <1>3, FromZero
<1> DEFINE Places == 1 .. n + 1
           Is(L) == L = [i \in Places |-> IF i > n THEN << >>
                                     ELSE <<SubSeq(s, i, find(s, i, c) - 1)>>
                                            \o (IF find(s, i, c) > n THEN << >>
                                                ELSE L[find(s, i, c) + 1])]
<1>5. \E L : Is(L) /\ L \in [Places -> V]
  <2>1. \E L \in [D(n) -> V] : \A i \in D(n) : LineAt(L, s, c, i)
    BY <1>1, <1>4 DEF S
  <2>2. D(n) = Places
    BY <1>1
  <2> HIDE DEF D, Places
  <2>3. PICK L \in [Places -> V] : \A i \in Places : LineAt(L, s, c, i)
    BY <2>1, <2>2
  <2>4. L = [i \in Places |-> L[i]]
    OBVIOUS
  <2>5. Is(L)
    BY <2>3, <2>4 DEF LineAt
  <2> QED
    BY <2>5
<1> DEFINE T == CHOOSE L : Is(L)
<1>6. Is(T)
  <2> HIDE DEF Is
  <2> QED
    BY <1>5
<1>7. str_split(s, c) = T[1]
  BY DEF str_split
<1> HIDE DEF T
<1>8. \A i \in Places : LineAt(T, s, c, i)
  BY <1>6 DEF LineAt
<1>9. \A m \in Nat : m \in {h \in Nat : h <= n => \A i \in D(h) : T[i] \in V}
  <2> DEFINE Z == {h \in Nat : h <= n => \A i \in D(h) : T[i] \in V}
  <2>1. 0 \in Z
    <3>1. ASSUME NEW i \in D(0) PROVE T[i] \in V
      <4>1. i \in Places /\ i > n
        BY <1>1
      <4> QED
        BY <1>1, <1>8, <4>1 DEF LineAt
    <3> QED
      BY <3>1
  <2>2. ASSUME NEW m \in Nat, m \in Z PROVE m + 1 \in Z
    <3> SUFFICES ASSUME m + 1 <= n, NEW i \in D(m + 1) PROVE T[i] \in V
      OBVIOUS
    <3>1. \A h \in D(m) : T[h] \in V
      BY <1>1, <2>2
    <3>2. CASE i \in D(m)
      BY <3>1, <3>2
    <3>3. CASE i \notin D(m)
      <4>1. i = n - m /\ i \in 1 .. n /\ i \in Places
        BY <1>1, <3>3
      <4>2. find(s, i, c) \in i .. n + 1 /\ SubSeq(s, i, find(s, i, c) - 1) \in Str
        BY <4>1, LinePart
      <4> DEFINE j == find(s, i, c)
                 y == IF j > n THEN << >> ELSE T[j + 1]
      <4> HIDE DEF j
      <4>3. ~(j > n) => j + 1 \in D(m)
        BY <1>1, <4>1, <4>2 DEF j
      <4>4. y \in V
        BY <1>1, <3>1, <4>3
      <4>5. T[i] = <<SubSeq(s, i, j - 1)>> \o y
        <5>1. LineAt(T, s, c, i) /\ ~(i > n)
          BY <1>1, <1>8, <4>1
        <5> QED
          BY <5>1 DEF LineAt, j
      <4>6. <<SubSeq(s, i, j - 1)>> \in V
        BY <4>2 DEF j
      <4> HIDE DEF y
      <4> QED
        BY ONLY <4>4, <4>5, <4>6, ConcatProperties DEF V
    <3> QED
      BY <3>2, <3>3
  <2> HIDE DEF Z
  <2>3. \A m \in Nat : m \in Z
    BY <2>1, <2>2, FromZero
  <2> QED
    BY <2>3 DEF Z
<1>10. T \in [Places -> V]
  <2>1. D(n) = Places
    BY <1>1
  <2>2. \A i \in Places : T[i] \in V
    BY <1>1, <1>9, <2>1
  <2>3. T = [i \in Places |-> T[i]]
    BY <1>6
  <2> HIDE DEF Is, Places, V
  <2> QED
    BY <2>2, <2>3
<1> QED
  BY <1>7, <1>8, <1>10

\* The parts of what is left from i on are that text, but for a last c.
SplitsRest(parts, rest, c) ==
  /\ \A i \in 1 .. Len(parts) : ~Has(parts[i], c)
  /\ rest \in {Join(parts, c), Join(parts, c) \o <<c>>}
  /\ rest # << >> /\ rest[Len(rest)] # c => rest = Join(parts, c)

\* The parts of str_split are the text, cut at all its delimiters.
LEMMA SplitAll ==
  ASSUME NEW s \in Str, NEW c \in Characters
  PROVE  SplitsAll(s, c)
<1> DEFINE n == Len(s)
           Places == 1 .. n + 1
           Rest(i) == SubSeq(s, i, n)
<1>1. n \in Nat /\ << >> \in Str /\ <<c>> \in Str
  BY LenProperties DEF Str
<1>2. PICK L : /\ L \in [Places -> Seq(Str)]
               /\ \A i \in Places : LineAt(L, s, c, i)
               /\ str_split(s, c) = L[1]
  BY Lines
<1> DEFINE Good(i) == SplitsRest(L[i], Rest(i), c)
           S == {m \in Nat : m <= n => \A i \in n + 1 - m .. n + 1 : Good(i)}
<1>3. Good(n + 1)
  <2>1. L[n + 1] = << >>
    <3>1. LineAt(L, s, c, n + 1) /\ n + 1 > n
      BY <1>1, <1>2
    <3> QED
      BY <3>1 DEF LineAt
  <2>2. Rest(n + 1) = << >>
    <3>1. n + 1 \in Int /\ n \in Int /\ n < n + 1
      BY <1>1
    <3> QED
      BY ONLY <3>1, SubSeqEmpty
  <2>3. Join(<< >>, c) = << >>
    BY JoinNone
  <2>4. Len(<< >>) = 0
    OBVIOUS
  <2> HIDE DEF Rest
  <2> QED
    BY <2>1, <2>2, <2>3, <2>4 DEF SplitsRest
<1>4. ASSUME NEW k \in 1 .. n, \A i \in k + 1 .. n + 1 : Good(i) PROVE Good(k)
  <2> DEFINE j == find(s, k, c)
             p == SubSeq(s, k, j - 1)
             more == IF j > n THEN << >> ELSE L[j + 1]
             rest == Rest(k)
  <2>1. j \in k .. n + 1 /\ p \in Str /\ ~Has(p, c)
    BY LinePart
  <2>2. k \in 1 .. n + 1 /\ (j <= n => s[j] = c)
    <3>1. k \in 1 .. n + 1
      BY <1>1
    <3> QED
      BY <3>1, FindFirst
  <2>3. L[k] = <<p>> \o more
    <3>1. LineAt(L, s, c, k) /\ ~(k > n)
      BY <1>1, <1>2, <2>2
    <3> QED
      BY <3>1 DEF LineAt
  <2> HIDE DEF j
  <2>4. more \in Seq(Str)
    <3>1. ~(j > n) => j + 1 \in Places
      BY <1>1, <2>1
    <3> QED
      BY <1>2, <3>1
  <2>5. rest \in Str /\ Len(rest) = n + 1 - k
    <3>1. n \in 0 .. n /\ k <= n + 1
      BY <1>1, <2>2
    <3> QED
      BY <2>2, <3>1, Part
  <2> HIDE DEF p, more, Rest, Good, Places
  <2>6. Join(L[k], c) = IF more = << >> THEN p ELSE p \o (<<c>> \o Join(more, c))
    <3>1. p \in Str /\ more \in Seq(Str) /\ c \in Characters
      BY <2>1, <2>4
    <3>2. Join(<<p>> \o more, c) = IF more = << >> THEN p ELSE p \o (<<c>> \o Join(more, c))
      BY ONLY <3>1, JoinMore
    <3> QED
      BY <2>3, <3>2
  <2>7. ASSUME \A i \in 1 .. Len(more) : ~Has(more[i], c), NEW i \in 1 .. Len(L[k])
        PROVE  ~Has(L[k][i], c)
    <3> DEFINE one == <<p>>
    <3>1. one \in Seq(Str) /\ Len(one) = 1 /\ one[1] = p
      BY <2>1
    <3> HIDE DEF one
    <3>2. /\ Len(one \o more) = Len(one) + Len(more) /\ Len(more) \in Nat
          /\ \A h \in 1 .. Len(one) + Len(more) :
               (one \o more)[h] = IF h <= Len(one) THEN one[h] ELSE more[h - Len(one)]
      BY ONLY <2>4, <3>1, ConcatProperties, LenProperties
    <3>3. L[k] = one \o more
      BY <2>3 DEF one
    <3>4. i \in 1 .. 1 + Len(more) /\ L[k][i] = IF i <= 1 THEN one[i] ELSE more[i - 1]
      BY <2>7, <3>1, <3>2, <3>3
    <3>5. CASE i = 1
      BY <2>1, <3>1, <3>4, <3>5
    <3>6. CASE i # 1
      <4>1. i - 1 \in 1 .. Len(more) /\ L[k][i] = more[i - 1]
        BY <3>2, <3>4, <3>6
      <4> QED
        BY <2>7, <4>1
    <3> QED
      BY <3>5, <3>6
  <2>8. CASE j = n + 1
    <3>1. more = << >> /\ p = rest
      BY <1>1, <2>8 DEF more, p, Rest
    <3>2. Join(L[k], c) = rest
      BY <2>6, <3>1
    <3>3. \A i \in 1 .. Len(more) : ~Has(more[i], c)
      BY <3>1
    <3>4. \A i \in 1 .. Len(L[k]) : ~Has(L[k][i], c)
      BY <2>7, <3>3
    <3> QED
      BY <3>2, <3>4 DEF SplitsRest, Good
  <2>9. CASE j <= n
    <3>1. j \in k .. n /\ j + 1 \in k + 1 .. n + 1 /\ s[j] = c /\ ~(j > n)
      BY <1>1, <2>1, <2>2, <2>9
    <3>2. rest = (p \o <<c>>) \o Rest(j + 1)
      <4>1. (SubSeq(s, k, j - 1) \o <<s[j]>>) \o SubSeq(s, j + 1, n) = SubSeq(s, k, n)
        <5>1. j \in k .. Len(s) /\ n \in j .. Len(s)
          BY <1>1, <3>1
        <5> QED
          BY <2>2, <5>1, Around
      <4> QED
        BY <3>1, <4>1 DEF p, Rest
    <3>3. more = L[j + 1]
      BY <3>1 DEF more
    <3>4. SplitsRest(more, Rest(j + 1), c)
      BY <1>4, <3>1, <3>3 DEF Good
    <3>5. \A i \in 1 .. Len(L[k]) : ~Has(L[k][i], c)
      BY <2>7, <3>4 DEF SplitsRest
    <3>6. CASE j = n
      <4>1. Rest(j + 1) = << >>
        <5>1. n + 1 \in Int /\ n \in Int /\ n < n + 1
          BY <1>1
        <5>2. Rest(n + 1) = << >>
          BY ONLY <5>1, SubSeqEmpty DEF Rest
        <5> QED
          BY <3>6, <5>2
      <4>2. more = << >>
        <5>1. LineAt(L, s, c, n + 1) /\ n + 1 > n
          BY <1>1, <1>2 DEF Places
        <5>2. L[n + 1] = << >>
          BY <5>1 DEF LineAt
        <5> QED
          BY <3>3, <3>6, <5>2
      <4>3. rest = p \o <<c>>
        BY <1>1, <2>1, <3>2, <4>1, Concat
      <4>4. Join(L[k], c) = p
        BY <2>6, <4>2
      <4>5. rest[Len(rest)] = c
        <5>1. n + 1 - k \in 1 .. n + 1 - k /\ k + (n + 1 - k) - 1 = n
          BY <1>1
        <5>2. n \in 0 .. n /\ k <= n + 1
          BY <1>1
        <5>3. rest[n + 1 - k] = s[k + (n + 1 - k) - 1]
          BY <2>2, <5>1, <5>2, Part DEF Rest
        <5> QED
          BY <2>5, <3>1, <3>6, <5>1, <5>3
      <4> QED
        BY <3>5, <4>3, <4>4, <4>5 DEF SplitsRest, Good
    <3>7. CASE j < n
      <4> DEFINE last == Rest(j + 1)
                 J == Join(more, c)
      <4>1. j + 1 \in 1 .. n + 1 /\ n \in 0 .. n /\ j + 1 <= n + 1 /\ j \in Nat
        BY <1>1, <3>1
      <4>2. /\ last \in Str /\ Len(last) = n + 1 - (j + 1)
            /\ \A h \in 1 .. n + 1 - (j + 1) : last[h] = s[(j + 1) + h - 1]
        BY <4>1, Part DEF Rest
      <4>3. more # << >>
        <5>1. j + 1 \in 1 .. n /\ j + 1 \in Places
          BY <1>1, <3>1, <3>7, <4>1 DEF Places
        <5>2. LineAt(L, s, c, j + 1) /\ ~(j + 1 > n)
          BY <1>1, <1>2, <5>1
        <5> DEFINE q == SubSeq(s, j + 1, find(s, j + 1, c) - 1)
                   z == IF find(s, j + 1, c) > n THEN << >> ELSE L[find(s, j + 1, c) + 1]
        <5>3. more = <<q>> \o z
          BY <3>3, <5>2 DEF LineAt
        <5>4. q \in Str /\ find(s, j + 1, c) \in j + 1 .. n + 1
          BY <5>1, LinePart
        <5>5. z \in Seq(Str)
          <6>1. ~(find(s, j + 1, c) > n) => find(s, j + 1, c) + 1 \in Places
            BY <1>1, <4>1, <5>4 DEF Places
          <6> QED
            BY <1>2, <6>1
        <5>6. <<q>> \in Seq(Str) /\ Len(<<q>>) = 1
          BY <5>4
        <5> DEFINE one == <<q>>
        <5> HIDE DEF one, z
        <5>7. Len(one \o z) = 1 + Len(z) /\ Len(z) \in Nat
          BY ONLY <5>5, <5>6, ConcatProperties, LenProperties DEF one
        <5>8. Len(more) # 0
          BY <5>3, <5>7 DEF one
        <5> QED
          BY <5>8
      <4>4. J \in Str
        <5>1. PICK f : JoinedBy(f, more, c)
          BY <2>4, Joined
        <5>2. Len(more) \in 0 .. Len(more)
          BY <2>4, LenProperties
        <5> QED
          BY <5>1, <5>2 DEF JoinedBy
      <4>5. Join(L[k], c) = p \o (<<c>> \o J)
        BY <2>6, <4>3
      <4>6. last \in {J, J \o <<c>>} /\ (last # << >> /\ last[Len(last)] # c => last = J)
        BY <3>4 DEF SplitsRest
      <4>7. rest[Len(rest)] = last[Len(last)] /\ last # << >>
        <5>1. /\ n + 1 - k \in 1 .. n + 1 - k /\ k + (n + 1 - k) - 1 = n /\ k <= n + 1
              /\ n + 1 - (j + 1) \in 1 .. n + 1 - (j + 1) /\ (j + 1) + (n + 1 - (j + 1)) - 1 = n
          BY <1>1, <3>7, <4>1
        <5>2. rest[n + 1 - k] = s[k + (n + 1 - k) - 1]
          BY <2>2, <4>1, <5>1, Part DEF Rest
        <5>3. last[n + 1 - (j + 1)] = s[(j + 1) + (n + 1 - (j + 1)) - 1]
          BY <4>2, <5>1
        <5>4. Len(last) # 0
          BY <1>1, <3>7, <4>1, <4>2
        <5>5. last # << >>
          BY <5>4
        <5>6. rest[Len(rest)] = s[n] /\ last[Len(last)] = s[n]
          BY <2>5, <4>2, <5>1, <5>2, <5>3
        <5> QED
          BY <5>5, <5>6
      <4>8. rest = p \o (<<c>> \o last)
        <5>1. Associates(p, <<c>>, last)
          BY <1>1, <2>1, <4>2, Regroup
        <5> QED
          BY <3>2, <5>1 DEF Associates
      <4>9. p \o (<<c>> \o (J \o <<c>>)) = (p \o (<<c>> \o J)) \o <<c>>
        <5> DEFINE sep == <<c>>
                   x == sep \o J
        <5>1. sep \in Str /\ J \in Str /\ p \in Str /\ x \in Str
          BY <1>1, <2>1, <4>4, Concat
        <5> HIDE DEF sep, J
        <5>2. Associates(sep, J, sep)
          BY ONLY <5>1, Regroup
        <5> HIDE DEF x
        <5>3. Associates(p, x, sep)
          BY ONLY <5>1, Regroup
        <5>4. p \o (sep \o (J \o sep)) = (p \o x) \o sep
          <6>1. x \o sep = sep \o (J \o sep)
            BY <5>2 DEF Associates, x
          <6> QED
            BY <5>3, <6>1 DEF Associates
        <5> QED
          BY <5>4 DEF sep, x
      <4> HIDE DEF last, J
      <4>10. rest \in {Join(L[k], c), Join(L[k], c) \o <<c>>}
        BY <4>5, <4>6, <4>8, <4>9
      <4>11. rest # << >> /\ rest[Len(rest)] # c => rest = Join(L[k], c)
        BY <4>5, <4>6, <4>7, <4>8
      <4> QED
        BY <3>5, <4>10, <4>11 DEF SplitsRest, Good
    <3> QED
      BY <1>1, <2>1, <2>9, <3>6, <3>7
  <2> QED
    BY <1>1, <2>1, <2>8, <2>9
<1> HIDE DEF Good
<1>5. 0 \in S
  <2>1. \A i \in n + 1 - 0 .. n + 1 : i = n + 1
    BY <1>1
  <2> QED
    BY <1>3, <2>1
<1>6. ASSUME NEW m \in Nat, m \in S PROVE m + 1 \in S
  <2> SUFFICES ASSUME m + 1 <= n, NEW i \in n + 1 - (m + 1) .. n + 1 PROVE Good(i)
    OBVIOUS
  <2>1. PICK k \in 1 .. n : k = n - m
    BY <1>1
  <2>2. /\ n + 1 - m = k + 1 /\ m <= n
        /\ i = k \/ i \in k + 1 .. n + 1
    BY <1>1, <2>1
  <2>3. \A h \in k + 1 .. n + 1 : Good(h)
    BY <1>6, <2>2
  <2> QED
    BY <1>4, <2>2, <2>3
<1> HIDE DEF S
<1>7. \A m \in Nat : m \in S
  BY <1>5, <1>6, FromZero
<1>8. Good(1)
  <2>1. 1 \in n + 1 - n .. n + 1 /\ n <= n
    BY <1>1
  <2> QED
    BY <1>1, <1>7, <2>1 DEF S
<1>9. Rest(1) = s
  BY SubSeqFull DEF Str
<1> HIDE DEF Rest
<1> QED
  BY <1>2, <1>8, <1>9 DEF Good, SplitsRest, SplitsAll

-----------------------------------------------------------------------------
(* Loops that collect *)

\* K is what a loop from 1 to n has collected after each number: X of those in I.
Collects(K, n, I, X) ==
  K[0] = << >> /\ \A i \in 1 .. n : K[i] = IF i \in I THEN Append(K[i - 1], X[i]) ELSE K[i - 1]

\* There is such a loop.
LEMMA Collection ==
  ASSUME NEW n \in Nat, NEW V, NEW I, NEW X \in [1 .. n -> V]
  PROVE  \E K : K \in [0 .. n -> Seq(V)] /\ Collects(K, n, I, X)
<1> DEFINE W == Seq(V)
           h == [i \in 1 .. n |-> [q \in W |-> IF i \in I THEN Append(q, X[i]) ELSE q]]
<1>1. << >> \in W
  OBVIOUS
<1>2. h \in [1 .. n -> [W -> W]]
  <2> SUFFICES ASSUME NEW i \in 1 .. n, NEW q \in W
               PROVE  (IF i \in I THEN Append(q, X[i]) ELSE q) \in W
    OBVIOUS
  <2>1. X[i] \in V
    OBVIOUS
  <2> QED
    BY <2>1, AppendProperties
<1>3. PICK K : FollowsFrom(K, n, W, << >>, h)
  <2> HIDE DEF W, h
  <2>1. n \in Nat
    OBVIOUS
  <2> QED
    BY ONLY <1>1, <1>2, <2>1, StepByStep
<1>4. \A i \in 1 .. n : h[i][K[i - 1]] = IF i \in I THEN Append(K[i - 1], X[i]) ELSE K[i - 1]
  <2> SUFFICES ASSUME NEW i \in 1 .. n
               PROVE  h[i][K[i - 1]] = IF i \in I THEN Append(K[i - 1], X[i]) ELSE K[i - 1]
    OBVIOUS
  <2>1. i - 1 \in 0 .. n
    OBVIOUS
  <2>2. K[i - 1] \in W
    BY <1>3, <2>1 DEF FollowsFrom
  <2> QED
    BY <2>2
<1> HIDE DEF h
<1> QED
  BY <1>3, <1>4 DEF FollowsFrom, Collects

\* What is collected has the type of X.
LEMMA CollectedType ==
  ASSUME NEW n \in Nat, NEW V, NEW I, NEW X \in [1 .. n -> V], NEW K, Collects(K, n, I, X)
  PROVE  \A i \in 0 .. n : K[i] \in Seq(V)
<1> DEFINE S == {m \in Nat : m <= n => K[m] \in Seq(V)}
<1>1. 0 \in S
  <2>1. << >> \in Seq(V)
    OBVIOUS
  <2>2. K[0] \in Seq(V)
    BY <2>1 DEF Collects
  <2> QED
    BY <2>2
<1>2. ASSUME NEW m \in Nat, m \in S PROVE m + 1 \in S
  <2> SUFFICES ASSUME m + 1 <= n PROVE K[m + 1] \in Seq(V)
    OBVIOUS
  <2>1. m + 1 \in 1 .. n /\ (m + 1) - 1 = m /\ K[m] \in Seq(V)
    BY <1>2
  <2>2. X[m + 1] \in V
    BY <2>1
  <2>3. K[m + 1] = IF m + 1 \in I THEN Append(K[m], X[m + 1]) ELSE K[m]
    BY <2>1 DEF Collects
  <2> QED
    BY <2>1, <2>2, <2>3, AppendProperties
<1> HIDE DEF S
<1>3. \A m \in Nat : m \in S
  BY <1>1, <1>2, FromZero
<1> QED
  BY <1>3 DEF S

\* As many as there are numbers in I.
LEMMA CollectedCount ==
  ASSUME NEW n \in Nat, NEW V, NEW I, I \subseteq 1 .. n, NEW X \in [1 .. n -> V], NEW K,
         Collects(K, n, I, X)
  PROVE  Len(K[n]) = Cardinality(I)
<1> DEFINE Upto(m) == {i \in I : i <= m}
           S == {m \in Nat : m <= n => IsFiniteSet(Upto(m)) /\ Len(K[m]) = Cardinality(Upto(m))}
<1>0. \A i \in I : i \in 1 .. n
  OBVIOUS
<1>1. 0 \in S
  <2>1. Upto(0) = {}
    <3>1. \A i \in I : ~(i <= 0)
      BY <1>0
    <3> QED
      BY <3>1
  <2>2. K[0] = << >>
    BY DEF Collects
  <2> QED
    BY <2>1, <2>2, FS_EmptySet
<1>2. ASSUME NEW m \in Nat, m \in S PROVE m + 1 \in S
  <2> SUFFICES ASSUME m + 1 <= n
               PROVE  IsFiniteSet(Upto(m + 1)) /\ Len(K[m + 1]) = Cardinality(Upto(m + 1))
    OBVIOUS
  <2>1. /\ m + 1 \in 1 .. n /\ (m + 1) - 1 = m
        /\ IsFiniteSet(Upto(m)) /\ Len(K[m]) = Cardinality(Upto(m))
    BY <1>2
  <2>2. K[m] \in Seq(V) /\ X[m + 1] \in V
    <3>1. m \in 0 .. n
      BY <2>1
    <3> QED
      BY <2>1, <3>1, CollectedType
  <2>3. K[m + 1] = IF m + 1 \in I THEN Append(K[m], X[m + 1]) ELSE K[m]
    BY <2>1 DEF Collects
  <2>4. CASE m + 1 \in I
    <3>1. Upto(m + 1) = Upto(m) \cup {m + 1} /\ m + 1 \notin Upto(m)
      <4>1. \A i \in I : i <= m + 1 <=> i <= m \/ i = m + 1
        BY <1>0
      <4>2. m + 1 <= m + 1 /\ ~(m + 1 <= m)
        OBVIOUS
      <4> QED
        BY <2>4, <4>1, <4>2, Zenon
    <3>2. Len(K[m + 1]) = Len(K[m]) + 1
      BY <2>2, <2>3, <2>4, AppendProperties
    <3> HIDE DEF Upto
    <3> QED
      BY <2>1, <3>1, <3>2, FS_AddElement
  <2>5. CASE m + 1 \notin I
    <3>1. Upto(m + 1) = Upto(m)
      <4>1. \A i \in I : i <= m + 1 <=> i <= m \/ i = m + 1
        BY <1>0
      <4> QED
        BY <2>5, <4>1, Zenon
    <3> QED
      BY <2>1, <2>3, <2>5, <3>1
  <2> QED
    BY <2>4, <2>5
<1> HIDE DEF S
<1>3. \A m \in Nat : m \in S
  BY <1>1, <1>2, FromZero
<1>4. Upto(n) = I
  <2>1. \A i \in I : i <= n
    BY <1>0
  <2> QED
    BY <2>1, Zenon
<1> QED
  BY <1>3, <1>4 DEF S

\* A collection depends on I, and on X there.
LEMMA CollectedOnce ==
  ASSUME NEW n \in Nat, NEW I, NEW X, NEW Y, NEW K, NEW L,
         Collects(K, n, I, X), Collects(L, n, I, Y),
         \A i \in 1 .. n : i \in I => X[i] = Y[i]
  PROVE  \A i \in 0 .. n : K[i] = L[i]
<1> DEFINE S == {m \in Nat : m <= n => K[m] = L[m]}
<1>1. 0 \in S
  BY DEF Collects
<1>2. ASSUME NEW m \in Nat, m \in S PROVE m + 1 \in S
  <2> SUFFICES ASSUME m + 1 <= n PROVE K[m + 1] = L[m + 1]
    OBVIOUS
  <2>1. m + 1 \in 1 .. n /\ (m + 1) - 1 = m /\ K[m] = L[m]
    BY <1>2
  <2>2. /\ K[m + 1] = IF m + 1 \in I THEN Append(K[m], X[m + 1]) ELSE K[m]
        /\ L[m + 1] = IF m + 1 \in I THEN Append(L[m], Y[m + 1]) ELSE L[m]
    BY <2>1 DEF Collects
  <2> QED
    BY <2>1, <2>2
<1> HIDE DEF S
<1>3. \A m \in Nat : m \in S
  BY <1>1, <1>2, FromZero
<1> QED
  BY <1>3 DEF S

\* Nothing is collected where there is none of I.
LEMMA CollectedNoMore ==
  ASSUME NEW n \in Nat, NEW I, NEW X, NEW K, Collects(K, n, I, X), NEW k \in 0 .. n,
         \A i \in k + 1 .. n : i \notin I
  PROVE  K[n] = K[k]
<1> DEFINE S == {m \in Nat : k + m <= n => K[k + m] = K[k]}
<1>1. 0 \in S
  OBVIOUS
<1>2. ASSUME NEW m \in Nat, m \in S PROVE m + 1 \in S
  <2> SUFFICES ASSUME k + (m + 1) <= n PROVE K[k + (m + 1)] = K[k]
    OBVIOUS
  <2>1. /\ k + m + 1 \in 1 .. n /\ k + m + 1 \in k + 1 .. n /\ (k + m + 1) - 1 = k + m
        /\ k + (m + 1) = k + m + 1 /\ K[k + m] = K[k]
    BY <1>2
  <2>2. K[k + m + 1] = K[k + m]
    BY <2>1 DEF Collects
  <2> QED
    BY <2>1, <2>2
<1> HIDE DEF S
<1>3. n - k \in Nat /\ k + (n - k) = n
  OBVIOUS
<1>4. n - k \in S
  BY <1>1, <1>2, <1>3, FromZero
<1> QED
  BY <1>3, <1>4 DEF S

\* The first that is collected is the one of the first number in I.
StartsWith(q, n, I, X) ==
  \/ q = << >> /\ \A i \in 1 .. n : i \notin I
  \/ /\ q # << >>
     /\ \E i \in 1 .. n : i \in I /\ q[1] = X[i] /\ \A h \in 1 .. i - 1 : h \notin I

LEMMA CollectedFirst ==
  ASSUME NEW n \in Nat, NEW V, NEW I, NEW X \in [1 .. n -> V], NEW K, Collects(K, n, I, X)
  PROVE  StartsWith(K[n], n, I, X)
<1> DEFINE None(m) == K[m] = << >> /\ \A i \in 1 .. m : i \notin I
           Some(m) == /\ K[m] # << >>
                      /\ \E i \in 1 .. m :
                           i \in I /\ K[m][1] = X[i] /\ \A h \in 1 .. i - 1 : h \notin I
           S == {m \in Nat : m <= n => None(m) \/ Some(m)}
<1>1. 0 \in S
  BY DEF Collects
<1>2. ASSUME NEW m \in Nat, m \in S PROVE m + 1 \in S
  <2> SUFFICES ASSUME m + 1 <= n PROVE None(m + 1) \/ Some(m + 1)
    OBVIOUS
  <2>1. m + 1 \in 1 .. n /\ (m + 1) - 1 = m /\ (None(m) \/ Some(m))
    BY <1>2
  <2>2. K[m] \in Seq(V) /\ X[m + 1] \in V
    <3>1. m \in 0 .. n
      BY <2>1
    <3> QED
      BY <2>1, <3>1, CollectedType
  <2>3. K[m + 1] = IF m + 1 \in I THEN Append(K[m], X[m + 1]) ELSE K[m]
    BY <2>1 DEF Collects
  <2>4. CASE m + 1 \notin I
    <3>1. K[m + 1] = K[m]
      BY <2>3, <2>4
    <3>2. \A i \in 1 .. m + 1 : i = m + 1 \/ i \in 1 .. m
      OBVIOUS
    <3>3. None(m) => None(m + 1)
      BY <2>4, <3>1, <3>2
    <3>4. Some(m) => Some(m + 1)
      BY <3>1
    <3> QED
      BY <2>1, <3>3, <3>4
  <2>5. CASE m + 1 \in I
    <3> DEFINE q == Append(K[m], X[m + 1])
    <3>1. K[m + 1] = q
      BY <2>3, <2>5
    <3>2. /\ Len(q) = Len(K[m]) + 1 /\ Len(K[m]) \in Nat /\ q[Len(K[m]) + 1] = X[m + 1]
          /\ \A h \in 1 .. Len(K[m]) : q[h] = K[m][h]
      BY <2>2, AppendProperties, LenProperties
    <3> HIDE DEF q
    <3>3. K[m + 1] # << >>
      <4>1. Len(q) # 0 /\ Len(<< >>) = 0
        BY <3>2
      <4> QED
        BY <3>1, <4>1
    <3>4. ASSUME None(m) PROVE Some(m + 1)
      <4>1. Len(K[m]) = 0
        BY <3>4
      <4>2. q[1] = X[m + 1]
        BY <3>2, <4>1
      <4> QED
        BY <2>5, <3>1, <3>3, <3>4, <4>2
    <3>5. ASSUME Some(m) PROVE Some(m + 1)
      <4>1. Len(K[m]) # 0
        BY <2>2, <3>5, EmptySeq
      <4>2. q[1] = K[m][1]
        BY <3>2, <4>1
      <4>3. PICK i \in 1 .. m : i \in I /\ K[m][1] = X[i] /\ \A h \in 1 .. i - 1 : h \notin I
        BY <3>5
      <4>4. i \in 1 .. m + 1
        OBVIOUS
      <4> QED
        BY <3>1, <3>3, <4>2, <4>3, <4>4
    <3> QED
      BY <2>1, <3>4, <3>5
  <2> QED
    BY <2>4, <2>5
<1> HIDE DEF S
<1>3. n \in S
  BY <1>1, <1>2, FromZero
<1> QED
  BY <1>3 DEF S, StartsWith

\* Records that carry their number are collected in order, each of I once.
Ordered(q, I, X, m) ==
  /\ \A j \in 1 .. Len(q) : /\ q[j].index \in 1 .. m /\ q[j].index \in I
                            /\ q[j] = X[q[j].index]
                            /\ j > 1 => q[j - 1].index < q[j].index
  /\ \A h \in 1 .. m : h \in I => \E j \in 1 .. Len(q) : q[j].index = h

LEMMA CollectedInOrder ==
  ASSUME NEW n \in Nat, NEW V, NEW I, NEW X \in [1 .. n -> V], \A i \in 1 .. n : X[i].index = i,
         NEW K, Collects(K, n, I, X)
  PROVE  Ordered(K[n], I, X, n)
<1> DEFINE S == {m \in Nat : m <= n => Ordered(K[m], I, X, m)}
<1>1. 0 \in S
  <2>1. K[0] = << >> /\ Len(<< >>) = 0
    BY DEF Collects
  <2> QED
    BY <2>1 DEF Ordered
<1>2. ASSUME NEW m \in Nat, m \in S PROVE m + 1 \in S
  <2> SUFFICES ASSUME m + 1 <= n PROVE Ordered(K[m + 1], I, X, m + 1)
    OBVIOUS
  <2> DEFINE p == K[m]
             q == K[m + 1]
  <2>1. m + 1 \in 1 .. n /\ (m + 1) - 1 = m /\ Ordered(p, I, X, m)
    BY <1>2
  <2>2. p \in Seq(V) /\ X[m + 1] \in V /\ Len(p) \in Nat
    <3>1. m \in 0 .. n
      BY <2>1
    <3>2. p \in Seq(V)
      BY <2>1, <3>1, CollectedType
    <3> QED
      BY <2>1, <3>2, LenProperties
  <2>3. q = IF m + 1 \in I THEN Append(p, X[m + 1]) ELSE p
    BY <2>1 DEF Collects
  <2>4. X[m + 1].index = m + 1
    BY <2>1
  <2> HIDE DEF p, q
  <2>5. CASE m + 1 \notin I
    <3>1. q = p
      BY <2>3, <2>5
    <3>2. \A h \in 1 .. m + 1 : h \in I => h \in 1 .. m
      <4>1. \A h \in 1 .. m + 1 : h = m + 1 \/ h \in 1 .. m
        OBVIOUS
      <4> QED
        BY <2>5, <4>1
    <3>3. \A j \in 1 .. Len(p) : p[j].index \in 1 .. m + 1
      BY <2>1 DEF Ordered
    <3> QED
      BY <2>1, <3>1, <3>2, <3>3 DEF Ordered, q
  <2>6. CASE m + 1 \in I
    <3>1. /\ Len(q) = Len(p) + 1 /\ q[Len(p) + 1] = X[m + 1]
          /\ \A h \in 1 .. Len(p) : q[h] = p[h]
      BY <2>2, <2>3, <2>6, AppendProperties
    <3>2. ASSUME NEW j \in 1 .. Len(q)
          PROVE  /\ q[j].index \in 1 .. m + 1 /\ q[j].index \in I
                 /\ q[j] = X[q[j].index]
                 /\ j > 1 => q[j - 1].index < q[j].index
      <4>1. CASE j \in 1 .. Len(p)
        <5>1. q[j] = p[j] /\ (j > 1 => q[j - 1] = p[j - 1])
          <6>1. j > 1 => j - 1 \in 1 .. Len(p)
            BY <2>2, <4>1
          <6> QED
            BY <3>1, <4>1, <6>1
        <5>2. /\ p[j].index \in 1 .. m /\ p[j].index \in I
              /\ p[j] = X[p[j].index]
              /\ j > 1 => p[j - 1].index < p[j].index
          BY <2>1, <4>1 DEF Ordered
        <5>3. p[j].index \in 1 .. m + 1
          BY <5>2
        <5> QED
          BY <5>1, <5>2, <5>3
      <4>2. CASE j = Len(p) + 1
        <5>1. q[j] = X[m + 1] /\ q[j].index = m + 1
          BY <2>4, <3>1, <4>2
        <5>2. j > 1 => q[j - 1].index < m + 1
          <6>1. j > 1 => j - 1 \in 1 .. Len(p) /\ q[j - 1] = p[j - 1]
            BY <2>2, <3>1, <4>2
          <6>2. j > 1 => p[j - 1].index \in 1 .. m
            BY <2>1, <6>1 DEF Ordered
          <6> QED
            BY <6>1, <6>2
        <5> QED
          BY <2>6, <5>1, <5>2
      <4> QED
        BY <2>2, <3>1, <4>1, <4>2
    <3>3. ASSUME NEW h \in 1 .. m + 1, h \in I PROVE \E j \in 1 .. Len(q) : q[j].index = h
      <4>1. CASE h = m + 1
        <5>1. Len(p) + 1 \in 1 .. Len(q) /\ q[Len(p) + 1].index = h
          BY <2>2, <2>4, <3>1, <4>1
        <5> QED
          BY <5>1
      <4>2. CASE h \in 1 .. m
        <5>1. PICK j \in 1 .. Len(p) : p[j].index = h
          BY <2>1, <3>3, <4>2 DEF Ordered
        <5>2. j \in 1 .. Len(q) /\ q[j].index = h
          BY <2>2, <3>1, <5>1
        <5> QED
          BY <5>2
      <4> QED
        BY <4>1, <4>2
    <3> QED
      BY <3>2, <3>3 DEF Ordered, q
  <2> QED
    BY <2>5, <2>6
<1> HIDE DEF S
<1>3. n \in S
  BY <1>1, <1>2, FromZero
<1> QED
  BY <1>3 DEF S

-----------------------------------------------------------------------------
(* Options and values *)

Indices(args) == 1 .. Len(args)

\* The arguments that are options.
OptionIndices(args) == {i \in Indices(args) : is_option(args[i])}

Options(args) == [i \in Indices(args) |-> option_of(args[i], i)]
Values_(args) == [i \in Indices(args) |-> value(args[i], i)]

\* The constructor collects the options,
LEMMA CollectedOptions ==
  ASSUME NEW args \in Seq(Str)
  PROVE  \E K : /\ Collects(K, Len(args), OptionIndices(args), Options(args))
                /\ m_options(args) = K[Len(args)]
<1> DEFINE n == Len(args)
           I == OptionIndices(args)
           X == Options(args)
           V == {X[i] : i \in 1 .. n}
           Is(K) == K = [i \in 0 .. n |->
                           IF i = 0 THEN << >>
                           ELSE IF is_option(args[i]) THEN Append(K[i - 1], option_of(args[i], i))
                           ELSE K[i - 1]]
<1>1. n \in Nat
  BY LenProperties
<1>2. X \in [1 .. n -> V] /\ \A i \in 1 .. n : X[i] = option_of(args[i], i)
  BY DEF Options, Indices
<1>3. \A i \in 1 .. n : i \in I <=> is_option(args[i])
  BY DEF OptionIndices, Indices
<1> HIDE DEF X, I, V
<1>4. PICK K : K \in [0 .. n -> Seq(V)] /\ Collects(K, n, I, X)
  BY <1>1, <1>2, Collection
<1>5. Is(K)
  <2>1. \A i \in 0 .. n : K[i] = IF i = 0 THEN << >>
                                  ELSE IF is_option(args[i])
                                    THEN Append(K[i - 1], option_of(args[i], i))
                                  ELSE K[i - 1]
    <3>1. \A i \in 0 .. n : i # 0 => i \in 1 .. n
      BY <1>1
    <3> QED
      BY <1>2, <1>3, <1>4, <3>1 DEF Collects
  <2>2. K = [i \in 0 .. n |-> K[i]]
    BY <1>4
  <2> QED
    BY <2>1, <2>2
<1> DEFINE T == CHOOSE K0 : Is(K0)
<1>6. Is(T)
  <2> HIDE DEF Is
  <2> QED
    BY <1>5
<1>7. m_options(args) = T[n]
  BY DEF m_options
<1> HIDE DEF T
<1>8. Collects(T, n, I, X)
  <2>1. \A i \in 1 .. n : i \in 0 .. n /\ i # 0 /\ 0 \in 0 .. n
    BY <1>1
  <2>2. 0 \in 0 .. n
    BY <1>1
  <2> QED
    BY <1>2, <1>3, <1>6, <2>1, <2>2 DEF Collects
<1> QED
  BY <1>7, <1>8 DEF I, X

\* and the values, which are the others.
LEMMA CollectedValues ==
  ASSUME NEW args \in Seq(Str)
  PROVE  \E K : /\ Collects(K, Len(args), Indices(args) \ OptionIndices(args), Values_(args))
                /\ m_values(args) = K[Len(args)]
<1> DEFINE n == Len(args)
           I == Indices(args) \ OptionIndices(args)
           X == Values_(args)
           V == {X[i] : i \in 1 .. n}
           Is(K) == K = [i \in 0 .. n |->
                           IF i = 0 THEN << >>
                           ELSE IF is_option(args[i]) THEN K[i - 1]
                           ELSE Append(K[i - 1], value(args[i], i))]
<1>1. n \in Nat
  BY LenProperties
<1>2. X \in [1 .. n -> V] /\ \A i \in 1 .. n : X[i] = value(args[i], i)
  BY DEF Values_, Indices
<1>3. \A i \in 1 .. n : i \in I <=> ~is_option(args[i])
  BY DEF OptionIndices, Indices
<1> HIDE DEF X, I, V
<1>4. PICK K : K \in [0 .. n -> Seq(V)] /\ Collects(K, n, I, X)
  BY <1>1, <1>2, Collection
<1>5. Is(K)
  <2>1. \A i \in 0 .. n : K[i] = IF i = 0 THEN << >>
                                  ELSE IF is_option(args[i]) THEN K[i - 1]
                                  ELSE Append(K[i - 1], value(args[i], i))
    <3>1. \A i \in 0 .. n : i # 0 => i \in 1 .. n
      BY <1>1
    <3> QED
      BY <1>2, <1>3, <1>4, <3>1 DEF Collects
  <2>2. K = [i \in 0 .. n |-> K[i]]
    BY <1>4
  <2> QED
    BY <2>1, <2>2
<1> DEFINE T == CHOOSE K0 : Is(K0)
<1>6. Is(T)
  <2> HIDE DEF Is
  <2> QED
    BY <1>5
<1>7. m_values(args) = T[n]
  BY DEF m_values
<1> HIDE DEF T
<1>8. Collects(T, n, I, X)
  <2>1. \A i \in 1 .. n : i \in 0 .. n /\ i # 0
    BY <1>1
  <2>2. 0 \in 0 .. n
    BY <1>1
  <2> QED
    BY <1>2, <1>3, <1>6, <2>1, <2>2 DEF Collects
<1> QED
  BY <1>7, <1>8 DEF I, X

\* What the options and the values of some arguments are.
LEMMA Arguments ==
  ASSUME NEW args \in Seq(Str)
  PROVE  /\ Ordered(m_options(args), OptionIndices(args), Options(args), Len(args))
         /\ Ordered(m_values(args), Indices(args) \ OptionIndices(args), Values_(args), Len(args))
         /\ Len(m_options(args)) \in Nat /\ DOMAIN m_options(args) = 1 .. Len(m_options(args))
         /\ Len(m_values(args)) \in Nat /\ DOMAIN m_values(args) = 1 .. Len(m_values(args))
         /\ size(args) = Len(args)
<1> DEFINE n == Len(args)
           I == OptionIndices(args)
           J == Indices(args) \ I
           X == Options(args)
           Y == Values_(args)
           U == {X[i] : i \in 1 .. n}
           V == {Y[i] : i \in 1 .. n}
<1>1. n \in Nat
  BY LenProperties
<1>2. X \in [1 .. n -> U] /\ \A i \in 1 .. n : X[i].index = i
  BY DEF Options, Indices, option_of, option
<1>3. Y \in [1 .. n -> V] /\ \A i \in 1 .. n : Y[i].index = i
  BY DEF Values_, Indices, value
<1>4. I \subseteq 1 .. n /\ J \subseteq 1 .. n /\ J = (1 .. n) \ I
  BY DEF OptionIndices, Indices
<1>5. PICK K : Collects(K, n, I, X) /\ m_options(args) = K[n]
  BY CollectedOptions
<1>6. PICK L : Collects(L, n, J, Y) /\ m_values(args) = L[n]
  BY CollectedValues
<1> HIDE DEF I, J, X, Y, U, V
<1>7. /\ Ordered(K[n], I, X, n) /\ Ordered(L[n], J, Y, n)
      /\ Len(K[n]) = Cardinality(I) /\ Len(L[n]) = Cardinality(J)
      /\ K[n] \in Seq(U) /\ L[n] \in Seq(V)
  <2>1. n \in 0 .. n
    BY <1>1
  <2>2. Ordered(K[n], I, X, n) /\ Ordered(L[n], J, Y, n)
    <3>1. Ordered(K[n], I, X, n)
      BY ONLY <1>1, <1>2, <1>5, CollectedInOrder
    <3>2. Ordered(L[n], J, Y, n)
      BY ONLY <1>1, <1>3, <1>6, CollectedInOrder
    <3> QED
      BY <3>1, <3>2
  <2>3. Len(K[n]) = Cardinality(I)
    BY ONLY <1>1, <1>2, <1>4, <1>5, CollectedCount
  <2>4. Len(L[n]) = Cardinality(J)
    BY ONLY <1>1, <1>3, <1>4, <1>6, CollectedCount
  <2>5. K[n] \in Seq(U) /\ L[n] \in Seq(V)
    <3>1. K[n] \in Seq(U)
      BY ONLY <1>1, <1>2, <1>5, <2>1, CollectedType
    <3>2. L[n] \in Seq(V)
      BY ONLY <1>1, <1>3, <1>6, <2>1, CollectedType
    <3> QED
      BY <3>1, <3>2
  <2> QED
    BY <2>2, <2>3, <2>4, <2>5
<1>8. Cardinality(I) + Cardinality(J) = n
  <2>1. IsFiniteSet(1 .. n) /\ Cardinality(1 .. n) = n
    BY <1>1, FS_Interval
  <2>2. /\ IsFiniteSet(I) /\ IsFiniteSet(J)
    BY <1>4, <2>1, FS_Subset
  <2>3. I \cup J = 1 .. n /\ I \cap J = {}
    BY <1>4, Zenon
  <2>4. Cardinality(I \cup J) = Cardinality(I) + Cardinality(J) - Cardinality(I \cap J)
    BY ONLY <2>2, FS_Union
  <2>5. Cardinality(I) \in Nat /\ Cardinality(J) \in Nat /\ Cardinality({}) = 0
    BY <2>2, FS_CardinalityType, FS_EmptySet
  <2>6. Cardinality(I \cup J) = n /\ Cardinality(I \cap J) = 0
    BY <2>1, <2>3, <2>5
  <2> QED
    BY <2>4, <2>5, <2>6
<1>9. /\ Len(K[n]) \in Nat /\ DOMAIN K[n] = 1 .. Len(K[n])
      /\ Len(L[n]) \in Nat /\ DOMAIN L[n] = 1 .. Len(L[n])
  BY <1>7, LenProperties
<1> QED
  BY <1>5, <1>6, <1>7, <1>8, <1>9 DEF size, I, J, X, Y

-----------------------------------------------------------------------------
(* One option *)

\* What a text starts with, and what follows.
LEMMA Divided ==
  ASSUME NEW s \in Str, NEW k \in 0 .. Len(s)
  PROVE  /\ SubSeq(s, 1, k) \o SubSeq(s, k + 1, Len(s)) = s
         /\ SubSeq(s, 1, k) \in Str /\ SubSeq(s, k + 1, Len(s)) \in Str
<1> DEFINE n == Len(s)
<1>1. n \in Nat /\ s \in Seq(Characters)
  BY LenProperties DEF Str
<1>2. k \in 1 - 1 .. n /\ n \in k .. n
  BY <1>1
<1>3. SubSeq(s, 1, k) \o SubSeq(s, k + 1, n) = SubSeq(s, 1, n)
  <2>1. 1 \in 1 .. n + 1
    BY <1>1
  <2> QED
    BY <1>1, <1>2, <2>1, ConcatAdjacentSubSeq
<1>4. SubSeq(s, 1, n) = s
  BY <1>1, SubSeqFull
<1>5. SubSeq(s, 1, k) \in Str
  <2>1. 1 \in 1 .. n + 1 /\ 1 <= k + 1
    BY <1>1
  <2> QED
    BY <2>1, Part
<1>6. SubSeq(s, k + 1, n) \in Str
  <2>1. k + 1 \in 1 .. n + 1 /\ n \in 0 .. n /\ k + 1 <= n + 1
    BY <1>1
  <2> QED
    BY <2>1, Part
<1> QED
  BY <1>3, <1>4, <1>5, <1>6

\* Texts of the same characters are the same.
LEMMA SameText ==
  ASSUME NEW s \in Str, NEW t \in Str, Len(s) = Len(t), \A i \in 1 .. Len(s) : s[i] = t[i]
  PROVE  s = t
BY SeqEqual DEF Str

LEMMA Marks == {"-", "="} \subseteq Characters
BY CmdArgsAssumption DEF CmdArgsAssumption, Characters

\* split for two recipients gives the text before the first delimiter and the text
\* after it.
LEMMA SplitOnce ==
  ASSUME NEW s \in Str, NEW c \in Characters
  PROVE  LET parts == split(s, c)
         IN  /\ parts[1] \in Str /\ parts[2] \in Str /\ ~Has(parts[1], c)
             /\ \/ s = parts[1] /\ parts[2] = << >>
                \/ s = (parts[1] \o <<c>>) \o parts[2]
<1> DEFINE n == Len(s)
           j == find(s, 1, c)
           p == SubSeq(s, 1, j - 1)
           q == SubSeq(s, j + 1, n)
<1>1. n \in Nat /\ 1 \in 1 .. n + 1 /\ s \in Seq(Characters)
  BY LenProperties DEF Str
<1>2. split(s, c)[1] = p /\ split(s, c)[2] = q
  BY DEF split
<1>3. j \in 1 .. n + 1 /\ (j <= n => s[j] = c) /\ \A h \in 1 .. j - 1 : s[h] # c
  BY <1>1, FindFirst
<1> HIDE DEF j
<1>4. j - 1 \in 0 .. n /\ 1 <= (j - 1) + 1 /\ j - 1 \in Nat
  BY <1>1, <1>3
<1>5. p \in Str /\ Len(p) = (j - 1) + 1 - 1
      /\ \A h \in 1 .. (j - 1) + 1 - 1 : p[h] = s[1 + h - 1]
  BY <1>1, <1>4, Part
<1>6. ~Has(p, c)
  <2> SUFFICES ASSUME NEW h \in 1 .. Len(p) PROVE p[h] # c
    BY DEF Has
  <2>1. h \in 1 .. j - 1 /\ 1 + h - 1 = h /\ h \in 1 .. (j - 1) + 1 - 1
    BY <1>4, <1>5
  <2> QED
    BY <1>3, <1>5, <2>1
<1>7. CASE j <= n
  <2>1. j \in 1 .. n /\ n \in j .. n
    BY <1>1, <1>3, <1>7
  <2>2. (p \o <<s[j]>>) \o q = SubSeq(s, 1, n)
    BY <1>1, <2>1, Around
  <2>3. SubSeq(s, 1, n) = s
    BY <1>1, SubSeqFull
  <2>4. q \in Str
    <3>1. j + 1 \in 1 .. n + 1 /\ n \in 0 .. n /\ j + 1 <= n + 1
      BY <1>1, <2>1
    <3> QED
      BY <3>1, Part
  <2>5. s = (p \o <<c>>) \o q
    BY <1>3, <1>7, <2>2, <2>3
  <2> QED
    BY <1>2, <1>5, <1>6, <2>4, <2>5
<1>8. CASE j = n + 1
  <2>1. p = s
    <3>1. j - 1 = n
      BY <1>1, <1>8
    <3>2. SubSeq(s, 1, n) = s
      BY <1>1, SubSeqFull
    <3> QED
      BY <3>1, <3>2
  <2>2. q = << >>
    <3>1. j + 1 \in Int /\ n \in Int /\ n < j + 1
      BY <1>1, <1>8
    <3> QED
      BY ONLY <3>1, SubSeqEmpty
  <2>3. << >> \in Str
    BY DEF Str
  <2> QED
    BY <1>2, <1>5, <1>6, <2>1, <2>2, <2>3
<1>9. j <= n \/ j = n + 1
  BY <1>1, <1>3
<1> HIDE DEF p, q
<1> QED
  BY ONLY <1>7, <1>8, <1>9

\* What an option keeps of its argument gives it back, but for an "=" at the end.
LEMMA OptionText ==
  ASSUME NEW arg \in Str, is_option(arg), NEW i \in Nat
  PROVE  /\ option_of(arg, i).type \in {singleDash, doubleDash}
         /\ option_of(arg, i).original = arg
         /\ ~Has(option_of(arg, i).name, "=")
         /\ arg \in {to_string(option_of(arg, i)), to_string(option_of(arg, i)) \o <<"=">>}
<1> DEFINE o == option_of(arg, i)
           n == Len(arg)
           k == type_of(arg)
           rest == SubSeq(arg, k + 1, n)
           dashes == IF k = singleDash THEN <<"-">> ELSE <<"-", "-">>
           name == split(rest, "=")[1]
           val == split(rest, "=")[2]
           eq == <<"=">>
<1>1. n \in Nat /\ n >= 1 /\ arg[1] = "-"
  BY LenProperties DEF Str, is_option
<1>2. /\ k \in {1, 2} /\ k \in 0 .. n /\ (k = 2 => arg[2] = "-")
      /\ singleDash = 1 /\ doubleDash = 2
  BY <1>1 DEF type_of, singleDash, doubleDash
<1>3. /\ o.name = name /\ o.value = val /\ o.type = k /\ o.original = arg
  BY DEF option_of, option
<1> HIDE DEF k
<1>4. eq \in Str /\ dashes \in Str /\ "=" \in Characters /\ "-" \in Characters
  BY Marks DEF Str
<1>5. SubSeq(arg, 1, k) = dashes
  <2> DEFINE d == SubSeq(arg, 1, k)
  <2>1. 1 \in 1 .. n + 1 /\ 1 <= k + 1
    BY <1>1, <1>2
  <2>2. d \in Str /\ Len(d) = k + 1 - 1 /\ \A h \in 1 .. k + 1 - 1 : d[h] = arg[1 + h - 1]
    BY <1>2, <2>1, Part
  <2>3. Len(dashes) = k /\ \A h \in 1 .. k : dashes[h] = "-"
    BY <1>2
  <2>4. \A h \in 1 .. k : arg[h] = "-" /\ 1 + h - 1 = h
    BY <1>1, <1>2
  <2>5. Len(d) = k /\ \A h \in 1 .. k : d[h] = "-"
    BY <1>2, <2>2, <2>4
  <2> HIDE DEF d, dashes
  <2>6. \A h \in 1 .. Len(d) : d[h] = dashes[h]
    BY <2>3, <2>5
  <2> QED
    BY <1>4, <2>2, <2>3, <2>5, <2>6, SameText DEF d
<1>6. arg = dashes \o rest /\ rest \in Str
  BY <1>2, <1>5, Divided
<1> HIDE DEF dashes, rest
<1>7. /\ name \in Str /\ val \in Str /\ ~Has(name, "=")
      /\ \/ rest = name /\ val = << >>
         \/ rest = (name \o eq) \o val
  BY <1>4, <1>6, SplitOnce
<1> DEFINE text_ == (dashes \o name) \o (IF val = << >> THEN << >> ELSE eq \o val)
<1>8. to_string(o) = text_
  BY <1>3 DEF to_string, dashes
<1> HIDE DEF o, name, val, eq
<1>9. arg \in {text_, text_ \o eq}
  <2>1. CASE rest = name /\ val = << >>
    <3>1. (dashes \o name) \o << >> = dashes \o name
      BY <1>4, <1>7, Concat
    <3> QED
      BY <1>6, <2>1, <3>1
  <2>2. CASE rest = (name \o eq) \o val /\ val # << >>
    <3> DEFINE x == eq \o val
    <3>1. Associates(name, eq, val)
      BY ONLY <1>4, <1>7, Regroup
    <3>2. x \in Str
      BY <1>4, <1>7, Concat
    <3>3. rest = name \o x
      BY <2>2, <3>1 DEF Associates
    <3> HIDE DEF x
    <3>4. Associates(dashes, name, x)
      BY ONLY <1>4, <1>7, <3>2, Regroup
    <3>5. arg = (dashes \o name) \o x
      BY <1>6, <3>3, <3>4 DEF Associates
    <3>6. text_ = (dashes \o name) \o x
      BY <2>2 DEF x
    <3> QED
      BY <3>5, <3>6
  <2>3. CASE rest = (name \o eq) \o val /\ val = << >>
    <3>1. rest = name \o eq
      <4>1. name \o eq \in Str
        BY <1>4, <1>7, Concat
      <4> QED
        BY <2>3, <4>1, Concat
    <3>2. Associates(dashes, name, eq)
      BY ONLY <1>4, <1>7, Regroup
    <3>3. arg = (dashes \o name) \o eq
      BY <1>6, <3>1, <3>2 DEF Associates
    <3>4. text_ = dashes \o name
      <4>1. dashes \o name \in Str
        BY <1>4, <1>7, Concat
      <4> QED
        BY <2>3, <4>1, Concat
    <3> QED
      BY <3>3, <3>4
  <2> QED
    BY <1>7, <2>1, <2>2, <2>3
<1> HIDE DEF text_
<1>10. arg \in {to_string(o), to_string(o) \o eq}
  BY <1>8, <1>9
<1>11. o.type \in {singleDash, doubleDash}
  BY <1>2, <1>3
<1>12. o.original = arg /\ ~Has(o.name, "=")
  BY <1>3, <1>7
<1> QED
  BY <1>10, <1>11, <1>12 DEF o, eq

-----------------------------------------------------------------------------
(* The searches *)

\* A search from the first place on gives the first that is right, or the end.
FirstOf(n, R, j) ==
  /\ j \in 1 .. n + 1 /\ (j = n + 1 \/ j \in R) /\ \A h \in 1 .. j - 1 : h \notin R

LEMMA SearchEnds ==
  ASSUME NEW n \in Nat, NEW R
  PROVE  \E j : FirstOf(n, R, j)
<1> DEFINE T == {j \in 1 .. n + 1 : j = n + 1 \/ j \in R}
<1>1. T \subseteq Nat /\ n + 1 \in T
  OBVIOUS
<1>2. PICK x \in T : \A y \in T : x <= y
  <2> HIDE DEF T
  <2> QED
    BY <1>1, LeastNumber
<1>3. x \in 1 .. n + 1 /\ (x = n + 1 \/ x \in R)
  OBVIOUS
<1>4. ASSUME NEW h \in 1 .. x - 1, h \in R PROVE FALSE
  <2>1. h \in 1 .. n + 1 /\ ~(x <= h)
    BY <1>3
  <2>2. h \in T
    BY <1>4, <2>1
  <2> QED
    BY <1>2, <2>1, <2>2
<1> QED
  BY <1>3, <1>4 DEF FirstOf

\* The options that a search for a name and a type is after,
Matching(args, name, type) ==
  {j \in 1 .. Len(m_options(args)) :
     m_options(args)[j].name = name /\ type \in {-1, m_options(args)[j].type}}

\* the values of a name,
Named(args, name) == {j \in 1 .. Len(m_values(args)) : m_values(args)[j].name = name}

\* and that the searches find the first of them.
LEMMA OptionSearch ==
  ASSUME NEW args \in Seq(Str), NEW name, NEW type
  PROVE  FirstOf(Len(m_options(args)), Matching(args, name, type), has_option_(args, name, type))
<1> DEFINE opts == m_options(args)
           n == Len(opts)
           R == Matching(args, name, type)
           matches(j) == opts[j].name = name /\ type \in {-1, opts[j].type}
           Is(j) == (j = n + 1 \/ matches(j)) /\ \A h \in 1 .. j - 1 : ~matches(h)
<1>1. n \in Nat
  BY Arguments
<1>2. \A j \in 1 .. n : j \in R <=> matches(j)
  BY DEF Matching
<1>3. R \subseteq 1 .. n
  BY DEF Matching
<1>4. has_option_(args, name, type) = CHOOSE j \in 1 .. n + 1 : Is(j)
  BY DEF has_option_
<1> HIDE DEF R, opts, matches
<1>5. PICK x : FirstOf(n, R, x)
  BY <1>1, SearchEnds
<1>6. \A j \in 1 .. n + 1 : FirstOf(n, R, j) <=> Is(j)
  <2> SUFFICES ASSUME NEW j \in 1 .. n + 1 PROVE FirstOf(n, R, j) <=> Is(j)
    OBVIOUS
  <2>1. (j = n + 1 \/ j \in R) <=> (j = n + 1 \/ matches(j))
    <3>1. j = n + 1 \/ j \in 1 .. n
      BY <1>1
    <3> QED
      BY <1>2, <3>1
  <2>2. \A h \in 1 .. j - 1 : h \in R <=> matches(h)
    <3>1. \A h \in 1 .. j - 1 : h \in 1 .. n
      BY <1>1
    <3> QED
      BY <1>2, <3>1
  <2> QED
    BY <2>1, <2>2 DEF FirstOf
<1>7. \E j \in 1 .. n + 1 : Is(j)
  BY <1>5, <1>6 DEF FirstOf
<1> HIDE DEF Is
<1>8. has_option_(args, name, type) \in 1 .. n + 1 /\ Is(has_option_(args, name, type))
  BY <1>4, <1>7
<1> QED
  BY <1>6, <1>8 DEF opts, R

LEMMA ValueSearch ==
  ASSUME NEW args \in Seq(Str), NEW name
  PROVE  FirstOf(Len(m_values(args)), Named(args, name), has_value_(args, name))
<1> DEFINE vals == m_values(args)
           n == Len(vals)
           R == Named(args, name)
           Is(j) == (j = n + 1 \/ vals[j].name = name) /\ \A h \in 1 .. j - 1 : vals[h].name # name
<1>1. n \in Nat
  BY Arguments
<1>2. \A j \in 1 .. n : j \in R <=> vals[j].name = name
  BY DEF Named
<1>4. has_value_(args, name) = CHOOSE j \in 1 .. n + 1 : Is(j)
  BY DEF has_value_
<1> HIDE DEF R, vals
<1>5. PICK x : FirstOf(n, R, x)
  BY <1>1, SearchEnds
<1>6. \A j \in 1 .. n + 1 : FirstOf(n, R, j) <=> Is(j)
  <2> SUFFICES ASSUME NEW j \in 1 .. n + 1 PROVE FirstOf(n, R, j) <=> Is(j)
    OBVIOUS
  <2>1. (j = n + 1 \/ j \in R) <=> (j = n + 1 \/ vals[j].name = name)
    <3>1. j = n + 1 \/ j \in 1 .. n
      BY <1>1
    <3> QED
      BY <1>2, <3>1
  <2>2. \A h \in 1 .. j - 1 : h \in R <=> vals[h].name = name
    <3>1. \A h \in 1 .. j - 1 : h \in 1 .. n
      BY <1>1
    <3> QED
      BY <1>2, <3>1
  <2> QED
    BY <2>1, <2>2 DEF FirstOf
<1>7. \E j \in 1 .. n + 1 : Is(j)
  BY <1>5, <1>6 DEF FirstOf
<1> HIDE DEF Is
<1>8. has_value_(args, name) \in 1 .. n + 1 /\ Is(has_value_(args, name))
  BY <1>4, <1>7
<1> QED
  BY <1>6, <1>8 DEF vals, R

\* A search finds none before, and nothing only where there is nothing to find.
LEMMA SearchFinds ==
  ASSUME NEW n \in Nat, NEW R, R \subseteq 1 .. n, NEW j, FirstOf(n, R, j)
  PROVE  /\ \A h \in R : j <= h
         /\ j <= n <=> \E h \in 1 .. n : h \in R
<1>1. \A h \in R : h \in 1 .. n
  OBVIOUS
<1>2. \A h \in R : j <= h
  <2> SUFFICES ASSUME NEW h \in R, ~(j <= h) PROVE FALSE
    OBVIOUS
  <2>1. h \in 1 .. j - 1
    BY <1>1 DEF FirstOf
  <2> QED
    BY <2>1 DEF FirstOf
<1>3. j <= n <=> \E h \in 1 .. n : h \in R
  <2>1. j <= n => j \in 1 .. n /\ j \in R
    BY DEF FirstOf
  <2>2. ASSUME NEW h \in 1 .. n, h \in R PROVE j <= n
    BY <1>2, <2>2 DEF FirstOf
  <2> QED
    BY <2>1, <2>2
<1> QED
  BY <1>2, <1>3

\* A search that has more to find does not go further.
LEMMA SearchShorter ==
  ASSUME NEW n \in Nat, NEW R, NEW j, FirstOf(n, R, j), NEW Q, NEW i, R \subseteq Q,
         FirstOf(n, Q, i)
  PROVE  i <= j
<1> SUFFICES ASSUME ~(i <= j) PROVE FALSE
  OBVIOUS
<1>1. i \in 1 .. n + 1 /\ j \in 1 .. n + 1
  BY DEF FirstOf
<1>2. j \in 1 .. i - 1 /\ j # n + 1
  BY <1>1
<1>3. j \in R
  BY <1>2 DEF FirstOf
<1> QED
  BY <1>2, <1>3 DEF FirstOf

\* Every argument is accounted for.
LEMMA Accounted ==
  ASSUME argv \in Seq(Str)
  PROVE  ArgsAccounted
<1> DEFINE opts == m_options(argv)
           vals == m_values(argv)
           n == Len(argv)
           I == OptionIndices(argv)
           J == Indices(argv) \ I
<1>1. /\ Ordered(opts, I, Options(argv), n) /\ Ordered(vals, J, Values_(argv), n)
      /\ Len(opts) \in Nat /\ Len(vals) \in Nat /\ size(argv) = n
      /\ DOMAIN opts = 1 .. Len(opts) /\ DOMAIN vals = 1 .. Len(vals)
  BY Arguments
<1>2. n \in Nat /\ DOMAIN argv = 1 .. n /\ \A i \in 1 .. n : argv[i] \in Str
  BY LenProperties, ElementOfSeq
<1>3. \A i \in 1 .. n : i \in I <=> is_option(argv[i])
  BY DEF OptionIndices, Indices
<1>4. \A i \in 1 .. n : i \in J <=> ~is_option(argv[i])
  BY DEF OptionIndices, Indices
<1>5. \A i \in 1 .. n : Options(argv)[i] = option_of(argv[i], i)
  BY DEF Options, Indices
<1>6. \A i \in 1 .. n : Values_(argv)[i] = value(argv[i], i)
  BY DEF Values_, Indices
<1> HIDE DEF opts, vals, I, J
<1>7. ASSUME NEW j \in 1 .. Len(opts)
      PROVE  /\ opts[j].index \in 1 .. n /\ is_option(argv[opts[j].index])
             /\ opts[j] = option_of(argv[opts[j].index], opts[j].index)
             /\ j > 1 => opts[j - 1].index < opts[j].index
  <2>1. /\ opts[j].index \in 1 .. n /\ opts[j].index \in I
        /\ opts[j] = Options(argv)[opts[j].index]
        /\ j > 1 => opts[j - 1].index < opts[j].index
    BY <1>1 DEF Ordered
  <2> QED
    BY <1>3, <1>5, <2>1
<1>8. ASSUME NEW j \in 1 .. Len(vals)
      PROVE  /\ vals[j].index \in 1 .. n /\ ~is_option(argv[vals[j].index])
             /\ vals[j].name = argv[vals[j].index]
  <2>1. /\ vals[j].index \in 1 .. n /\ vals[j].index \in J
        /\ vals[j] = Values_(argv)[vals[j].index]
    BY <1>1 DEF Ordered
  <2>2. vals[j] = value(argv[vals[j].index], vals[j].index)
    BY <1>6, <2>1
  <2>3. vals[j].name = argv[vals[j].index]
    BY <2>2 DEF value
  <2> QED
    BY <1>4, <2>1, <2>3
<1>9. {opts[j].index : j \in DOMAIN opts} \cup {vals[j].index : j \in DOMAIN vals} = DOMAIN argv
  <2>1. ASSUME NEW h \in 1 .. n
        PROVE  \/ \E j \in 1 .. Len(opts) : opts[j].index = h
               \/ \E j \in 1 .. Len(vals) : vals[j].index = h
    BY <1>1, <1>3, <1>4 DEF Ordered
  <2>2. \A j \in DOMAIN opts : opts[j].index \in 1 .. n
    BY <1>1, <1>7
  <2>3. \A j \in DOMAIN vals : vals[j].index \in 1 .. n
    BY <1>1, <1>8
  <2>4. \A h \in 1 .. n : \/ h \in {opts[j].index : j \in DOMAIN opts}
                          \/ h \in {vals[j].index : j \in DOMAIN vals}
    BY <1>1, <2>1
  <2> QED
    BY ONLY <1>2, <2>2, <2>3, <2>4, Zenon
<1>10. ASSUME NEW j \in 1 .. Len(opts)
       PROVE  /\ opts[j].type \in {1, 2} /\ ~Has(opts[j].name, "=")
              /\ argv[opts[j].index] = opts[j].original
              /\ opts[j].original \in {to_string(opts[j]), to_string(opts[j]) \o <<"=">>}
  <2> DEFINE i == opts[j].index
             o == option_of(argv[i], i)
  <2>1. i \in Nat /\ argv[i] \in Str /\ is_option(argv[i]) /\ opts[j] = o
    BY <1>2, <1>7
  <2> HIDE DEF i
  <2>2. /\ o.type \in {singleDash, doubleDash} /\ o.original = argv[i] /\ ~Has(o.name, "=")
        /\ argv[i] \in {to_string(o), to_string(o) \o <<"=">>}
    BY <2>1, OptionText
  <2> HIDE DEF o
  <2> QED
    BY <2>1, <2>2 DEF i, singleDash, doubleDash
<1>11. ASSUME NEW j \in 1 .. Len(opts)
       PROVE  /\ has_option_(argv, opts[j].name, opts[j].type) <= j
              /\ has_option_(argv, opts[j].name, -1)
                   <= has_option_(argv, opts[j].name, opts[j].type)
              /\ has_option(argv, opts[j].name, 3 - opts[j].type) <=>
                   \E i \in 1 .. Len(opts) :
                     opts[i].name = opts[j].name /\ opts[i].type # opts[j].type
  <2> DEFINE name == opts[j].name
             type == opts[j].type
             R(t) == Matching(argv, name, t)
  <2>1. \A t, i : i \in R(t) <=>
                    i \in 1 .. Len(opts) /\ opts[i].name = name /\ t \in {-1, opts[i].type}
    BY DEF Matching, opts
  <2>2. \A i \in 1 .. Len(opts) : opts[i].type \in {1, 2}
    BY <1>10
  <2> HIDE DEF R
  <2>3. j \in R(type) /\ R(type) \subseteq R(-1) /\ \A t : R(t) \subseteq 1 .. Len(opts)
    BY <2>1
  <2>4. \A t : FirstOf(Len(opts), R(t), has_option_(argv, name, t))
    BY OptionSearch DEF R, opts
  <2> HIDE DEF name, type
  <2> DEFINE m == Len(opts)
             x == has_option_(argv, name, type)
             y == has_option_(argv, name, -1)
             z == has_option_(argv, name, 3 - type)
  <2>5. FirstOf(m, R(type), x) /\ FirstOf(m, R(-1), y) /\ FirstOf(m, R(3 - type), z)
    BY <2>4
  <2>6. has_option(argv, name, 3 - type) <=> z <= m
    BY DEF has_option, opts
  <2> HIDE DEF m, x, y, z
  <2>7. m \in Nat /\ R(type) \subseteq 1 .. m /\ R(3 - type) \subseteq 1 .. m
    BY <1>1, <2>3 DEF m
  <2>8. x <= j
    BY <2>3, <2>5, <2>7, SearchFinds
  <2>9. y <= x
    BY ONLY <2>3, <2>5, <2>7, SearchShorter
  <2>10. z <= m <=> \E h \in 1 .. m : h \in R(3 - type)
    BY <2>5, <2>7, SearchFinds
  <2>11. \A h \in 1 .. m : h \in R(3 - type) <=> opts[h].name = name /\ opts[h].type # type
    <3>1. type \in {1, 2}
      BY <2>2 DEF type
    <3>2. \A h \in 1 .. m : 3 - type \in {-1, opts[h].type} <=> opts[h].type # type
      BY <2>2, <3>1 DEF m
    <3> QED
      BY <2>1, <3>2 DEF m
  <2> QED
    BY <2>6, <2>8, <2>9, <2>10, <2>11 DEF m, name, type, x, y
<1>12. ASSUME NEW v
       PROVE  /\ \A j \in 1 .. Len(vals) : vals[j].name = v => has_value_(argv, v) <= j
              /\ has_value(argv, v) <=> \E j \in 1 .. Len(vals) : vals[j].name = v
  <2> DEFINE R == Named(argv, v)
             x == has_value_(argv, v)
             m == Len(vals)
  <2>1. \A i : i \in R <=> i \in 1 .. m /\ vals[i].name = v
    BY DEF Named, vals
  <2>2. FirstOf(m, R, x)
    BY ValueSearch DEF vals
  <2>3. has_value(argv, v) <=> x <= m
    BY DEF has_value, vals
  <2> HIDE DEF R, x
  <2>4. m \in Nat /\ R \subseteq 1 .. m
    BY <1>1, <2>1
  <2> HIDE DEF m
  <2>5. (\A h \in R : x <= h) /\ (x <= m <=> \E h \in 1 .. m : h \in R)
    BY <2>2, <2>4, SearchFinds
  <2> QED
    BY <2>1, <2>3, <2>5 DEF x, m
<1>13. ASSUME NEW j \in 1 .. Len(vals)
       PROVE  /\ argv[vals[j].index] = vals[j].name /\ ~is_option(vals[j].name)
              /\ has_value_(argv, vals[j].name) <= j
  BY <1>8, <1>12
<1>14. ASSUME NEW i \in DOMAIN argv PROVE has_value(argv, argv[i]) <=> ~is_option(argv[i])
  <2>1. i \in 1 .. n
    BY <1>2
  <2>2. ~is_option(argv[i]) => \E j \in 1 .. Len(vals) : vals[j].index = i
    BY <1>1, <1>4, <2>1 DEF Ordered
  <2>3. ~is_option(argv[i]) => \E j \in 1 .. Len(vals) : vals[j].name = argv[i]
    BY <1>8, <2>2
  <2>4. (\E j \in 1 .. Len(vals) : vals[j].name = argv[i]) => ~is_option(argv[i])
    BY <1>8
  <2> QED
    BY <1>12, <2>3, <2>4
<1>15. size(argv) = n
  BY <1>1
<1> QED
  BY <1>7, <1>9, <1>10, <1>11, <1>13, <1>14, <1>15 DEF ArgsAccounted, opts, vals

-----------------------------------------------------------------------------
(* The arguments *)

LEMMA ArgsType ==
  /\ ArgsInit => argv \in Seq(Str)
  /\ argv \in Seq(Str) /\ [ArgsNext]_argv => (argv \in Seq(Str))'
<1>1. ArgsInit => argv \in Seq(Str)
  BY DEF ArgsInit
<1>2. ASSUME argv \in Seq(Str), [ArgsNext]_argv PROVE argv' \in Seq(Str)
  <2>1. CASE NewArg
    <3>1. << >> \in Str
      BY DEF Str
    <3> QED
      BY <1>2, <2>1, <3>1, AppendProperties DEF NewArg
  <2>2. ASSUME NEW c \in Chars, NewChar(c) PROVE argv' \in Seq(Str)
    <3> DEFINE n == Len(argv)
    <3>1. n \in Nat /\ DOMAIN argv = 1 .. n /\ n # 0
      BY <1>2, <2>2, LenProperties, EmptySeq DEF NewChar
    <3>2. argv[n] \in Str /\ c \in Characters
      BY <1>2, <3>1, ElementOfSeq DEF Characters
    <3>3. Append(argv[n], c) \in Str
      BY <3>2, AppendProperties DEF Str
    <3>4. argv' = [argv EXCEPT ![n] = Append(argv[n], c)]
      BY <2>2 DEF NewChar
    <3> QED
      BY <1>2, <3>1, <3>3, <3>4, ExceptSeq
  <2>3. CASE UNCHANGED argv
    BY <1>2, <2>3
  <2> QED
    BY <1>2, <2>1, <2>2, <2>3 DEF ArgsNext, Complete
<1> QED
  BY <1>1, <1>2 DEF Str, Characters

\* Whatever the arguments of a program are, split gives the parts between the first
\* delimiters and str_split those between all of them, whole.
THEOREM SplitsAreExact == ArgsSpec => []SplitExact
<1>1. argv \in Seq(Str) => SplitExact
  <2> SUFFICES ASSUME argv \in Seq(Str), NEW i \in 1 .. Len(argv)
               PROVE  SplitsAll(argv[i], "=") /\ \A k \in 2 .. 6 : SplitsExactly(argv[i], "=", k)
    BY DEF SplitExact
  <2>1. argv[i] \in Str /\ "=" \in Characters
    BY ElementOfSeq, Marks
  <2>2. \A k \in 2 .. 6 : k \in Nat \ {0}
    OBVIOUS
  <2> QED
    BY <2>1, <2>2, SplitAll, SplitExactly
<1> QED
  BY <1>1, ArgsType, PTL DEF ArgsSpec

\* Whatever the arguments of a program are, each is found again as one option or one
\* value, under its index, in order and whole, and the searches find the first option
\* or value of a name.
THEOREM ArgumentsAreAccounted == ArgsSpec => []ArgsAccounted
<1>1. argv \in Seq(Str) => ArgsAccounted
  BY Accounted
<1> QED
  BY <1>1, ArgsType, PTL DEF ArgsSpec

-----------------------------------------------------------------------------
(* Characters of a text *)

\* The places of a text that hold something else than c.
Others(s, c) == {i \in 1 .. Len(s) : s[i] # c}

\* str_remove collects what is not c.
LEMMA Removal ==
  ASSUME NEW s \in Str, NEW c
  PROVE  \E K : /\ Collects(K, Len(s), Others(s, c), s)
                /\ str_remove(s, c).str = K[Len(s)]
                /\ str_remove(s, c).count = Len(s) - Len(K[Len(s)])
<1> DEFINE n == Len(s)
           I == Others(s, c)
           Is(K) == K = [i \in 0 .. n |->
                           IF i = 0 THEN << >>
                           ELSE IF s[i] # c THEN Append(K[i - 1], s[i]) ELSE K[i - 1]]
<1>1. n \in Nat
  BY LenProperties DEF Str
<1>2. s \in [1 .. n -> Characters]
  <2>1. s \in Seq(Characters)
    BY DEF Str
  <2> QED
    BY <2>1, LenProperties
<1>3. \A i \in 1 .. n : i \in I <=> s[i] # c
  BY DEF Others
<1> HIDE DEF I
<1>4. PICK K : K \in [0 .. n -> Seq(Characters)] /\ Collects(K, n, I, s)
  BY <1>1, <1>2, Collection
<1>5. Is(K)
  <2>1. \A i \in 0 .. n : K[i] = IF i = 0 THEN << >>
                                  ELSE IF s[i] # c THEN Append(K[i - 1], s[i]) ELSE K[i - 1]
    <3>1. \A i \in 0 .. n : i # 0 => i \in 1 .. n
      BY <1>1
    <3> QED
      BY <1>3, <1>4, <3>1 DEF Collects
  <2>2. K = [i \in 0 .. n |-> K[i]]
    BY <1>4
  <2> QED
    BY <2>1, <2>2
<1> DEFINE T == CHOOSE K0 : Is(K0)
<1>6. Is(T)
  <2> HIDE DEF Is
  <2> QED
    BY <1>5
<1>7. str_remove(s, c) = [count |-> n - Len(T[n]), str |-> T[n]]
  BY DEF str_remove
<1> HIDE DEF T
<1>8. Collects(T, n, I, s)
  <2>1. \A i \in 1 .. n : i \in 0 .. n /\ i # 0
    BY <1>1
  <2>2. 0 \in 0 .. n
    BY <1>1
  <2> QED
    BY <1>3, <1>6, <2>1, <2>2 DEF Collects
<1> QED
  BY <1>7, <1>8 DEF I

\* A text as a function.
LEMMA TextFunction ==
  ASSUME NEW s \in Str
  PROVE  s \in [1 .. Len(s) -> Characters] /\ Len(s) \in Nat
<1>1. s \in Seq(Characters)
  BY DEF Str
<1> QED
  BY <1>1, LenProperties

\* What str_remove leaves is a text, and it counts what it takes.
LEMMA RemovalCount ==
  ASSUME NEW s \in Str, NEW c, NEW d
  PROVE  /\ str_remove(s, c).str \in Str
         /\ str_remove(s, c).count = str_replace(s, c, d).count
<1> DEFINE n == Len(s)
           I == Others(s, c)
           J == {i \in 1 .. n : s[i] = c}
<1>1. n \in Nat /\ s \in [1 .. n -> Characters]
  BY TextFunction
<1>2. PICK K : /\ Collects(K, n, I, s)
               /\ str_remove(s, c).str = K[n]
               /\ str_remove(s, c).count = n - Len(K[n])
  BY Removal
<1>3. I \subseteq 1 .. n /\ J \subseteq 1 .. n /\ I \cup J = 1 .. n /\ I \cap J = {}
  BY Zenon DEF Others
<1>4. str_replace(s, c, d).count = Cardinality(J)
  BY DEF str_replace
<1> HIDE DEF I, J
<1>5. Len(K[n]) = Cardinality(I)
  BY ONLY <1>1, <1>2, <1>3, CollectedCount
<1>6. Cardinality(I) + Cardinality(J) = n
  <2>1. IsFiniteSet(1 .. n) /\ Cardinality(1 .. n) = n
    BY <1>1, FS_Interval
  <2>2. /\ IsFiniteSet(I) /\ IsFiniteSet(J)
    BY <1>3, <2>1, FS_Subset
  <2>3. Cardinality(I \cup J) = Cardinality(I) + Cardinality(J) - Cardinality(I \cap J)
    BY ONLY <2>2, FS_Union
  <2>4. Cardinality(I) \in Nat /\ Cardinality(J) \in Nat /\ Cardinality({}) = 0
    BY <2>2, FS_CardinalityType, FS_EmptySet
  <2>5. Cardinality(I \cup J) = n /\ Cardinality(I \cap J) = 0
    BY <1>3, <2>1, <2>4
  <2> QED
    BY <2>3, <2>4, <2>5
<1>7. Cardinality(I) \in Nat /\ Cardinality(J) \in Nat
  <2>1. IsFiniteSet(1 .. n)
    BY <1>1, FS_Interval
  <2>2. /\ IsFiniteSet(I) /\ IsFiniteSet(J)
    BY <1>3, <2>1, FS_Subset
  <2> QED
    BY <2>2, FS_CardinalityType
<1>8. K[n] \in Seq(Characters)
  <2>1. n \in 0 .. n
    BY <1>1
  <2> QED
    BY ONLY <1>1, <1>2, <2>1, CollectedType
<1> QED
  BY <1>2, <1>4, <1>5, <1>6, <1>7, <1>8 DEF Str

\* A line is a comment if the first of it that is no blank is "#".
LEMMA CommentStarts ==
  ASSUME NEW line \in Str
  PROVE  LET bare == str_remove(line, " ").str
         IN  comment(line) <=> bare # << >> /\ bare[1] = "#"
<1> DEFINE n == Len(line)
           I == Others(line, " ")
<1>1. n \in Nat /\ line \in [1 .. n -> Characters]
  BY TextFunction
<1>2. PICK K : Collects(K, n, I, line) /\ str_remove(line, " ").str = K[n]
  BY Removal
<1>3. \A i \in 1 .. n : i \in I <=> line[i] # " "
  BY DEF Others
<1> HIDE DEF I
<1>4. \/ K[n] = << >> /\ \A i \in 1 .. n : i \notin I
      \/ /\ K[n] # << >>
         /\ \E i \in 1 .. n : i \in I /\ K[n][1] = line[i] /\ \A h \in 1 .. i - 1 : h \notin I
  <2>1. StartsWith(K[n], n, I, line)
    BY ONLY <1>1, <1>2, CollectedFirst
  <2> QED
    BY <2>1 DEF StartsWith
<1>5. CASE K[n] = << >> /\ \A i \in 1 .. n : i \notin I
  <2>1. \A i \in 1 .. n : line[i] # "#"
    BY <1>3, <1>5
  <2> QED
    BY <1>2, <1>5, <2>1 DEF comment
<1>6. ASSUME K[n] # << >>, NEW i \in 1 .. n, i \in I, K[n][1] = line[i],
             \A h \in 1 .. i - 1 : h \notin I
      PROVE  comment(line) <=> K[n][1] = "#"
  <2>1. \A h \in 1 .. i - 1 : line[h] = " "
    <3>1. \A h \in 1 .. i - 1 : h \in 1 .. n
      BY <1>1
    <3> QED
      BY <1>3, <1>6, <3>1
  <2>2. K[n][1] = "#" => comment(line)
    BY <1>6, <2>1 DEF comment
  <2>3. ASSUME NEW k \in 1 .. n, line[k] = "#", \A h \in 1 .. k - 1 : line[h] = " "
        PROVE  K[n][1] = "#"
    <3>1. line[i] # " " /\ line[k] # " "
      BY <1>3, <1>6, <2>3
    <3>2. ~(i < k) /\ ~(k < i)
      <4>1. i < k => i \in 1 .. k - 1
        OBVIOUS
      <4>2. k < i => k \in 1 .. i - 1
        OBVIOUS
      <4> QED
        BY <2>1, <2>3, <3>1, <4>1, <4>2
    <3>3. i = k
      BY <3>2
    <3> QED
      BY <1>6, <2>3, <3>3
  <2> QED
    BY <2>2, <2>3 DEF comment
<1> QED
  BY <1>2, <1>4, <1>5, <1>6

\* What remove_last_char takes is c at the end.
LEMMA Trimmed ==
  ASSUME NEW s \in Str, NEW c
  PROVE  \E k \in 0 .. Len(s) : /\ remove_last_char(s, c) = SubSeq(s, 1, k)
                                /\ \A j \in k + 1 .. Len(s) : s[j] = c
<1> DEFINE n == Len(s)
           T == {i \in 0 .. n : \A j \in i + 1 .. n : s[j] = c}
           Is(i) == (i = 0 \/ s[i] # c) /\ \A j \in i + 1 .. n : s[j] = c
<1>1. n \in Nat
  BY LenProperties DEF Str
<1>2. T \subseteq Nat /\ n \in T
  BY <1>1
<1>3. PICK x \in T : \A y \in T : x <= y
  <2> HIDE DEF T
  <2> QED
    BY <1>2, LeastNumber
<1>4. x \in 0 .. n /\ \A j \in x + 1 .. n : s[j] = c
  OBVIOUS
<1>5. x = 0 \/ s[x] # c
  <2> SUFFICES ASSUME x # 0, s[x] = c PROVE FALSE
    OBVIOUS
  <2>1. x - 1 \in 0 .. n /\ (x - 1) + 1 = x /\ ~(x <= x - 1)
    BY <1>1, <1>4
  <2>2. \A j \in x .. n : j = x \/ j \in x + 1 .. n
    BY <1>4
  <2>3. x - 1 \in T
    BY <1>4, <2>1, <2>2
  <2> QED
    BY <1>3, <2>1, <2>3
<1>6. \E i \in 0 .. n : Is(i)
  BY <1>4, <1>5
<1> DEFINE k == CHOOSE i \in 0 .. n : Is(i)
<1>7. k \in 0 .. n /\ Is(k)
  <2> HIDE DEF Is
  <2> QED
    BY <1>6
<1>8. remove_last_char(s, c) = SubSeq(s, 1, k)
  BY DEF remove_last_char
<1> HIDE DEF k
<1> QED
  BY <1>7, <1>8

\* What is trimmed is part of what is removed.
LEMMA TrimmedRemoved ==
  ASSUME NEW s \in Str, NEW c
  PROVE  str_remove(remove_last_char(s, c), c).str = str_remove(s, c).str
<1> DEFINE n == Len(s)
<1>1. n \in Nat /\ s \in [1 .. n -> Characters]
  BY TextFunction
<1>2. PICK k \in 0 .. n : /\ remove_last_char(s, c) = SubSeq(s, 1, k)
                          /\ \A j \in k + 1 .. n : s[j] = c
  BY Trimmed
<1> DEFINE t == SubSeq(s, 1, k)
<1>3. t \in Str /\ Len(t) = k /\ \A h \in 1 .. k : t[h] = s[h]
  <2>1. 1 \in 1 .. n + 1 /\ 1 <= k + 1 /\ k + 1 - 1 = k
    BY <1>1
  <2>2. t \in Str /\ Len(t) = k + 1 - 1 /\ \A h \in 1 .. k + 1 - 1 : t[h] = s[1 + h - 1]
    BY <2>1, Part
  <2>3. \A h \in 1 .. k : 1 + h - 1 = h
    OBVIOUS
  <2> QED
    BY <2>1, <2>2, <2>3
<1> HIDE DEF t
<1>4. PICK K : Collects(K, n, Others(s, c), s) /\ str_remove(s, c).str = K[n]
  BY Removal
<1>5. PICK L : Collects(L, k, Others(t, c), t) /\ str_remove(t, c).str = L[k]
  BY <1>3, Removal
<1>6. K[n] = K[k]
  <2>1. \A i \in k + 1 .. n : i \notin Others(s, c)
    BY <1>2 DEF Others
  <2> QED
    BY <1>1, <1>4, <2>1, CollectedNoMore
<1>7. Collects(K, k, Others(t, c), s)
  <2>1. \A i \in 1 .. k : i \in 1 .. n /\ (i \in Others(t, c) <=> i \in Others(s, c))
    BY <1>1, <1>3 DEF Others
  <2> QED
    BY <1>4, <2>1 DEF Collects
<1>8. K[k] = L[k]
  <2>1. k \in Nat /\ k \in 0 .. k
    OBVIOUS
  <2>2. \A i \in 0 .. k : K[i] = L[i]
    <3>1. \A i \in 1 .. k : i \in Others(t, c) => s[i] = t[i]
      BY <1>3
    <3> QED
      BY ONLY <1>5, <1>7, <2>1, <3>1, CollectedOnce
  <2> QED
    BY <2>1, <2>2
<1> QED
  BY <1>2, <1>4, <1>5, <1>6, <1>8 DEF t

\* A replacement by a character that the text did not have marks what was replaced.
LEMMA MarkedRemoved ==
  ASSUME NEW s \in Str, NEW c \in Characters, NEW d \in Characters, ~Has(s, d)
  PROVE  /\ str_remove(str_replace(s, c, d).str, d).str = str_remove(s, c).str
         /\ str_replace(str_replace(s, c, d).str, d, c).str = s
<1> DEFINE n == Len(s)
           t == str_replace(s, c, d).str
           u == str_replace(t, d, c).str
<1>1. n \in Nat /\ s \in [1 .. n -> Characters]
  BY TextFunction
<1>2. t = [i \in 1 .. n |-> IF s[i] = c THEN d ELSE s[i]]
  BY DEF str_replace
<1>3. t \in Str /\ Len(t) = n
  <2>1. t \in [1 .. n -> Characters]
    BY <1>1, <1>2
  <2>2. t \in Seq(Characters)
    BY <1>1, <2>1, SeqDef
  <2>3. DOMAIN t = 1 .. Len(t) /\ Len(t) \in Nat /\ DOMAIN t = 1 .. n
    BY <2>1, <2>2, LenProperties
  <2> QED
    BY <1>1, <2>2, <2>3 DEF Str
<1>4. \A i \in 1 .. n : s[i] # d
  BY DEF Has
<1>5. \A i \in 1 .. n : (t[i] = d <=> s[i] = c) /\ (s[i] # c => t[i] = s[i])
  BY <1>2, <1>4
<1>6. u = s
  <2>1. u = [i \in 1 .. n |-> IF t[i] = d THEN c ELSE t[i]]
    BY <1>3 DEF str_replace
  <2>2. \A i \in 1 .. n : u[i] = s[i]
    BY <1>5, <2>1
  <2> HIDE DEF u, t
  <2>3. s = [i \in 1 .. n |-> s[i]]
    BY <1>1
  <2> QED
    BY <1>5, <2>1, <2>3
<1> HIDE DEF t
<1>7. PICK K : Collects(K, n, Others(s, c), s) /\ str_remove(s, c).str = K[n]
  BY Removal
<1>8. PICK L : Collects(L, n, Others(t, d), t) /\ str_remove(t, d).str = L[n]
  BY <1>3, Removal
<1>9. Others(t, d) = Others(s, c)
  BY <1>3, <1>5 DEF Others
<1>10. K[n] = L[n]
  <2>1. n \in 0 .. n
    BY <1>1
  <2>2. \A i \in 1 .. n : i \in Others(s, c) => s[i] = t[i]
    BY <1>5 DEF Others
  <2>3. \A i \in 0 .. n : K[i] = L[i]
    <3>1. Collects(L, n, Others(s, c), t)
      BY <1>8, <1>9
    <3> QED
      BY ONLY <1>1, <1>7, <2>2, <3>1, CollectedOnce
  <2> QED
    BY <2>1, <2>3
<1> QED
  BY <1>6, <1>7, <1>8, <1>10 DEF t

-----------------------------------------------------------------------------
(* Lines of a text *)

\* What holds of a place when it holds of all that follow holds of all.
LEMMA Downward ==
  ASSUME NEW n \in Nat, NEW S, \A k \in 1 .. n : (\A i \in k + 1 .. n : i \in S) => k \in S
  PROVE  \A k \in 1 .. n : k \in S
<1> DEFINE Z == {m \in Nat : \A i \in 1 .. n : i > n - m => i \in S}
<1>1. 0 \in Z
  OBVIOUS
<1>2. ASSUME NEW m \in Nat, m \in Z PROVE m + 1 \in Z
  <2> SUFFICES ASSUME NEW i \in 1 .. n, i > n - (m + 1) PROVE i \in S
    OBVIOUS
  <2>1. \A h \in i + 1 .. n : h \in 1 .. n /\ h > n - m
    OBVIOUS
  <2>2. \A h \in i + 1 .. n : h \in S
    BY <1>2, <2>1
  <2> QED
    BY <2>2
<1> HIDE DEF Z
<1>3. n \in Z
  BY <1>1, <1>2, FromZero
<1>4. \A i \in 1 .. n : i > n - n
  OBVIOUS
<1> QED
  BY <1>3, <1>4 DEF Z

\* f is built from the end: what a has at a place, before what f has further on.
BuiltAt(f, i, a, nx, n) == f[i] = a[i] \o (IF nx[i] > n THEN << >> ELSE f[nx[i]])

LEMMA Built ==
  ASSUME NEW n \in Nat, NEW V, NEW a \in [1 .. n -> Seq(V)], NEW nx \in [1 .. n -> Nat],
         \A i \in 1 .. n : nx[i] > i
  PROVE  \E f : f \in [1 .. n -> Seq(V)] /\ \A i \in 1 .. n : BuiltAt(f, i, a, nx, n)
<1> DEFINE D(m) == n + 1 - m .. n
           Is(f, m) == f \in [D(m) -> Seq(V)] /\ \A i \in D(m) : BuiltAt(f, i, a, nx, n)
           Exists(m) == \E f : Is(f, m)
           S == {m \in Nat : m <= n => Exists(m)}
<1>0. \A i \in 1 .. n : a[i] \in Seq(V) /\ nx[i] \in Nat /\ nx[i] > i
  OBVIOUS
<1>1. 0 \in S
  <2> DEFINE f == [i \in D(0) |-> << >>]
  <2>1. D(0) = {}
    OBVIOUS
  <2>2. f \in [D(0) -> Seq(V)]
    BY <2>1
  <2>3. Is(f, 0)
    BY <2>1, <2>2
  <2> HIDE DEF Is
  <2> QED
    BY <2>3
<1>2. ASSUME NEW m \in Nat, m \in S PROVE m + 1 \in S
  <2> HIDE DEF Exists
  <2> SUFFICES ASSUME m + 1 <= n PROVE Exists(m + 1)
    OBVIOUS
  <2>0. Exists(m)
    BY ONLY <1>2, n \in Nat, m + 1 <= n
  <2>1. PICK f : Is(f, m)
    BY ONLY <2>0 DEF Exists
  <2> DEFINE k == n - m
             x == a[k] \o (IF nx[k] > n THEN << >> ELSE f[nx[k]])
             g == [i \in D(m + 1) |-> IF i = k THEN x ELSE f[i]]
  <2>2. k \in 1 .. n /\ D(m) = k + 1 .. n /\ D(m + 1) = k .. n
    BY ONLY m \in Nat, n \in Nat, m + 1 <= n
  <2> HIDE DEF k
  <2>3. x \in Seq(V)
    <3>1. a[k] \in Seq(V) /\ nx[k] \in Nat /\ nx[k] > k
      BY <1>0, <2>2
    <3>2. ~(nx[k] > n) => nx[k] \in D(m)
      BY ONLY <2>2, <3>1, n \in Nat
    <3> DEFINE y == IF nx[k] > n THEN << >> ELSE f[nx[k]]
    <3>3. y \in Seq(V)
      <4>1. << >> \in Seq(V)
        OBVIOUS
      <4>2. f \in [D(m) -> Seq(V)]
        BY <2>1
      <4> HIDE DEF D
      <4> QED
        BY ONLY <3>2, <4>1, <4>2
    <3> HIDE DEF y
    <3>4. a[k] \o y \in Seq(V)
      BY ONLY <3>1, <3>3, ConcatProperties
    <3> QED
      BY <3>4 DEF y
  <2> HIDE DEF x
  <2>4. g \in [D(m + 1) -> Seq(V)]
    <3>1. \A i \in D(m + 1) : i # k => i \in D(m)
      BY <2>2
    <3> HIDE DEF D
    <3> QED
      BY <2>1, <2>3, <3>1
  <2>5. g[k] = x /\ \A i \in k + 1 .. n : g[i] = f[i]
    <3>1. k \in D(m + 1) /\ \A i \in k + 1 .. n : i \in D(m + 1) /\ i # k
      BY ONLY <2>2, n \in Nat
    <3> HIDE DEF D
    <3> QED
      BY ONLY <3>1
  <2> HIDE DEF g
  <2>6. ASSUME NEW i \in k .. n, i # k PROVE BuiltAt(g, i, a, nx, n)
    <3>1. i \in 1 .. n /\ i \in k + 1 .. n
      BY ONLY <2>2, <2>6, n \in Nat
    <3>2. BuiltAt(f, i, a, nx, n) /\ g[i] = f[i]
      BY <2>1, <2>2, <2>5, <3>1
    <3>3. nx[i] \in Nat /\ nx[i] > i
      BY <1>0, <3>1
    <3>4. ~(nx[i] > n) => nx[i] \in k + 1 .. n
      BY ONLY <2>2, <3>1, <3>3, n \in Nat
    <3>5. ~(nx[i] > n) => g[nx[i]] = f[nx[i]]
      BY <2>5, <3>4
    <3> QED
      BY <3>2, <3>5 DEF BuiltAt
  <2>7. BuiltAt(g, k, a, nx, n)
    <3>1. nx[k] \in Nat /\ nx[k] > k
      BY <1>0, <2>2
    <3>2. ~(nx[k] > n) => nx[k] \in k + 1 .. n
      BY ONLY <2>2, <3>1, n \in Nat
    <3>3. ~(nx[k] > n) => g[nx[k]] = f[nx[k]]
      BY <2>5, <3>2
    <3> QED
      BY <2>5, <3>3 DEF BuiltAt, x
  <2>8. \A i \in D(m + 1) : BuiltAt(g, i, a, nx, n)
    BY <2>2, <2>6, <2>7
  <2>9. Is(g, m + 1)
    BY <2>4, <2>8
  <2> HIDE DEF Is
  <2> QED
    BY ONLY <2>9 DEF Exists
<1> HIDE DEF S
<1>3. n \in S
  BY <1>1, <1>2, FromZero
<1>4. D(n) = 1 .. n /\ n <= n
  OBVIOUS
<1> HIDE DEF D
<1> QED
  BY <1>3, <1>4 DEF S

\* Its values are sequences whichever f it is.
LEMMA BuiltType ==
  ASSUME NEW n \in Nat, NEW V, NEW a \in [1 .. n -> Seq(V)], NEW nx \in [1 .. n -> Nat],
         \A i \in 1 .. n : nx[i] > i, NEW f, \A i \in 1 .. n : BuiltAt(f, i, a, nx, n)
  PROVE  \A i \in 1 .. n : f[i] \in Seq(V)
<1> DEFINE S == {i \in 1 .. n : f[i] \in Seq(V)}
<1>1. ASSUME NEW k \in 1 .. n, \A i \in k + 1 .. n : i \in S PROVE k \in S
  <2> DEFINE y == IF nx[k] > n THEN << >> ELSE f[nx[k]]
  <2>1. a[k] \in Seq(V) /\ nx[k] \in Nat /\ nx[k] > k
    OBVIOUS
  <2>2. ~(nx[k] > n) => nx[k] \in k + 1 .. n
    BY <2>1
  <2>3. y \in Seq(V)
    <3>1. << >> \in Seq(V)
      OBVIOUS
    <3> QED
      BY <1>1, <2>2, <3>1
  <2>4. f[k] = a[k] \o y
    BY DEF BuiltAt
  <2> HIDE DEF y
  <2>5. f[k] \in Seq(V)
    BY ONLY <2>1, <2>3, <2>4, ConcatProperties
  <2> QED
    BY <2>5
<1> HIDE DEF S
<1>2. \A k \in 1 .. n : k \in S
  BY ONLY <1>1, n \in Nat, Downward
<1> QED
  BY <1>2 DEF S

-----------------------------------------------------------------------------
(* filter_comment *)

\* What the filter keeps of a line.
Kept(line) == IF comment(line) THEN << >> ELSE Append(line, Newline)

\* The line that starts at a place.
LineFrom(s, i) == SubSeq(s, i, find(s, i, Newline) - 1)

\* What the filter gives from a place on.
FilteredAt(out, s, i) ==
  out[i] = Kept(LineFrom(s, i))
             \o (IF find(s, i, Newline) > Len(s) THEN << >> ELSE out[find(s, i, Newline) + 1])

LEMMA Ending == Newline \in Characters /\ <<Newline>> \in Str
<1>1. Newline \in Characters
  BY TextAssumption, Zenon DEF TextAssumption, Characters
<1> QED
  BY <1>1 DEF Str

LEMMA KeptType ==
  ASSUME NEW line \in Str
  PROVE  Kept(line) \in Str
<1>1. << >> \in Str
  BY DEF Str
<1>2. Append(line, Newline) \in Str
  BY Ending, AppendProperties DEF Str
<1> QED
  BY <1>1, <1>2 DEF Kept

LEMMA LineFromType ==
  ASSUME NEW s \in Str, NEW i \in 1 .. Len(s) + 1
  PROVE  LineFrom(s, i) \in Str /\ find(s, i, Newline) \in i .. Len(s) + 1
<1>1. Len(s) \in Nat
  BY LenProperties DEF Str
<1>2. find(s, i, Newline) \in i .. Len(s) + 1
  BY FindFirst
<1> DEFINE j == find(s, i, Newline)
<1> HIDE DEF j
<1>3. j - 1 \in 0 .. Len(s) /\ i <= (j - 1) + 1
  BY <1>1, <1>2 DEF j
<1>4. SubSeq(s, i, j - 1) \in Str
  BY <1>3, Part
<1> QED
  BY <1>2, <1>4 DEF LineFrom, j

\* filter_comment gives what it gives from the first place on.
LEMMA Filtering ==
  ASSUME NEW s \in Str
  PROVE  \E out : /\ \A i \in 1 .. Len(s) + 1 : FilteredAt(out, s, i) /\ out[i] \in Str
                  /\ filter_comment(s) = out[1]
<1> DEFINE n == Len(s)
           m == n + 1
           a == [i \in 1 .. m |-> Kept(LineFrom(s, i))]
           nx == [i \in 1 .. m |-> find(s, i, Newline) + 1]
           Is(out) == out = [i \in 1 .. n + 1 |->
                               (IF comment(SubSeq(s, i, find(s, i, Newline) - 1)) THEN << >>
                                ELSE Append(SubSeq(s, i, find(s, i, Newline) - 1), Newline))
                                 \o (IF find(s, i, Newline) > n THEN << >>
                                     ELSE out[find(s, i, Newline) + 1])]
<1>1. n \in Nat /\ m \in Nat
  BY LenProperties DEF Str
<1>2. \A i \in 1 .. m : /\ Kept(LineFrom(s, i)) \in Seq(Characters)
                        /\ find(s, i, Newline) \in i .. m
  BY LineFromType, KeptType DEF Str
<1>3. a \in [1 .. m -> Seq(Characters)]
  BY <1>2
<1>4. /\ nx \in [1 .. m -> Nat] /\ \A i \in 1 .. m : nx[i] > i
      /\ \A i \in 1 .. m : nx[i] > m <=> find(s, i, Newline) > n
  <2>1. \A i \in 1 .. m : /\ find(s, i, Newline) + 1 \in Nat /\ find(s, i, Newline) + 1 > i
                          /\ find(s, i, Newline) + 1 > m <=> find(s, i, Newline) > n
    BY <1>1, <1>2
  <2> QED
    BY <2>1
<1>5. /\ \A i \in 1 .. m : a[i] = Kept(LineFrom(s, i))
      /\ \A i \in 1 .. m : nx[i] = find(s, i, Newline) + 1
  OBVIOUS
<1> HIDE DEF a, nx
<1>6. \A f : \A i \in 1 .. m : BuiltAt(f, i, a, nx, m) <=> FilteredAt(f, s, i)
  BY <1>4, <1>5 DEF BuiltAt, FilteredAt
<1>7. PICK f \in [1 .. m -> Seq(Characters)] : \A i \in 1 .. m : BuiltAt(f, i, a, nx, m)
  BY ONLY <1>1, <1>3, <1>4, Built
<1>8. Is(f)
  <2>1. \A i \in 1 .. m : FilteredAt(f, s, i)
    BY <1>6, <1>7
  <2>2. f = [i \in 1 .. m |-> f[i]]
    OBVIOUS
  <2> QED
    BY <2>1, <2>2 DEF FilteredAt, Kept, LineFrom
<1> DEFINE T == CHOOSE out : Is(out)
<1>9. Is(T)
  <2> HIDE DEF Is
  <2> QED
    BY <1>8
<1>10. filter_comment(s) = T[1]
  BY DEF filter_comment
<1> HIDE DEF T
<1>11. \A i \in 1 .. m : FilteredAt(T, s, i)
  BY <1>9 DEF FilteredAt, Kept, LineFrom
<1>12. \A i \in 1 .. m : BuiltAt(T, i, a, nx, m)
  BY <1>6, <1>11
<1>13. \A i \in 1 .. m : T[i] \in Seq(Characters)
  BY ONLY <1>1, <1>3, <1>4, <1>12, BuiltType
<1> QED
  BY <1>10, <1>11, <1>13 DEF Str

\* find gives whatever place is the first of c, or the end.
LEMMA FindIs ==
  ASSUME NEW s \in Str, NEW i \in 1 .. Len(s) + 1, NEW c, NEW j \in i .. Len(s) + 1,
         j = Len(s) + 1 \/ s[j] = c, \A h \in i .. j - 1 : s[h] # c
  PROVE  find(s, i, c) = j
<1> DEFINE k == find(s, i, c)
<1>1. Len(s) \in Nat
  BY LenProperties DEF Str
<1>2. k \in i .. Len(s) + 1 /\ (k <= Len(s) => s[k] = c) /\ \A h \in i .. k - 1 : s[h] # c
  BY FindFirst
<1> HIDE DEF k
<1>3. ~(k < j)
  <2> SUFFICES ASSUME k < j PROVE FALSE
    OBVIOUS
  <2>1. k \in i .. j - 1 /\ k <= Len(s)
    BY <1>1, <1>2
  <2> QED
    BY <1>2, <2>1
<1>4. ~(j < k)
  <2> SUFFICES ASSUME j < k PROVE FALSE
    OBVIOUS
  <2>1. j \in i .. k - 1 /\ j # Len(s) + 1
    BY <1>1, <1>2
  <2> QED
    BY <1>2, <2>1
<1> QED
  BY <1>1, <1>2, <1>3, <1>4 DEF k

\* The rest of a text, from place k + 1 on, and its places.
LEMMA Rest ==
  ASSUME NEW s \in Str, NEW k \in 0 .. Len(s)
  PROVE  LET t == SubSeq(s, k + 1, Len(s))
         IN  /\ t \in Str /\ Len(t) = Len(s) - k
             /\ \A h \in 1 .. Len(s) - k : t[h] = s[k + h]
<1> DEFINE n == Len(s)
           t == SubSeq(s, k + 1, n)
<1>1. n \in Nat
  BY LenProperties DEF Str
<1>2. k + 1 \in 1 .. n + 1 /\ n \in 0 .. n /\ k + 1 <= n + 1
  BY <1>1
<1>3. t \in Str /\ Len(t) = n + 1 - (k + 1)
      /\ \A h \in 1 .. n + 1 - (k + 1) : t[h] = s[(k + 1) + h - 1]
  BY <1>2, Part
<1>4. n + 1 - (k + 1) = n - k /\ \A h \in 1 .. n - k : (k + 1) + h - 1 = k + h
  BY <1>1
<1> HIDE DEF t
<1> QED
  BY <1>3, <1>4 DEF t

\* In the rest of a text, find and the lines are the same.
LEMMA RestLines ==
  ASSUME NEW s \in Str, NEW k \in 0 .. Len(s), NEW i \in 1 .. Len(s) - k + 1
  PROVE  LET t == SubSeq(s, k + 1, Len(s))
         IN  /\ find(s, k + i, Newline) = k + find(t, i, Newline)
             /\ LineFrom(s, k + i) = LineFrom(t, i)
<1> DEFINE n == Len(s)
           t == SubSeq(s, k + 1, n)
           j == find(t, i, Newline)
<1>1. n \in Nat
  BY LenProperties DEF Str
<1>2. t \in Str /\ Len(t) = n - k /\ \A h \in 1 .. n - k : t[h] = s[k + h]
  BY Rest
<1> HIDE DEF t
<1>3. i \in 1 .. Len(t) + 1
  BY <1>2
<1>4. /\ j \in i .. Len(t) + 1 /\ (j <= Len(t) => t[j] = Newline)
      /\ \A h \in i .. j - 1 : t[h] # Newline
  BY <1>2, <1>3, FindFirst
<1> HIDE DEF j
<1>5. find(s, k + i, Newline) = k + j
  <2> DEFINE x == k + i
             y == k + j
  <2>1. /\ x \in 1 .. n + 1 /\ y \in x .. n + 1
        /\ \A h \in x .. y - 1 :
             h - k \in i .. j - 1 /\ h - k \in 1 .. n - k /\ k + (h - k) = h
    BY <1>1, <1>2, <1>4
  <2>2. y = n + 1 \/ s[y] = Newline
    <3>1. j <= Len(t) => j \in 1 .. n - k /\ s[k + j] = Newline
      BY <1>1, <1>2, <1>4
    <3>2. j <= Len(t) \/ k + j = n + 1
      BY <1>1, <1>2, <1>4
    <3> QED
      BY <3>1, <3>2
  <2> HIDE DEF x, y
  <2>3. \A h \in x .. y - 1 : s[h] # Newline
    <3> SUFFICES ASSUME NEW h \in x .. y - 1 PROVE s[h] # Newline
      OBVIOUS
    <3>1. t[h - k] = s[h]
      BY <1>2, <2>1
    <3> QED
      BY <1>4, <2>1, <3>1
  <2>4. find(s, x, Newline) = y
    BY <2>1, <2>2, <2>3, FindIs
  <2> QED
    BY <2>4 DEF x, y
<1> DEFINE p == SubSeq(s, k + i, (k + j) - 1)
           q == SubSeq(t, i, j - 1)
<1>6. p = q
  <2>1. /\ k + i \in 1 .. n + 1 /\ (k + j) - 1 \in 0 .. n /\ k + i <= ((k + j) - 1) + 1
        /\ i \in 1 .. Len(t) + 1 /\ j - 1 \in 0 .. Len(t) /\ i <= (j - 1) + 1
    BY <1>1, <1>2, <1>3, <1>4
  <2>2. /\ p \in Str /\ Len(p) = ((k + j) - 1) + 1 - (k + i)
        /\ \A h \in 1 .. ((k + j) - 1) + 1 - (k + i) : p[h] = s[(k + i) + h - 1]
    BY <2>1, Part
  <2>3. /\ q \in Str /\ Len(q) = (j - 1) + 1 - i
        /\ \A h \in 1 .. (j - 1) + 1 - i : q[h] = t[i + h - 1]
    BY <1>2, <2>1, Part
  <2> HIDE DEF p, q
  <2>4. ((k + j) - 1) + 1 - (k + i) = (j - 1) + 1 - i
    BY <1>1, <1>4
  <2>5. Len(p) = Len(q)
    BY <2>2, <2>3, <2>4
  <2>6. \A h \in 1 .. Len(p) : p[h] = q[h]
    <3> SUFFICES ASSUME NEW h \in 1 .. Len(p) PROVE p[h] = q[h]
      OBVIOUS
    <3>1. i + h - 1 \in 1 .. n - k /\ k + (i + h - 1) = (k + i) + h - 1
      BY <1>1, <1>2, <1>4, <2>2
    <3>2. t[i + h - 1] = s[(k + i) + h - 1]
      BY <1>2, <3>1
    <3>3. p[h] = s[(k + i) + h - 1] /\ q[h] = t[i + h - 1]
      BY <2>2, <2>3, <2>4
    <3> QED
      BY <3>2, <3>3
  <2> QED
    BY <2>2, <2>3, <2>5, <2>6, SameText
<1>7. LineFrom(s, k + i) = p
  <2> DEFINE x == k + i
             y == k + j
  <2>1. find(s, x, Newline) = y
    BY <1>5
  <2>3. p = SubSeq(s, x, y - 1)
    OBVIOUS
  <2> HIDE DEF x, y, p
  <2>2. LineFrom(s, x) = p
    BY <2>1, <2>3 DEF LineFrom
  <2> QED
    BY <2>2 DEF x
<1>8. LineFrom(t, i) = q
  BY DEF LineFrom, j
<1> HIDE DEF p, q
<1> QED
  BY <1>5, <1>6, <1>7, <1>8 DEF j, t

\* What the filter gives from a place on is what it gives of the rest.
LEMMA FilterRest ==
  ASSUME NEW s \in Str, NEW k \in 0 .. Len(s), NEW t, t = SubSeq(s, k + 1, Len(s)),
         NEW f, \A i \in 1 .. Len(s) + 1 : FilteredAt(f, s, i),
         NEW g, \A i \in 1 .. Len(t) + 1 : FilteredAt(g, t, i)
  PROVE  f[k + 1] = g[1]
<1> DEFINE n == Len(s)
           m == n - k + 1
           S == {i \in 1 .. m : f[k + i] = g[i]}
<1>1. n \in Nat /\ m \in Nat /\ 1 \in 1 .. m
  <2>1. n \in Nat
    BY LenProperties DEF Str
  <2> QED
    BY <2>1
<1>2. t \in Str /\ Len(t) = n - k
  BY Rest
<1>3. ASSUME NEW i \in 1 .. m, \A h \in i + 1 .. m : h \in S PROVE i \in S
  <2> DEFINE j == find(t, i, Newline)
  <2>1. i \in 1 .. n - k + 1 /\ i \in 1 .. Len(t) + 1 /\ k + i \in 1 .. n + 1
    BY <1>1, <1>2
  <2>2. find(s, k + i, Newline) = k + j /\ LineFrom(s, k + i) = LineFrom(t, i)
    BY <2>1, RestLines
  <2>3. j \in i .. Len(t) + 1
    BY <1>2, <2>1, LineFromType
  <2>4. FilteredAt(f, s, k + i) /\ FilteredAt(g, t, i)
    BY <2>1
  <2>5. /\ f[k + i] = Kept(LineFrom(t, i)) \o (IF k + j > n THEN << >> ELSE f[(k + j) + 1])
        /\ g[i] = Kept(LineFrom(t, i)) \o (IF j > n - k THEN << >> ELSE g[j + 1])
    BY <1>2, <2>2, <2>4 DEF FilteredAt
  <2> HIDE DEF j
  <2>6. /\ k + j > n <=> j > n - k
        /\ ~(j > n - k) => j + 1 \in i + 1 .. m /\ (k + j) + 1 = k + (j + 1)
    BY <1>1, <1>2, <2>3
  <2>7. ~(j > n - k) => f[k + (j + 1)] = g[j + 1]
    BY <1>3, <2>6
  <2>8. f[k + i] = g[i]
    BY <2>5, <2>6, <2>7
  <2> QED
    BY <2>8
<1> HIDE DEF S
<1>4. \A i \in 1 .. m : i \in S
  BY ONLY <1>1, <1>3, Downward
<1>5. 1 \in S
  BY <1>1, <1>4
<1> QED
  BY <1>5 DEF S

\* A text is a line, or a line before more text.
Line(line) == line \in Str /\ ~Has(line, Newline)
More(line, u) == (line \o <<Newline>>) \o u

LEMMA LineByLine ==
  ASSUME NEW s \in Str
  PROVE  Line(s) \/ \E line, u \in Str : Line(line) /\ s = More(line, u) /\ Len(u) < Len(s)
<1> DEFINE p == split(s, Newline)[1]
           q == split(s, Newline)[2]
<1>1. /\ p \in Str /\ q \in Str /\ ~Has(p, Newline)
      /\ \/ s = p /\ q = << >>
         \/ s = (p \o <<Newline>>) \o q
  BY Ending, SplitOnce
<1> HIDE DEF p, q
<1>2. CASE s = p
  BY <1>1, <1>2 DEF Line
<1>3. CASE s = (p \o <<Newline>>) \o q
  <2> DEFINE sep == <<Newline>>
  <2>1. sep \in Str /\ Len(sep) = 1
    BY Ending
  <2> HIDE DEF sep
  <2>2. p \o sep \in Str /\ Len(p \o sep) = Len(p) + 1
    <3>1. p \o sep \in Str /\ Len(p \o sep) = Len(p) + Len(sep)
      BY ONLY <1>1, <2>1, Concat
    <3> QED
      BY <2>1, <3>1
  <2>3. Len((p \o sep) \o q) = Len(p) + 1 + Len(q)
    BY <1>1, <2>2, Concat
  <2>4. Len(p) \in Nat /\ Len(q) \in Nat
    BY <1>1, LenProperties DEF Str
  <2>5. Len(s) = Len(p) + 1 + Len(q)
    BY <1>3, <2>3 DEF sep
  <2>6. Len(q) < Len(s)
    BY <2>4, <2>5
  <2> QED
    BY <1>1, <1>3, <2>6 DEF Line, More
<1> QED
  BY <1>1, <1>2, <1>3

\* In a line there is one line,
LEMMA OneLine ==
  ASSUME NEW s, Line(s)
  PROVE  find(s, 1, Newline) = Len(s) + 1 /\ LineFrom(s, 1) = s
<1>1. s \in Str /\ Len(s) \in Nat
  BY LenProperties DEF Line, Str
<1>2. find(s, 1, Newline) = Len(s) + 1
  <2> DEFINE y == Len(s) + 1
  <2>1. 1 \in 1 .. Len(s) + 1 /\ y \in 1 .. Len(s) + 1 /\ y = Len(s) + 1
    BY <1>1
  <2>2. \A h \in 1 .. y - 1 : s[h] # Newline
    BY <1>1 DEF Line, Has
  <2> HIDE DEF y
  <2> QED
    BY <1>1, <2>1, <2>2, FindIs
<1>3. (Len(s) + 1) - 1 = Len(s)
  BY <1>1
<1>4. SubSeq(s, 1, Len(s)) = s
  BY <1>1, SubSeqFull DEF Str
<1> QED
  BY <1>2, <1>3, <1>4 DEF LineFrom

\* and in a line before more text it is the first, up to the newline.
LEMMA FirstLine ==
  ASSUME NEW line, Line(line), NEW u \in Str
  PROVE  LET s == More(line, u)
             k == Len(line) + 1
         IN  /\ s \in Str /\ k \in 1 .. Len(s) /\ Len(s) = k + Len(u)
             /\ find(s, 1, Newline) = k /\ LineFrom(s, 1) = line
             /\ SubSeq(s, k + 1, Len(s)) = u
             /\ s[k] = Newline /\ \A h \in 1 .. k - 1 : s[h] # Newline
<1> DEFINE s == More(line, u)
           k == Len(line) + 1
           sep == <<Newline>>
           p == line \o sep
<1>1. /\ line \in Str /\ Len(line) \in Nat /\ Len(u) \in Nat /\ line \in Seq(Characters)
      /\ u \in Seq(Characters) /\ \A h \in 1 .. Len(line) : line[h] # Newline
  BY LenProperties DEF Line, Str, Has
<1>2. sep \in Str /\ Len(sep) = 1 /\ sep[1] = Newline /\ sep \in Seq(Characters)
  BY Ending DEF Str
<1> HIDE DEF sep
<1>3. /\ p \in Str /\ Len(p) = Len(line) + 1 /\ p \in Seq(Characters)
      /\ \A h \in 1 .. Len(line) + 1 :
           p[h] = IF h <= Len(line) THEN line[h] ELSE sep[h - Len(line)]
  <2>1. /\ p \in Seq(Characters) /\ Len(p) = Len(line) + Len(sep)
        /\ \A h \in 1 .. Len(line) + Len(sep) :
             p[h] = IF h <= Len(line) THEN line[h] ELSE sep[h - Len(line)]
    BY ONLY <1>1, <1>2, ConcatProperties
  <2> QED
    BY <1>2, <2>1 DEF Str
<1>4. s = p \o u
  BY DEF More, sep
<1> HIDE DEF p
<1>5. /\ s \in Seq(Characters) /\ Len(s) = Len(p) + Len(u)
      /\ \A h \in 1 .. Len(p) + Len(u) : s[h] = IF h <= Len(p) THEN p[h] ELSE u[h - Len(p)]
  <2>1. /\ p \o u \in Seq(Characters) /\ Len(p \o u) = Len(p) + Len(u)
        /\ \A h \in 1 .. Len(p) + Len(u) :
             (p \o u)[h] = IF h <= Len(p) THEN p[h] ELSE u[h - Len(p)]
    <3>1. p \in Seq(Characters) /\ u \in Seq(Characters)
      BY <1>1, <1>3
    <3> QED
      BY ONLY <3>1, ConcatProperties
  <2> HIDE DEF s
  <2> QED
    BY <1>4, <2>1
<1> HIDE DEF s
<1>6. s \in Str /\ k \in 1 .. Len(s) /\ Len(s) = k + Len(u) /\ k \in Nat
  BY <1>1, <1>3, <1>5 DEF Str
<1>7. \A h \in 1 .. Len(line) : s[h] = line[h]
  BY <1>1, <1>3, <1>5
<1>8. s[k] = Newline
  <2>1. k \in 1 .. Len(p) + Len(u) /\ k <= Len(p) /\ k \in 1 .. Len(line) + 1
        /\ ~(k <= Len(line))
        /\ k - Len(line) = 1
    BY <1>1, <1>3
  <2> QED
    BY <1>2, <1>3, <1>5, <2>1
<1>9. \A h \in 1 .. k - 1 : s[h] # Newline
  <2>1. k - 1 = Len(line)
    BY <1>1
  <2> QED
    BY <1>1, <1>7, <2>1
<1>10. \A h \in 1 .. Len(u) : s[k + h] = u[h]
  <2> SUFFICES ASSUME NEW h \in 1 .. Len(u) PROVE s[k + h] = u[h]
    OBVIOUS
  <2>1. k + h \in 1 .. Len(p) + Len(u) /\ ~(k + h <= Len(p)) /\ (k + h) - Len(p) = h
    BY <1>1, <1>3
  <2> QED
    BY <1>5, <2>1
<1> HIDE DEF k
<1>11. find(s, 1, Newline) = k
  <2>1. 1 \in 1 .. Len(s) + 1 /\ k \in 1 .. Len(s) + 1
    BY <1>6
  <2> QED
    BY <1>6, <1>8, <1>9, <2>1, FindIs
<1>12. LineFrom(s, 1) = line
  <2> DEFINE q == SubSeq(s, 1, k - 1)
  <2>1. 1 \in 1 .. Len(s) + 1 /\ k - 1 \in 0 .. Len(s) /\ 1 <= (k - 1) + 1
    BY <1>6
  <2>2. q \in Str /\ Len(q) = (k - 1) + 1 - 1
        /\ \A h \in 1 .. (k - 1) + 1 - 1 : q[h] = s[1 + h - 1]
    BY <1>6, <2>1, Part
  <2>3. (k - 1) + 1 - 1 = Len(line) /\ \A h \in 1 .. Len(line) : 1 + h - 1 = h
    BY <1>1 DEF k
  <2> HIDE DEF q
  <2>4. Len(q) = Len(line) /\ \A h \in 1 .. Len(q) : q[h] = line[h]
    BY <1>7, <2>2, <2>3
  <2>5. q = line
    BY <1>1, <2>2, <2>4, SameText
  <2> QED
    BY <1>11, <2>5 DEF LineFrom, q
<1>13. SubSeq(s, k + 1, Len(s)) = u
  <2> DEFINE t == SubSeq(s, k + 1, Len(s))
  <2>1. k \in 0 .. Len(s) /\ Len(s) - k = Len(u)
    BY <1>1, <1>6
  <2>2. t \in Str /\ Len(t) = Len(s) - k /\ \A h \in 1 .. Len(s) - k : t[h] = s[k + h]
    BY <1>6, <2>1, Rest
  <2> HIDE DEF t
  <2>3. Len(t) = Len(u) /\ \A h \in 1 .. Len(t) : t[h] = u[h]
    BY <1>10, <2>1, <2>2
  <2>4. t = u
    BY <2>2, <2>3, SameText
  <2> QED
    BY <2>4 DEF t
<1> QED
  BY <1>6, <1>8, <1>9, <1>11, <1>12, <1>13 DEF s, k

\* The filter keeps or drops a line, and goes on with what follows.
LEMMA FilterOne ==
  ASSUME NEW s, Line(s)
  PROVE  filter_comment(s) = Kept(s)
<1>1. s \in Str /\ Len(s) \in Nat
  BY LenProperties DEF Line, Str
<1>2. PICK f : /\ \A i \in 1 .. Len(s) + 1 : FilteredAt(f, s, i)
               /\ filter_comment(s) = f[1]
  BY <1>1, Filtering
<1>3. FilteredAt(f, s, 1) /\ Len(s) + 1 > Len(s)
  BY <1>1, <1>2
<1>4. f[1] = Kept(s) \o << >>
  BY <1>3, OneLine DEF FilteredAt
<1>5. Kept(s) \in Str
  BY <1>1, KeptType
<1> QED
  BY <1>2, <1>4, <1>5, Concat

LEMMA FilterMore ==
  ASSUME NEW line, Line(line), NEW u \in Str
  PROVE  filter_comment(More(line, u)) = Kept(line) \o filter_comment(u)
<1> DEFINE s == More(line, u)
           k == Len(line) + 1
<1>1. /\ s \in Str /\ k \in 1 .. Len(s)
      /\ find(s, 1, Newline) = k /\ LineFrom(s, 1) = line
      /\ SubSeq(s, k + 1, Len(s)) = u
  BY FirstLine
<1> HIDE DEF s, k
<1>2. Len(s) \in Nat
  BY <1>1, LenProperties DEF Str
<1>3. PICK f : (\A i \in 1 .. Len(s) + 1 : FilteredAt(f, s, i)) /\ filter_comment(s) = f[1]
  BY <1>1, Filtering
<1>4. PICK g : (\A i \in 1 .. Len(u) + 1 : FilteredAt(g, u, i)) /\ filter_comment(u) = g[1]
  BY Filtering
<1>5. FilteredAt(f, s, 1) /\ ~(k > Len(s)) /\ k \in 0 .. Len(s)
  BY <1>1, <1>2, <1>3
<1>6. f[1] = Kept(line) \o f[k + 1]
  BY <1>1, <1>5 DEF FilteredAt
<1>7. f[k + 1] = g[1]
  BY <1>1, <1>3, <1>4, <1>5, FilterRest
<1> QED
  BY <1>3, <1>4, <1>6, <1>7 DEF s

\* Where the lines of a text start.
Starts(s) == {h \in 1 .. Len(s) + 1 : h = 1 \/ s[h - 1] = Newline}

LEMMA LinesFromStarts ==
  ASSUME NEW s
  PROVE  \A line : line \in LinesOf(s) <=> \E i \in Starts(s) : line = LineFrom(s, i)
BY DEF LinesOf, Starts, LineFrom

LEMMA LinesOfOne ==
  ASSUME NEW s, Line(s)
  PROVE  \A x : x \in LinesOf(s) <=> x = s
<1>1. Len(s) \in Nat
  BY LenProperties DEF Line, Str
<1>2. \A i : i \in Starts(s) <=> i = 1
  <2>1. 1 \in Starts(s)
    BY <1>1 DEF Starts
  <2>2. ASSUME NEW i \in Starts(s), i # 1 PROVE FALSE
    <3>1. i - 1 \in 1 .. Len(s) /\ s[i - 1] = Newline
      BY <1>1, <2>2 DEF Starts
    <3> QED
      BY <3>1 DEF Line, Has
  <2> QED
    BY <2>1, <2>2
<1> QED
  BY <1>2, OneLine, LinesFromStarts

LEMMA LinesOfMore ==
  ASSUME NEW line, Line(line), NEW u \in Str
  PROVE  \A x : x \in LinesOf(More(line, u)) <=> x = line \/ x \in LinesOf(u)
<1> DEFINE s == More(line, u)
           k == Len(line) + 1
           n == Len(s)
<1>1. /\ s \in Str /\ k \in 1 .. n /\ n = k + Len(u)
      /\ LineFrom(s, 1) = line /\ SubSeq(s, k + 1, n) = u
      /\ s[k] = Newline /\ \A h \in 1 .. k - 1 : s[h] # Newline
  BY FirstLine
<1>2. Len(u) \in Nat /\ n \in Nat /\ k \in Nat /\ k \in 0 .. n /\ n - k = Len(u)
  <2>1. Len(u) \in Nat /\ n \in Nat
    BY <1>1, LenProperties DEF Str
  <2> HIDE DEF k, n
  <2> QED
    BY <1>1, <2>1
<1> HIDE DEF s, k
<1>3. \A h \in 1 .. Len(u) : u[h] = s[k + h]
  <2>1. \A h \in 1 .. n - k : SubSeq(s, k + 1, n)[h] = s[k + h]
    BY <1>1, <1>2, Rest
  <2> HIDE DEF n
  <2> QED
    BY <1>1, <1>2, <2>1
<1>4. ASSUME NEW i \in 1 .. Len(u) + 1 PROVE LineFrom(s, k + i) = LineFrom(u, i)
  <2>1. i \in 1 .. (n - k) + 1
    BY <1>2
  <2> QED
    BY <1>1, <1>2, <2>1, RestLines
<1>5. 1 \in Starts(s)
  BY <1>2 DEF Starts
<1>6. ASSUME NEW i \in Starts(u) PROVE k + i \in Starts(s) /\ i \in 1 .. Len(u) + 1
  <2>1. i \in 1 .. Len(u) + 1 /\ (i = 1 \/ u[i - 1] = Newline)
    BY DEF Starts
  <2>2. k + i \in 1 .. n + 1
    BY <1>1, <1>2, <2>1
  <2>3. CASE i = 1
    <3>1. (k + i) - 1 = k
      BY <1>2, <2>3
    <3> QED
      BY <1>1, <2>1, <2>2, <3>1 DEF Starts
  <2>4. CASE i # 1
    <3>1. i - 1 \in 1 .. Len(u) /\ k + (i - 1) = (k + i) - 1
      BY <1>2, <2>1, <2>4
    <3>2. s[(k + i) - 1] = Newline
      BY <1>3, <2>1, <2>4, <3>1
    <3> QED
      BY <2>1, <2>2, <3>2 DEF Starts
  <2> QED
    BY <2>3, <2>4
<1>7. ASSUME NEW i \in Starts(s), i # 1 PROVE \E h \in Starts(u) : i = k + h
  <2>1. i \in 1 .. n + 1 /\ s[i - 1] = Newline /\ i - 1 \in Nat /\ i - 1 >= 1
    BY <1>2, <1>7 DEF Starts
  <2>2. ~(i - 1 \in 1 .. k - 1)
    BY <1>1, <2>1
  <2>3. i - k \in 1 .. Len(u) + 1 /\ i = k + (i - k)
        /\ (i - k = 1 \/ (i - k) - 1 \in 1 .. Len(u))
        /\ k + ((i - k) - 1) = i - 1
    BY <1>1, <1>2, <2>1, <2>2
  <2>4. i - k = 1 \/ u[(i - k) - 1] = Newline
    BY <1>3, <2>1, <2>3
  <2>5. i - k \in Starts(u)
    BY <2>3, <2>4 DEF Starts
  <2> QED
    BY <2>3, <2>5
<1>8. \A x : (\E i \in Starts(s) : x = LineFrom(s, i)) <=>
               x = line \/ \E i \in Starts(u) : x = LineFrom(u, i)
  <2> SUFFICES ASSUME NEW x
               PROVE  (\E i \in Starts(s) : x = LineFrom(s, i)) <=>
                        x = line \/ \E i \in Starts(u) : x = LineFrom(u, i)
    OBVIOUS
  <2>1. ASSUME NEW i \in Starts(s), x = LineFrom(s, i)
        PROVE  x = line \/ \E h \in Starts(u) : x = LineFrom(u, h)
    <3>1. CASE i = 1
      BY <1>1, <2>1, <3>1
    <3>2. CASE i # 1
      <4>1. PICK h \in Starts(u) : i = k + h
        BY <1>7, <3>2
      <4>2. h \in 1 .. Len(u) + 1
        BY <1>6
      <4> QED
        BY <1>4, <2>1, <4>1, <4>2
    <3> QED
      BY <3>1, <3>2
  <2>2. x = line => \E i \in Starts(s) : x = LineFrom(s, i)
    BY <1>1, <1>5
  <2>3. ASSUME NEW h \in Starts(u), x = LineFrom(u, h)
        PROVE  \E i \in Starts(s) : x = LineFrom(s, i)
    <3>1. k + h \in Starts(s) /\ LineFrom(s, k + h) = LineFrom(u, h)
      BY <1>4, <1>6
    <3> QED
      BY <2>3, <3>1
  <2> QED
    BY <2>1, <2>2, <2>3
<1> QED
  BY <1>8, LinesFromStarts DEF s

\* A text is uncommented if none of its lines is a comment.
LEMMA NoComment ==
  ASSUME NEW s \in Str
  PROVE  Uncommented(s) <=> \A line \in LinesOf(s) : ~comment(line)
<1>1. \A line \in LinesOf(s) : line \in Str
  <2>1. \A i \in Starts(s) : i \in 1 .. Len(s) + 1
    BY DEF Starts
  <2>2. \A i \in Starts(s) : LineFrom(s, i) \in Str
    BY <2>1, LineFromType
  <2> QED
    BY <2>2, LinesFromStarts
<1>2. \A line \in LinesOf(s) :
        comment(line) <=> str_remove(line, " ").str # << >> /\ str_remove(line, " ").str[1] = "#"
  BY <1>1, CommentStarts
<1> QED
  BY <1>2 DEF Uncommented

LEMMA FilterType ==
  ASSUME NEW s \in Str
  PROVE  filter_comment(s) \in Str
<1>1. PICK out : /\ \A i \in 1 .. Len(s) + 1 : FilteredAt(out, s, i) /\ out[i] \in Str
                 /\ filter_comment(s) = out[1]
  BY Filtering
<1>2. 1 \in 1 .. Len(s) + 1
  BY LenProperties DEF Str
<1> QED
  BY <1>1, <1>2

\* What TextExact says of the filter, and what its proof by length needs besides.
FilterExact(s) ==
  LET once == filter_comment(s)
      more == s \o <<Newline>>
  IN  /\ Uncommented(once)
      /\ filter_comment(once) = once \o <<Newline>>
      /\ Uncommented(s) => once = more
      /\ \A line \in LinesOf(s) : line \in LinesOf(more)

LEMMA EmptyLine == << >> \in Str /\ Line(<< >>) /\ ~comment(<< >>) /\ Kept(<< >>) = <<Newline>>
<1>1. << >> \in Str /\ Len(<< >>) = 0
  BY DEF Str
<1>2. ~comment(<< >>) /\ Line(<< >>)
  BY <1>1 DEF comment, Line, Has
<1>3. Append(<< >>, Newline) = << >> \o <<Newline>>
  BY Ending, <1>1, AppendIsConcat DEF Str
<1>4. << >> \o <<Newline>> = <<Newline>>
  BY Ending, Concat
<1> QED
  BY <1>1, <1>2, <1>3, <1>4 DEF Kept

\* What is kept of a line that is no comment.
LEMMA KeptLine ==
  ASSUME NEW line \in Str, ~comment(line)
  PROVE  Kept(line) = line \o <<Newline>>
BY Ending, AppendIsConcat DEF Kept, Str

LEMMA FilterOneExact ==
  ASSUME NEW s, Line(s)
  PROVE  FilterExact(s)
<1> DEFINE sep == <<Newline>>
           none == << >>
<1>1. s \in Str /\ sep \in Str /\ none \in Str /\ Line(none) /\ ~comment(none)
      /\ Kept(none) = sep
  BY Ending, EmptyLine DEF Line
<1>2. filter_comment(s) = Kept(s) /\ filter_comment(none) = sep
  BY <1>1, FilterOne
<1>3. \A x : x \in LinesOf(s) <=> x = s
  BY LinesOfOne
<1>4. \A x : x \in LinesOf(none) <=> x = none
  BY <1>1, LinesOfOne
<1>5. More(s, none) = s \o sep /\ s \o sep \in Str
  <2>1. s \o sep \in Str
    BY <1>1, Concat
  <2> HIDE DEF sep
  <2>2. (s \o sep) \o none = s \o sep
    BY <2>1, Concat
  <2> QED
    BY <2>1, <2>2 DEF More, sep
<1>6. \A x : x \in LinesOf(s \o sep) <=> x = s \/ x = none
  <2>1. \A x : x \in LinesOf(More(s, none)) <=> x = s \/ x \in LinesOf(none)
    BY <1>1, LinesOfMore
  <2> QED
    BY <1>4, <1>5, <2>1
<1>7. sep = none \o sep
  BY <1>1, Concat
<1>8. CASE comment(s)
  <2>1. filter_comment(s) = none
    BY <1>2, <1>8 DEF Kept
  <2>2. Uncommented(none) /\ ~Uncommented(s)
    BY <1>1, <1>3, <1>4, <1>8, NoComment
  <2> QED
    BY <1>2, <1>3, <1>6, <1>7, <2>1, <2>2 DEF FilterExact
<1>9. CASE ~comment(s)
  <2>1. filter_comment(s) = s \o sep
    BY <1>1, <1>2, <1>9, KeptLine
  <2>2. Uncommented(s \o sep)
    BY <1>1, <1>5, <1>6, <1>9, NoComment
  <2>3. filter_comment(s \o sep) = (s \o sep) \o sep
    <3>1. filter_comment(More(s, none)) = Kept(s) \o filter_comment(none)
      BY <1>1, FilterMore
    <3> QED
      BY <1>2, <1>5, <2>1, <3>1
  <2> QED
    BY <1>3, <1>6, <2>1, <2>2, <2>3 DEF FilterExact
<1> QED
  BY <1>8, <1>9

LEMMA FilterMoreExact ==
  ASSUME NEW line, Line(line), NEW u \in Str, FilterExact(u)
  PROVE  FilterExact(More(line, u))
<1> DEFINE s == More(line, u)
           F(x) == filter_comment(x)
           sep == <<Newline>>
           head == line \o sep
           fu == F(u)
           us == u \o sep
<1>1. /\ line \in Str /\ sep \in Str
      /\ Uncommented(fu) /\ F(fu) = fu \o sep /\ (Uncommented(u) => fu = us)
      /\ \A x \in LinesOf(u) : x \in LinesOf(us)
  BY Ending DEF Line, FilterExact
<1>2. s \in Str /\ fu \in Str /\ us \in Str /\ head \in Str
  BY <1>1, FirstLine, FilterType, Concat
<1>3. F(s) = Kept(line) \o fu /\ F(More(line, fu)) = Kept(line) \o F(fu)
  BY <1>2, FilterMore
<1>4. /\ \A x : x \in LinesOf(s) <=> x = line \/ x \in LinesOf(u)
      /\ \A x : x \in LinesOf(More(line, us)) <=> x = line \/ x \in LinesOf(us)
      /\ \A x : x \in LinesOf(More(line, fu)) <=> x = line \/ x \in LinesOf(fu)
  BY <1>2, LinesOfMore
<1>5. \A x : More(line, x) = head \o x
  BY DEF More
<1>6. Uncommented(s) => Uncommented(u) /\ ~comment(line)
  BY <1>2, <1>4, NoComment
<1>7. s \o sep = More(line, us)
  <2>1. s = head \o u /\ More(line, us) = head \o us
    BY <1>5
  <2> HIDE DEF s, head, sep
  <2>2. Associates(head, u, sep)
    BY ONLY <1>1, <1>2, u \in Str, Regroup
  <2> QED
    BY <2>1, <2>2 DEF Associates, us
<1>8. \A x \in LinesOf(s) : x \in LinesOf(s \o sep)
  BY <1>1, <1>4, <1>7
<1>9. CASE comment(line)
  <2>1. F(s) = fu
    <3>1. Kept(line) = << >>
      BY <1>9 DEF Kept
    <3>2. << >> \o fu = fu
      BY <1>2, Concat
    <3> QED
      BY <1>3, <3>1, <3>2
  <2> QED
    BY <1>1, <1>6, <1>8, <1>9, <2>1 DEF FilterExact
<1>10. CASE ~comment(line)
  <2>1. Kept(line) = head
    BY <1>1, <1>10, KeptLine
  <2>2. F(s) = More(line, fu) /\ F(s) = head \o fu
    BY <1>3, <1>5, <2>1
  <2>3. Uncommented(F(s))
    <3>1. F(s) \in Str
      BY <1>2, FilterType
    <3>2. \A x \in LinesOf(fu) : ~comment(x)
      BY <1>1, <1>2, NoComment
    <3>3. \A x \in LinesOf(F(s)) : ~comment(x)
      BY <1>4, <1>10, <2>2, <3>2
    <3> QED
      BY <3>1, <3>3, NoComment
  <2>4. F(F(s)) = F(s) \o sep
    <3>1. F(F(s)) = head \o (fu \o sep)
      BY <1>1, <1>3, <2>1, <2>2
    <3> HIDE DEF F, head, sep, fu
    <3>2. Associates(head, fu, sep)
      BY ONLY <1>1, <1>2, Regroup
    <3> QED
      BY <2>2, <3>1, <3>2 DEF Associates
  <2>5. Uncommented(s) => F(s) = s \o sep
    <3>1. Uncommented(s) => F(s) = head \o us
      BY <1>1, <1>6, <2>2
    <3> QED
      BY <1>5, <1>7, <3>1
  <2> QED
    BY <1>8, <2>3, <2>4, <2>5 DEF FilterExact
<1> QED
  BY <1>9, <1>10

LEMMA FilterAll ==
  ASSUME NEW s \in Str
  PROVE  FilterExact(s)
<1> DEFINE S == {m \in Nat : \A t \in Str : Len(t) < m => FilterExact(t)}
<1>1. \A t \in Str : Len(t) \in Nat
  BY LenProperties DEF Str
<1>2. 0 \in S
  BY <1>1
<1>3. ASSUME NEW m \in Nat, m \in S PROVE m + 1 \in S
  <2> SUFFICES ASSUME NEW t \in Str, Len(t) < m + 1 PROVE FilterExact(t)
    OBVIOUS
  <2>1. CASE Line(t)
    BY <2>1, FilterOneExact
  <2>2. ASSUME NEW line \in Str, NEW u \in Str, Line(line), t = More(line, u), Len(u) < Len(t)
        PROVE  FilterExact(t)
    <3>1. Len(u) < m
      BY <1>1, <2>2
    <3>2. FilterExact(u)
      BY <1>3, <3>1
    <3> QED
      BY <2>2, <3>2, FilterMoreExact
  <2> QED
    BY <2>1, <2>2, LineByLine
<1> HIDE DEF S
<1>4. Len(s) + 1 \in Nat /\ Len(s) < Len(s) + 1
  BY <1>1
<1>5. Len(s) + 1 \in S
  BY <1>2, <1>3, <1>4, FromZero
<1> QED
  BY <1>4, <1>5 DEF S

-----------------------------------------------------------------------------
(* The texts of a program *)

LEMMA LettersType == \A c \in Letters : c \in Characters
BY DEF Characters

\* Texts of the letters a program uses stay such texts.
LEMMA InitText == TextInit => text \in Str
<1> SUFFICES ASSUME NEW n \in 0 .. MaxText, text \in [1 .. n -> Letters] PROVE text \in Str
  BY DEF TextInit
<1>1. n \in Nat
  OBVIOUS
<1>2. text \in [1 .. n -> Characters]
  BY LettersType
<1> QED
  BY <1>1, <1>2, SeqDef DEF Str

LEMMA StepText == text \in Str /\ [TextNext]_text => (text \in Str)'
<1> SUFFICES ASSUME text \in Str, [TextNext]_text PROVE text' \in Str
  BY DEF Str, Characters
<1>1. CASE text' = filter_comment(text)
  BY <1>1, FilterType
<1>2. ASSUME NEW c \in Letters, NEW d \in Letters, text' = str_replace(text, c, d).str
      PROVE  text' \in Str
  <2> DEFINE n == Len(text)
  <2>1. n \in Nat /\ text \in [1 .. n -> Characters] /\ d \in Characters
    BY TextFunction, LettersType
  <2>2. text' = [i \in 1 .. n |-> IF text[i] = c THEN d ELSE text[i]]
    BY <1>2 DEF str_replace
  <2>3. text' \in [1 .. n -> Characters]
    BY <2>1, <2>2
  <2> QED
    BY <2>1, <2>3, SeqDef DEF Str
<1>3. ASSUME NEW c \in Letters, text' = str_remove(text, c).str PROVE text' \in Str
  BY <1>3, RemovalCount
<1>4. ASSUME NEW c \in Letters, text' = remove_last_char(text, c) PROVE text' \in Str
  <2>1. PICK k \in 0 .. Len(text) : remove_last_char(text, c) = SubSeq(text, 1, k)
    BY Trimmed
  <2> QED
    BY <1>4, <2>1, Divided
<1> QED
  BY <1>1, <1>2, <1>3, <1>4 DEF TextNext

\* The text functions, on whatever text a program makes with them: filter_comment drops
\* the lines that are comments and nothing else, and what is replaced, removed and
\* trimmed is the same.
THEOREM TextsAreExact == TextSpec => []TextExact
<1>1. text \in Str => TextExact
  <2> SUFFICES ASSUME text \in Str PROVE TextExact
    OBVIOUS
  <2> DEFINE once == filter_comment(text)
             sep == <<Newline>>
  <2>1. /\ Uncommented(once) /\ filter_comment(once) = once \o sep
        /\ Uncommented(text) => once = text \o sep
        /\ \A line \in LinesOf(text) : line \in LinesOf(text \o sep)
    BY FilterAll DEF FilterExact
  <2>2. once \in Str /\ text \o sep \in Str
    BY Ending, FilterType, Concat
  <2>3. once \o sep = Append(once, Newline) /\ text \o sep = Append(text, Newline)
    BY Ending, <2>2, AppendIsConcat DEF Str
  <2>4. once = text \o sep => Uncommented(text)
    <3> SUFFICES ASSUME once = text \o sep PROVE Uncommented(text)
      OBVIOUS
    <3>1. Uncommented(text \o sep)
      BY <2>1
    <3> QED
      BY <2>1, <2>2, <3>1, NoComment
  <2>5. ASSUME NEW c \in Letters, NEW d \in Letters
        PROVE  /\ str_remove(text, c).count = str_replace(text, c, d).count
               /\ str_remove(remove_last_char(text, c), c).str = str_remove(text, c).str
               /\ ~Has(text, d) =>
                    /\ str_remove(str_replace(text, c, d).str, d).str = str_remove(text, c).str
                    /\ str_replace(str_replace(text, c, d).str, d, c).str = text
    BY LettersType, RemovalCount, TrimmedRemoved, MarkedRemoved
  <2> QED
    BY <2>1, <2>3, <2>4, <2>5 DEF TextExact
<1> QED
  BY <1>1, InitText, StepText, PTL DEF TextSpec
=============================================================================
