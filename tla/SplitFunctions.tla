--------------------------- MODULE SplitFunctions ---------------------------
(***************************************************************************)
(* split and str_split. A string is a sequence of characters; positions    *)
(* are counted from 1, and the end iterator is Len(s) + 1.                 *)
(***************************************************************************)
EXTENDS Naturals, Sequences, FiniteSets

\* std::find from position i.
find(s, i, delim) ==
  CHOOSE j \in i .. Len(s) + 1 :
    /\ j = Len(s) + 1 \/ s[j] = delim
    /\ \A h \in i .. j - 1 : s[h] # delim

\* Mutant: the last part ends at the next delimiter.
cuts_all(s, delim, k) ==
  LET cut[i \in 0 .. k] ==
        IF i = 0 THEN 0
        ELSE IF cut[i - 1] > Len(s) THEN Len(s) + 1
        ELSE find(s, cut[i - 1] + 1, delim)
  IN  cut

\* it1 after each of the k parts: the delimiter that ends the part, or the end.
cuts(s, delim, k) ==
  LET cut[i \in 0 .. k] ==
        IF i = 0 THEN 0
        ELSE IF i = k \/ cut[i - 1] > Len(s) THEN Len(s) + 1
        ELSE find(s, cut[i - 1] + 1, delim)
  IN  cut

\* split_impl with k recipients: their values, and what it returns.
split_impl(s, delim, k) ==
  LET cut   == cuts(s, delim, k)
      found == Cardinality({i \in 1 .. k - 1 : cut[i] <= Len(s)})
  IN  [parts |-> [i \in 1 .. k |-> SubSeq(s, cut[i - 1] + 1, cut[i] - 1)],
       count |-> IF found = 0 THEN 0 ELSE found + 1]

\* getline until the stream is exhausted.
str_split(s, c) ==
  LET lines[i \in 1 .. Len(s) + 1] ==
        IF i > Len(s) THEN << >>
        ELSE LET j == find(s, i, c)
             IN  <<SubSeq(s, i, j - 1)>> \o (IF j > Len(s) THEN << >> ELSE lines[j + 1])
  IN  lines[1]

-----------------------------------------------------------------------------
(* What they are for *)

Has(s, c) == \E i \in 1 .. Len(s) : s[i] = c

\* The parts with the delimiter between them.
Join(parts, delim) ==
  LET joined[i \in 0 .. Len(parts)] ==
        IF i = 0 THEN << >>
        ELSE joined[i - 1] \o (IF i = 1 THEN << >> ELSE <<delim>>) \o parts[i]
  IN  joined[Len(parts)]

\* split cuts at the first k - 1 delimiters: its parts joined give the string
\* back, only the last of k parts may hold a delimiter, and the count says how
\* many parts there are, with 0 for a string without delimiter.
SplitsExactly(s, delim, k) ==
  LET r    == split_impl(s, delim, k)
      used == IF r.count = 0 THEN 1 ELSE r.count
  IN  /\ r.count \in {0} \cup 2 .. k
      /\ Join(SubSeq(r.parts, 1, used), delim) = s
      /\ \A i \in 1 .. k :
           /\ i < k \/ i > used => ~Has(r.parts[i], delim)
           /\ i > used => r.parts[i] = << >>

\* str_split cuts at every delimiter, and makes no part of an empty rest.
SplitsAll(s, c) ==
  LET parts == str_split(s, c)
  IN  /\ \A i \in 1 .. Len(parts) : ~Has(parts[i], c)
      /\ s \in {Join(parts, c), Join(parts, c) \o <<c>>}
      /\ s # << >> /\ s[Len(s)] # c => s = Join(parts, c)
=============================================================================
