----------------------------- MODULE LineReader -----------------------------
(***************************************************************************)
(* find_CRLF and find_EOL on a net::buffer, as a read callback uses them:  *)
(* bytes come in pieces that respect no line, and each callback takes one  *)
(* line if there is a whole one.                                           *)
(***************************************************************************)
EXTENDS Buffer

CONSTANTS
  CR, LF,        \* the bytes that end a line
  Pieces,        \* the pieces the bytes come in
  MaxReceived    \* bound: bytes the peer sends

ASSUME LineReaderAssumption == Pieces \subseteq Seq(Bytes) \ {<< >>} /\ MaxReceived \in Nat

VARIABLES
  input,      \* input_buffer_ of the connection
  end,        \* what ends a line: "\r\n" or "\n"
  received,   \* history: all the peer sent
  lines       \* history: the lines taken

line_vars == <<input, end, received, lines>>

Ends == {<<CR, LF>>, <<LF>>}

LineInit ==
  /\ input = new_buffer /\ end \in Ends
  /\ received = << >> /\ lines = << >>

\* p is at position i of s.
at(s, p, i) == i + Len(p) - 1 <= Len(s) /\ SubSeq(s, i, i + Len(p) - 1) = p

\* Mutant: the first byte of the pattern is enough.
find_first(s, p) ==
  {i \in 1 .. Len(s) : s[i] = p[1] /\ \A h \in 1 .. i - 1 : s[h] # p[1]}

\* The first place of p in s, or none (nullptr).
find_in(s, p) ==
  {i \in 1 .. Len(s) : at(s, p, i) /\ \A h \in 1 .. i - 1 : ~at(s, p, h)}

\* find_CRLF, find_EOL.
find_end(b) == find_in(readable(b), end)

take_line(b, i) == consume(b, i + Len(end) - 1)

\* handle_read with s, and the callback.
handle_read(s) ==
  LET b == append(input, s)
  IN  /\ Len(received) + Len(s) <= MaxReceived
      /\ received' = received \o s
      /\ IF find_end(b) = {} THEN input' = b /\ UNCHANGED lines
         ELSE \E i \in find_end(b) :
                /\ lines' = Append(lines, SubSeq(readable(b), 1, i - 1))
                /\ input' = take_line(b, i)
      /\ UNCHANGED end

\* The peer sends no more.
Silent == UNCHANGED line_vars

LineNext == (\E s \in Pieces : handle_read(s)) \/ Silent

LineSpec == LineInit /\ [][LineNext]_line_vars

-----------------------------------------------------------------------------
(* Correctness *)

\* The lines taken, each with its end, and what is still readable are what the peer
\* sent, however it was cut into pieces, and no line has an end within: no end is
\* missed or seen twice when its bytes come apart. When nothing ends in the piece
\* that came last, a whole line may wait in the buffer until more is sent.
LinesExact ==
  LET text[n \in 0 .. Len(lines)] ==
        IF n = 0 THEN << >> ELSE text[n - 1] \o lines[n] \o end
  IN  /\ text[Len(lines)] \o readable(input) = received
      /\ \A n \in 1 .. Len(lines) :
           \A i \in 1 .. Len(lines[n]) : ~at(lines[n] \o end, end, i)
=============================================================================
