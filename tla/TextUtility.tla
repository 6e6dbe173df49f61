---------------------------- MODULE TextUtility -----------------------------
(***************************************************************************)
(* The text functions of utility.h: filter_comment, str_replace,           *)
(* str_remove and remove_last_char, on every short text.                   *)
(***************************************************************************)
EXTENDS SplitFunctions

CONSTANTS
  Letters,   \* the characters of texts, among them "#", a blank and an end of line
  Newline,   \* the end of a line
  MaxText    \* bound: characters of a text

ASSUME TextAssumption == {"#", " ", Newline} \subseteq Letters /\ MaxText \in Nat

VARIABLE text

TextInit == text \in UNION {[1 .. n -> Letters] : n \in 0 .. MaxText}

\* Mutant: the comment must start the line.
comment_unindented(line) == line # << >> /\ line[1] = "#"

\* The first character that is not blank.
comment(line) == \E i \in 1 .. Len(line) : line[i] = "#" /\ \A h \in 1 .. i - 1 : line[h] = " "

\* getline until eof: after the last newline one more line is read, empty or not.
filter_comment(s) ==
  LET out[i \in 1 .. Len(s) + 1] ==
        LET j    == find(s, i, Newline)
            line == SubSeq(s, i, j - 1)
        IN  (IF comment(line) THEN << >> ELSE Append(line, Newline))
              \o (IF j > Len(s) THEN << >> ELSE out[j + 1])
  IN  out[1]

\* What the function returns, and the text it leaves.
str_replace(s, src, dest) ==
  [count |-> Cardinality({i \in 1 .. Len(s) : s[i] = src}),
   str   |-> [i \in 1 .. Len(s) |-> IF s[i] = src THEN dest ELSE s[i]]]

str_remove(s, src) ==
  LET rest[i \in 0 .. Len(s)] ==
        IF i = 0 THEN << >>
        ELSE IF s[i] # src THEN Append(rest[i - 1], s[i]) ELSE rest[i - 1]
  IN  [count |-> Len(s) - Len(rest[Len(s)]), str |-> rest[Len(s)]]

remove_last_char(s, c) ==
  LET last == CHOOSE i \in 0 .. Len(s) :
                (i = 0 \/ s[i] # c) /\ \A j \in i + 1 .. Len(s) : s[j] = c
  IN  SubSeq(s, 1, last)

\* A program filters, replaces, removes or trims, in any order.
TextNext ==
  \/ Len(text) < MaxText /\ text' = filter_comment(text)
  \/ \E c \in Letters :
       \/ \E d \in Letters : text' = str_replace(text, c, d).str
       \/ text' = str_remove(text, c).str
       \/ text' = remove_last_char(text, c)

TextSpec == TextInit /\ [][TextNext]_text

-----------------------------------------------------------------------------
(* Correctness *)

\* What stands between the newlines.
LinesOf(s) ==
  {SubSeq(s, i, find(s, i, Newline) - 1) :
     i \in {h \in 1 .. Len(s) + 1 : h = 1 \/ s[h - 1] = Newline}}

\* No line starts with "#", but for blanks.
Uncommented(s) ==
  \A line \in LinesOf(s) :
    LET bare == str_remove(line, " ").str IN bare = << >> \/ bare[1] # "#"

\* filter_comment leaves no line that starts with "#" but for blanks, and loses
\* nothing else; it ends the last line, and adds an empty one to a text whose last
\* line had an end: a second filter of the same text changes it again, by that line.
\* Removing a character and replacing it count the same, a replacement by a character
\* the text did not have can be undone, and what is trimmed at the end is no more
\* than what is removed.
TextExact ==
  LET once == filter_comment(text)
  IN  /\ Uncommented(once)
      /\ filter_comment(once) = Append(once, Newline)
      /\ Uncommented(text) <=> once = Append(text, Newline)
      /\ \A c, d \in Letters :
           LET removed == str_remove(text, c)
               marked  == str_replace(text, c, d)
           IN  /\ removed.count = marked.count
               /\ str_remove(remove_last_char(text, c), c).str = removed.str
               /\ ~Has(text, d) => /\ str_remove(marked.str, d).str = removed.str
                                  /\ str_replace(marked.str, d, c).str = text
=============================================================================
