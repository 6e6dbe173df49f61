------------------------------ MODULE CmdArgs -------------------------------
(***************************************************************************)
(* basic_cmdargs: the arguments of a program, told apart into options with *)
(* a name, a value and a number of dashes, and values.                     *)
(***************************************************************************)
EXTENDS Integers, SplitFunctions

CONSTANTS
  Chars,     \* the characters of arguments, among them "-" and "="
  MaxArgs,   \* bound: arguments
  MaxChars   \* bound: characters of an argument

ASSUME CmdArgsAssumption == {"-", "="} \subseteq Chars /\ MaxArgs \in Nat /\ MaxChars \in Nat

VARIABLE argv   \* from argv[1] on

singleDash == 1
doubleDash == 2

ArgsInit == argv = << >>

\* The shell passes one more argument, or one more character in the last.
NewArg == Len(argv) < MaxArgs /\ argv' = Append(argv, << >>)
NewChar(c) ==
  /\ argv # << >> /\ Len(argv[Len(argv)]) < MaxChars
  /\ argv' = [argv EXCEPT ![Len(argv)] = Append(@, c)]

\* The program runs with what there is.
Complete == UNCHANGED argv

ArgsNext == NewArg \/ (\E c \in Chars : NewChar(c)) \/ Complete

ArgsSpec == ArgsInit /\ [][ArgsNext]_argv

-----------------------------------------------------------------------------

is_option(arg) == Len(arg) >= 1 /\ arg[1] = "-"

\* Mutant: a lone dash is taken for two.
type_of_short(arg) == IF Len(arg) = 1 \/ arg[2] = "-" THEN doubleDash ELSE singleDash

type_of(arg) == IF Len(arg) >= 2 /\ arg[2] = "-" THEN doubleDash ELSE singleDash

\* split for two recipients, which cmdargs.h has of its own.
split(s, delim) ==
  LET it1 == find(s, 1, delim)
  IN  <<SubSeq(s, 1, it1 - 1), SubSeq(s, it1 + 1, Len(s))>>

option(n, v, t, i, o) == [name |-> n, value |-> v, type |-> t, index |-> i, original |-> o]
value(v, i) == [name |-> v, index |-> i]

option_of(arg, i) ==
  LET parts == split(SubSeq(arg, type_of(arg) + 1, Len(arg)), "=")
  IN  option(parts[1], parts[2], type_of(arg), i, arg)

m_options(args) ==
  LET opts[i \in 0 .. Len(args)] ==
        IF i = 0 THEN << >>
        ELSE IF is_option(args[i]) THEN Append(opts[i - 1], option_of(args[i], i))
        ELSE opts[i - 1]
  IN  opts[Len(args)]

m_values(args) ==
  LET vals[i \in 0 .. Len(args)] ==
        IF i = 0 THEN << >>
        ELSE IF is_option(args[i]) THEN vals[i - 1]
        ELSE Append(vals[i - 1], value(args[i], i))
  IN  vals[Len(args)]

size(args) == Len(m_options(args)) + Len(m_values(args))

\* The first option of that name and, unless it is -1, type; past the end if none.
has_option_(args, name, type) ==
  LET opts == m_options(args)
      matches(j) == opts[j].name = name /\ type \in {-1, opts[j].type}
  IN  CHOOSE j \in 1 .. Len(opts) + 1 :
        /\ j = Len(opts) + 1 \/ matches(j)
        /\ \A h \in 1 .. j - 1 : ~matches(h)

\* The first value of that name; past the end if none.
has_value_(args, name) ==
  LET vals == m_values(args)
  IN  CHOOSE j \in 1 .. Len(vals) + 1 :
        /\ j = Len(vals) + 1 \/ vals[j].name = name
        /\ \A h \in 1 .. j - 1 : vals[h].name # name

has_option(args, name, type) == has_option_(args, name, type) <= Len(m_options(args))
has_value(args, name) == has_value_(args, name) <= Len(m_values(args))

to_string(opt) ==
  (IF opt.type = singleDash THEN <<"-">> ELSE <<"-", "-">>) \o opt.name
    \o (IF opt.value = << >> THEN << >> ELSE <<"=">> \o opt.value)

-----------------------------------------------------------------------------
(* Correctness *)

\* The functions of SplitFunctions on every argument, for any number of
\* recipients.
SplitExact ==
  \A i \in 1 .. Len(argv) :
    SplitsAll(argv[i], "=") /\ \A k \in 2 .. 6 : SplitsExactly(argv[i], "=", k)

\* Every argument is found again as one option or one value, under its index and
\* in order. An option's text gives back the argument but for an "=" that nothing
\* follows; its name has no "=", and a search by name finds it or an earlier one. A search
\* for a value finds every argument that is no option, and nothing else.
ArgsAccounted ==
  LET opts == m_options(argv)
      vals == m_values(argv)
  IN  /\ {opts[j].index : j \in DOMAIN opts} \cup {vals[j].index : j \in DOMAIN vals}
           = DOMAIN argv
      /\ size(argv) = Len(argv)
      /\ \A j \in 1 .. Len(opts) :
           /\ j > 1 => opts[j - 1].index < opts[j].index
           /\ ~Has(opts[j].name, "=")
           /\ argv[opts[j].index] = opts[j].original
           /\ opts[j].original \in {to_string(opts[j]), to_string(opts[j]) \o <<"=">>}
           /\ has_option_(argv, opts[j].name, opts[j].type) <= j
           /\ has_option_(argv, opts[j].name, -1)
                <= has_option_(argv, opts[j].name, opts[j].type)
           /\ has_option(argv, opts[j].name, 3 - opts[j].type) <=>
                \E i \in 1 .. Len(opts) : opts[i].name = opts[j].name /\ opts[i].type # opts[j].type
      /\ \A j \in 1 .. Len(vals) :
           /\ argv[vals[j].index] = vals[j].name /\ ~is_option(vals[j].name)
           /\ has_value_(argv, vals[j].name) <= j
      /\ \A i \in DOMAIN argv : has_value(argv, argv[i]) <=> ~is_option(argv[i])
=============================================================================
