------------------------------- MODULE Clocks -------------------------------
(***************************************************************************)
(* The readings of the clocks: utc_milliseconds of time.h rounds up,       *)
(* unix_time_milliseconds of utility.h rounds down; clock_timer uses the   *)
(* steady clock, MicrosecondTimer the system's, which may be set.          *)
(***************************************************************************)
EXTENDS Integers

CONSTANTS
  Scale,     \* microseconds of a millisecond, milliseconds of a second: 1000
  MaxTime    \* bound: microseconds

ASSUME ClocksAssumption == Scale \in Nat \ {0} /\ MaxTime \in Nat

VARIABLES
  now,        \* the system's clock, in microseconds since the epoch
  steady,     \* the steady clock
  stamp,      \* the last milliseconds that were read, and how they were rounded
  adjusted,   \* history: the system's clock was set
  timer,      \* the clock_timer: its time points start_ and end_
  micro,      \* the MicrosecondTimer: tb_, te_
  span        \* history: the steady clock at its Start and its Stop

clock_vars == <<now, steady, stamp, adjusted, timer, micro, span>>

ClocksInit ==
  /\ now \in 1 .. MaxTime /\ steady = 0
  /\ stamp = [ms |-> 0, up |-> FALSE] /\ adjusted = FALSE
  /\ timer = [start_ |-> 0, end_ |-> 0]
  /\ micro = [tb_ |-> 0, te_ |-> 0] /\ span = [from |-> 0, to |-> 0]

timeval_to_microseconds(tv) == tv.tv_sec * Scale * Scale + tv.tv_usec

\* Mutant: a whole millisecond is rounded up as well.
timeval_to_milliseconds_late(tv) == tv.tv_sec * Scale + (tv.tv_usec + Scale) \div Scale

timeval_to_milliseconds(tv) == tv.tv_sec * Scale + (tv.tv_usec + Scale - 1) \div Scale

milliseconds_to_timeval(ms) == [tv_sec |-> ms \div Scale, tv_usec |-> (ms % Scale) * Scale]
microseconds_to_timeval(us) ==
  [tv_sec |-> us \div (Scale * Scale), tv_usec |-> us % (Scale * Scale)]

\* The first division is the one of the microseconds: the seconds lose nothing.
unix_time_milliseconds(tv) == tv.tv_sec * Scale + tv.tv_usec \div Scale
unix_time_microseconds(tv) == tv.tv_sec * Scale * Scale + tv.tv_usec

gettimeofday == microseconds_to_timeval(now)

read_clock(up) ==
  /\ stamp' = [up |-> up,
               ms |-> IF up THEN timeval_to_milliseconds(gettimeofday)
                            ELSE unix_time_milliseconds(gettimeofday)]
  /\ UNCHANGED <<now, steady, adjusted, timer, micro, span>>

Pass ==
  /\ now < MaxTime /\ steady < MaxTime
  /\ now' = now + 1 /\ steady' = steady + 1
  /\ UNCHANGED <<stamp, adjusted, timer, micro, span>>

\* The system's clock is set; it was past the epoch and is.
Adjust(t) ==
  /\ now' = t /\ adjusted' = TRUE
  /\ UNCHANGED <<steady, stamp, timer, micro, span>>

reset ==
  /\ timer' = [start_ |-> steady, end_ |-> steady]
  /\ UNCHANGED <<now, steady, stamp, adjusted, micro, span>>

stop ==
  /\ timer' = [timer EXCEPT !.end_ = steady]
  /\ UNCHANGED <<now, steady, stamp, adjusted, micro, span>>

\* duration_cast truncates.
cost(unit) == (timer.end_ - timer.start_) \div unit

Start ==
  /\ micro' = [tb_ |-> unix_time_microseconds(gettimeofday), te_ |-> 0]
  /\ span' = [from |-> steady, to |-> steady]
  /\ UNCHANGED <<now, steady, stamp, adjusted, timer>>

Stop ==
  /\ micro' = [micro EXCEPT !.te_ = unix_time_microseconds(gettimeofday)]
  /\ span' = [span EXCEPT !.to = steady]
  /\ UNCHANGED <<now, steady, stamp, adjusted, timer>>

Delta == micro.te_ - micro.tb_

ClocksNext ==
  \/ Pass \/ \E t \in 1 .. MaxTime : Adjust(t)
  \/ \E up \in BOOLEAN : read_clock(up)
  \/ reset \/ stop \/ Start \/ Stop

ClocksSpec == ClocksInit /\ [][ClocksNext]_clock_vars

-----------------------------------------------------------------------------
(* Correctness *)

\* While nobody sets the system's clock, a reading that was rounded up is ahead of
\* a later one that is rounded down by one millisecond at most, and other readings
\* never go back; a MicrosecondTimer that was started and stopped tells the time that
\* passed, and one that runs tells no positive time. A clock_timer never tells more
\* than passed since it was reset, whoever sets the clock. Whole milliseconds and
\* microseconds come back from a timeval as they were.
ReadingsAgree ==
  LET up   == timeval_to_milliseconds(gettimeofday)
      down == unix_time_milliseconds(gettimeofday)
  IN  /\ ~adjusted => stamp.ms <= up /\ stamp.ms <= (IF stamp.up THEN down + 1 ELSE down)
      /\ ~adjusted /\ micro.tb_ # 0 /\ micro.te_ # 0 => Delta = span.to - span.from
      /\ micro.te_ = 0 => Delta <= 0
      /\ cost(1) \in 0 .. steady - timer.start_
      /\ cost(Scale) * Scale <= cost(1) /\ cost(Scale * Scale) * Scale <= cost(Scale)
      /\ timeval_to_microseconds(gettimeofday) = now
      /\ \A ms \in {up, down} :
           LET tv == milliseconds_to_timeval(ms)
           IN  timeval_to_milliseconds(tv) = ms /\ unix_time_milliseconds(tv) = ms
=============================================================================
