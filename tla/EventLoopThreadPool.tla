------------------------ MODULE EventLoopThreadPool ------------------------
(***************************************************************************)
(* event_loop, event_loop_thread and event_loop_thread_pool of zysoft/net: *)
(* the owner of the pool starts the threads, waits for them or not, and    *)
(* may start as many again; every thread makes its own loop, counts itself *)
(* and runs the loop until it is stopped; the destructor of the pool stops *)
(* and joins the threads one after another. Loop 0 is base_loop_, loop i   *)
(* the loop of thread i.                                                   *)
(***************************************************************************)
EXTENDS Integers, Sequences

CONSTANTS
  ThreadNums,   \* what thread_num() may be set to
  Tasks,        \* the functors given to run_in_loop
  MaxThreads,   \* bound: threads of the pool
  MaxQueue,     \* bound: tasks that wait in one loop
  MaxCalls      \* bound: calls of next_event_loop

ASSUME PoolAssumption ==
  /\ MaxThreads \in Nat /\ ThreadNums \subseteq 0 .. MaxThreads
  /\ MaxQueue \in Nat /\ MaxCalls \in Nat

VARIABLES
  num_threads_,
  owner,         \* what the thread that owns the pool does; "terminated" when the
                 \* process is
  goal,          \* the threads there are when the last start is through
  waits,         \* the last start was sync_start
  turn,          \* the thread its destructor is at
  threads_,      \* for each thread, where it is in thread_func
  loop_,         \* the loops that were made and not destroyed
  stopped,       \* the loops whose io_context is stopped
  running_num_,
  next_,
  queue,         \* for each loop, the tasks posted and not run
  given          \* history: how often next_event_loop returned each loop

own       == <<owner, goal, waits, turn>>
thr       == <<threads_, running_num_>>
ctx       == <<loop_, stopped, queue>>
choice    == <<num_threads_, next_, given>>
pool_vars == <<own, thr, ctx, choice>>

Loops == 0 .. MaxThreads
OwnerStates ==
  {"new", "starting", "started", "quitting", "joining", "destroyed", "terminated"}

PoolInit ==
  /\ num_threads_ \in ThreadNums
  /\ owner = "new"
  /\ goal = 0 /\ waits = FALSE
  /\ turn = 1
  /\ threads_ = << >>
  /\ loop_ = {0}
  /\ stopped = {}
  /\ running_num_ = 0
  /\ next_ = 0
  /\ queue = [l \in Loops |-> << >>]
  /\ given = [l \in Loops |-> 0]

-----------------------------------------------------------------------------
(* The thread of the owner *)

\* The first start or another one, which adds as many threads again.
starts(sync) ==
  /\ owner \in {"new", "started"}
  /\ Len(threads_) + num_threads_ <= MaxThreads
  /\ owner' = "starting"
  /\ goal' = Len(threads_) + num_threads_
  /\ waits' = sync
  /\ UNCHANGED <<choice, thr, ctx, turn>>

sync_start == starts(TRUE)
async_start == starts(FALSE)

\* One round of async_start.
start_thread ==
  /\ owner = "starting" /\ Len(threads_) < goal
  /\ threads_' = Append(threads_, "begun")
  /\ UNCHANGED <<choice, own, ctx, running_num_>>

\* Mutants: waits for one thread too many; does not wait.
all_started_late ==
  /\ owner = "starting" /\ Len(threads_) = goal
  /\ waits => running_num_ > num_threads_
  /\ owner' = "started"
  /\ UNCHANGED <<choice, thr, ctx, goal, waits, turn>>
all_started_early ==
  /\ owner = "starting" /\ Len(threads_) = goal
  /\ owner' = "started"
  /\ UNCHANGED <<choice, thr, ctx, goal, waits, turn>>

\* The start returns; sync_start compares with the threads of one start, also
\* when it is the second.
all_started ==
  /\ owner = "starting" /\ Len(threads_) = goal
  /\ waits => running_num_ >= num_threads_
  /\ owner' = "started"
  /\ UNCHANGED <<choice, thr, ctx, goal, waits, turn>>

\* What next_event_loop returns, and next_ after it.
next_loop == IF threads_ = << >> THEN 0 ELSE next_ + 1

\* Mutant: wraps one thread early.
next_after_short == IF next_ + 1 >= Len(threads_) - 1 THEN 0 ELSE next_ + 1

next_after ==
  IF threads_ = << >> THEN next_
  ELSE IF next_ + 1 >= Len(threads_) THEN 0 ELSE next_ + 1

next_event_loop ==
  /\ next_' = next_after
  /\ given' = [given EXCEPT ![next_loop] = @ + 1]

run_in_loop(q, l, t) == [q EXCEPT ![l] = Append(@, t)]
taken(q, l) == [q EXCEPT ![l] = Tail(@)]

\* A client of the pool gives the next loop some work, unless it got the null
\* loop_ of a thread that has not made it yet.
post ==
  /\ owner = "started"
  /\ Len(queue[next_loop]) < MaxQueue /\ \A l \in Loops : given[l] < MaxCalls
  /\ next_event_loop
  /\ IF next_loop \in loop_
       THEN \E t \in Tasks : queue' = run_in_loop(queue, next_loop, t)
       ELSE UNCHANGED queue
  /\ UNCHANGED <<own, thr, num_threads_, loop_, stopped>>

\* base_loop_ belongs to the owner of the pool, who leaves it before it lets go
\* of the pool.
quit_base ==
  /\ owner \in {"new", "started"}
  /\ stopped' = stopped \cup {0}
  /\ owner' = IF threads_ = << >> THEN "destroyed" ELSE "quitting"
  /\ UNCHANGED <<choice, thr, goal, waits, turn, loop_, queue>>

\* ~event_loop_thread of one thread of the pool: quit, when there is a loop.
quit_thread ==
  /\ owner = "quitting"
  /\ owner' = "joining"
  /\ stopped' = stopped \cup ({turn} \cap loop_)
  /\ UNCHANGED <<choice, thr, goal, waits, turn, loop_, queue>>

\* Mutant: the thread is not joined.
join_thread_not ==
  /\ owner = "joining"
  /\ loop_' = loop_ \ {turn}
  /\ IF turn < Len(threads_) THEN owner' = "quitting" /\ turn' = turn + 1
                             ELSE owner' = "destroyed" /\ UNCHANGED turn
  /\ UNCHANGED <<choice, thr, goal, waits, stopped, queue>>

\* join, and the destruction of its loop.
join_thread ==
  /\ owner = "joining" /\ threads_[turn] = "ended"
  /\ loop_' = loop_ \ {turn}
  /\ IF turn < Len(threads_) THEN owner' = "quitting" /\ turn' = turn + 1
                             ELSE owner' = "destroyed" /\ UNCHANGED turn
  /\ UNCHANGED <<choice, thr, goal, waits, stopped, queue>>

-----------------------------------------------------------------------------
(* thread_func *)

at(i, p) == owner # "terminated" /\ i \in 1 .. Len(threads_) /\ threads_[i] = p
moves(i, p) == threads_' = [threads_ EXCEPT ![i] = p]

make_loop(i) ==
  /\ at(i, "begun")
  /\ moves(i, "made")
  /\ loop_' = loop_ \cup {i}
  /\ UNCHANGED <<choice, own, stopped, running_num_, queue>>

\* Mutant: counted before the loop is made.
thread_cb_first(i) ==
  /\ at(i, "begun")
  /\ moves(i, "looping")
  /\ running_num_' = running_num_ + 1
  /\ UNCHANGED <<choice, own, ctx>>

thread_cb(i) ==
  /\ at(i, "made")
  /\ moves(i, "looping")
  /\ running_num_' = running_num_ + 1
  /\ UNCHANGED <<choice, own, ctx>>

\* The thread of loop l is inside run() and not stopped: base_loop_ is run once
\* the pool is started.
in_run(l) ==
  /\ l \notin stopped
  /\ IF l = 0 THEN owner = "started" ELSE at(l, "looping")

runs(l) == in_run(l) /\ queue[l] # << >>

run_task(l) ==
  /\ runs(l)
  /\ queue' = taken(queue, l)
  /\ UNCHANGED <<choice, own, thr, loop_, stopped>>

\* A task throws a std::exception, which leaves run(). (In base_loop_, run by the
\* owner, that is caught too, and differs from run_task in nothing.)
task_throws(i) ==
  /\ i # 0 /\ runs(i)
  /\ queue' = taken(queue, i)
  /\ moves(i, "caught")
  /\ UNCHANGED <<choice, own, loop_, stopped, running_num_>>

\* A task throws anything else: no handler takes it, in loop() or around it, and the
\* process ends.
task_terminates(l) ==
  /\ runs(l)
  /\ queue' = taken(queue, l)
  /\ owner' = "terminated"
  /\ UNCHANGED <<choice, thr, goal, waits, turn, loop_, stopped>>

\* Mutant: the loop is left.
run_again_not(i) ==
  /\ at(i, "caught")
  /\ moves(i, "ended")
  /\ UNCHANGED <<choice, own, ctx, running_num_>>

run_again(i) ==
  /\ at(i, "caught")
  /\ moves(i, "looping")
  /\ UNCHANGED <<choice, own, ctx, running_num_>>

\* run() returns from a stopped io_context.
leave_loop(i) ==
  /\ at(i, "looping") /\ i \in stopped
  /\ moves(i, "ended")
  /\ UNCHANGED <<choice, own, ctx, running_num_>>

-----------------------------------------------------------------------------

Thread(i) == make_loop(i) \/ thread_cb(i) \/ run_again(i) \/ leave_loop(i)

Starting == start_thread \/ all_started
Dropping == quit_thread \/ join_thread

\* The destructor found no loop to stop and joins a thread that has made it since.
joins_for_ever ==
  owner = "joining" /\ threads_[turn] = "looping" /\ turn \notin stopped

Done == (owner \in {"destroyed", "terminated"} \/ joins_for_ever) /\ UNCHANGED pool_vars

runs_next(l) == run_task(l) \/ task_throws(l) \/ task_terminates(l)

PoolNext ==
  \/ sync_start \/ async_start \/ Starting \/ post \/ quit_base \/ Dropping \/ Done
  \/ \E l \in Loops : Thread(l) \/ runs_next(l)

\* Threads are scheduled; nothing makes the owner start or drop the pool, and if it
\* starts the pool for ever it comes back to its own loop in between.
PoolFairness ==
  /\ WF_pool_vars(Starting)
  /\ WF_pool_vars(Dropping)
  /\ \A i \in Loops : WF_pool_vars(Thread(i)) /\ WF_pool_vars(runs_next(i))
  /\ SF_pool_vars(runs_next(0))

PoolSpec == PoolInit /\ [][PoolNext]_pool_vars /\ PoolFairness

-----------------------------------------------------------------------------
(* Correctness *)

\* Types of the variables.
PoolTypeOK ==
  /\ num_threads_ \in ThreadNums
  /\ owner \in OwnerStates
  /\ goal \in 0 .. MaxThreads /\ waits \in BOOLEAN
  /\ turn \in Nat \ {0}
  /\ threads_ \in Seq({"begun", "made", "looping", "caught", "ended"})
  /\ Len(threads_) <= goal
  /\ loop_ \subseteq Loops
  /\ stopped \subseteq Loops
  /\ running_num_ \in 0 .. MaxThreads
  /\ next_ \in Nat
  /\ queue \in [Loops -> Seq(Tasks)]
  /\ given \in [Loops -> Nat]

\* next_event_loop returns a loop that exists and whose thread has counted itself,
\* never the null loop_ of a thread that has not made it yet: after the first
\* sync_start, and after any other start once all threads have counted themselves.
LoopReady ==
  owner = "started" /\ ((waits /\ goal = num_threads_) \/ running_num_ = Len(threads_)) =>
    next_loop \in loop_ /\ (next_loop # 0 => threads_[next_loop] \notin {"begun", "made"})

\* In a pool that was started once, next_event_loop hands out the loops in turn:
\* none is ahead by two.
Balanced ==
  goal = num_threads_ =>
    \A i, j \in (IF threads_ = << >> THEN {0} ELSE 1 .. Len(threads_)) :
      given[i] - given[j] <= 1

\* No thread is inside a loop that was destroyed.
LoopOutlivesRun ==
  \A i \in 1 .. Len(threads_) : threads_[i] \in {"made", "looping", "caught"} => i \in loop_

\* What was posted is run, whatever std::exceptions the tasks before it throw,
\* unless its loop is stopped first, or a task throws what event_loop::loop does
\* not catch and the process ends.
TasksRun ==
  \A l \in Loops :
    queue[l] # << >> ~> queue[l] = << >> \/ l \in stopped \/ owner = "terminated"

\* Every start returns. The destructor of the pool ends, every thread stopped and
\* joined, if all threads had counted themselves before. In both cases: unless a
\* task ends the process.
StartAndDropEnd ==
  /\ owner = "starting" ~> owner \in {"started", "terminated"}
  /\ owner = "quitting" /\ running_num_ = Len(threads_) ~>
       owner \in {"destroyed", "terminated"}
=============================================================================
