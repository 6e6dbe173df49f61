--------------------- MODULE EventLoopThreadPoolProofs ----------------------
(***************************************************************************)
(* Once its threads have counted themselves, and once the first sync_start *)
(* has returned, the pool hands out loops that exist and run; no thread is *)
(* ever inside a loop that was destroyed.                                  *)
(***************************************************************************)
EXTENDS EventLoopThreadPool, FiniteSets, FiniteSetTheorems, SequenceTheorems, TLAPS

\* The threads that have passed thread_cb.
Counted == {i \in 1 .. Len(threads_) : threads_[i] \notin {"begun", "made"}}

\* The counter sync_start polls says how many threads have passed thread_cb;
\* before the pool is dropped no loop is stopped and no thread has ended.
PoolInv ==
  /\ PoolTypeOK
  /\ LoopOutlivesRun
  /\ 0 \in loop_
  /\ running_num_ = Cardinality(Counted)
  /\ owner \in {"new", "starting", "started"} =>
       /\ stopped = {}
       /\ \A i \in 1 .. Len(threads_) : threads_[i] # "ended"
  /\ owner = "new" => threads_ = << >>
  /\ owner = "started" => Len(threads_) = goal
  /\ owner = "started" /\ waits /\ goal = num_threads_ => Counted = 1 .. Len(threads_)
  /\ next_ = 0 \/ next_ < Len(threads_)

\* The invariant holds when the pool is made.
LEMMA InitInv == ASSUME PoolInit PROVE PoolInv
<1>1. Counted = {}
  BY DEF PoolInit, Counted
<1>2. Cardinality({}) = 0
  BY FS_EmptySet
<1>3. num_threads_ \in Nat
  BY PoolAssumption DEF PoolInit
<1>4. PoolTypeOK
  BY <1>3, PoolAssumption DEF PoolInit, PoolTypeOK, Loops, OwnerStates
<1> QED
  BY <1>1, <1>2, <1>4 DEF PoolInit, PoolInv, LoopOutlivesRun

\* Threads that stay on their side of thread_cb leave the count as it is.
LEMMA SameCount ==
  ASSUME Len(threads_') = Len(threads_),
         \A i \in 1 .. Len(threads_) :
           threads_'[i] \in {"begun", "made"} <=> threads_[i] \in {"begun", "made"}
  PROVE  Counted' = Counted
BY DEF Counted

\* A thread that moves: only its own state changes.
LEMMA Moved ==
  ASSUME PoolTypeOK, NEW i, NEW p \in {"begun", "made", "looping", "caught", "ended"},
         i \in 1 .. Len(threads_), moves(i, p)
  PROVE  /\ threads_' \in Seq({"begun", "made", "looping", "caught", "ended"})
         /\ Len(threads_') = Len(threads_)
         /\ threads_'[i] = p
         /\ \A j \in 1 .. Len(threads_) : j # i => threads_'[j] = threads_[j]
BY DEF PoolTypeOK, moves

\* The count never exceeds the number of threads, and is full only when every
\* thread is counted.
LEMMA CountBound ==
  ASSUME PoolTypeOK, num_threads_ \in Nat
  PROVE  /\ IsFiniteSet(Counted)
         /\ Cardinality(Counted) \in 0 .. Len(threads_)
         /\ Cardinality(Counted) = Len(threads_) => Counted = 1 .. Len(threads_)
<1>1. Len(threads_) \in Nat
  BY DEF PoolTypeOK
<1>2. IsFiniteSet(1 .. Len(threads_)) /\ Cardinality(1 .. Len(threads_)) = Len(threads_)
  <2>1. IsFiniteSet(1 .. Len(threads_))
    BY <1>1, FS_Interval
  <2>2. Cardinality(1 .. Len(threads_)) =
          IF 1 > Len(threads_) THEN 0 ELSE Len(threads_) - 1 + 1
    BY <1>1, FS_Interval
  <2> QED
    BY <1>1, <2>1, <2>2
<1>3. Counted \subseteq 1 .. Len(threads_)
  BY DEF Counted
<1>4. /\ IsFiniteSet(Counted)
      /\ Cardinality(Counted) <= Cardinality(1 .. Len(threads_))
      /\ Cardinality(Counted) = Cardinality(1 .. Len(threads_)) => Counted = 1 .. Len(threads_)
  BY <1>2, <1>3, FS_Subset
<1>5. Cardinality(Counted) \in Nat
  BY <1>4, FS_CardinalityType
<1> QED
  BY <1>1, <1>2, <1>4, <1>5

\* The invariant is kept by every step of the owner.
LEMMA OwnerStep ==
  ASSUME PoolInv, num_threads_ \in Nat,
         sync_start \/ async_start \/ Starting \/ post \/ quit_base \/ Dropping
  PROVE  PoolInv'
<1> USE DEF PoolInv
<1>1. CASE \E sync \in BOOLEAN : starts(sync)
  <2>0. PICK sync \in BOOLEAN : starts(sync)
    BY <1>1
  <2>1. Counted' = Counted
    BY <2>0 DEF starts, thr, Counted
  <2>2. goal' \in 0 .. MaxThreads /\ Len(threads_) <= goal' /\ waits' \in BOOLEAN
    BY <2>0, PoolAssumption DEF starts, PoolTypeOK
  <2>3. PoolTypeOK' /\ LoopOutlivesRun'
    BY <2>0, <2>2 DEF starts, thr, ctx, choice, PoolTypeOK, LoopOutlivesRun, Loops, OwnerStates
  <2> QED
    BY <2>0, <2>1, <2>3 DEF starts, thr, ctx, choice
<1>2. CASE start_thread
  <2>0. Len(threads_') = Len(threads_) + 1 /\ Len(threads_) \in Nat
    BY <1>2 DEF start_thread, PoolTypeOK
  <2>1. /\ \A i \in 1 .. Len(threads_) : threads_'[i] = threads_[i]
        /\ threads_'[Len(threads_) + 1] = "begun"
    BY <1>2 DEF start_thread, PoolTypeOK
  <2>2. Counted' = Counted
    BY <2>0, <2>1 DEF Counted
  <2>3. PoolTypeOK'
    <3>1. threads_' \in Seq({"begun", "made", "looping", "caught", "ended"})
      BY <1>2 DEF start_thread, PoolTypeOK
    <3>2. Len(threads_') <= goal'
      BY <1>2, <2>0 DEF start_thread, own, PoolTypeOK
    <3> QED
      BY <1>2, <3>1, <3>2 DEF start_thread, own, ctx, choice, PoolTypeOK, Loops
  <2>4. LoopOutlivesRun'
    BY <1>2, <2>0, <2>1 DEF start_thread, own, ctx, choice, LoopOutlivesRun
  <2> QED
    BY <1>2, <2>0, <2>1, <2>2, <2>3, <2>4 DEF start_thread, own, ctx, choice, PoolTypeOK
<1>3. CASE all_started
  <2>1. Counted' = Counted
    BY <1>3 DEF all_started, thr, Counted
  <2>2. PoolTypeOK' /\ LoopOutlivesRun'
    BY <1>3 DEF all_started, thr, ctx, choice, PoolTypeOK, LoopOutlivesRun, Loops, OwnerStates
  <2>4. waits /\ goal = num_threads_ => Counted = 1 .. Len(threads_)
    <3>1. HAVE waits /\ goal = num_threads_
    <3>2. Cardinality(Counted) = Len(threads_)
      BY <1>3, <3>1, CountBound DEF all_started, PoolTypeOK
    <3> QED
      BY <3>2, CountBound
  <2> QED
    BY <1>3, <2>1, <2>2, <2>4 DEF all_started, thr, ctx, choice
<1>4. CASE post
  <2>1. Counted' = Counted
    BY <1>4 DEF post, thr, Counted
  <2>2. next_' \in Nat /\ (next_' = 0 \/ next_' < Len(threads_))
    BY <1>4 DEF post, next_event_loop, next_after, PoolTypeOK
  <2>3. given' \in [Loops -> Nat]
    <3>1. given' = [given EXCEPT ![next_loop] = @ + 1] /\ given \in [Loops -> Nat]
      BY <1>4 DEF post, next_event_loop, PoolTypeOK
    <3>2. \A l \in Loops : given[l] + 1 \in Nat
      BY <3>1
    <3> QED
      BY <3>1, <3>2
  <2>4. queue' \in [Loops -> Seq(Tasks)]
    <3>1. CASE next_loop \in loop_
      <4>1. PICK t \in Tasks : queue' = run_in_loop(queue, next_loop, t)
        BY <1>4, <3>1 DEF post
      <4>2. \A l \in Loops : Append(queue[l], t) \in Seq(Tasks)
        BY <4>1 DEF PoolTypeOK
      <4> QED
        BY <4>1, <4>2 DEF run_in_loop, PoolTypeOK
    <3>2. CASE next_loop \notin loop_
      BY <1>4, <3>2 DEF post, PoolTypeOK
    <3> QED
      BY <3>1, <3>2
  <2>5. Loops' = Loops
    BY <1>4 DEF post, Loops
  <2>6. PoolTypeOK'
    BY <1>4, <2>2, <2>3, <2>4, <2>5 DEF post, own, thr, PoolTypeOK
  <2> QED
    BY <1>4, <2>1, <2>2, <2>6 DEF post, own, thr, LoopOutlivesRun
<1>5. CASE quit_base
  <2>1. Counted' = Counted
    BY <1>5 DEF quit_base, thr, Counted
  <2>2. PoolTypeOK' /\ LoopOutlivesRun'
    BY <1>5 DEF quit_base, thr, choice, PoolTypeOK, LoopOutlivesRun, Loops, OwnerStates
  <2> QED
    BY <1>5, <2>1, <2>2 DEF quit_base, thr, choice
<1>6. CASE quit_thread
  <2>1. Counted' = Counted
    BY <1>6 DEF quit_thread, thr, Counted
  <2>2. PoolTypeOK' /\ LoopOutlivesRun'
    BY <1>6 DEF quit_thread, thr, choice, PoolTypeOK, LoopOutlivesRun, Loops, OwnerStates
  <2> QED
    BY <1>6, <2>1, <2>2 DEF quit_thread, thr, choice
<1>7. CASE join_thread
  <2>1. Counted' = Counted
    BY <1>7 DEF join_thread, thr, Counted
  <2>2. PoolTypeOK'
    <3>1. turn' \in Nat \ {0} /\ owner' \in OwnerStates
      BY <1>7 DEF join_thread, PoolTypeOK, OwnerStates
    <3>2. loop_' \subseteq Loops
      BY <1>7 DEF join_thread, PoolTypeOK
    <3> QED
      BY <1>7, <3>1, <3>2 DEF join_thread, thr, choice, PoolTypeOK, Loops
  <2>3. LoopOutlivesRun'
    BY <1>7 DEF join_thread, thr, LoopOutlivesRun
  <2>4. turn # 0 /\ owner' \in {"quitting", "destroyed"}
    BY <1>7 DEF join_thread, PoolTypeOK
  <2> QED
    BY <1>7, <2>1, <2>2, <2>3, <2>4 DEF join_thread, thr, choice
<1> QED
  BY <1>1, <1>2, <1>3, <1>4, <1>5, <1>6, <1>7 DEF sync_start, async_start, Starting, Dropping

\* The invariant is kept by every step of a thread.
LEMMA ThreadStep ==
  ASSUME PoolInv, num_threads_ \in Nat, NEW i \in Loops,
         Thread(i) \/ runs_next(i)
  PROVE  PoolInv'
<1> USE DEF PoolInv
<1>1. CASE make_loop(i)
  <2>0. i \in 1 .. Len(threads_) /\ threads_[i] = "begun" /\ moves(i, "made")
    BY <1>1 DEF make_loop, at
  <2>1. /\ threads_' \in Seq({"begun", "made", "looping", "caught", "ended"})
        /\ Len(threads_') = Len(threads_)
        /\ threads_'[i] = "made"
        /\ \A j \in 1 .. Len(threads_) : j # i => threads_'[j] = threads_[j]
    BY <2>0, Moved
  <2>2. Counted' = Counted
    BY <2>0, <2>1, SameCount
  <2>3. PoolTypeOK'
    BY <1>1, <2>1 DEF make_loop, own, choice, PoolTypeOK, Loops
  <2>4. LoopOutlivesRun'
    BY <1>1, <2>0, <2>1 DEF make_loop, LoopOutlivesRun
  <2> QED
    BY <1>1, <2>0, <2>1, <2>2, <2>3, <2>4 DEF make_loop, own, choice
<1>2. CASE thread_cb(i)
  <2>0. i \in 1 .. Len(threads_) /\ threads_[i] = "made" /\ moves(i, "looping")
    BY <1>2 DEF thread_cb, at
  <2>1. /\ threads_' \in Seq({"begun", "made", "looping", "caught", "ended"})
        /\ Len(threads_') = Len(threads_)
        /\ threads_'[i] = "looping"
        /\ \A j \in 1 .. Len(threads_) : j # i => threads_'[j] = threads_[j]
    BY <2>0, Moved
  <2>2. Counted' = Counted \cup {i} /\ i \notin Counted
    BY <2>0, <2>1 DEF Counted
  <2>3. Cardinality(Counted') = Cardinality(Counted) + 1
    BY <2>2, CountBound, FS_AddElement
  <2>4. running_num_' = Cardinality(Counted')
    BY <1>2, <2>3 DEF thread_cb
  <2>5. running_num_' \in 0 .. MaxThreads
    <3>1. Counted # 1 .. Len(threads_)
      BY <2>0, <2>2
    <3>2. Cardinality(Counted) \in 0 .. Len(threads_) /\ Cardinality(Counted) # Len(threads_)
      BY <3>1, CountBound
    <3> QED
      BY <2>3, <2>4, <3>2, PoolAssumption DEF PoolTypeOK
  <2>6. PoolTypeOK'
    BY <1>2, <2>1, <2>5 DEF thread_cb, own, ctx, choice, PoolTypeOK, Loops
  <2>7. LoopOutlivesRun'
    BY <1>2, <2>0, <2>1 DEF thread_cb, ctx, LoopOutlivesRun
  <2>8. ~(owner = "started" /\ waits /\ goal = num_threads_)
    BY <2>0, <2>2
  <2> QED
    BY <1>2, <2>0, <2>1, <2>4, <2>6, <2>7, <2>8 DEF thread_cb, own, ctx, choice
<1>3. CASE run_again(i) \/ task_throws(i)
  <2>0. PICK p \in {"looping", "caught"} : moves(i, p)
    BY <1>3 DEF run_again, task_throws
  <2>1. i \in 1 .. Len(threads_) /\ threads_[i] \in {"looping", "caught"}
    BY <1>3 DEF run_again, task_throws, runs, in_run, at
  <2>2. /\ threads_' \in Seq({"begun", "made", "looping", "caught", "ended"})
        /\ Len(threads_') = Len(threads_)
        /\ threads_'[i] = p
        /\ \A j \in 1 .. Len(threads_) : j # i => threads_'[j] = threads_[j]
    BY <2>0, <2>1, Moved
  <2>3. Counted' = Counted
    BY <2>0, <2>1, <2>2, SameCount
  <2>4. queue' \in [Loops -> Seq(Tasks)]
    <3>1. CASE run_again(i)
      BY <3>1 DEF run_again, ctx, PoolTypeOK
    <3>2. CASE task_throws(i)
      BY <3>2 DEF task_throws, runs, taken, PoolTypeOK
    <3> QED
      BY <1>3, <3>1, <3>2
  <2>5. UNCHANGED <<choice, own, loop_, stopped, running_num_>>
    BY <1>3 DEF run_again, task_throws, ctx
  <2>6. PoolTypeOK'
    BY <2>2, <2>4, <2>5 DEF own, choice, PoolTypeOK, Loops
  <2>7. LoopOutlivesRun'
    BY <2>1, <2>2, <2>5 DEF LoopOutlivesRun
  <2> QED
    BY <2>0, <2>1, <2>2, <2>3, <2>5, <2>6, <2>7 DEF own, choice
<1>4. CASE leave_loop(i)
  <2>0. i \in 1 .. Len(threads_) /\ threads_[i] = "looping" /\ moves(i, "ended")
    BY <1>4 DEF leave_loop, at
  <2>1. /\ threads_' \in Seq({"begun", "made", "looping", "caught", "ended"})
        /\ Len(threads_') = Len(threads_)
        /\ threads_'[i] = "ended"
        /\ \A j \in 1 .. Len(threads_) : j # i => threads_'[j] = threads_[j]
    BY <2>0, Moved
  <2>2. Counted' = Counted
    BY <2>0, <2>1, SameCount
  <2>3. PoolTypeOK'
    BY <1>4, <2>1 DEF leave_loop, own, ctx, choice, PoolTypeOK, Loops
  <2>4. LoopOutlivesRun'
    BY <1>4, <2>0, <2>1 DEF leave_loop, ctx, LoopOutlivesRun
  <2>5. owner \notin {"new", "starting", "started"}
    BY <1>4 DEF leave_loop
  <2> QED
    BY <1>4, <2>1, <2>2, <2>3, <2>4, <2>5 DEF leave_loop, own, ctx, choice
<1>5. CASE run_task(i)
  <2>1. Counted' = Counted
    BY <1>5 DEF run_task, thr, Counted
  <2>2. queue' \in [Loops -> Seq(Tasks)]
    BY <1>5 DEF run_task, runs, taken, PoolTypeOK
  <2>3. PoolTypeOK' /\ LoopOutlivesRun'
    BY <1>5, <2>2 DEF run_task, thr, own, choice, PoolTypeOK, LoopOutlivesRun, Loops
  <2> QED
    BY <1>5, <2>1, <2>3 DEF run_task, thr, own, choice
<1>6. CASE task_terminates(i)
  <2>1. Counted' = Counted
    BY <1>6 DEF task_terminates, thr, Counted
  <2>2. queue' \in [Loops -> Seq(Tasks)]
    BY <1>6 DEF task_terminates, runs, taken, PoolTypeOK
  <2>3. PoolTypeOK' /\ LoopOutlivesRun'
    BY <1>6, <2>2 DEF task_terminates, thr, choice, PoolTypeOK, LoopOutlivesRun, Loops, OwnerStates
  <2> QED
    BY <1>6, <2>1, <2>3 DEF task_terminates, thr, choice
<1> QED
  BY <1>1, <1>2, <1>3, <1>4, <1>5, <1>6 DEF Thread, runs_next

\* The invariant holds in every state of the pool.
LEMMA PoolInvariance == PoolSpec => []PoolInv
<1>1. PoolInit => PoolInv
  BY InitInv
<1>2. PoolInv /\ [PoolNext]_pool_vars => PoolInv'
  <2> SUFFICES ASSUME PoolInv, [PoolNext]_pool_vars PROVE PoolInv'
    OBVIOUS
  <2>0. num_threads_ \in Nat
    BY PoolAssumption DEF PoolInv, PoolTypeOK
  <2>1. CASE UNCHANGED pool_vars
    <3>1. Counted' = Counted
      BY <2>1 DEF pool_vars, thr, Counted
    <3>2. PoolTypeOK' /\ LoopOutlivesRun'
      BY <2>1 DEF pool_vars, own, thr, ctx, choice, PoolInv, PoolTypeOK, LoopOutlivesRun, Loops
    <3> QED
      BY <2>1, <3>1, <3>2 DEF pool_vars, own, thr, ctx, choice, PoolInv
  <2>2. CASE sync_start \/ async_start \/ Starting \/ post \/ quit_base \/ Dropping
    BY <2>0, <2>2, OwnerStep
  <2>3. CASE \E l \in Loops : Thread(l) \/ runs_next(l)
    BY <2>0, <2>3, ThreadStep
  <2> QED
    BY <2>1, <2>2, <2>3 DEF PoolNext, Done
<1> QED
  BY <1>1, <1>2, PTL DEF PoolSpec

\* The invariant makes what next_event_loop returns ready.
LEMMA InvariantReady == ASSUME PoolInv PROVE LoopReady
<1> SUFFICES ASSUME owner = "started",
                    (waits /\ goal = num_threads_) \/ running_num_ = Len(threads_)
    PROVE next_loop \in loop_ /\ (next_loop # 0 => threads_[next_loop] \notin {"begun", "made"})
  BY DEF LoopReady
<1>0. Counted = 1 .. Len(threads_)
  <2>1. num_threads_ \in Nat
    BY PoolAssumption DEF PoolInv, PoolTypeOK
  <2> QED
    BY <2>1, CountBound DEF PoolInv
<1>1. CASE threads_ = << >>
  BY <1>1 DEF PoolInv, next_loop
<1>2. CASE threads_ # << >>
  <2>1. Len(threads_) \in Nat \ {0} /\ next_ \in Nat
    BY <1>2 DEF PoolInv, PoolTypeOK
  <2>2. next_loop = next_ + 1 /\ next_loop \in 1 .. Len(threads_)
    BY <1>2, <2>1 DEF PoolInv, next_loop
  <2>3. next_loop \in Counted
    BY <1>0, <2>2
  <2>4. threads_[next_loop] \in {"looping", "caught"}
    BY <2>2, <2>3 DEF Counted, PoolInv, PoolTypeOK
  <2> QED
    BY <2>2, <2>4 DEF PoolInv, LoopOutlivesRun
<1> QED
  BY <1>1, <1>2

\* Whatever the order in which the threads of the pool start, what next_event_loop
\* returns after the first sync_start, or once all threads have counted themselves,
\* is a loop that exists and whose thread runs it (event_loop_thread_pool.h:66 reads
\* a pointer another thread wrote).
THEOREM StartedIsReady == PoolSpec => []LoopReady
BY InvariantReady, PoolInvariance, PTL

\* A loop is destroyed only after its thread has left it, for any number of
\* threads and any order of stopping (event_loop_thread.h:31 joins before loop_
\* is freed).
THEOREM LoopsOutliveThreads == PoolSpec => []LoopOutlivesRun
<1>1. PoolInv => LoopOutlivesRun
  BY DEF PoolInv
<1> QED
  BY <1>1, PoolInvariance, PTL

-----------------------------------------------------------------------------
(* The round robin *)

\* In a pool that was started once the loops before next_ were given out once more
\* than the others; none was given out before the first start ends.
GivenInv ==
  /\ owner = "new" => goal = 0
  /\ owner \in {"starting", "started"} => goal >= num_threads_
  /\ owner = "new" \/ (owner = "starting" /\ 0 < goal /\ goal <= num_threads_) =>
       next_ = 0 /\ \A l \in Loops : given[l] = 0
  /\ goal = num_threads_ =>
       \E k \in Nat : \A i \in 1 .. Len(threads_) :
         given[i] = k + (IF i <= next_ THEN 1 ELSE 0)

\* A step that neither hands out loops nor starts threads.
LEMMA SameGiven ==
  ASSUME GivenInv, UNCHANGED <<choice, goal>>, Len(threads_') = Len(threads_),
         \/ owner' = owner \/ owner = "starting"
         \/ owner' \in {"quitting", "joining", "destroyed", "terminated"},
         owner = "starting" => owner' \in {"starting", "started", "terminated"}
  PROVE  GivenInv'
BY DEF GivenInv, choice, Loops

\* One call of next_event_loop.
LEMMA PostGiven ==
  ASSUME PoolInv, GivenInv, post
  PROVE  GivenInv'
<1>1. /\ owner = "started" /\ next_event_loop
      /\ UNCHANGED <<own, thr, num_threads_>>
  BY DEF post
<1>2. UNCHANGED <<owner, goal, threads_>>
  BY <1>1 DEF own, thr
<1>3. ASSUME goal = num_threads_
      PROVE  \E k \in Nat : \A i \in 1 .. Len(threads_) :
               given'[i] = k + (IF i <= next_' THEN 1 ELSE 0)
  <2>1. PICK k \in Nat : \A i \in 1 .. Len(threads_) :
               given[i] = k + (IF i <= next_ THEN 1 ELSE 0)
    BY <1>3 DEF GivenInv
  <2>2. Len(threads_) \in Nat /\ next_ \in Nat /\ given \in [Loops -> Nat]
        /\ Len(threads_) <= MaxThreads /\ MaxThreads \in Nat
    BY PoolAssumption DEF PoolInv, PoolTypeOK
  <2>3. CASE threads_ = << >>
    <3>1. \A i \in 1 .. Len(threads_) : FALSE
      BY <2>3
    <3> QED
      BY <3>1, <2>1
  <2>4. CASE threads_ # << >>
    <3>1. Len(threads_) # 0
      BY <2>4, EmptySeq DEF PoolInv, PoolTypeOK
    <3>2. next_ + 1 \in 1 .. Len(threads_) /\ next_loop = next_ + 1
      BY <2>2, <2>4, <3>1 DEF PoolInv, next_loop
    <3>3. \A i \in 1 .. Len(threads_) :
            given'[i] = IF i = next_ + 1 THEN given[i] + 1 ELSE given[i]
      <4>1. given' = [given EXCEPT ![next_ + 1] = @ + 1]
        BY <1>1, <3>2 DEF next_event_loop
      <4>2. 1 .. Len(threads_) \subseteq Loops
        BY <2>2 DEF Loops
      <4> QED
        BY <2>2, <4>1, <4>2
    <3>4. next_' = IF next_ + 1 >= Len(threads_) THEN 0 ELSE next_ + 1
      BY <1>1, <2>4 DEF next_event_loop, next_after
    <3>5. CASE next_ + 1 >= Len(threads_)
      <4>1. \A i \in 1 .. Len(threads_) : given'[i] = (k + 1) + (IF i <= next_' THEN 1 ELSE 0)
        BY <2>1, <2>2, <3>2, <3>3, <3>4, <3>5
      <4>2. k + 1 \in Nat
        OBVIOUS
      <4> WITNESS k + 1 \in Nat
      <4> QED
        BY <4>1
    <3>6. CASE ~(next_ + 1 >= Len(threads_))
      <4>1. \A i \in 1 .. Len(threads_) : given'[i] = k + (IF i <= next_' THEN 1 ELSE 0)
        BY <2>1, <2>2, <3>2, <3>3, <3>4, <3>6
      <4> QED
        BY <4>1
    <3> QED
      BY <3>5, <3>6
  <2> QED
    BY <2>3, <2>4
<1> QED
  BY <1>1, <1>2, <1>3 DEF GivenInv

LEMMA NextGiven ==
  ASSUME PoolInv, GivenInv, [PoolNext]_pool_vars
  PROVE  GivenInv'
<1>0. /\ num_threads_ \in Nat /\ Len(threads_) \in Nat /\ goal \in Nat
      /\ Len(threads_) <= goal /\ goal <= MaxThreads /\ MaxThreads \in Nat
  BY PoolAssumption DEF PoolInv, PoolTypeOK
<1>1. CASE sync_start \/ async_start
  <2>1. /\ owner \in {"new", "started"}
        /\ owner' = "starting" /\ goal' = Len(threads_) + num_threads_
        /\ UNCHANGED <<choice, thr>>
    BY <1>1 DEF sync_start, async_start, starts
  <2>2. CASE owner = "new"
    <3>1. threads_ = << >> /\ Len(threads_) = 0
      BY <2>2 DEF PoolInv
    <3>2. goal = 0 /\ next_ = 0 /\ \A l \in Loops : given[l] = 0
      BY <1>0, <2>2, <3>1 DEF GivenInv
    <3> QED
      BY <1>0, <2>1, <3>1, <3>2 DEF GivenInv, choice, thr, Loops
  <2>3. CASE owner = "started"
    <3>1. goal = Len(threads_) /\ goal >= num_threads_ /\ goal' = goal + num_threads_
      BY <2>1, <2>3 DEF PoolInv, GivenInv
    <3>2. CASE num_threads_ > 0
      <4>1. goal' > num_threads_
        BY <1>0, <3>1, <3>2
      <4> QED
        BY <1>0, <2>1, <4>1 DEF GivenInv, choice
    <3>3. CASE num_threads_ = 0
      <4>1. goal' = goal
        BY <1>0, <3>1, <3>3
      <4> QED
        BY <1>0, <2>1, <2>3, <3>3, <4>1 DEF GivenInv, choice, thr, Loops
    <3> QED
      BY <1>0, <3>2, <3>3
  <2> QED
    BY <2>1, <2>2, <2>3
<1>2. CASE start_thread
  <2>1. /\ owner = "starting" /\ Len(threads_') = Len(threads_) + 1 /\ Len(threads_) < goal
        /\ UNCHANGED <<choice, own>>
    BY <1>0, <1>2 DEF start_thread, PoolInv, PoolTypeOK
  <2>2. ASSUME goal = num_threads_
        PROVE  \E k \in Nat : \A i \in 1 .. Len(threads_') :
                 given[i] = k + (IF i <= next_ THEN 1 ELSE 0)
    <3>1. next_ = 0 /\ \A l \in Loops : given[l] = 0
      BY <1>0, <2>1, <2>2 DEF GivenInv
    <3>2. \A i \in 1 .. Len(threads_') : given[i] = 0 + (IF i <= next_ THEN 1 ELSE 0)
      BY <1>0, <2>1, <3>1 DEF Loops
    <3> QED
      BY <3>2
  <2> QED
    BY <2>1, <2>2 DEF GivenInv, choice, own, Loops
<1>3. CASE all_started \/ quit_base \/ quit_thread \/ join_thread
  BY <1>3, SameGiven DEF all_started, quit_base, quit_thread, join_thread, thr
<1>4. CASE post
  BY <1>4, PostGiven
<1>5. ASSUME NEW l \in Loops, Thread(l) \/ run_task(l) \/ task_throws(l)
      PROVE  GivenInv'
  <2>1. UNCHANGED <<choice, own>>
    BY <1>5 DEF Thread, make_loop, thread_cb, run_again, leave_loop, run_task, task_throws
  <2>2. Len(threads_') = Len(threads_)
    BY <1>0, <1>5 DEF Thread, make_loop, thread_cb, run_again, leave_loop, run_task, task_throws, moves,
           thr, PoolInv, PoolTypeOK
  <2> QED
    BY <2>1, <2>2, SameGiven DEF own
<1>6. ASSUME NEW l \in Loops, task_terminates(l)
      PROVE  GivenInv'
  BY <1>6, SameGiven DEF task_terminates, thr
<1>7. CASE UNCHANGED pool_vars
  BY <1>7, SameGiven DEF pool_vars, own, thr
<1> QED
  BY <1>1, <1>2, <1>3, <1>4, <1>5, <1>6, <1>7
  DEF PoolNext, Starting, Dropping, runs_next, Done

\* For any number of threads and calls: in a pool that was started once no loop is
\* given out twice more often than another (event_loop_thread_pool.h:61-77 counts
\* next_ up and wraps it at the number of threads).
THEOREM TurnsAreFair == PoolSpec => []Balanced
<1>1. PoolInit => GivenInv
  <2> SUFFICES ASSUME PoolInit PROVE GivenInv
    OBVIOUS
  <2>1. \A i \in 1 .. Len(threads_) : FALSE
    BY DEF PoolInit
  <2> QED
    BY <2>1 DEF PoolInit, GivenInv
<1>2. PoolInv /\ GivenInv /\ [PoolNext]_pool_vars => GivenInv'
  BY NextGiven
<1>3. PoolInv /\ GivenInv => Balanced
  <2> SUFFICES ASSUME PoolInv, GivenInv, goal = num_threads_,
                      NEW i \in (IF threads_ = << >> THEN {0} ELSE 1 .. Len(threads_)),
                      NEW j \in (IF threads_ = << >> THEN {0} ELSE 1 .. Len(threads_))
               PROVE  given[i] - given[j] <= 1
    BY DEF Balanced
  <2>1. PICK k \in Nat : \A n \in 1 .. Len(threads_) :
               given[n] = k + (IF n <= next_ THEN 1 ELSE 0)
    BY DEF GivenInv
  <2>2. given[0] \in Nat
    BY PoolAssumption DEF PoolInv, PoolTypeOK, Loops
  <2> QED
    BY <2>1, <2>2
<1> QED
  BY <1>1, <1>2, <1>3, PoolInvariance, PTL DEF PoolSpec
=============================================================================
