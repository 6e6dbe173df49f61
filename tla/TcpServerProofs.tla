-------------------------- MODULE TcpServerProofs ---------------------------
(***************************************************************************)
(* What the server's map of connections holds, that it goes on accepting,  *)
(* and that it does not crash while it serves, for any number of threads   *)
(* and connections; and that every connection follows ConnectionLife.      *)
(***************************************************************************)
EXTENDS TcpServer, EventLoopThreadPoolProofs

-----------------------------------------------------------------------------
(* The invariant *)

\* The tasks the base loop runs.
BaseKinds == {"accepted", "accept_failed", "remove_connection"}

\* The tasks there may be of a connection, by where it is in its life: one that is
\* open or destroyed has none.
KindsOf(s) ==
  CASE s = "created"    -> {"accepted", "accept_failed"}
    [] s = "connecting" -> {"connect_establised"}
    [] s = "cleaned"    -> {"remove_connection"}
    [] s = "removed"    -> {"connect_destroy"}
    [] OTHER            -> {}

\* No task of the queues q is for c.
NoTask(q, c) == \A l \in Loops : \A i \in 1 .. Len(q[l]) : q[l][i].conn # c

\* There is at most one, it is of kind K, and in the base loop if it belongs there.
OneTask(q, c, K) ==
  /\ \A l \in Loops : \A i \in 1 .. Len(q[l]) :
       q[l][i].conn = c => q[l][i].kind \in K /\ (q[l][i].kind \in BaseKinds => l = 0)
  /\ \A l, m \in Loops : \A i \in 1 .. Len(q[l]), j \in 1 .. Len(q[m]) :
       q[l][i].conn = c /\ q[m][j].conn = c => l = m /\ i = j

\* Which of the server's and the pool's states go together.
OwnersAgree ==
  /\ server = "destroyed" <=> owner \in {"quitting", "joining", "destroyed"}
  /\ server = "idle" => owner = "new"
  /\ owner \in {"starting", "started"} => waits /\ goal >= num_threads_
  /\ server # "destroyed" /\ "null_loop" \notin failed => \A c \in Conns : io_loop[c] \in loop_

\* The connections that were never made, and the one that is being accepted.
CreatedAgree ==
  /\ \A c \in Conns : c >= next_conn_id_ => life[c] = "created" /\ NoTask(queue, c)
  /\ accepting # 0 => accepting < next_conn_id_ /\ life[accepting] = "created"

TasksAgree == \A c \in Conns : OneTask(queue, c, KindsOf(life[c]))

\* The pool gave no null loop to a server that was started once.
LoopsGiven == "null_loop" \in failed => goal > num_threads_

ServerInv ==
  /\ PoolInv
  /\ TypeOK
  /\ OwnersAgree
  /\ CreatedAgree
  /\ TasksAgree
  /\ LoopsGiven
  /\ KeepsAccepting

\* What needs the names to tell the connections apart besides.
NamesInv ==
  /\ server = "destroyed" => connections_ = [n \in Names |-> 0]
  /\ Registered
  /\ EraseFinds
  /\ SafeWhileServing

-----------------------------------------------------------------------------
(* Queues of tasks *)

Queues == [Loops -> Seq(Tasks)]

\* Taking a task: one queue loses its head.
LEMMA TakenQueues ==
  ASSUME NEW q \in Queues, NEW l \in Loops, q[l] # << >>
  PROVE  /\ taken(q, l) \in Queues
         /\ \A m \in Loops : m # l => taken(q, l)[m] = q[m]
         /\ Len(q[l]) \in Nat \ {0} /\ Len(taken(q, l)[l]) = Len(q[l]) - 1
         /\ Head(q[l]) = q[l][1]
         /\ \A i \in 1 .. Len(taken(q, l)[l]) : taken(q, l)[l][i] = q[l][i + 1]
<1>1. q[l] \in Seq(Tasks)
  BY DEF Queues
<1>2. /\ Tail(q[l]) \in Seq(Tasks)
      /\ Len(Tail(q[l])) = Len(q[l]) - 1
      /\ \A i \in 1 .. Len(Tail(q[l])) : Tail(q[l])[i] = q[l][i + 1]
  BY <1>1, HeadTailProperties
<1>3. Len(q[l]) \in Nat \ {0} /\ Head(q[l]) = q[l][1]
  BY <1>1, EmptySeq, LenProperties
<1>4. /\ taken(q, l) \in Queues
      /\ taken(q, l)[l] = Tail(q[l])
      /\ \A m \in Loops : m # l => taken(q, l)[m] = q[m]
  BY <1>2 DEF taken, Queues
<1> QED
  BY <1>2, <1>3, <1>4

\* What is left of the tasks of a connection.
LEMMA TakenTasks ==
  ASSUME NEW q \in Queues, NEW l \in Loops, q[l] # << >>, NEW c, NEW K
  PROVE  /\ NoTask(q, c) => NoTask(taken(q, l), c)
         /\ OneTask(q, c, K) => OneTask(taken(q, l), c, K)
         /\ OneTask(q, c, K) /\ Head(q[l]).conn = c =>
              NoTask(taken(q, l), c) /\ Head(q[l]).kind \in K
<1> DEFINE r == taken(q, l)
<1>1. /\ \A m \in Loops : m # l => r[m] = q[m]
      /\ Len(q[l]) \in Nat \ {0} /\ Len(r[l]) = Len(q[l]) - 1
      /\ Head(q[l]) = q[l][1]
      /\ \A i \in 1 .. Len(r[l]) : r[l][i] = q[l][i + 1]
  BY TakenQueues
<1>2. \A i \in 1 .. Len(r[l]) : i + 1 \in 1 .. Len(q[l])
  BY <1>1
<1> HIDE DEF r
<1>3. \A m \in Loops : \A i \in 1 .. Len(r[m]) : \E j \in 1 .. Len(q[m]) :
        q[m][j] = r[m][i] /\ j = (IF m = l THEN i + 1 ELSE i)
  BY <1>1, <1>2
<1>4. NoTask(q, c) => NoTask(r, c)
  BY <1>3 DEF NoTask
<1>5. OneTask(q, c, K) => OneTask(r, c, K)
  <2> SUFFICES ASSUME OneTask(q, c, K) PROVE OneTask(r, c, K)
    OBVIOUS
  <2>1. ASSUME NEW m \in Loops, NEW i \in 1 .. Len(r[m]), r[m][i].conn = c
        PROVE  r[m][i].kind \in K /\ (r[m][i].kind \in BaseKinds => m = 0)
    BY <1>3, <2>1 DEF OneTask
  <2>2. ASSUME NEW m \in Loops, NEW n \in Loops, NEW i \in 1 .. Len(r[m]),
               NEW j \in 1 .. Len(r[n]), r[m][i].conn = c, r[n][j].conn = c
        PROVE  m = n /\ i = j
    <3>1. PICK a \in 1 .. Len(q[m]) : q[m][a] = r[m][i] /\ a = (IF m = l THEN i + 1 ELSE i)
      BY <1>3
    <3>2. PICK b \in 1 .. Len(q[n]) : q[n][b] = r[n][j] /\ b = (IF n = l THEN j + 1 ELSE j)
      BY <1>3
    <3>3. q[m][a].conn = c /\ q[n][b].conn = c
      BY <2>2, <3>1, <3>2
    <3>4. \A h, k \in Loops : \A x \in 1 .. Len(q[h]), y \in 1 .. Len(q[k]) :
            q[h][x].conn = c /\ q[k][y].conn = c => h = k /\ x = y
      BY DEF OneTask
    <3>5. m = n /\ a = b
      BY <3>3, <3>4
    <3> QED
      BY <3>1, <3>2, <3>5
  <2> QED
    BY <2>1, <2>2 DEF OneTask
<1>6. OneTask(q, c, K) /\ Head(q[l]).conn = c => NoTask(r, c) /\ Head(q[l]).kind \in K
  <2> SUFFICES ASSUME OneTask(q, c, K), Head(q[l]).conn = c
               PROVE  NoTask(r, c) /\ Head(q[l]).kind \in K
    OBVIOUS
  <2>1. 1 \in 1 .. Len(q[l]) /\ q[l][1].conn = c
    BY <1>1
  <2>2. ASSUME NEW m \in Loops, NEW i \in 1 .. Len(r[m]), r[m][i].conn = c
        PROVE  FALSE
    <3>1. PICK j \in 1 .. Len(q[m]) : q[m][j] = r[m][i] /\ j = (IF m = l THEN i + 1 ELSE i)
      BY <1>3
    <3>2. m = l /\ j = 1
      BY <2>1, <2>2, <3>1 DEF OneTask
    <3> QED
      BY <3>1, <3>2
  <2> QED
    BY <1>1, <2>1, <2>2 DEF NoTask, OneTask
<1> QED
  BY <1>4, <1>5, <1>6 DEF r

\* Posting a task: one queue has it at the end.
LEMMA PostedQueues ==
  ASSUME NEW q \in Queues, NEW l \in Loops, NEW t \in Tasks
  PROVE  /\ run_in_loop(q, l, t) \in Queues
         /\ \A m \in Loops : m # l => run_in_loop(q, l, t)[m] = q[m]
         /\ Len(q[l]) \in Nat /\ Len(run_in_loop(q, l, t)[l]) = Len(q[l]) + 1
         /\ \A i \in 1 .. Len(q[l]) : run_in_loop(q, l, t)[l][i] = q[l][i]
         /\ run_in_loop(q, l, t)[l][Len(q[l]) + 1] = t
<1>1. q[l] \in Seq(Tasks)
  BY DEF Queues
<1>2. /\ Append(q[l], t) \in Seq(Tasks)
      /\ Len(Append(q[l], t)) = Len(q[l]) + 1
      /\ \A i \in 1 .. Len(q[l]) : Append(q[l], t)[i] = q[l][i]
      /\ Append(q[l], t)[Len(q[l]) + 1] = t
  BY <1>1, AppendProperties
<1>3. Len(q[l]) \in Nat
  BY <1>1, LenProperties
<1>4. /\ run_in_loop(q, l, t) \in Queues
      /\ run_in_loop(q, l, t)[l] = Append(q[l], t)
      /\ \A m \in Loops : m # l => run_in_loop(q, l, t)[m] = q[m]
  BY <1>2 DEF run_in_loop, Queues
<1> QED
  BY <1>2, <1>3, <1>4

LEMMA PostedTasks ==
  ASSUME NEW q \in Queues, NEW l \in Loops, NEW t \in Tasks, NEW c, NEW K
  PROVE  /\ t.conn # c /\ NoTask(q, c) => NoTask(run_in_loop(q, l, t), c)
         /\ t.conn # c /\ OneTask(q, c, K) => OneTask(run_in_loop(q, l, t), c, K)
         /\ NoTask(q, c) /\ t.kind \in K /\ (t.kind \in BaseKinds => l = 0) =>
              OneTask(run_in_loop(q, l, t), c, K)
<1> DEFINE r == run_in_loop(q, l, t)
<1>1. /\ \A m \in Loops : m # l => r[m] = q[m]
      /\ Len(q[l]) \in Nat /\ Len(r[l]) = Len(q[l]) + 1
      /\ \A i \in 1 .. Len(q[l]) : r[l][i] = q[l][i]
      /\ r[l][Len(q[l]) + 1] = t
  BY PostedQueues
<1> HIDE DEF r
<1>2. \A m \in Loops : \A i \in 1 .. Len(r[m]) :
        (i \in 1 .. Len(q[m]) /\ r[m][i] = q[m][i]) \/ (m = l /\ i = Len(q[l]) + 1 /\ r[m][i] = t)
  BY <1>1
<1>3. t.conn # c /\ NoTask(q, c) => NoTask(r, c)
  BY <1>2 DEF NoTask
<1>4. t.conn # c /\ OneTask(q, c, K) => OneTask(r, c, K)
  <2>1. t.conn # c => \A m \in Loops : \A i \in 1 .. Len(r[m]) :
          r[m][i].conn = c => i \in 1 .. Len(q[m]) /\ r[m][i] = q[m][i]
    BY <1>2
  <2> SUFFICES ASSUME t.conn # c, OneTask(q, c, K) PROVE OneTask(r, c, K)
    OBVIOUS
  <2>2. ASSUME NEW m \in Loops, NEW i \in 1 .. Len(r[m]), r[m][i].conn = c
        PROVE  r[m][i].kind \in K /\ (r[m][i].kind \in BaseKinds => m = 0)
    BY <2>1, <2>2 DEF OneTask
  <2>3. ASSUME NEW m \in Loops, NEW n \in Loops, NEW i \in 1 .. Len(r[m]),
               NEW j \in 1 .. Len(r[n]), r[m][i].conn = c, r[n][j].conn = c
        PROVE  m = n /\ i = j
    <3>1. /\ i \in 1 .. Len(q[m]) /\ q[m][i].conn = c
          /\ j \in 1 .. Len(q[n]) /\ q[n][j].conn = c
      BY <2>1, <2>3
    <3> QED
      BY <3>1 DEF OneTask
  <2> QED
    BY <2>2, <2>3 DEF OneTask
<1>5. NoTask(q, c) /\ t.kind \in K /\ (t.kind \in BaseKinds => l = 0) => OneTask(r, c, K)
  <2> SUFFICES ASSUME NoTask(q, c), t.kind \in K, t.kind \in BaseKinds => l = 0
               PROVE  OneTask(r, c, K)
    OBVIOUS
  <2>1. ASSUME NEW m \in Loops, NEW i \in 1 .. Len(r[m]), r[m][i].conn = c
        PROVE  m = l /\ i = Len(q[l]) + 1 /\ r[m][i] = t
    <3>1. ~(i \in 1 .. Len(q[m]) /\ r[m][i] = q[m][i])
      BY <2>1 DEF NoTask
    <3> QED
      BY <1>2, <3>1
  <2> QED
    BY <2>1 DEF OneTask
<1> QED
  BY <1>3, <1>4, <1>5 DEF r

LEMMA NoneIsOne ==
  ASSUME NEW q, NEW c, NEW K, NoTask(q, c) PROVE OneTask(q, c, K)
BY DEF NoTask, OneTask

LEMMA TaskTypes ==
  ASSUME NEW k \in TaskKinds, NEW c \in Conns
  PROVE  task(k, c) \in Tasks /\ task(k, c).kind = k /\ task(k, c).conn = c
BY TasksAssumption DEF task, ServerTasks

\* Until the last number is used the names tell the connections apart.
LEMMA NamesDiffer ==
  ASSUME NEW c \in Conns
  PROVE  /\ create_connection_name(c) \in Names
         /\ MaxConns <= NameRange =>
              \A d \in Conns : create_connection_name(c) = create_connection_name(d) => c = d
<1>1. \A d \in Conns : /\ d % NameRange \in 0 .. NameRange - 1
                       /\ d < NameRange => d % NameRange = d
                       /\ d = NameRange => d % NameRange = 0
  BY ServerAssumption DEF Conns
<1> QED
  BY <1>1, ServerAssumption DEF Conns, Names, create_connection_name

-----------------------------------------------------------------------------
(* Steps of the server in the pool *)

LEMMA Kinds ==
  /\ \A s : "accepted" \in KindsOf(s) \/ "accept_failed" \in KindsOf(s) => s = "created"
  /\ \A s : "connect_establised" \in KindsOf(s) => s = "connecting"
  /\ \A s : "remove_connection" \in KindsOf(s) => s = "cleaned"
  /\ \A s : "connect_destroy" \in KindsOf(s) => s = "removed"
  /\ KindsOf("open") = {} /\ KindsOf("destroyed") = {}
  /\ "accepted" \in KindsOf("created") /\ "accept_failed" \in KindsOf("created")
  /\ "connect_establised" \in KindsOf("connecting")
  /\ "remove_connection" \in KindsOf("cleaned")
  /\ "connect_destroy" \in KindsOf("removed")
BY DEF KindsOf

\* A connection without tasks can be anywhere in its life.
LEMMA NoKinds ==
  ASSUME NEW q, NEW c, OneTask(q, c, {}) PROVE NoTask(q, c)
BY DEF OneTask, NoTask

\* The server changes the queues and the round robin of the pool, nothing else.
LEMMA ServerPool ==
  ASSUME PoolInv, UNCHANGED <<own, thr, loop_, stopped, num_threads_>>, queue' \in Queues,
         UNCHANGED <<next_, given>> \/ next_event_loop
  PROVE  PoolInv'
<1>1. Counted' = Counted
  BY DEF thr, Counted
<1>2. next_' \in Nat /\ (next_' = 0 \/ next_' < Len(threads_))
  BY DEF PoolInv, PoolTypeOK, next_event_loop, next_after
<1>3. given' \in [Loops -> Nat]
  <2>1. given \in [Loops -> Nat]
    BY DEF PoolInv, PoolTypeOK
  <2>2. CASE UNCHANGED <<next_, given>>
    BY <2>1, <2>2
  <2>3. CASE next_event_loop
    <3>1. given' = [given EXCEPT ![next_loop] = @ + 1]
      BY <2>3 DEF next_event_loop
    <3>2. \A l \in Loops : given[l] + 1 \in Nat
      BY <2>1
    <3> QED
      BY <2>1, <3>1, <3>2
  <2> QED
    BY <2>2, <2>3
<1>4. PoolTypeOK'
  BY <1>2, <1>3 DEF PoolInv, PoolTypeOK, own, thr, Queues, Loops
<1> QED
  BY <1>1, <1>2, <1>4 DEF PoolInv, own, thr, LoopOutlivesRun

\* What a running task tells of its connection, and what taking it leaves.
LEMMA TaskRuns ==
  ASSUME ServerInv, NEW l \in Loops, NEW k \in TaskKinds, NEW c \in Conns, Runs(l, k, c)
  PROVE  /\ queue \in Queues /\ taken(queue, l) \in Queues
         /\ ~Crashed /\ in_run(l) /\ queue[l] # << >> /\ Head(queue[l]) = task(k, c)
         /\ k \in KindsOf(life[c]) /\ c < next_conn_id_
         /\ NoTask(taken(queue, l), c)
         /\ \A d \in Conns : OneTask(taken(queue, l), d, KindsOf(life[d]))
         /\ \A d \in Conns : NoTask(queue, d) => NoTask(taken(queue, l), d)
<1>1. queue \in Queues
  BY DEF ServerInv, PoolInv, PoolTypeOK, Queues
<1>2. ~Crashed /\ in_run(l) /\ queue[l] # << >> /\ Head(queue[l]) = task(k, c)
  BY DEF Runs, runs
<1>3. task(k, c).kind = k /\ task(k, c).conn = c
  BY TaskTypes
<1>4. \A d \in Conns : OneTask(queue, d, KindsOf(life[d]))
  BY DEF ServerInv, TasksAgree
<1>5. k \in KindsOf(life[c]) /\ NoTask(taken(queue, l), c)
  BY <1>1, <1>2, <1>3, <1>4, TakenTasks
<1>6. ~NoTask(queue, c)
  <2>1. 1 \in 1 .. Len(queue[l]) /\ queue[l][1].conn = c
    BY <1>1, <1>2, <1>3, TakenQueues
  <2> QED
    BY <2>1 DEF NoTask
<1>7. c < next_conn_id_
  BY <1>6 DEF ServerInv, CreatedAgree, TypeOK, Conns
<1> QED
  BY <1>1, <1>2, <1>4, <1>5, <1>7, TakenQueues, TakenTasks

\* The loop next_event_loop returns.
LEMMA NextLoop ==
  ASSUME ServerInv, owner = "started"
  PROVE  /\ next_loop \in Loops
         /\ goal = num_threads_ => next_loop \in loop_
         /\ goal > num_threads_ \/ goal = num_threads_
<1>1. PoolInv /\ waits /\ goal >= num_threads_
  BY DEF ServerInv, OwnersAgree
<1>2. /\ Len(threads_) \in Nat /\ next_ \in Nat /\ goal \in 0 .. MaxThreads
      /\ Len(threads_) <= goal /\ num_threads_ \in Nat /\ MaxThreads \in Nat
  BY <1>1, PoolAssumption DEF PoolInv, PoolTypeOK
<1>3. next_loop \in Loops
  <2>1. CASE threads_ = << >>
    BY <1>2, <2>1 DEF next_loop, Loops
  <2>2. CASE threads_ # << >>
    <3>1. Len(threads_) # 0
      BY <1>1, <2>2, EmptySeq DEF PoolInv, PoolTypeOK
    <3> QED
      BY <1>1, <1>2, <2>2, <3>1 DEF next_loop, Loops, PoolInv
  <2> QED
    BY <2>1, <2>2
<1> QED
  BY <1>1, <1>2, <1>3, InvariantReady DEF LoopReady

\* The next accept: a connection that was not made before, or none are left.
LEMMA NextAccept ==
  ASSUME ServerInv, owner = "started", start_accept
  PROVE  /\ UNCHANGED <<next_, given>> \/ next_event_loop
         /\ accepting' \in Conns \cup {0} /\ next_conn_id_' \in 1 .. MaxConns + 1
         /\ next_conn_id_' >= next_conn_id_
         /\ accepting' # 0 => accepting' = next_conn_id_ /\ next_conn_id_' = next_conn_id_ + 1
         /\ next_conn_id_' <= MaxConns => accepting' # 0
         /\ io_loop' \in [Conns -> Loops]
         /\ failed' \subseteq failed \cup {"null_loop"}
         /\ failed \subseteq failed'
         /\ "null_loop" \in failed' => "null_loop" \in failed \/ goal > num_threads_
         /\ "null_loop" \notin failed' => \A c \in Conns : io_loop'[c] \in loop_ \cup {io_loop[c]}
<1>1. next_conn_id_ \in 1 .. MaxConns + 1 /\ MaxConns \in Nat /\ io_loop \in [Conns -> Loops]
  BY ServerAssumption DEF ServerInv, TypeOK
<1>2. CASE next_conn_id_ > MaxConns
  BY <1>1, <1>2 DEF start_accept
<1>3. CASE ~(next_conn_id_ > MaxConns)
  <2>1. /\ io_loop' = [io_loop EXCEPT ![next_conn_id_] = next_loop]
        /\ next_event_loop
        /\ accepting' = next_conn_id_
        /\ next_conn_id_' = next_conn_id_ + 1
        /\ failed' = failed \cup (IF next_loop \in loop_ THEN {} ELSE {"null_loop"})
    BY <1>3 DEF start_accept
  <2>2. next_conn_id_ \in Conns
    BY <1>1, <1>3 DEF Conns
  <2>3. \A c \in Conns : io_loop'[c] = IF c = next_conn_id_ THEN next_loop ELSE io_loop[c]
    BY <1>1, <2>1
  <2>4. io_loop' \in [Conns -> Loops]
    BY <1>1, <2>1, NextLoop
  <2>5. /\ "null_loop" \in failed' => "null_loop" \in failed \/ goal > num_threads_
        /\ "null_loop" \notin failed' => next_loop \in loop_
    <3>1. next_loop \in loop_ \/ goal > num_threads_
      BY NextLoop
    <3> QED
      BY <2>1, <3>1
  <2>6. "null_loop" \notin failed' => \A c \in Conns : io_loop'[c] \in loop_ \cup {io_loop[c]}
    BY <2>3, <2>5
  <2>7. failed' \subseteq failed \cup {"null_loop"} /\ failed \subseteq failed'
    BY <2>1
  <2>8. accepting' \in Conns \cup {0} /\ next_conn_id_' \in 1 .. MaxConns + 1
    BY <1>1, <2>1, <2>2 DEF Conns
  <2> QED
    BY <1>1, <2>1, <2>2, <2>4, <2>5, <2>6, <2>7, <2>8 DEF Conns
<1> QED
  BY <1>2, <1>3

-----------------------------------------------------------------------------
(* The invariant is kept *)

LEMMA InitServer == ASSUME Init PROVE ServerInv /\ NamesInv
<1>1. PoolInv
  BY InitInv DEF Init
<1>2. TypeOK
  <2>1. 0 \in Loops /\ MaxConns \in Nat
    BY ServerAssumption, PoolAssumption DEF Loops
  <2>2. /\ connections_ \in [Names -> Conns \cup {0}]
        /\ next_conn_id_ \in 1 .. MaxConns + 1
        /\ life \in [Conns -> {"created", "connecting", "open", "cleaned", "removed", "destroyed"}]
        /\ io_loop \in [Conns -> Loops]
    BY <2>1, ServerAssumption DEF Init
  <2> QED
    BY <1>1, <2>2 DEF Init, PoolInv, TypeOK
<1>3. \A c \in Conns : NoTask(queue, c)
  <2>1. \A l \in Loops : Len(queue[l]) = 0
    BY DEF Init, PoolInit
  <2> QED
    BY <2>1 DEF NoTask
<1>4. TasksAgree /\ CreatedAgree
  BY <1>3, NoneIsOne DEF TasksAgree, CreatedAgree, Init
<1>5. OwnersAgree
  BY <1>1 DEF OwnersAgree, Init, PoolInit, PoolInv
<1>6. LoopsGiven /\ KeepsAccepting
  BY DEF LoopsGiven, KeepsAccepting, Init
<1>7. NamesInv
  BY DEF NamesInv, Registered, EraseFinds, SafeWhileServing, Init, Conns
<1> QED
  BY <1>1, <1>2, <1>4, <1>5, <1>6, <1>7 DEF ServerInv

\* A step that changes neither the queues nor the lives.
LEMMA SameTasks ==
  ASSUME ServerInv, UNCHANGED <<queue, life, next_conn_id_>>, accepting' \in {accepting, 0}
  PROVE  TasksAgree' /\ CreatedAgree'
<1>1. TasksAgree'
  BY DEF ServerInv, TasksAgree, Conns, OneTask, KindsOf, Loops, BaseKinds
<1>2. CreatedAgree'
  BY DEF ServerInv, CreatedAgree, Conns, NoTask, Loops
<1> QED
  BY <1>1, <1>2

\* A step of the pool alone.
LEMMA PoolStep ==
  ASSUME ServerInv, Pool, UNCHANGED server_vars
  PROVE  ServerInv'
<1>1. num_threads_ \in Nat
  BY PoolAssumption DEF ServerInv, PoolInv, PoolTypeOK
<1>2. PoolInv'
  BY <1>1, OwnerStep, ThreadStep DEF Pool, ServerInv
<1>3. queue' = queue /\ num_threads_' = num_threads_
  BY DEF Pool, Starting, start_thread, all_started, Dropping, quit_thread, join_thread, Thread,
         make_loop, thread_cb, run_again, leave_loop, ctx, choice
<1>4. TasksAgree' /\ CreatedAgree'
  BY <1>3, SameTasks DEF server_vars
<1>5. TypeOK'
  BY <1>2 DEF ServerInv, PoolInv, TypeOK, server_vars, Conns, Names, Loops
<1>6. KeepsAccepting'
  BY DEF ServerInv, KeepsAccepting, server_vars, Crashed
<1>7. /\ owner' = owner \/ (owner = "starting" /\ owner' = "started")
                         \/ {owner, owner'} \subseteq {"quitting", "joining", "destroyed"}
      /\ goal' = goal /\ waits' = waits
      /\ owner \in {"quitting", "joining", "destroyed"} \/ loop_ \subseteq loop_'
  BY DEF Pool, Starting, start_thread, all_started, Dropping, quit_thread, join_thread, Thread,
         make_loop, thread_cb, run_again, leave_loop, own, ctx
<1>8. OwnersAgree'
  BY <1>3, <1>7 DEF ServerInv, OwnersAgree, server_vars, Conns
<1>9. LoopsGiven'
  BY <1>3, <1>7 DEF ServerInv, LoopsGiven, server_vars
<1> QED
  BY <1>2, <1>4, <1>5, <1>6, <1>8, <1>9 DEF ServerInv

\* start() and the two ways it ends.
LEMMA StartStep ==
  ASSUME ServerInv, start \/ listen_fails
  PROVE  ServerInv'
<1>1. num_threads_ \in Nat
  BY PoolAssumption DEF ServerInv, PoolInv, PoolTypeOK
<1>2. CASE start
  <2>1. PoolInv'
    BY <1>1, <1>2, OwnerStep DEF start, ServerInv
  <2>2. /\ owner \in {"new", "started"} /\ owner' = "starting" /\ waits'
        /\ goal' >= num_threads_ /\ num_threads_' = num_threads_
        /\ queue' = queue /\ loop_' = loop_ /\ ~Crashed
    <3>1. Len(threads_) \in Nat
      BY DEF ServerInv, PoolInv, PoolTypeOK
    <3> QED
      BY <1>1, <1>2, <3>1 DEF start, sync_start, starts, choice, ctx
  <2>3. TasksAgree' /\ CreatedAgree'
    BY <1>2, <2>2, SameTasks DEF start
  <2>4. TypeOK'
    BY <1>2, <2>1 DEF start, ServerInv, PoolInv, TypeOK, Conns, Names, Loops
  <2>5. OwnersAgree'
    BY <1>2, <2>2 DEF start, ServerInv, OwnersAgree, Conns
  <2>6. LoopsGiven' /\ KeepsAccepting'
    BY <1>2, <2>2 DEF start, ServerInv, LoopsGiven, KeepsAccepting, Crashed
  <2> QED
    BY <2>1, <2>3, <2>4, <2>5, <2>6 DEF ServerInv
<1>3. CASE listen_fails
  <2>1. UNCHANGED <<own, thr, ctx, choice>> /\ owner = "started"
    BY <1>3 DEF listen_fails, pool_vars
  <2>2. UNCHANGED queue
    BY <2>1 DEF ctx
  <2>3. PoolInv'
    BY <2>1, ServerPool DEF ServerInv, PoolInv, PoolTypeOK, Queues, ctx, choice
  <2>4. TasksAgree' /\ CreatedAgree'
    BY <1>3, <2>2, SameTasks DEF listen_fails
  <2>5. TypeOK'
    BY <1>3, <2>3 DEF listen_fails, ServerInv, PoolInv, TypeOK, Conns, Names, Loops
  <2>6. OwnersAgree'
    BY <1>3, <2>1 DEF listen_fails, ServerInv, OwnersAgree, Conns, own, ctx, choice
  <2>7. LoopsGiven' /\ KeepsAccepting'
    BY <1>3, <2>1 DEF listen_fails, ServerInv, LoopsGiven, KeepsAccepting, own, choice
  <2> QED
    BY <2>3, <2>4, <2>5, <2>6, <2>7 DEF ServerInv
<1> QED
  BY <1>2, <1>3

LEMMA ListenStep ==
  ASSUME ServerInv, listen
  PROVE  ServerInv'
<1>1. /\ owner = "started" /\ server = "starting" /\ server' = "listening" /\ opened' = TRUE
      /\ start_accept
      /\ UNCHANGED <<own, thr, ctx, num_threads_, connections_, life, held>>
  BY DEF listen
<1>2. /\ UNCHANGED <<next_, given>> \/ next_event_loop
      /\ accepting' \in Conns \cup {0} /\ next_conn_id_' \in 1 .. MaxConns + 1
      /\ next_conn_id_' >= next_conn_id_
      /\ accepting' # 0 => accepting' = next_conn_id_ /\ next_conn_id_' = next_conn_id_ + 1
      /\ next_conn_id_' <= MaxConns => accepting' # 0
      /\ io_loop' \in [Conns -> Loops]
      /\ failed' \subseteq failed \cup {"null_loop"}
      /\ failed \subseteq failed'
      /\ "null_loop" \in failed' => "null_loop" \in failed \/ goal > num_threads_
      /\ "null_loop" \notin failed' => \A c \in Conns : io_loop'[c] \in loop_ \cup {io_loop[c]}
  BY <1>1, NextAccept
<1>3. queue' = queue /\ loop_' = loop_ /\ goal' = goal /\ owner' = owner /\ waits' = waits
  BY <1>1 DEF ctx, own
<1>4. PoolInv'
  BY <1>1, <1>2, <1>3, ServerPool DEF ServerInv, PoolInv, PoolTypeOK, Queues, ctx
<1>5. TypeOK'
  BY <1>1, <1>2, <1>4 DEF ServerInv, PoolInv, TypeOK, Conns, Names, Loops
<1>6. TasksAgree'
  BY <1>1, <1>3 DEF ServerInv, TasksAgree
<1>7. next_conn_id_ \in Nat /\ next_conn_id_' \in Nat
  BY <1>2 DEF ServerInv, TypeOK
<1>8. CreatedAgree'
  BY <1>1, <1>2, <1>3, <1>7 DEF ServerInv, CreatedAgree, Conns
<1>9. OwnersAgree'
  BY <1>1, <1>2, <1>3 DEF ServerInv, OwnersAgree, Conns
<1>10. LoopsGiven' /\ KeepsAccepting'
  BY <1>1, <1>2, <1>3 DEF ServerInv, LoopsGiven, KeepsAccepting, Crashed
<1> QED
  BY <1>4, <1>5, <1>6, <1>8, <1>9, <1>10 DEF ServerInv

\* What the tasks agree with after connection c alone moved on to life s: its next
\* task is posted, or there is none.
LEMMA TasksKept ==
  ASSUME ServerInv, NEW c \in Conns, NEW s, NEW q \in Queues,
         \A d \in Conns : OneTask(q, d, KindsOf(life[d])),
         \A d \in Conns : NoTask(queue, d) => NoTask(q, d),
         NoTask(q, c), c < next_conn_id_,
         life' = [life EXCEPT ![c] = s],
         \/ queue' = q
         \/ \E l \in Loops, k \in TaskKinds :
              /\ k \in KindsOf(s) /\ (k \in BaseKinds => l = 0)
              /\ queue' = run_in_loop(q, l, task(k, c))
  PROVE  /\ queue' \in Queues
         /\ TasksAgree'
         /\ \A d \in Conns : d >= next_conn_id_ => life'[d] = "created" /\ NoTask(queue', d)
<1>1. life \in [Conns -> {"created", "connecting", "open", "cleaned", "removed", "destroyed"}]
  BY DEF ServerInv, TypeOK
<1>2. life'[c] = s /\ \A d \in Conns : d # c => life'[d] = life[d]
  BY <1>1
<1>3. \A d \in Conns : d >= next_conn_id_ => d # c /\ life[d] = "created" /\ NoTask(q, d)
  BY DEF ServerInv, CreatedAgree, Conns, TypeOK
<1>4. CASE queue' = q
  <2>1. \A d \in Conns : OneTask(queue', d, KindsOf(life'[d]))
    BY <1>2, <1>4, NoneIsOne
  <2> QED
    BY <1>2, <1>3, <1>4, <2>1 DEF TasksAgree
<1>5. CASE queue' # q
  <2>1. PICK l \in Loops, k \in TaskKinds :
          /\ k \in KindsOf(s) /\ (k \in BaseKinds => l = 0)
          /\ queue' = run_in_loop(q, l, task(k, c))
    BY <1>5
  <2>2. task(k, c) \in Tasks /\ task(k, c).kind = k /\ task(k, c).conn = c
    BY TaskTypes
  <2>3. OneTask(queue', c, KindsOf(life'[c]))
    BY <1>2, <2>1, <2>2, PostedTasks
  <2>4. \A d \in Conns : d # c => OneTask(queue', d, KindsOf(life'[d]))
    BY <1>2, <2>1, <2>2, PostedTasks
  <2>5. \A d \in Conns : d >= next_conn_id_ => NoTask(queue', d)
    BY <1>3, <2>1, <2>2, PostedTasks
  <2>6. queue' \in Queues
    BY <2>1, <2>2, PostedQueues
  <2> QED
    BY <1>2, <1>3, <2>3, <2>4, <2>5, <2>6 DEF TasksAgree
<1> QED
  BY <1>4, <1>5

LEMMA LoopOfConnection ==
  ASSUME ServerInv, NEW c \in Conns PROVE io_loop[c] \in Loops /\ 0 \in Loops
BY PoolAssumption DEF ServerInv, TypeOK, Loops

\* A step of the server that leaves the pool, what is accepted and the loops of the
\* connections alone.
LEMMA LifeStep ==
  ASSUME ServerInv, NEW c \in Conns, life[c] # "created" \/ c # accepting,
         life' \in [Conns -> {"created", "connecting", "open", "cleaned", "removed", "destroyed"}],
         \A d \in Conns : d # c => life'[d] = life[d],
         UNCHANGED <<choice, own, thr, loop_, stopped, server, opened, accepting,
                     next_conn_id_, io_loop, held>>,
         failed' \subseteq failed \cup {"erase"}, failed \subseteq failed',
         connections_' \in [Names -> Conns \cup {0}],
         server = "destroyed" => connections_' = connections_,
         queue' \in Queues, TasksAgree',
         \A d \in Conns : d >= next_conn_id_ => life'[d] = "created" /\ NoTask(queue', d)
  PROVE  ServerInv'
<1>1. PoolInv'
  BY ServerPool DEF ServerInv, choice
<1>2. TypeOK'
  BY <1>1 DEF ServerInv, PoolInv, TypeOK, Conns, Names, Loops
<1>3. OwnersAgree'
  BY DEF ServerInv, OwnersAgree, own, choice, Conns
<1>4. CreatedAgree'
  <2>1. accepting # 0 => accepting \in Conns /\ accepting # c
    BY DEF ServerInv, CreatedAgree, TypeOK
  <2> QED
    BY <2>1 DEF ServerInv, CreatedAgree, Conns
<1>5. LoopsGiven' /\ KeepsAccepting'
  BY DEF ServerInv, LoopsGiven, KeepsAccepting, own, choice, Crashed
<1> QED
  BY <1>1, <1>2, <1>3, <1>4, <1>5 DEF ServerInv

\* The tasks of the loops of the connections, and remove_connection.
LEMMA ConnectionStep ==
  ASSUME ServerInv, NEW c \in Conns,
         remove_connection(c) \/ connect_establised(c) \/ connect_destroy(c)
  PROVE  ServerInv' /\ life' = [life EXCEPT ![c] = life'[c]]
         /\ \/ life[c] = "cleaned" /\ life'[c] = "removed" /\ owner = "started"
            \/ life[c] = "connecting" /\ life'[c] = "open"
            \/ life[c] = "removed" /\ life'[c] = "destroyed"
<1>0. /\ io_loop[c] \in Loops /\ 0 \in Loops
      /\ {"remove_connection", "connect_establised", "connect_destroy"} \subseteq TaskKinds
      /\ life \in [Conns -> {"created", "connecting", "open", "cleaned", "removed", "destroyed"}]
      /\ connections_ \in [Names -> Conns \cup {0}]
  BY LoopOfConnection DEF TaskKinds, ServerInv, TypeOK
<1>1. CASE remove_connection(c)
  <2>1. /\ Runs(0, "remove_connection", c)
        /\ life' = [life EXCEPT ![c] = "removed"]
        /\ queue' = run_in_loop(taken(queue, 0), io_loop[c], task("connect_destroy", c))
    BY <1>1 DEF remove_connection
  <2>2. /\ taken(queue, 0) \in Queues /\ in_run(0)
        /\ "remove_connection" \in KindsOf(life[c]) /\ c < next_conn_id_
        /\ NoTask(taken(queue, 0), c)
        /\ \A d \in Conns : OneTask(taken(queue, 0), d, KindsOf(life[d]))
        /\ \A d \in Conns : NoTask(queue, d) => NoTask(taken(queue, 0), d)
    BY <1>0, <2>1, TaskRuns
  <2>3. life[c] = "cleaned" /\ owner = "started"
    BY <2>2, Kinds DEF in_run
  <2>4. /\ queue' \in Queues /\ TasksAgree'
        /\ \A d \in Conns : d >= next_conn_id_ => life'[d] = "created" /\ NoTask(queue', d)
    <3>1. "connect_destroy" \in KindsOf("removed") /\ "connect_destroy" \notin BaseKinds
      BY Kinds DEF BaseKinds
    <3> QED
      BY <1>0, <2>1, <2>2, <3>1, TasksKept
  <2>5. connections_' \in [Names -> Conns \cup {0}]
    BY <1>0, <1>1 DEF remove_connection
  <2>6. server # "destroyed"
    BY <2>3 DEF ServerInv, OwnersAgree
  <2>7. failed' \subseteq failed \cup {"erase"} /\ failed \subseteq failed'
    BY <1>1 DEF remove_connection
  <2>8. UNCHANGED <<choice, own, thr, loop_, stopped, server, opened, accepting, next_conn_id_,
                    io_loop, held>>
    BY <1>1 DEF remove_connection
  <2>9. /\ life' \in [Conns -> {"created", "connecting", "open", "cleaned", "removed", "destroyed"}]
        /\ life'[c] = "removed" /\ \A d \in Conns : d # c => life'[d] = life[d]
    BY <1>0, <2>1
  <2> QED
    BY <2>1, <2>3, <2>4, <2>5, <2>6, <2>7, <2>8, <2>9, LifeStep
<1>2. CASE connect_establised(c)
  <2>1. /\ Runs(io_loop[c], "connect_establised", c)
        /\ life' = [life EXCEPT ![c] = "open"]
        /\ queue' = taken(queue, io_loop[c])
    BY <1>2 DEF connect_establised
  <2>2. /\ taken(queue, io_loop[c]) \in Queues
        /\ "connect_establised" \in KindsOf(life[c]) /\ c < next_conn_id_
        /\ NoTask(taken(queue, io_loop[c]), c)
        /\ \A d \in Conns : OneTask(taken(queue, io_loop[c]), d, KindsOf(life[d]))
        /\ \A d \in Conns : NoTask(queue, d) => NoTask(taken(queue, io_loop[c]), d)
    BY <1>0, <2>1, TaskRuns
  <2>3. life[c] = "connecting"
    BY <2>2, Kinds
  <2>4. /\ queue' \in Queues /\ TasksAgree'
        /\ \A d \in Conns : d >= next_conn_id_ => life'[d] = "created" /\ NoTask(queue', d)
    BY <2>1, <2>2, TasksKept
  <2>5. UNCHANGED <<choice, own, thr, loop_, stopped, server, opened, accepting, connections_,
                    next_conn_id_, io_loop, held, failed>>
    BY <1>2 DEF connect_establised
  <2>6. /\ life' \in [Conns -> {"created", "connecting", "open", "cleaned", "removed", "destroyed"}]
        /\ life'[c] = "open" /\ \A d \in Conns : d # c => life'[d] = life[d]
    BY <1>0, <2>1
  <2> QED
    BY <1>0, <2>1, <2>3, <2>4, <2>5, <2>6, LifeStep
<1>3. CASE connect_destroy(c)
  <2>1. /\ Runs(io_loop[c], "connect_destroy", c)
        /\ life' = [life EXCEPT ![c] = "destroyed"]
        /\ queue' = taken(queue, io_loop[c])
    BY <1>3 DEF connect_destroy
  <2>2. /\ taken(queue, io_loop[c]) \in Queues
        /\ "connect_destroy" \in KindsOf(life[c]) /\ c < next_conn_id_
        /\ NoTask(taken(queue, io_loop[c]), c)
        /\ \A d \in Conns : OneTask(taken(queue, io_loop[c]), d, KindsOf(life[d]))
        /\ \A d \in Conns : NoTask(queue, d) => NoTask(taken(queue, io_loop[c]), d)
    BY <1>0, <2>1, TaskRuns
  <2>3. life[c] = "removed"
    BY <2>2, Kinds
  <2>4. /\ queue' \in Queues /\ TasksAgree'
        /\ \A d \in Conns : d >= next_conn_id_ => life'[d] = "created" /\ NoTask(queue', d)
    BY <2>1, <2>2, TasksKept
  <2>5. UNCHANGED <<choice, own, thr, loop_, stopped, server, opened, accepting, connections_,
                    next_conn_id_, io_loop, held, failed>>
    BY <1>3 DEF connect_destroy
  <2>6. /\ life' \in [Conns -> {"created", "connecting", "open", "cleaned", "removed", "destroyed"}]
        /\ life'[c] = "destroyed" /\ \A d \in Conns : d # c => life'[d] = life[d]
    BY <1>0, <2>1
  <2> QED
    BY <1>0, <2>1, <2>3, <2>4, <2>5, <2>6, LifeStep
<1> QED
  BY <1>1, <1>2, <1>3

\* handle_connection_cleanup: an open connection has no task.
LEMMA CleanupStep ==
  ASSUME ServerInv, NEW c \in Conns, handle_connection_cleanup(c)
  PROVE  ServerInv' /\ life[c] = "open" /\ life' = [life EXCEPT ![c] = "cleaned"]
<1>1. /\ life[c] = "open" /\ life' = [life EXCEPT ![c] = "cleaned"]
      /\ queue' = run_in_loop(queue, 0, task("remove_connection", c))
      /\ UNCHANGED <<choice, own, thr, loop_, stopped, server, opened, accepting, connections_,
                     next_conn_id_, io_loop, held, failed>>
  BY DEF handle_connection_cleanup
<1>2. /\ life \in [Conns -> {"created", "connecting", "open", "cleaned", "removed", "destroyed"}]
      /\ connections_ \in [Names -> Conns \cup {0}] /\ queue \in Queues
  BY DEF ServerInv, TypeOK, PoolTypeOK, Queues
<1>3. NoTask(queue, c)
  BY <1>1, Kinds, NoKinds DEF ServerInv, TasksAgree
<1>4. c < next_conn_id_
  BY <1>1 DEF ServerInv, CreatedAgree, TypeOK, Conns
<1>5. /\ queue' \in Queues /\ TasksAgree'
      /\ \A d \in Conns : d >= next_conn_id_ => life'[d] = "created" /\ NoTask(queue', d)
  <2>1. "remove_connection" \in KindsOf("cleaned") /\ "remove_connection" \in TaskKinds
        /\ 0 \in Loops
    BY Kinds, LoopOfConnection DEF TaskKinds
  <2>2. \A d \in Conns : OneTask(queue, d, KindsOf(life[d]))
    BY DEF ServerInv, TasksAgree
  <2> QED
    BY <1>1, <1>2, <1>3, <1>4, <2>1, <2>2, TasksKept
<1>6. /\ life' \in [Conns -> {"created", "connecting", "open", "cleaned", "removed", "destroyed"}]
      /\ \A d \in Conns : d # c => life'[d] = life[d]
  BY <1>1, <1>2
<1> QED
  BY <1>1, <1>2, <1>5, <1>6, LifeStep

LEMMA AcceptStep ==
  ASSUME ServerInv, NEW c \in Conns, handle_new_connection(c)
  PROVE  /\ ServerInv' /\ owner = "started"
         /\ life[c] = "created" /\ life' = [life EXCEPT ![c] = "connecting"]
         /\ failed' \subseteq failed \cup {"null_loop"}
<1>1. /\ Runs(0, "accepted", c)
      /\ life' = [life EXCEPT ![c] = "connecting"]
      /\ connections_' = [connections_ EXCEPT ![create_connection_name(c)] = c]
      /\ queue' = run_in_loop(taken(queue, 0), io_loop[c], task("connect_establised", c))
      /\ start_accept
      /\ UNCHANGED <<own, thr, loop_, stopped, num_threads_, server, opened, held>>
  BY DEF handle_new_connection
<1>2. /\ io_loop[c] \in Loops /\ 0 \in Loops /\ {"accepted", "connect_establised"} \subseteq TaskKinds
      /\ life \in [Conns -> {"created", "connecting", "open", "cleaned", "removed", "destroyed"}]
      /\ connections_ \in [Names -> Conns \cup {0}]
  BY LoopOfConnection DEF TaskKinds, ServerInv, TypeOK
<1>3. /\ taken(queue, 0) \in Queues /\ in_run(0)
      /\ "accepted" \in KindsOf(life[c]) /\ c < next_conn_id_
      /\ NoTask(taken(queue, 0), c)
      /\ \A d \in Conns : OneTask(taken(queue, 0), d, KindsOf(life[d]))
      /\ \A d \in Conns : NoTask(queue, d) => NoTask(taken(queue, 0), d)
  BY <1>1, <1>2, TaskRuns
<1>4. life[c] = "created" /\ owner = "started"
  BY <1>3, Kinds DEF in_run
<1>5. /\ queue' \in Queues /\ TasksAgree'
      /\ \A d \in Conns : d >= next_conn_id_ => life'[d] = "created" /\ NoTask(queue', d)
  <2>1. "connect_establised" \in KindsOf("connecting") /\ "connect_establised" \notin BaseKinds
    BY Kinds DEF BaseKinds
  <2> QED
    BY <1>1, <1>2, <1>3, <2>1, TasksKept
<1>6. /\ UNCHANGED <<next_, given>> \/ next_event_loop
      /\ accepting' \in Conns \cup {0} /\ next_conn_id_' \in 1 .. MaxConns + 1
      /\ next_conn_id_' >= next_conn_id_
      /\ accepting' # 0 => accepting' = next_conn_id_ /\ next_conn_id_' = next_conn_id_ + 1
      /\ next_conn_id_' <= MaxConns => accepting' # 0
      /\ io_loop' \in [Conns -> Loops]
      /\ failed' \subseteq failed \cup {"null_loop"}
      /\ failed \subseteq failed'
      /\ "null_loop" \in failed' => "null_loop" \in failed \/ goal > num_threads_
      /\ "null_loop" \notin failed' => \A d \in Conns : io_loop'[d] \in loop_ \cup {io_loop[d]}
  BY <1>1, <1>4, NextAccept
<1>7. loop_' = loop_ /\ goal' = goal /\ owner' = owner /\ waits' = waits
      /\ num_threads_' = num_threads_ /\ server' = server /\ server # "destroyed"
  BY <1>1, <1>4 DEF own, ServerInv, OwnersAgree
<1>8. PoolInv'
  BY <1>1, <1>5, <1>6, ServerPool DEF ServerInv
<1>9. TypeOK'
  <2>1. life' \in [Conns -> {"created", "connecting", "open", "cleaned", "removed", "destroyed"}]
        /\ connections_' \in [Names -> Conns \cup {0}]
    BY <1>1, <1>2
  <2>2. opened' \in BOOLEAN /\ server' \in {"idle", "starting", "listening", "failed", "destroyed"}
        /\ held' \subseteq Conns
    BY <1>1 DEF ServerInv, TypeOK
  <2>3. failed' \subseteq {"null_conn", "null_loop", "dangling", "erase"}
    BY <1>6 DEF ServerInv, TypeOK
  <2> QED
    BY <1>6, <1>8, <2>1, <2>2, <2>3 DEF PoolInv, TypeOK, Conns, Names, Loops
<1>10. next_conn_id_ \in Nat /\ next_conn_id_' \in Nat
  BY <1>6 DEF ServerInv, TypeOK
<1>11. CreatedAgree'
  <2>1. \A d \in Conns : d >= next_conn_id_' => life'[d] = "created" /\ NoTask(queue', d)
    BY <1>5, <1>6, <1>10 DEF Conns
  <2>2. accepting' # 0 => accepting' < next_conn_id_' /\ life'[accepting'] = "created"
    BY <1>5, <1>6, <1>10 DEF Conns
  <2> QED
    BY <2>1, <2>2 DEF CreatedAgree
<1>12. OwnersAgree'
  BY <1>6, <1>7 DEF ServerInv, OwnersAgree, Conns
<1>13. LoopsGiven' /\ KeepsAccepting'
  BY <1>6, <1>7 DEF ServerInv, LoopsGiven, KeepsAccepting
<1> QED
  BY <1>1, <1>4, <1>5, <1>6, <1>8, <1>9, <1>11, <1>12, <1>13 DEF ServerInv

LEMMA AcceptErrorStep ==
  ASSUME ServerInv, NEW c \in Conns, handle_accept_error(c)
  PROVE  ServerInv' /\ owner = "started"
<1>1. /\ Runs(0, "accept_failed", c)
      /\ queue' = taken(queue, 0) /\ accepting' = 0 /\ failed' = failed \cup {"null_conn"}
      /\ UNCHANGED <<choice, own, thr, loop_, stopped, server, opened, connections_, next_conn_id_,
                     life, io_loop, held>>
  BY DEF handle_accept_error
<1>2. /\ taken(queue, 0) \in Queues /\ in_run(0)
      /\ \A d \in Conns : OneTask(taken(queue, 0), d, KindsOf(life[d]))
      /\ \A d \in Conns : NoTask(queue, d) => NoTask(taken(queue, 0), d)
  <2>1. "accept_failed" \in TaskKinds /\ 0 \in Loops
    BY LoopOfConnection DEF TaskKinds
  <2> QED
    BY <1>1, <2>1, TaskRuns
<1>3. PoolInv'
  BY <1>1, <1>2, ServerPool DEF ServerInv, choice
<1>4. TypeOK'
  BY <1>1, <1>3 DEF ServerInv, PoolInv, TypeOK, Conns, Names, Loops
<1>5. TasksAgree' /\ CreatedAgree'
  BY <1>1, <1>2 DEF ServerInv, TasksAgree, CreatedAgree
<1>6. OwnersAgree'
  BY <1>1 DEF ServerInv, OwnersAgree, own, choice, Conns
<1>7. LoopsGiven' /\ KeepsAccepting'
  BY <1>1 DEF ServerInv, LoopsGiven, KeepsAccepting, own, choice, Crashed
<1> QED
  BY <1>2, <1>3, <1>4, <1>5, <1>6, <1>7 DEF ServerInv, in_run

LEMMA DestroyStep ==
  ASSUME ServerInv, destroy_server \/ destroy_acceptor
  PROVE  ServerInv' /\ server' = "destroyed"
<1>1. num_threads_ \in Nat
  BY PoolAssumption DEF ServerInv, PoolInv, PoolTypeOK
<1>2. CASE destroy_server
  <2>1. PoolInv'
    BY <1>1, <1>2, OwnerStep DEF destroy_server, ServerInv
  <2>2. UNCHANGED <<choice, thr, goal, waits, turn, loop_, queue>>
        /\ owner' \in {"quitting", "destroyed"}
    BY <1>2 DEF destroy_server, quit_base
  <2>3. connections_' \in [Names -> Conns \cup {0}]
    BY <1>2 DEF destroy_server
  <2>4. TypeOK'
    BY <1>2, <2>1, <2>3 DEF destroy_server, ServerInv, PoolInv, TypeOK, Conns, Names, Loops
  <2>5. TasksAgree' /\ CreatedAgree'
    BY <1>2, <2>2, SameTasks DEF destroy_server
  <2>6. OwnersAgree'
    BY <1>2, <2>2 DEF destroy_server, ServerInv, OwnersAgree
  <2>7. LoopsGiven' /\ KeepsAccepting'
    BY <1>2, <2>2 DEF destroy_server, ServerInv, LoopsGiven, KeepsAccepting, choice
  <2> QED
    BY <1>2, <2>1, <2>4, <2>5, <2>6, <2>7 DEF destroy_server, ServerInv
<1>3. CASE destroy_acceptor
  <2>1. /\ owner = "destroyed" /\ accepting' = 0
        /\ failed' \subseteq failed \cup {"dangling"} /\ failed \subseteq failed'
        /\ UNCHANGED <<pool_vars, server, opened, connections_, next_conn_id_, life, io_loop, held>>
    BY <1>3 DEF destroy_acceptor, freed_in_loop
  <2>2. UNCHANGED <<own, thr, ctx, choice>> /\ UNCHANGED queue
    BY <2>1 DEF pool_vars, ctx
  <2>3. PoolInv'
    BY <2>2, ServerPool DEF ServerInv, PoolInv, PoolTypeOK, Queues, ctx, choice
  <2>4. TypeOK'
    BY <2>1, <2>3 DEF ServerInv, PoolInv, TypeOK, Conns, Names, Loops
  <2>5. TasksAgree' /\ CreatedAgree'
    BY <2>1, <2>2, SameTasks
  <2>6. OwnersAgree' /\ server' = "destroyed"
    BY <2>1, <2>2 DEF ServerInv, OwnersAgree, own, choice, ctx, Conns
  <2>7. LoopsGiven' /\ KeepsAccepting'
    BY <2>1, <2>2, <2>6 DEF ServerInv, LoopsGiven, KeepsAccepting, own, choice
  <2> QED
    BY <2>3, <2>4, <2>5, <2>6, <2>7 DEF ServerInv
<1> QED
  BY <1>2, <1>3

\* The application, and handlers of connections that were freed.
LEMMA OutsideStep ==
  ASSUME ServerInv, NEW c \in Conns, app_keeps(c) \/ app_drops(c) \/ run_dangling(c)
  PROVE  ServerInv'
<1>1. /\ UNCHANGED <<own, thr, ctx, choice>>
      /\ UNCHANGED <<server, opened, accepting, connections_, next_conn_id_, life, io_loop>>
      /\ failed' \subseteq failed \cup {"dangling"} /\ failed \subseteq failed'
      /\ held' \subseteq held \cup {c}
  BY DEF app_keeps, app_drops, run_dangling, freed_in_loop, pool_vars
<1>2. UNCHANGED queue
  BY <1>1 DEF ctx
<1>3. PoolInv'
  BY <1>1, ServerPool DEF ServerInv, PoolInv, PoolTypeOK, Queues, ctx, choice
<1>4. TypeOK'
  BY <1>1, <1>3 DEF ServerInv, PoolInv, TypeOK, Conns, Names, Loops
<1>5. TasksAgree' /\ CreatedAgree'
  BY <1>1, <1>2, SameTasks
<1>6. OwnersAgree'
  BY <1>1 DEF ServerInv, OwnersAgree, own, choice, ctx, Conns
<1>7. LoopsGiven' /\ KeepsAccepting'
  BY <1>1 DEF ServerInv, LoopsGiven, KeepsAccepting, own, choice, Crashed
<1> QED
  BY <1>3, <1>4, <1>5, <1>6, <1>7 DEF ServerInv

\* The kernel completes the accept once: its connection had no task.
LEMMA KernelStep ==
  ASSUME ServerInv, NEW k \in {"accepted", "accept_failed"}, accept_completes(k)
  PROVE  ServerInv'
<1>1. /\ accepting # 0
      /\ ~\E i \in 1 .. Len(queue[0]) : queue[0][i].conn = accepting
      /\ queue' = run_in_loop(queue, 0, task(k, accepting))
      /\ UNCHANGED <<choice, own, thr, loop_, stopped, server_vars>>
  BY DEF accept_completes
<1>2. /\ accepting \in Conns /\ accepting < next_conn_id_ /\ life[accepting] = "created"
      /\ life \in [Conns -> {"created", "connecting", "open", "cleaned", "removed", "destroyed"}]
      /\ queue \in Queues /\ 0 \in Loops /\ k \in TaskKinds
  BY <1>1, LoopOfConnection DEF ServerInv, CreatedAgree, TypeOK, PoolTypeOK, Queues, TaskKinds
<1>3. \A d \in Conns : OneTask(queue, d, KindsOf(life[d]))
  BY DEF ServerInv, TasksAgree
<1>4. NoTask(queue, accepting)
  <2>1. ASSUME NEW l \in Loops, NEW i \in 1 .. Len(queue[l]), queue[l][i].conn = accepting
        PROVE  FALSE
    <3>1. queue[l][i].kind \in KindsOf("created") /\ (queue[l][i].kind \in BaseKinds => l = 0)
      BY <1>2, <1>3, <2>1 DEF OneTask
    <3>2. l = 0
      BY <3>1 DEF KindsOf, BaseKinds
    <3> QED
      BY <1>1, <2>1, <3>2
  <2> QED
    BY <2>1 DEF NoTask
<1>5. k \in KindsOf("created")
  BY Kinds
<1>6. /\ queue' \in Queues /\ TasksAgree'
      /\ \A d \in Conns : d >= next_conn_id_ => life'[d] = "created" /\ NoTask(queue', d)
  <2>1. life' = [life EXCEPT ![accepting] = "created"]
    BY <1>1, <1>2 DEF server_vars
  <2> QED
    BY <1>1, <1>2, <1>3, <1>4, <1>5, <2>1, TasksKept
<1>7. PoolInv'
  BY <1>1, <1>6, ServerPool DEF ServerInv, choice
<1>8. TypeOK'
  BY <1>1, <1>7 DEF ServerInv, PoolInv, TypeOK, server_vars, Conns, Names, Loops
<1>9. CreatedAgree'
  BY <1>1, <1>6 DEF ServerInv, CreatedAgree, server_vars
<1>10. OwnersAgree'
  BY <1>1 DEF ServerInv, OwnersAgree, server_vars, own, choice, Conns
<1>11. LoopsGiven' /\ KeepsAccepting'
  BY <1>1 DEF ServerInv, LoopsGiven, KeepsAccepting, server_vars, own, choice, Crashed
<1> QED
  BY <1>6, <1>7, <1>8, <1>9, <1>10, <1>11 DEF ServerInv

LEMMA StutterServer ==
  ASSUME ServerInv, UNCHANGED vars PROVE ServerInv'
<1>1. UNCHANGED <<own, thr, ctx, choice>> /\ UNCHANGED server_vars
  BY DEF vars, pool_vars
<1>2. PoolInv'
  BY <1>1, ServerPool DEF ServerInv, PoolInv, PoolTypeOK, Queues, ctx, choice
<1>3. TypeOK'
  BY <1>1, <1>2 DEF ServerInv, PoolInv, TypeOK, server_vars, Conns, Names, Loops
<1>4. TasksAgree' /\ CreatedAgree'
  BY <1>1, SameTasks DEF server_vars, ctx
<1>5. OwnersAgree'
  BY <1>1 DEF ServerInv, OwnersAgree, server_vars, own, choice, ctx, Conns
<1>6. LoopsGiven' /\ KeepsAccepting'
  BY <1>1 DEF ServerInv, LoopsGiven, KeepsAccepting, server_vars, own, choice, Crashed
<1> QED
  BY <1>2, <1>3, <1>4, <1>5, <1>6 DEF ServerInv

LEMMA NextServer ==
  ASSUME ServerInv, [Next]_vars PROVE ServerInv'
<1>1. CASE Pool /\ UNCHANGED server_vars
  BY <1>1, PoolStep
<1>2. CASE start \/ listen_fails
  BY <1>2, StartStep
<1>3. CASE listen
  BY <1>3, ListenStep
<1>4. CASE destroy_server \/ destroy_acceptor
  BY <1>4, DestroyStep
<1>5. ASSUME NEW c \in Conns,
             \/ BaseLoop(c) \/ IoLoop(c) \/ handle_connection_cleanup(c) \/ run_dangling(c)
             \/ app_keeps(c) \/ app_drops(c)
      PROVE  ServerInv'
  BY <1>5, AcceptStep, AcceptErrorStep, ConnectionStep, CleanupStep, OutsideStep
     DEF BaseLoop, IoLoop
<1>6. CASE \E k \in {"accepted", "accept_failed"} : accept_completes(k)
  BY <1>6, KernelStep
<1>7. CASE UNCHANGED vars
  BY <1>7, StutterServer
<1> QED
  BY <1>1, <1>2, <1>3, <1>4, <1>5, <1>6, <1>7 DEF Next, Finished

-----------------------------------------------------------------------------
(* The map of connections *)

\* Where in its life a connection is in the map.
Mapped(s) == s \in {"connecting", "open", "cleaned"}

\* A step that leaves the map as it is and keeps the connections on their side of it.
LEMMA SameNames ==
  ASSUME NamesInv, LoopsGiven', UNCHANGED connections_,
         \A c \in Conns : Mapped(life'[c]) <=> Mapped(life[c]),
         server' = "destroyed" <=> server = "destroyed",
         "erase" \in failed' => "erase" \in failed,
         "dangling" \in failed' => "dangling" \in failed \/ server = "destroyed"
  PROVE  NamesInv'
BY DEF NamesInv, Registered, EraseFinds, SafeWhileServing, LoopsGiven, Mapped, Conns, Names,
       create_connection_name

\* While the server exists the map holds what is open, and an open connection is
\* not freed.
LEMMA OpenIsOwned ==
  ASSUME NamesInv, server # "destroyed", NEW c \in Conns, life[c] = "open"
  PROVE  ~Unowned(c) /\ ~Freed(c)
<1>1. connections_[create_connection_name(c)] = c /\ create_connection_name(c) \in Names
  BY NamesDiffer DEF NamesInv, Registered
<1> QED
  BY <1>1 DEF Unowned, Freed

LEMMA AcceptNames ==
  ASSUME MaxConns <= NameRange, ServerInv, NamesInv, LoopsGiven', NEW c \in Conns,
         handle_new_connection(c)
  PROVE  NamesInv'
<1>1. /\ connections_' = [connections_ EXCEPT ![create_connection_name(c)] = c]
      /\ server' = server /\ life' = [life EXCEPT ![c] = "connecting"]
      /\ failed' \subseteq failed \cup {"null_loop"} /\ owner = "started"
  BY AcceptStep DEF handle_new_connection
<1>2. server # "destroyed"
  BY <1>1 DEF ServerInv, OwnersAgree
<1>3. /\ connections_ \in [Names -> Conns \cup {0}]
      /\ life \in [Conns -> {"created", "connecting", "open", "cleaned", "removed", "destroyed"}]
  BY DEF ServerInv, TypeOK
<1>4. \A d \in Conns, n \in Names :
        connections_'[n] = d <=>
          n = create_connection_name(d) /\ life'[d] \in {"connecting", "open", "cleaned"}
  <2> SUFFICES ASSUME NEW d \in Conns, NEW n \in Names
               PROVE  connections_'[n] = d <=>
                 n = create_connection_name(d) /\ life'[d] \in {"connecting", "open", "cleaned"}
    OBVIOUS
  <2>1. connections_[n] = d <=>
          n = create_connection_name(d) /\ life[d] \in {"connecting", "open", "cleaned"}
    BY <1>2 DEF NamesInv, Registered
  <2>2. /\ create_connection_name(c) \in Names
        /\ create_connection_name(c) = create_connection_name(d) => c = d
    BY NamesDiffer
  <2>3. connections_'[n] = IF n = create_connection_name(c) THEN c ELSE connections_[n]
    BY <1>1, <1>3
  <2>4. life'[d] = IF d = c THEN "connecting" ELSE life[d]
    BY <1>1, <1>3
  <2> QED
    BY <2>1, <2>2, <2>3, <2>4
<1>5. Registered'
  BY <1>4 DEF Registered
<1> QED
  BY <1>1, <1>2, <1>5 DEF NamesInv, EraseFinds, SafeWhileServing, LoopsGiven

LEMMA RemoveNames ==
  ASSUME MaxConns <= NameRange, ServerInv, NamesInv, LoopsGiven', NEW c \in Conns,
         remove_connection(c)
  PROVE  NamesInv'
<1>1. /\ connections_' = [connections_ EXCEPT ![create_connection_name(c)] = 0]
      /\ failed' = failed \cup
           (IF connections_[create_connection_name(c)] = 0 THEN {"erase"} ELSE {})
      /\ server' = server /\ life' = [life EXCEPT ![c] = "removed"]
  BY DEF remove_connection
<1>2. life[c] = "cleaned" /\ server # "destroyed"
  <2>1. Runs(0, "remove_connection", c)
    BY DEF remove_connection
  <2>2. "remove_connection" \in TaskKinds /\ 0 \in Loops
    BY LoopOfConnection DEF TaskKinds
  <2>3. "remove_connection" \in KindsOf(life[c]) /\ in_run(0)
    BY <2>1, <2>2, TaskRuns
  <2> QED
    BY <2>3, Kinds DEF in_run, ServerInv, OwnersAgree
<1>3. /\ connections_ \in [Names -> Conns \cup {0}]
      /\ life \in [Conns -> {"created", "connecting", "open", "cleaned", "removed", "destroyed"}]
  BY DEF ServerInv, TypeOK
<1>4. connections_[create_connection_name(c)] = c /\ c # 0
  BY <1>2, NamesDiffer DEF NamesInv, Registered, Conns
<1>5. \A d \in Conns, n \in Names :
        connections_'[n] = d <=>
          n = create_connection_name(d) /\ life'[d] \in {"connecting", "open", "cleaned"}
  <2> SUFFICES ASSUME NEW d \in Conns, NEW n \in Names
               PROVE  connections_'[n] = d <=>
                 n = create_connection_name(d) /\ life'[d] \in {"connecting", "open", "cleaned"}
    OBVIOUS
  <2>1. connections_[n] = d <=>
          n = create_connection_name(d) /\ life[d] \in {"connecting", "open", "cleaned"}
    BY <1>2 DEF NamesInv, Registered
  <2>2. create_connection_name(c) = create_connection_name(d) => c = d
    BY NamesDiffer
  <2>3. connections_'[n] = IF n = create_connection_name(c) THEN 0 ELSE connections_[n]
    BY <1>1, <1>3
  <2>4. life'[d] = IF d = c THEN "removed" ELSE life[d]
    BY <1>1, <1>3
  <2>5. d # 0
    BY DEF Conns
  <2> QED
    BY <2>1, <2>2, <2>3, <2>4, <2>5
<1>6. Registered'
  BY <1>5 DEF Registered
<1> QED
  BY <1>1, <1>2, <1>4, <1>6 DEF NamesInv, EraseFinds, SafeWhileServing, LoopsGiven

\* A freed connection is met only when the server is destroyed.
LEMMA OutsideNames ==
  ASSUME ServerInv, NamesInv, LoopsGiven', NEW c \in Conns,
         app_keeps(c) \/ app_drops(c) \/ run_dangling(c)
  PROVE  NamesInv'
<1>1. /\ UNCHANGED <<server, connections_, life>>
      /\ "erase" \in failed' => "erase" \in failed
  BY DEF app_keeps, app_drops, run_dangling, freed_in_loop
<1>2. "dangling" \in failed' => "dangling" \in failed \/ server = "destroyed"
  <2>1. CASE app_keeps(c)
    BY <2>1 DEF app_keeps
  <2>2. CASE app_drops(c)
    <3>1. server # "destroyed" => io_loop[c] \in loop_
      BY <2>2 DEF app_drops, Crashed, ServerInv, OwnersAgree
    <3> QED
      BY <2>2, <3>1 DEF app_drops, freed_in_loop
  <2>3. CASE run_dangling(c)
    BY <2>3, OpenIsOwned DEF run_dangling, Freed
  <2> QED
    BY <2>1, <2>2, <2>3
<1> QED
  BY <1>1, <1>2, SameNames

LEMMA NextNames ==
  ASSUME MaxConns <= NameRange, ServerInv, NamesInv, LoopsGiven', [Next]_vars
  PROVE  NamesInv'
<1>1. CASE \/ Pool /\ UNCHANGED server_vars
           \/ start \/ listen_fails \/ listen
           \/ \E k \in {"accepted", "accept_failed"} : accept_completes(k)
           \/ UNCHANGED vars
  <2>1. UNCHANGED <<connections_, life>>
    BY <1>1 DEF server_vars, start, listen, listen_fails, accept_completes, vars
  <2>2. /\ server' = "destroyed" <=> server = "destroyed"
        /\ failed' \subseteq failed \cup {"null_loop"}
    BY <1>1 DEF server_vars, start, listen, listen_fails, accept_completes, start_accept, vars
  <2> QED
    BY <2>1, <2>2, SameNames
<1>2. CASE destroy_server
  <2>1. connections_' = [n \in Names |-> 0] /\ server' = "destroyed" /\ failed' = failed
    BY <1>2 DEF destroy_server
  <2> QED
    BY <2>1 DEF NamesInv, Registered, EraseFinds, SafeWhileServing, LoopsGiven, Names
<1>3. CASE destroy_acceptor
  <2>1. /\ UNCHANGED <<server, connections_, life>> /\ owner = "destroyed"
        /\ failed' \subseteq failed \cup {"dangling"}
    BY <1>3 DEF destroy_acceptor, freed_in_loop
  <2>2. server = "destroyed"
    BY <2>1 DEF ServerInv, OwnersAgree
  <2> QED
    BY <2>1, <2>2, SameNames
<1>4. ASSUME NEW c \in Conns, handle_accept_error(c) PROVE NamesInv'
  <2>1. UNCHANGED <<server, connections_, life>> /\ failed' = failed \cup {"null_conn"}
    BY <1>4 DEF handle_accept_error
  <2> QED
    BY <2>1, SameNames
<1>5. ASSUME NEW c \in Conns,
             connect_establised(c) \/ connect_destroy(c) \/ handle_connection_cleanup(c)
      PROVE  NamesInv'
  <2>1. UNCHANGED <<server, connections_, failed>>
    BY <1>5 DEF connect_establised, connect_destroy, handle_connection_cleanup
  <2>2. /\ life' = [life EXCEPT ![c] = life'[c]]
        /\ Mapped(life'[c]) <=> Mapped(life[c])
    <3>1. CASE handle_connection_cleanup(c)
      <4>1. life[c] = "open" /\ life' = [life EXCEPT ![c] = "cleaned"]
        BY <3>1, CleanupStep
      <4>2. life'[c] = "cleaned"
        BY <4>1 DEF ServerInv, TypeOK
      <4> QED
        BY <4>1, <4>2 DEF Mapped
    <3>2. CASE connect_establised(c) \/ connect_destroy(c)
      <4>1. life' = [life EXCEPT ![c] = "open"] \/ life' = [life EXCEPT ![c] = "destroyed"]
        BY <3>2 DEF connect_establised, connect_destroy
      <4>2. life'[c] \in {"open", "destroyed"}
        BY <4>1 DEF ServerInv, TypeOK
      <4> QED
        BY <3>2, <4>2, ConnectionStep DEF Mapped
    <3> QED
      BY <1>5, <3>1, <3>2
  <2>3. \A d \in Conns : Mapped(life'[d]) <=> Mapped(life[d])
    <3>1. life \in [Conns -> {"created", "connecting", "open", "cleaned", "removed", "destroyed"}]
      BY DEF ServerInv, TypeOK
    <3>2. \A d \in Conns : d # c => life'[d] = life[d]
      BY <2>2, <3>1
    <3> QED
      BY <2>2, <3>2
  <2> QED
    BY <2>1, <2>3, SameNames
<1>6. ASSUME NEW c \in Conns, \/ handle_new_connection(c) \/ remove_connection(c)
                              \/ app_keeps(c) \/ app_drops(c) \/ run_dangling(c)
      PROVE  NamesInv'
  BY <1>6, AcceptNames, RemoveNames, OutsideNames
<1> QED
  BY <1>1, <1>2, <1>3, <1>4, <1>5, <1>6 DEF Next, BaseLoop, IoLoop, Finished

-----------------------------------------------------------------------------
(* Theorems *)

LEMMA ServerInvariance == Spec => []ServerInv
<1>1. Init => ServerInv
  BY InitServer
<1>2. ServerInv /\ [Next]_vars => ServerInv'
  BY NextServer
<1> QED
  BY <1>1, <1>2, PTL DEF Spec

LEMMA NamesInvariance == ASSUME MaxConns <= NameRange PROVE Spec => []NamesInv
<1>1. Init => NamesInv
  BY InitServer
<1>2. ServerInv /\ ServerInv' /\ NamesInv /\ [Next]_vars => NamesInv'
  BY NextNames DEF ServerInv
<1> QED
  BY <1>1, <1>2, ServerInvariance, PTL DEF Spec

\* As long as it did not fail, a server that listens has an accept outstanding or
\* its completion queued (tcp_server.h:101 starts the next one after each).
THEOREM GoesOnAccepting == Spec => []KeepsAccepting
<1>1. ServerInv => KeepsAccepting
  BY DEF ServerInv
<1> QED
  BY <1>1, ServerInvariance, PTL

\* Until 2^32 connections were made connections_ holds exactly those that were
\* accepted and not removed, each under its own name (tcp_server.h:99, 129).
THEOREM MapIsExact == ASSUME MaxConns <= NameRange PROVE Spec => []Registered
<1>1. NamesInv => Registered
  BY DEF NamesInv
<1> QED
  BY <1>1, NamesInvariance, PTL

\* assert(n == 1) of remove_connection never fails (tcp_server.h:130).
THEOREM FoundWhenErased == ASSUME MaxConns <= NameRange PROVE Spec => []EraseFinds
<1>1. NamesInv => EraseFinds
  BY DEF NamesInv
<1> QED
  BY <1>1, NamesInvariance, PTL

\* No handler of a freed connection runs as long as the server exists, and a server
\* that is started once is never given a null loop (tcp_server.h:78, 84).
THEOREM ServesSafely == ASSUME MaxConns <= NameRange PROVE Spec => []SafeWhileServing
<1>1. NamesInv => SafeWhileServing
  BY DEF NamesInv
<1> QED
  BY <1>1, NamesInvariance, PTL

\* Every connection is established, cleaned up, erased and destroyed, once each and
\* in that order, whatever the other connections, the pool and the application do
\* (tcp_server.h:91-133): every step of the server is one of ConnectionLife for each
\* connection, or leaves it where it is.
THEOREM LivesAreFollowed == Spec => LivesFollowed
<1>1. Init => \A c \in Conns : life[c] = "created"
  BY DEF Init
<1>2. ServerInv /\ [Next]_vars => [\A c \in Conns : Life(c)!Next \/ UNCHANGED life[c]]_life
  <2> SUFFICES ASSUME ServerInv, [Next]_vars, life' # life
               PROVE  \A c \in Conns : Life(c)!Next \/ UNCHANGED life[c]
    OBVIOUS
  <2>0. life \in [Conns -> {"created", "connecting", "open", "cleaned", "removed", "destroyed"}]
    BY DEF ServerInv, TypeOK
  <2>1. PICK c \in Conns :
          \/ handle_new_connection(c) \/ remove_connection(c) \/ connect_establised(c)
          \/ connect_destroy(c) \/ handle_connection_cleanup(c)
    BY DEF Next, Finished, vars, server_vars, start, listen, listen_fails, destroy_server,
           destroy_acceptor, BaseLoop, IoLoop, handle_accept_error, run_dangling, app_keeps,
           app_drops, accept_completes
  <2>2. PICK s : /\ life' = [life EXCEPT ![c] = s]
                 /\ \/ life[c] = "created" /\ s = "connecting"
                    \/ life[c] = "connecting" /\ s = "open"
                    \/ life[c] = "open" /\ s = "cleaned"
                    \/ life[c] = "cleaned" /\ s = "removed"
                    \/ life[c] = "removed" /\ s = "destroyed"
    BY <2>1, AcceptStep, CleanupStep, ConnectionStep
  <2>3. \A d \in Conns : life'[d] = IF d = c THEN s ELSE life[d]
    BY <2>0, <2>2
  <2>4. Life(c)!Next
    BY <2>2, <2>3 DEF Life!Next, Life!Accept, Life!Establish, Life!Cleanup, Life!Remove,
                      Life!Destroy
  <2> QED
    BY <2>3, <2>4
<1> QED
  BY <1>1, <1>2, ServerInvariance, PTL DEF Spec, LivesFollowed

=============================================================================
