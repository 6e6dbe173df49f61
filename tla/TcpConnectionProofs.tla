------------------------ MODULE TcpConnectionProofs ------------------------
(***************************************************************************)
(* Theorems about TcpConnection, for every bound, every choice of timeouts *)
(* and every choice of what the callbacks call.                            *)
(***************************************************************************)
EXTENDS TcpConnection, SequenceTheorems, TLAPS

USE BoundsAssumption, LimitsAssumption, ReactionAssumption

-----------------------------------------------------------------------------
(* Sequences of tasks *)

\* The kinds of tasks a sequence holds, and that it holds at most one of a kind.
No(s, k)   == \A i \in 1 .. Len(s) : s[i].kind # k
Once(s, k) == \A i, j \in 1 .. Len(s) : s[i].kind = k /\ s[j].kind = k => i = j

\* What Append does to them.
LEMMA AppendTask ==
  ASSUME NEW s \in Seq(Task), NEW t \in Task, NEW k
  PROVE  /\ Append(s, t) \in Seq(Task)
         /\ No(Append(s, t), k) <=> No(s, k) /\ t.kind # k
         /\ Once(s, k) /\ t.kind # k => Once(Append(s, t), k)
         /\ No(s, k) => Once(Append(s, t), k)
<1>1. /\ Append(s, t) \in Seq(Task)
      /\ Len(Append(s, t)) = Len(s) + 1
      /\ \A i \in 1 .. Len(s) : Append(s, t)[i] = s[i]
      /\ Append(s, t)[Len(s) + 1] = t
  BY AppendProperties
<1>2. Len(s) \in Nat
  BY LenProperties
<1> QED
  BY <1>1, <1>2 DEF No, Once

\* What Tail does to them: the head is gone.
LEMMA TailTask ==
  ASSUME NEW s \in Seq(Task), s # << >>, NEW k
  PROVE  /\ Head(s) \in Task
         /\ Tail(s) \in Seq(Task)
         /\ No(s, k) => No(Tail(s), k)
         /\ Once(s, k) => Once(Tail(s), k)
         /\ Once(s, k) /\ Head(s).kind = k => No(Tail(s), k)
<1>1. /\ Head(s) \in Task
      /\ Tail(s) \in Seq(Task)
      /\ Len(Tail(s)) = Len(s) - 1
      /\ \A i \in 1 .. Len(Tail(s)) : Tail(s)[i] = s[i + 1]
  BY HeadTailProperties
<1>2. Len(s) \in Nat /\ Len(s) # 0 /\ Head(s) = s[1]
  BY LenProperties, EmptySeq
<1> QED
  BY <1>1, <1>2 DEF No, Once

\* What concatenation does to them.
LEMMA ConcatTask ==
  ASSUME NEW s \in Seq(Task), NEW t \in Seq(Task), NEW k
  PROVE  /\ s \o t \in Seq(Task)
         /\ No(s \o t, k) <=> No(s, k) /\ No(t, k)
         /\ Once(s, k) /\ No(t, k) => Once(s \o t, k)
         /\ No(s, k) /\ Once(t, k) => Once(s \o t, k)
<1>1. /\ s \o t \in Seq(Task)
      /\ Len(s \o t) = Len(s) + Len(t)
      /\ \A i \in 1 .. Len(s) + Len(t) :
           (s \o t)[i] = IF i <= Len(s) THEN s[i] ELSE t[i - Len(s)]
  BY ConcatProperties
<1>2. Len(s) \in Nat /\ Len(t) \in Nat
  BY LenProperties
<1>3. \A i \in 1 .. Len(s) : (s \o t)[i] = s[i]
  BY <1>1, <1>2
<1>4. \A i \in 1 .. Len(t) : Len(s) + i \in 1 .. Len(s \o t) /\ (s \o t)[Len(s) + i] = t[i]
  BY <1>1, <1>2
<1>5. No(s \o t, k) <=> No(s, k) /\ No(t, k)
  <2>1. No(s, k) /\ No(t, k) => No(s \o t, k)
    BY <1>1, <1>2 DEF No
  <2>2. No(s \o t, k) => No(s, k)
    BY <1>1, <1>2, <1>3 DEF No
  <2>3. No(s \o t, k) => No(t, k)
    BY <1>4 DEF No
  <2> QED
    BY <2>1, <2>2, <2>3
<1>6. Once(s, k) /\ No(t, k) => Once(s \o t, k)
  BY <1>1, <1>2 DEF No, Once
<1>7. No(s, k) /\ Once(t, k) => Once(s \o t, k)
  BY <1>1, <1>2 DEF No, Once
<1> QED
  BY <1>1, <1>5, <1>6, <1>7

\* The queue of a loop, and the tasks the model builds, are well typed.
LEMMA TaskTypes ==
  /\ \A k \in (RefKinds \cup RawKinds) \ {"send"} : task(k) \in Task /\ task(k).kind = k
  /\ \A k \in (RefKinds \cup RawKinds) \ {"send"}, e \in {"ok", "eof", "error", "aborted"} :
       completion(k, e) \in Task /\ completion(k, e).kind = k
BY DEF task, completion, Task

\* An element put at the end of a list leaves the front of the list alone.
LEMMA AppendFront ==
  ASSUME NEW S, NEW s \in Seq(S), NEW m \in S
  PROVE  /\ Append(s, m) \in Seq(S) /\ Append(s, m) # << >>
         /\ s # << >> => Head(Append(s, m)) = Head(s)
<1>1. Append(s, m) \in Seq(S) /\ Append(s, m) # << >>
  BY AppendProperties
<1>2. Head(Append(s, m)) = IF s = << >> THEN m ELSE Head(s)
  BY HeadTailAppend
<1> QED
  BY <1>1, <1>2

LEMMA FrontMessage ==
  ASSUME NEW s \in Seq(1 .. MaxSends), s # << >>
  PROVE  Head(s) \in 1 .. MaxSends /\ Tail(s) \in Seq(1 .. MaxSends)
BY HeadTailProperties

\* The completions of cancelled operations are those of reads and writes only.
LEMMA Aborted ==
  ASSUME NEW d \in Conn, NEW k
  PROVE  /\ aborted_operations(d) \in Seq(Task)
         /\ k \notin {"handle_read", "handle_write"} => No(aborted_operations(d), k)
         /\ d.writing = << >> /\ k # "handle_read" => No(aborted_operations(d), k)
         /\ Len(d.writing) <= 1 /\ k # "handle_read" => Once(aborted_operations(d), k)
<1> DEFINE r == IF d.reading THEN <<completion("handle_read", "aborted")>> ELSE << >>
           w == [i \in 1 .. Len(d.writing) |-> completion("handle_write", "aborted")]
<1>1. d.writing \in Seq(1 .. MaxSends) /\ d.reading \in BOOLEAN
  BY DEF Conn
<1>2. Len(d.writing) \in Nat
  BY <1>1, LenProperties
<1>3. /\ completion("handle_read", "aborted") \in Task
      /\ completion("handle_read", "aborted").kind = "handle_read"
      /\ completion("handle_write", "aborted") \in Task
      /\ completion("handle_write", "aborted").kind = "handle_write"
  BY TaskTypes DEF RawKinds
<1>4. r \in Seq(Task) /\ (k # "handle_read" => No(r, k))
  BY <1>1, <1>3 DEF No
<1>5. w \in Seq(Task) /\ Len(w) = Len(d.writing) /\ DOMAIN w = 1 .. Len(d.writing)
  <2>1. w \in [1 .. Len(d.writing) -> Task]
    BY <1>3
  <2>2. w \in Seq(Task)
    BY <2>1, <1>2, SeqDef
  <2>3. DOMAIN w = 1 .. Len(w) /\ Len(w) \in Nat
    BY <2>2, LenProperties
  <2> QED
    BY <2>2, <2>3, <1>2
<1>6. /\ k # "handle_write" => No(w, k)
      /\ d.writing = << >> => No(w, k)
      /\ Len(d.writing) <= 1 => Once(w, k)
  <2>1. d.writing = << >> => Len(d.writing) = 0
    BY EmptySeq
  <2> QED
    BY <1>2, <1>3, <1>5, <2>1 DEF No, Once
<1>7. aborted_operations(d) = r \o w
  BY DEF aborted_operations
<1> HIDE DEF r, w
<1> QED
  BY <1>4, <1>5, <1>6, <1>7, ConcatTask

-----------------------------------------------------------------------------
(* The functions of the class preserve the invariant *)

\* The invariant of an established connection d that the server knows of or
\* has erased. The remove_connection task is a token: none before the
\* cleanup, one after it, none again once the server has erased the connection;
\* connect_destroy, and the state Closed, come only then.
Good(d) ==
  /\ base \in Loops /\ limits \subseteq Timers
  /\ d \in Conn
  /\ d.wheel \subseteq d.timers
  /\ d.state # "Connecting"
  /\ No(d.queue["io"], "connect_establised")
  /\ Once(d.queue[base], "remove_connection")
  /\ ~d.is_cleaned \/ ~registered => No(d.queue[base], "remove_connection")
  /\ ~registered => d.is_cleaned
  /\ d.is_cleaned => d.state \in {"WaitClose", "Closed"}
  /\ registered => d.state # "Closed" /\ No(d.queue["io"], "connect_destroy")

\* What no function undoes between a connection d and the later e.
Advances(d, e) ==
  /\ Stage(e.state) >= Stage(d.state)
  /\ d.is_cleaned => e.is_cleaned /\ e.accepted = d.accepted

LEMMA Stages ==
  /\ \A s \in EState : Stage(s) \in Int
  /\ Stage("Connecting") = 0 /\ Stage("Established") = 1
  /\ Stage("WaitClose") = 2 /\ Stage("Closed") = 3
BY DEF EState, Stage

LEMMA AdvancesTransitive ==
  ASSUME NEW d \in Conn, NEW e \in Conn, NEW f \in Conn, Advances(d, e), Advances(e, f)
  PROVE  Advances(d, f)
<1>1. d.state \in EState /\ e.state \in EState /\ f.state \in EState
  BY DEF Conn
<1> QED
  BY <1>1, Stages DEF Advances

\* The queue of the io loop holds no new task bound to a shared_ptr.
NoNewRef(d, e) ==
  /\ e.queue["base"] = d.queue["base"]
  /\ \A k \in RefKinds : No(d.queue["io"], k) => No(e.queue["io"], k)
  /\ \A k \in RefKinds : Once(d.queue["io"], k) => Once(e.queue["io"], k)

\* A change of the queue of that sort and of what the invariant is silent about.
LEMMA KeepsGood ==
  ASSUME NEW d, Good(d), NEW e \in Conn, NoNewRef(d, e),
         e.wheel \subseteq e.timers, e.state = d.state, e.is_cleaned = d.is_cleaned,
         e.accepted = d.accepted
  PROVE  Good(e) /\ Advances(d, e)
<1>1. Good(e)
  <2>1. CASE base = "io"
    BY <2>1 DEF Good, NoNewRef, RefKinds
  <2>2. CASE base = "base"
    BY <2>2 DEF Good, NoNewRef, RefKinds
  <2> QED
    BY <2>1, <2>2 DEF Good, Loops
<1>2. Advances(d, e)
  <2>1. d.state \in EState
    BY DEF Good, Conn
  <2> QED
    BY <2>1, Stages DEF Advances
<1> QED
  BY <1>1, <1>2

\* Posting a call or a completion to the io loop.
LEMMA RunInLoopGood ==
  ASSUME NEW d, Good(d), NEW t \in Task, t.kind \in RawKinds
  PROVE  Good(run_in_loop(d, "io", t)) /\ Advances(d, run_in_loop(d, "io", t))
<1> DEFINE e == run_in_loop(d, "io", t)
<1>1. /\ d \in Conn /\ d.queue \in [Loops -> Seq(Task)]
      /\ d.queue["io"] \in Seq(Task)
  BY DEF Good, Conn, Loops
<1>2. \A k \in RefKinds : t.kind # k
  BY DEF RawKinds, RefKinds
<1>3. Append(d.queue["io"], t) \in Seq(Task)
  BY <1>1, AppendTask
<1>4. /\ e.queue["io"] = Append(d.queue["io"], t)
      /\ e.queue["base"] = d.queue["base"]
      /\ e \in Conn
      /\ e.state = d.state /\ e.is_cleaned = d.is_cleaned /\ e.accepted = d.accepted
      /\ e.wheel = d.wheel /\ e.timers = d.timers
  BY <1>1, <1>3 DEF run_in_loop, Conn, Loops
<1> HIDE DEF e
<1>5. NoNewRef(d, e)
  BY <1>1, <1>2, <1>4, AppendTask DEF NoNewRef
<1>6. Good(e) /\ Advances(d, e)
  BY <1>4, <1>5, KeepsGood DEF Good
<1> QED
  BY <1>6 DEF e

\* Taking a task from the io loop.
LEMMA PopGood ==
  ASSUME NEW d, Good(d), d.queue["io"] # << >>
  PROVE  Good(pop(d, "io")) /\ Advances(d, pop(d, "io"))
<1> DEFINE e == pop(d, "io")
<1>1. /\ d \in Conn /\ d.queue \in [Loops -> Seq(Task)]
      /\ d.queue["io"] \in Seq(Task)
  BY DEF Good, Conn, Loops
<1>3. Tail(d.queue["io"]) \in Seq(Task)
  BY <1>1, TailTask
<1>4. /\ e.queue["io"] = Tail(d.queue["io"])
      /\ e.queue["base"] = d.queue["base"]
      /\ e \in Conn
      /\ e.state = d.state /\ e.is_cleaned = d.is_cleaned /\ e.accepted = d.accepted
      /\ e.wheel = d.wheel /\ e.timers = d.timers
  BY <1>1, <1>3 DEF pop, Conn, Loops
<1> HIDE DEF e
<1>5. NoNewRef(d, e)
  BY <1>1, <1>4, TailTask DEF NoNewRef
<1>6. Good(e) /\ Advances(d, e)
  BY <1>4, <1>5, KeepsGood DEF Good
<1> QED
  BY <1>6 DEF e

\* Cancelling the socket's operations.
LEMMA CancelOperationsGood ==
  ASSUME NEW d, Good(d)
  PROVE  Good(cancel_operations(d)) /\ Advances(d, cancel_operations(d))
<1> DEFINE e == cancel_operations(d)
           a == aborted_operations(d)
<1>1. /\ d \in Conn /\ d.queue \in [Loops -> Seq(Task)]
      /\ d.queue["io"] \in Seq(Task)
  BY DEF Good, Conn, Loops
<1>2. a \in Seq(Task) /\ \A k \in RefKinds : No(a, k)
  BY <1>1, Aborted DEF RefKinds
<1> HIDE DEF a
<1>3. d.queue["io"] \o a \in Seq(Task)
  BY <1>1, <1>2, ConcatTask
<1>4. /\ e.queue["io"] = d.queue["io"] \o a
      /\ e.queue["base"] = d.queue["base"]
      /\ e \in Conn
      /\ e.state = d.state /\ e.is_cleaned = d.is_cleaned /\ e.accepted = d.accepted
      /\ e.wheel = d.wheel /\ e.timers = d.timers
  BY <1>1, <1>3, EmptySeq DEF cancel_operations, a, Conn, Loops
<1> HIDE DEF e
<1>5. NoNewRef(d, e)
  BY <1>1, <1>2, <1>4, ConcatTask DEF NoNewRef
<1>6. Good(e) /\ Advances(d, e)
  BY <1>4, <1>5, KeepsGood DEF Good
<1> QED
  BY <1>6 DEF e

\* A change that leaves the queue alone.
LEMMA SameQueueGood ==
  ASSUME NEW d, Good(d), NEW e \in Conn, e.queue = d.queue,
         e.wheel \subseteq e.timers, e.state = d.state, e.is_cleaned = d.is_cleaned,
         e.accepted = d.accepted
  PROVE  Good(e) /\ Advances(d, e)
BY KeepsGood DEF NoNewRef

LEMMA AsyncReadGood ==
  ASSUME NEW d, Good(d)
  PROVE  Good(async_read(d)) /\ Advances(d, async_read(d))
<1>1. CASE d.open
  <2> DEFINE e == [d EXCEPT !.reading = TRUE]
  <2>1. /\ e \in Conn /\ e.queue = d.queue /\ e.wheel \subseteq e.timers
        /\ e.state = d.state /\ e.is_cleaned = d.is_cleaned /\ e.accepted = d.accepted
    BY DEF Good, Conn
  <2>2. Good(e) /\ Advances(d, e)
    BY <2>1, SameQueueGood
  <2> QED
    BY <1>1, <2>2 DEF async_read
<1>2. CASE ~d.open
  BY <1>2, TaskTypes, RunInLoopGood DEF async_read, RawKinds
<1> QED
  BY <1>1, <1>2

LEMMA WriteTimerGood ==
  ASSUME NEW d, Good(d)
  PROVE  /\ Good(write_timer(d)) /\ Advances(d, write_timer(d))
         /\ write_timer(d).output_buffer = d.output_buffer
         /\ write_timer(d).writing = d.writing
         /\ write_timer(d).queue = d.queue
<1> DEFINE e == write_timer(d)
<1>1. /\ e \in Conn /\ e.queue = d.queue /\ e.wheel \subseteq e.timers
      /\ e.state = d.state /\ e.is_cleaned = d.is_cleaned /\ e.accepted = d.accepted
      /\ e.output_buffer = d.output_buffer /\ e.writing = d.writing
  BY DEF Good, Conn, write_timer, Timers
<1> HIDE DEF e
<1>2. Good(e) /\ Advances(d, e)
  BY <1>1, SameQueueGood
<1> QED
  BY <1>1, <1>2 DEF e

LEMMA AsyncWriteGood ==
  ASSUME NEW d, Good(d), d.output_buffer # << >>
  PROVE  Good(async_write(d)) /\ Advances(d, async_write(d))
<1> DEFINE w == write_timer(d)
<1>1. /\ Good(w) /\ Advances(d, w) /\ w.output_buffer = d.output_buffer
      /\ w \in Conn /\ d \in Conn
  BY WriteTimerGood DEF Good
<1> HIDE DEF w
<1>2. CASE d.open
  <2> DEFINE e == [w EXCEPT !.writing = Append(@, Head(d.output_buffer))]
  <2>1. Head(d.output_buffer) \in 1 .. MaxSends
    BY <1>1, FrontMessage DEF Conn
  <2>2. Append(w.writing, Head(d.output_buffer)) \in Seq(1 .. MaxSends)
    BY <1>1, <2>1, AppendFront DEF Conn
  <2>3. /\ e \in Conn /\ e.queue = w.queue /\ e.wheel \subseteq e.timers
        /\ e.state = w.state /\ e.is_cleaned = w.is_cleaned /\ e.accepted = w.accepted
    BY <1>1, <2>2 DEF Good, Conn
  <2>4. Good(e) /\ Advances(w, e)
    BY <1>1, <2>3, SameQueueGood
  <2>5. Good(e) /\ Advances(d, e)
    BY <1>1, <2>3, <2>4, AdvancesTransitive
  <2> QED
    BY <1>2, <2>5 DEF async_write, w
<1>3. CASE ~d.open
  <2> DEFINE e == run_in_loop(w, "io", completion("handle_write", "error"))
  <2>1. Good(e) /\ Advances(w, e)
    BY <1>1, TaskTypes, RunInLoopGood DEF RawKinds
  <2>2. Good(e) /\ Advances(d, e)
    BY <1>1, <2>1, AdvancesTransitive DEF Good
  <2> QED
    BY <1>3, <2>2 DEF async_write, w
<1> QED
  BY <1>2, <1>3

LEMMA CancelTimerFields ==
  ASSUME NEW d \in Conn, d.wheel \subseteq d.timers, NEW t
  PROVE  LET e == cancel_timer(d, t)
         IN  /\ e \in Conn /\ e.queue = d.queue /\ e.wheel \subseteq e.timers
             /\ e.state = d.state /\ e.is_cleaned = d.is_cleaned
             /\ e.accepted = d.accepted /\ e.output_buffer = d.output_buffer
             /\ e.writing = d.writing
BY DEF Conn, cancel_timer

LEMMA CancelTimerGood ==
  ASSUME NEW d, Good(d), NEW t
  PROVE  Good(cancel_timer(d, t)) /\ Advances(d, cancel_timer(d, t))
<1> DEFINE e == cancel_timer(d, t)
<1>1. /\ e \in Conn /\ e.queue = d.queue /\ e.wheel \subseteq e.timers
      /\ e.state = d.state /\ e.is_cleaned = d.is_cleaned /\ e.accepted = d.accepted
  BY CancelTimerFields DEF Good
<1> HIDE DEF e
<1>2. Good(e) /\ Advances(d, e)
  BY <1>1, SameQueueGood
<1> QED
  BY <1>2 DEF e

\* connect_cleanup posts the one remove_connection. The connection it changes
\* is known to the server: Good says so of one that was not cleaned up.
LEMMA ConnectCleanupGood ==
  ASSUME NEW d, Good(d), NEW why \in Causes
  PROVE  Good(connect_cleanup(d, why)) /\ Advances(d, connect_cleanup(d, why))
<1>1. CASE d.state = "Closed"
  <2>1. Advances(d, d)
    BY SameQueueGood DEF Good
  <2> QED
    BY <1>1, <2>1 DEF connect_cleanup
<1>2. CASE d.state # "Closed" /\ d.is_cleaned
  <2> DEFINE e == [d EXCEPT !.state = "WaitClose"]
  <2>1. /\ e \in Conn /\ e.queue = d.queue /\ e.wheel \subseteq e.timers
        /\ e.state = d.state /\ e.is_cleaned = d.is_cleaned /\ e.accepted = d.accepted
    BY <1>2 DEF Good, Conn, EState
  <2>2. Good(e) /\ Advances(d, e)
    BY <2>1, SameQueueGood
  <2> QED
    BY <1>2, <2>2 DEF connect_cleanup
<1>3. CASE d.state # "Closed" /\ ~d.is_cleaned
  <2> DEFINE a == [d EXCEPT !.state = "WaitClose"]
             m == [a EXCEPT !.is_cleaned = TRUE, !.cause = why]
             b == cancel_timer(cancel_timer(m, "read"), "write")
             c == cancel_operations(b)
             e == run_in_loop(c, base, task("remove_connection"))
  <2>1. connect_cleanup(d, why) = e
    BY <1>3 DEF connect_cleanup, cleanup_once
  <2>2. /\ b \in Conn /\ b.queue = d.queue /\ b.wheel \subseteq b.timers
        /\ b.state = "WaitClose" /\ b.is_cleaned /\ b.accepted = d.accepted
    <3>1. /\ m \in Conn /\ m.queue = d.queue /\ m.wheel \subseteq m.timers
          /\ m.state = "WaitClose" /\ m.is_cleaned /\ m.accepted = d.accepted
      BY DEF Good, Conn, EState
    <3> HIDE DEF m
    <3> QED
      BY <3>1, CancelTimerFields
  <2> HIDE DEF b
  <2>3. /\ registered /\ d.state \in EState /\ d \in Conn
        /\ No(d.queue[base], "remove_connection")
        /\ No(d.queue["io"], "connect_destroy")
    BY <1>3 DEF Good, Conn
  <2>4. Good(b) /\ Advances(d, b)
    BY <1>3, <2>2, <2>3, Stages DEF Good, Advances, EState
  <2>5. Good(c) /\ Advances(b, c)
    BY <2>4, CancelOperationsGood
  <2>6. No(c.queue[base], "remove_connection") /\ c.is_cleaned /\ c.state = "WaitClose"
    <3>1. /\ c.queue["base"] = b.queue["base"]
          /\ c.queue["io"] = b.queue["io"] \o aborted_operations(b)
          /\ c.is_cleaned /\ c.state = "WaitClose"
      BY <2>2 DEF cancel_operations, Conn, Loops
    <3>2. No(aborted_operations(b), "remove_connection")
      BY <2>2, Aborted
    <3>3. aborted_operations(b) \in Seq(Task) /\ b.queue["io"] \in Seq(Task)
      BY <2>2, Aborted DEF Conn, Loops
    <3>4. base = "io" => No(c.queue["io"], "remove_connection")
      BY <2>2, <2>3, <3>1, <3>2, <3>3, ConcatTask
    <3> QED
      BY <2>2, <2>3, <3>1, <3>4 DEF Good, Loops
  <2> HIDE DEF c
  <2>7. /\ e \in Conn /\ e.wheel = c.wheel /\ e.timers = c.timers
        /\ e.state = c.state /\ e.is_cleaned = c.is_cleaned /\ e.accepted = c.accepted
        /\ e.queue[base] = Append(c.queue[base], task("remove_connection"))
        /\ base # "io" => e.queue["io"] = c.queue["io"]
    <3>1. c \in Conn /\ base \in Loops /\ c.queue[base] \in Seq(Task)
      BY <2>5 DEF Good, Conn
    <3>2. Append(c.queue[base], task("remove_connection")) \in Seq(Task)
      BY <3>1, TaskTypes, AppendTask DEF RefKinds
    <3> QED
      BY <3>1, <3>2 DEF run_in_loop, Conn, Loops
  <2> HIDE DEF e
  <2>8. /\ No(e.queue["io"], "connect_establised")
        /\ No(e.queue["io"], "connect_destroy")
        /\ Once(e.queue[base], "remove_connection")
    <3>1. c.queue[base] \in Seq(Task) /\ task("remove_connection") \in Task
             /\ task("remove_connection").kind = "remove_connection"
      BY <2>5, TaskTypes DEF Good, Conn, RefKinds
    <3>2. Once(e.queue[base], "remove_connection")
      BY <2>6, <2>7, <3>1, AppendTask
    <3>3. /\ No(c.queue["io"], "connect_establised")
          /\ No(c.queue["io"], "connect_destroy")
      BY <2>3, <2>5 DEF Good
    <3>4. CASE base = "io"
      <4> DEFINE t == task("remove_connection")
      <4>1. /\ c.queue["io"] \in Seq(Task) /\ t \in Task
            /\ t.kind # "connect_establised" /\ t.kind # "connect_destroy"
            /\ e.queue["io"] = Append(c.queue["io"], t)
        BY <2>7, <3>1, <3>4
      <4> HIDE DEF t
      <4> QED
        BY <4>1, <3>2, <3>3, AppendTask
    <3>5. CASE base # "io"
      BY <2>7, <3>2, <3>3, <3>5
    <3> QED
      BY <3>4, <3>5
  <2>9. Good(e)
    BY <2>3, <2>5, <2>6, <2>7, <2>8 DEF Good
  <2>10. Advances(c, e)
    BY <2>5, <2>7, Stages DEF Good, Conn, Advances
  <2>11. Advances(d, e)
    BY <2>2, <2>3, <2>4, <2>5, <2>9, <2>10, AdvancesTransitive DEF Good
  <2> QED
    BY <2>1, <2>9, <2>11
<1> QED
  BY <1>1, <1>2, <1>3

\* connect_destroy runs only on a connection the server has erased.
LEMMA ConnectDestroyGood ==
  ASSUME NEW d, Good(d), ~registered
  PROVE  Good(connect_destroy(d)) /\ Advances(d, connect_destroy(d))
<1>1. CASE d.state = "Closed"
  <2>1. Advances(d, d)
    BY SameQueueGood DEF Good
  <2> QED
    BY <1>1, <2>1 DEF connect_destroy
<1>2. CASE d.state # "Closed"
  <2> DEFINE e == [d EXCEPT !.state = "Closed", !.open = FALSE]
  <2>1. /\ e \in Conn /\ d \in Conn /\ e.queue = d.queue /\ e.wheel \subseteq e.timers
        /\ e.state = "Closed" /\ e.is_cleaned = d.is_cleaned /\ e.accepted = d.accepted
    BY DEF Good, Conn, EState
  <2> HIDE DEF e
  <2>2. Good(e)
    BY <2>1 DEF Good
  <2>3. Advances(d, e)
    BY <2>1, Stages DEF Advances, Conn, EState
  <2>4. Good(cancel_operations(e)) /\ Advances(e, cancel_operations(e))
    BY <2>2, CancelOperationsGood
  <2>5. Advances(d, cancel_operations(e))
    BY <2>1, <2>3, <2>4, AdvancesTransitive DEF Good
  <2> QED
    BY <1>2, <2>4, <2>5 DEF connect_destroy, e
<1> QED
  BY <1>1, <1>2

LEMMA ShutdownInLoopGood ==
  ASSUME NEW d, Good(d)
  PROVE  Good(shutdown_in_loop(d)) /\ Advances(d, shutdown_in_loop(d))
<1>1. CASE d.state \in {"Closed", "WaitClose"}
  <2>1. Advances(d, d)
    BY SameQueueGood DEF Good
  <2> QED
    BY <1>1, <2>1 DEF shutdown_in_loop
<1>2. CASE d.state \notin {"Closed", "WaitClose"}
  <2> DEFINE e == [d EXCEPT !.state = "WaitClose"]
  <2>1. /\ e \in Conn /\ d \in Conn /\ e.queue = d.queue /\ e.wheel \subseteq e.timers
        /\ e.state = "WaitClose" /\ e.is_cleaned = d.is_cleaned /\ e.accepted = d.accepted
    BY DEF Good, Conn, EState
  <2> HIDE DEF e
  <2>2. Good(e)
    BY <1>2, <2>1 DEF Good
  <2>3. Advances(d, e)
    BY <1>2, <2>1, Stages DEF Advances, Conn, EState
  <2>4. Good(connect_cleanup(e, "shutdown")) /\ Advances(e, connect_cleanup(e, "shutdown"))
    BY <2>2, ConnectCleanupGood DEF Causes
  <2>5. Advances(d, connect_cleanup(e, "shutdown"))
    BY <2>1, <2>3, <2>4, AdvancesTransitive DEF Good
  <2> QED
    BY <1>2, <2>2, <2>3, <2>4, <2>5 DEF shutdown_in_loop, e
<1> QED
  BY <1>1, <1>2

LEMMA SendInLoopGood ==
  ASSUME NEW d, Good(d), NEW m \in 1 .. MaxSends
  PROVE  Good(send_in_loop(d, m)) /\ Advances(d, send_in_loop(d, m))
<1>1. CASE d.state \in {"Closed", "WaitClose"}
  <2>1. Advances(d, d)
    BY SameQueueGood DEF Good
  <2> QED
    BY <1>1, <2>1 DEF send_in_loop
<1>2. CASE d.state \notin {"Closed", "WaitClose"}
  <2> DEFINE e == [d EXCEPT !.output_buffer = Append(@, m), !.accepted = Append(@, m)]
  <2>1. /\ d \in Conn
        /\ Append(d.output_buffer, m) \in Seq(1 .. MaxSends)
        /\ Append(d.output_buffer, m) # << >>
        /\ Append(d.accepted, m) \in Seq(1 .. MaxSends)
    <3>1. /\ d \in Conn /\ d.output_buffer \in Seq(1 .. MaxSends)
          /\ d.accepted \in Seq(1 .. MaxSends)
      BY DEF Good, Conn
    <3> QED
      BY <3>1, AppendFront
  <2>2. /\ e \in Conn /\ e.queue = d.queue /\ e.wheel \subseteq e.timers
        /\ e.state = d.state /\ e.is_cleaned = d.is_cleaned
        /\ e.output_buffer # << >>
    BY <2>1 DEF Good, Conn
  <2> HIDE DEF e
  <2>3. Good(e) /\ ~d.is_cleaned
    BY <1>2, <2>2 DEF Good
  <2>4. Advances(d, e)
    BY <2>1, <2>2, <2>3, Stages DEF Advances, Conn
  <2>5. Good(async_write(e)) /\ Advances(e, async_write(e))
    BY <2>2, <2>3, AsyncWriteGood
  <2>6. Advances(d, async_write(e))
    BY <2>1, <2>2, <2>4, <2>5, AdvancesTransitive DEF Good
  <2> QED
    BY <1>2, <2>3, <2>4, <2>5, <2>6 DEF send_in_loop, e
<1> QED
  BY <1>1, <1>2

\* A call the application may make from a callback.
LEMMA CallGood ==
  ASSUME NEW d, Good(d), NEW op \in Calls
  PROVE  Good(call(d, op)) /\ Advances(d, call(d, op))
<1>0. Advances(d, d) /\ d \in Conn
  BY SameQueueGood DEF Good
<1>1. CASE op = "none"
  BY <1>0, <1>1 DEF call
<1>2. CASE op = "send"
  <2>1. CASE d.sends < MaxSends
    <3> DEFINE e == [d EXCEPT !.sends = @ + 1]
    <3>1. /\ e \in Conn /\ e.queue = d.queue /\ e.wheel \subseteq e.timers
          /\ e.state = d.state /\ e.is_cleaned = d.is_cleaned /\ e.accepted = d.accepted
          /\ d.sends + 1 \in 1 .. MaxSends
      <4>1. d.sends \in 0 .. MaxSends /\ d \in Conn
        BY DEF Good, Conn
      <4>2. d.sends + 1 \in 0 .. MaxSends /\ d.sends + 1 \in 1 .. MaxSends
        BY <2>1, <4>1
      <4> QED
        BY <4>1, <4>2 DEF Good, Conn
    <3>2. Good(e) /\ Advances(d, e)
      BY <3>1, SameQueueGood
    <3> HIDE DEF e
    <3>3. /\ Good(send_in_loop(e, d.sends + 1))
          /\ Advances(e, send_in_loop(e, d.sends + 1))
      BY <3>1, <3>2, SendInLoopGood
    <3>4. Advances(d, send_in_loop(e, d.sends + 1))
      BY <1>0, <3>1, <3>2, <3>3, AdvancesTransitive DEF Good
    <3> QED
      BY <1>2, <2>1, <3>3, <3>4 DEF call, send, e
  <2>2. CASE ~(d.sends < MaxSends)
    BY <1>0, <1>2, <2>2 DEF call, send
  <2> QED
    BY <2>1, <2>2
<1>3. CASE op \in {"shutdown", "shutdown_cb"}
  <2>1. CASE may_shutdown(d.flag)
    <3> DEFINE e == [d EXCEPT !.flag = @ \cup shutdown_flags(op)]
    <3>1. /\ e \in Conn /\ e.queue = d.queue /\ e.wheel \subseteq e.timers
          /\ e.state = d.state /\ e.is_cleaned = d.is_cleaned /\ e.accepted = d.accepted
      BY <1>3 DEF Good, Conn, shutdown_flags, EFlag
    <3>2. Good(e) /\ Advances(d, e)
      BY <3>1, SameQueueGood
    <3> HIDE DEF e
    <3>3. Good(shutdown_in_loop(e)) /\ Advances(e, shutdown_in_loop(e))
      BY <3>2, ShutdownInLoopGood
    <3>4. Advances(d, shutdown_in_loop(e))
      BY <1>0, <3>1, <3>2, <3>3, AdvancesTransitive DEF Good
    <3> QED
      BY <1>3, <2>1, <3>3, <3>4 DEF call, shutdown, e
  <2>2. CASE ~may_shutdown(d.flag)
    BY <1>0, <1>3, <2>2 DEF call, shutdown
  <2> QED
    BY <2>1, <2>2
<1>4. CASE op = "force_close"
  <2>1. CASE may_force_close(d.flag)
    <3> DEFINE e == [d EXCEPT !.flag = @ \cup shutdown_flags("force_close")]
    <3>1. /\ e \in Conn /\ e.queue = d.queue /\ e.wheel \subseteq e.timers
          /\ e.state = d.state /\ e.is_cleaned = d.is_cleaned /\ e.accepted = d.accepted
      BY DEF Good, Conn, shutdown_flags, EFlag
    <3>2. Good(e) /\ Advances(d, e)
      BY <3>1, SameQueueGood
    <3> HIDE DEF e
    <3>3. Good(force_close_in_loop(e)) /\ Advances(e, force_close_in_loop(e))
      BY <3>2, ConnectCleanupGood DEF force_close_in_loop, Causes
    <3>4. Advances(d, force_close_in_loop(e))
      BY <1>0, <3>1, <3>2, <3>3, AdvancesTransitive DEF Good
    <3> QED
      BY <1>4, <2>1, <3>3, <3>4 DEF call, force_close, e
  <2>2. CASE ~may_force_close(d.flag)
    BY <1>0, <1>4, <2>2 DEF call, force_close
  <2> QED
    BY <2>1, <2>2
<1> QED
  BY <1>1, <1>2, <1>3, <1>4 DEF Calls

LEMMA CallbackGood ==
  ASSUME NEW d, Good(d), NEW r \in Calls \X Calls
  PROVE  Good(callback(d, r)) /\ Advances(d, callback(d, r))
<1> DEFINE e == call(d, r[1])
<1>1. Good(e) /\ Advances(d, e)
  BY CallGood
<1> HIDE DEF e
<1>2. Good(call(e, r[2])) /\ Advances(e, call(e, r[2]))
  BY <1>1, CallGood
<1>3. Advances(d, call(e, r[2]))
  BY <1>1, <1>2, AdvancesTransitive DEF Good
<1> QED
  BY <1>2, <1>3 DEF callback, e

LEMMA WriteNextGood ==
  ASSUME NEW d, Good(d)
  PROVE  Good(write_next(d)) /\ Advances(d, write_next(d))
<1>1. Advances(d, d)
  BY SameQueueGood DEF Good
<1>2. /\ Good(cancel_timer(d, "write")) /\ Advances(d, cancel_timer(d, "write"))
      /\ Good(connect_cleanup(d, "shutdown")) /\ Advances(d, connect_cleanup(d, "shutdown"))
  BY CancelTimerGood, ConnectCleanupGood DEF Causes
<1>3. d.output_buffer # << >> => Good(async_write(d)) /\ Advances(d, async_write(d))
  BY AsyncWriteGood
<1> QED
  BY <1>1, <1>2, <1>3 DEF write_next

-----------------------------------------------------------------------------
(* The inductive invariant *)

\* Until connect_establised runs nothing else can; from then on Good holds.
IInv ==
  /\ TypeOK
  /\ EraseOnce
  /\ conn.state = "Connecting" =>
       conn = NewConn /\ registered /\ ~held /\ app = IdleApp /\ expired = << >>
  /\ conn.state # "Connecting" => Good(conn)

\* The next value e of conn is good and nothing that matters was undone.
StepTo(e) == Good(e) /\ Advances(conn, e)

\* A step that leaves the server alone preserves the invariant.
LEMMA StepKeeps ==
  ASSUME IInv, StepTo(conn'), UNCHANGED <<base, limits, registered>>, EraseOnce',
         held' \in BOOLEAN, expired' \in Seq(Timers), wire' \in Seq(1 .. MaxSends),
         app' \in [pc : {"idle", "tested", "flagged"},
                   op : {"none", "shutdown", "shutdown_cb", "force_close"},
                   loaded : SUBSET EFlag],
         reads' \in 0 .. MaxReads, failed' \subseteq {"front", "dangling", "timer", "erase"}
  PROVE  IInv'
BY DEF IInv, TypeOK, StepTo, Good

\* The only task before connect_establised has run is connect_establised.
LEMMA OnlyEstablish ==
  ASSUME IInv, conn.state = "Connecting"
  PROVE  /\ conn.queue["base"] = << >> /\ conn.queue["io"] = <<task("connect_establised")>>
         /\ Head(conn.queue["io"]).kind = "connect_establised"
         /\ ~conn.reading /\ conn.writing = << >> /\ conn.wheel = {}
         /\ conn.timers = {} /\ conn.output_buffer = << >> /\ ~conn.is_cleaned
BY DEF IInv, NewConn, Loops, task

LEMMA InitIInv == Init => IInv
<1> SUFFICES ASSUME Init PROVE IInv
  OBVIOUS
<1>1. task("connect_establised") \in Task
  BY TaskTypes DEF RefKinds
<1>2. NewConn \in Conn
  <2>1. <<task("connect_establised")>> \in Seq(Task) /\ << >> \in Seq(Task)
        /\ << >> \in Seq(1 .. MaxSends)
    BY <1>1
  <2>2. [l \in Loops |-> IF l = "io" THEN <<task("connect_establised")>> ELSE << >>]
           \in [Loops -> Seq(Task)]
    BY <2>1
  <2>3. 0 \in 0 .. MaxSends
    OBVIOUS
  <2> QED
    BY <2>1, <2>2, <2>3 DEF NewConn, Conn, EState, Causes
<1>3. IdleApp \in [pc : {"idle", "tested", "flagged"},
                   op : {"none", "shutdown", "shutdown_cb", "force_close"},
                   loaded : SUBSET EFlag]
  BY DEF IdleApp
<1>4. TypeOK
  <2>1. << >> \in Seq(Timers) /\ << >> \in Seq(1 .. MaxSends) /\ 0 \in 0 .. MaxReads
    OBVIOUS
  <2>2. conn.wheel \subseteq conn.timers
    BY DEF Init, NewConn
  <2>3. limits \subseteq Timers
    BY DEF Init, Timers
  <2> QED
    BY <1>2, <1>3, <2>1, <2>2, <2>3 DEF Init, TypeOK
<1> QED
  BY <1>4 DEF Init, IInv, EraseOnce, NewConn

LEMMA EstablishedStep ==
  ASSUME IInv, connect_establised
  PROVE  StepTo(conn')
<1>1. conn.state = "Connecting"
  <2>1. CASE conn.state # "Connecting"
    <3>1. /\ conn.queue["io"] \in Seq(Task) /\ conn.queue["io"] # << >>
          /\ Head(conn.queue["io"]).kind = "connect_establised"
          /\ No(conn.queue["io"], "connect_establised")
      BY <2>1 DEF IInv, Good, Conn, Loops, connect_establised, Runs
    <3>2. Len(conn.queue["io"]) \in Nat \ {0} /\ Head(conn.queue["io"]) = conn.queue["io"][1]
      BY <3>1, EmptySeq
    <3> QED
      BY <3>1, <3>2 DEF No
  <2> QED
    BY <2>1
<1> DEFINE p == [pop(conn, "io") EXCEPT !.state = "Established"]
           q == start_read_timer(p)
<1>2. /\ conn = NewConn /\ registered /\ base \in Loops /\ limits \subseteq Timers
      /\ conn \in Conn
  BY <1>1 DEF IInv, TypeOK
<1>3. /\ conn.queue["base"] = << >> /\ conn.queue["io"] = <<task("connect_establised")>>
      /\ conn.wheel = {} /\ conn.timers = {} /\ ~conn.is_cleaned
  BY <1>1, OnlyEstablish
<1>4. /\ p \in Conn /\ p.state = "Established" /\ ~p.is_cleaned
      /\ p.wheel \subseteq p.timers /\ p.accepted = conn.accepted
      /\ p.queue["base"] = << >> /\ p.queue["io"] = << >>
  <2>1. Tail(conn.queue["io"]) = << >> /\ << >> \in Seq(Task)
    BY <1>3
  <2> QED
    BY <1>2, <1>3, <2>1 DEF pop, Conn, EState, Loops
<1> HIDE DEF p
<1>5. Good(p)
  <2>1. \A k : No(<< >>, k) /\ Once(<< >>, k)
    BY DEF No, Once
  <2> QED
    BY <1>2, <1>4, <2>1 DEF Good, Loops
<1>6. Advances(conn, p)
  BY <1>1, <1>3, <1>4, Stages DEF Advances
<1>7. Good(q) /\ Advances(p, q)
  <2>1. /\ q \in Conn /\ q.queue = p.queue /\ q.wheel \subseteq q.timers
        /\ q.state = p.state /\ q.is_cleaned = p.is_cleaned /\ q.accepted = p.accepted
    BY <1>4 DEF start_read_timer, Conn, Timers
  <2> HIDE DEF q
  <2> QED
    BY <1>5, <2>1, SameQueueGood
<1> HIDE DEF q
<1>8. Good(async_read(q)) /\ Advances(q, async_read(q))
  BY <1>7, AsyncReadGood
<1>9. PICK r \in ConnectReactions : conn' = callback(async_read(q), r)
  BY DEF connect_establised, p, q
<1>10. Good(conn') /\ Advances(async_read(q), conn')
  BY <1>8, <1>9, CallbackGood
<1>11. Advances(conn, conn')
  <2>1. /\ conn \in Conn /\ p \in Conn /\ q \in Conn /\ async_read(q) \in Conn
        /\ conn' \in Conn
    BY <1>2, <1>4, <1>7, <1>8, <1>10 DEF Good
  <2>2. Advances(conn, q)
    BY <1>6, <1>7, <2>1, AdvancesTransitive
  <2>3. Advances(conn, async_read(q))
    BY <1>8, <2>1, <2>2, AdvancesTransitive
  <2> QED
    BY <1>9, <1>10, <2>1, <2>3, AdvancesTransitive
<1> QED
  BY <1>10, <1>11 DEF StepTo

\* A handler of the io loop other than connect_establised has taken its task
\* from an established connection.
LEMMA Popped ==
  ASSUME IInv, NEW k, k # "connect_establised", Runs("io", k)
  PROVE  /\ Good(conn) /\ StepTo(pop(conn, "io"))
         /\ Head(conn.queue["io"]) \in Task
<1>1. conn.queue["io"] # << >> /\ Head(conn.queue["io"]).kind = k
  BY DEF Runs
<1>2. conn.state # "Connecting"
  BY <1>1, OnlyEstablish
<1>3. Good(conn)
  BY <1>2 DEF IInv
<1>4. conn.queue["io"] \in Seq(Task)
  BY <1>3 DEF Good, Conn, Loops
<1> QED
  BY <1>1, <1>3, <1>4, PopGood, TailTask DEF StepTo

\* One function after another.
LEMMA Chain ==
  ASSUME IInv, NEW d, StepTo(d), NEW e, Good(e), Advances(d, e)
  PROVE  StepTo(e)
<1>1. conn \in Conn /\ d \in Conn /\ e \in Conn
  BY DEF IInv, TypeOK, StepTo, Good
<1> QED
  BY <1>1, AdvancesTransitive DEF StepTo

LEMMA HandlerStep ==
  ASSUME IInv,
         \/ run_send \/ run_shutdown \/ run_force_close \/ handle_read \/ handle_write
         \/ run_connect_destroy \/ run_dangling
  PROVE  StepTo(conn')
<1> DEFINE p == pop(conn, "io")
<1>1. ASSUME run_send PROVE StepTo(conn')
  <2>1. StepTo(p) /\ Head(conn.queue["io"]) \in Task /\ Good(conn)
    BY <1>1, Popped DEF run_send
  <2>2. Head(conn.queue["io"]).msg \in 1 .. MaxSends
    BY <1>1, <2>1 DEF run_send, Runs, Task
  <2>3. /\ Good(send_in_loop(p, Head(conn.queue["io"]).msg))
        /\ Advances(p, send_in_loop(p, Head(conn.queue["io"]).msg))
    BY <2>1, <2>2, SendInLoopGood DEF StepTo
  <2> QED
    BY <1>1, <2>1, <2>3, Chain DEF run_send
<1>2. ASSUME run_shutdown PROVE StepTo(conn')
  <2>1. StepTo(p)
    BY <1>2, Popped DEF run_shutdown
  <2>2. Good(shutdown_in_loop(p)) /\ Advances(p, shutdown_in_loop(p))
    BY <2>1, ShutdownInLoopGood DEF StepTo
  <2> QED
    BY <1>2, <2>1, <2>2, Chain DEF run_shutdown
<1>3. ASSUME run_force_close PROVE StepTo(conn')
  <2>1. StepTo(p)
    BY <1>3, Popped DEF run_force_close
  <2>2. Good(force_close_in_loop(p)) /\ Advances(p, force_close_in_loop(p))
    BY <2>1, ConnectCleanupGood DEF StepTo, force_close_in_loop, Causes
  <2> QED
    BY <1>3, <2>1, <2>2, Chain DEF run_force_close
<1>4. ASSUME handle_read PROVE StepTo(conn')
  <2>1. StepTo(p)
    BY <1>4, Popped DEF handle_read
  <2>2. /\ Good(connect_cleanup(p, "socket_err"))
        /\ Advances(p, connect_cleanup(p, "socket_err"))
        /\ Good(async_read(p)) /\ Advances(p, async_read(p))
    BY <2>1, ConnectCleanupGood, AsyncReadGood DEF StepTo, Causes
  <2>3. ASSUME NEW r \in ReadReactions
        PROVE  StepTo(async_read(callback(p, r)))
    <3>1. Good(callback(p, r)) /\ Advances(p, callback(p, r))
      BY <2>1, CallbackGood DEF StepTo
    <3>2. StepTo(callback(p, r))
      BY <2>1, <3>1, Chain
    <3>3. /\ Good(async_read(callback(p, r)))
          /\ Advances(callback(p, r), async_read(callback(p, r)))
      BY <3>1, AsyncReadGood
    <3> QED
      BY <3>2, <3>3, Chain
  <2>4. StepTo(connect_cleanup(p, "socket_err")) /\ StepTo(async_read(p))
    BY <2>1, <2>2, Chain
  <2> QED
    BY <1>4, <2>3, <2>4 DEF handle_read
<1>5. ASSUME handle_write PROVE StepTo(conn')
  <2>1. StepTo(p) /\ Good(conn)
    BY <1>5, Popped DEF handle_write
  <2>2. CASE conn.output_buffer = << >>
    <3>1. Advances(conn, conn)
      BY <2>1, SameQueueGood DEF Good
    <3>2. conn' = conn
      BY <1>5, <2>2 DEF handle_write
    <3> QED
      BY <2>1, <3>1, <3>2 DEF StepTo
  <2>3. CASE conn.output_buffer # << >>
    <3> DEFINE d == [p EXCEPT !.output_buffer = Tail(@)]
    <3>1. StepTo(d)
      <4>1. p.output_buffer = conn.output_buffer /\ p \in Conn /\ conn \in Conn
        BY <2>1 DEF StepTo, Good, pop, Conn
      <4>2. Tail(p.output_buffer) \in Seq(1 .. MaxSends)
        BY <2>3, <4>1, FrontMessage DEF Conn
      <4>3. /\ d \in Conn /\ d.queue = p.queue /\ d.wheel \subseteq d.timers
            /\ d.state = p.state /\ d.is_cleaned = p.is_cleaned /\ d.accepted = p.accepted
        BY <2>1, <4>1, <4>2 DEF StepTo, Good, Conn
      <4> HIDE DEF d
      <4>4. Good(d) /\ Advances(p, d)
        BY <2>1, <4>3, SameQueueGood DEF StepTo
      <4> QED
        BY <2>1, <4>4, Chain
    <3> HIDE DEF d
    <3>2. StepTo(connect_cleanup(d, "socket_err"))
      BY <3>1, ConnectCleanupGood, Chain DEF StepTo, Causes
    <3>3. ASSUME NEW r \in WriteReactions
          PROVE  StepTo(write_next(callback(d, r)))
      <4>1. Good(callback(d, r)) /\ Advances(d, callback(d, r))
        BY <3>1, CallbackGood DEF StepTo
      <4>2. StepTo(callback(d, r))
        BY <3>1, <4>1, Chain
      <4>3. /\ Good(write_next(callback(d, r)))
            /\ Advances(callback(d, r), write_next(callback(d, r)))
        BY <4>1, WriteNextGood
      <4> QED
        BY <4>2, <4>3, Chain
    <3>4. \/ conn' = connect_cleanup(d, "socket_err")
          \/ \E r \in WriteReactions : conn' = write_next(callback(d, r))
      BY <1>5, <2>3 DEF handle_write, d
    <3> QED
      BY <3>2, <3>3, <3>4
  <2> QED
    BY <2>2, <2>3
<1>6. ASSUME run_connect_destroy PROVE StepTo(conn')
  <2>1. StepTo(p) /\ Good(conn)
    BY <1>6, Popped DEF run_connect_destroy
  <2>2. ~registered
    <3>1. conn.queue["io"] \in Seq(Task) /\ conn.queue["io"] # << >>
          /\ Head(conn.queue["io"]).kind = "connect_destroy"
      BY <1>6, <2>1 DEF run_connect_destroy, Runs, Good, Conn, Loops
    <3>2. Len(conn.queue["io"]) \in Nat \ {0} /\ Head(conn.queue["io"]) = conn.queue["io"][1]
      BY <3>1, EmptySeq
    <3>3. ~No(conn.queue["io"], "connect_destroy")
      BY <3>1, <3>2 DEF No
    <3> QED
      BY <2>1, <3>3 DEF Good
  <2>3. Good(connect_destroy(p)) /\ Advances(p, connect_destroy(p))
    BY <2>1, <2>2, ConnectDestroyGood DEF StepTo
  <2> QED
    BY <1>6, <2>1, <2>3, Chain DEF run_connect_destroy
<1>7. ASSUME run_dangling PROVE StepTo(conn')
  <2>1. PICK k \in RawKinds : Runs("io", k)
    BY <1>7 DEF run_dangling
  <2>2. Good(conn)
    BY <2>1, Popped DEF RawKinds
  <2>3. Advances(conn, conn) /\ conn' = conn
    BY <1>7, <2>2, SameQueueGood DEF Good, run_dangling
  <2> QED
    BY <2>2, <2>3 DEF StepTo
<1> QED
  BY <1>1, <1>2, <1>3, <1>4, <1>5, <1>6, <1>7

\* Timers, completions and the application thread meet an established connection.
LEMMA OutsideStep ==
  ASSUME IInv, turn_wheel \/ handle_timeout \/ Peer \/ App
  PROVE  StepTo(conn')
<1>1. ASSUME turn_wheel PROVE StepTo(conn')
  <2>1. PICK s \in {<<"read">>, <<"write">>, <<"read", "write">>, <<"write", "read">>} :
           /\ \A i \in 1 .. Len(s) : s[i] \in conn.wheel
           /\ conn' = [conn EXCEPT !.wheel = {t \in @ : \A i \in 1 .. Len(s) : s[i] # t}]
    BY <1>1 DEF turn_wheel
  <2>2. conn.wheel # {}
    BY <2>1
  <2>3. Good(conn)
    BY <2>2, OnlyEstablish DEF IInv
  <2>4. /\ conn' \in Conn /\ conn'.queue = conn.queue /\ conn'.wheel \subseteq conn'.timers
        /\ conn'.state = conn.state /\ conn'.is_cleaned = conn.is_cleaned
        /\ conn'.accepted = conn.accepted
    BY <2>1, <2>3 DEF Good, Conn
  <2> QED
    BY <2>3, <2>4, SameQueueGood DEF StepTo
<1>2. ASSUME handle_timeout PROVE StepTo(conn')
  <2>1. Good(conn) /\ Advances(conn, conn)
    <3>1. Good(conn)
      BY <1>2 DEF handle_timeout, IInv
    <3> QED
      BY <3>1, SameQueueGood DEF Good
  <2>2. Good(connect_cleanup(conn, "timeout")) /\ Advances(conn, connect_cleanup(conn, "timeout"))
    BY <2>1, ConnectCleanupGood DEF Causes
  <2> QED
    BY <1>2, <2>1, <2>2 DEF handle_timeout, StepTo
<1>3. ASSUME NEW ec \in {"ok", "eof", "error"}, read_completes(ec) PROVE StepTo(conn')
  <2> DEFINE d == [conn EXCEPT !.reading = FALSE]
  <2>1. Good(conn)
    BY <1>3, OnlyEstablish DEF read_completes, IInv
  <2>2. /\ d \in Conn /\ d.queue = conn.queue /\ d.wheel \subseteq d.timers
        /\ d.state = conn.state /\ d.is_cleaned = conn.is_cleaned /\ d.accepted = conn.accepted
    BY <2>1 DEF Good, Conn
  <2> HIDE DEF d
  <2>3. StepTo(d)
    BY <2>1, <2>2, SameQueueGood DEF StepTo
  <2>4. completion("handle_read", ec) \in Task /\ completion("handle_read", ec).kind \in RawKinds
    BY TaskTypes DEF RawKinds
  <2>5. /\ Good(run_in_loop(d, "io", completion("handle_read", ec)))
        /\ Advances(d, run_in_loop(d, "io", completion("handle_read", ec)))
    BY <2>3, <2>4, RunInLoopGood DEF StepTo
  <2> QED
    BY <1>3, <2>3, <2>5, Chain DEF read_completes, d
<1>4. ASSUME NEW ec \in {"ok", "error"}, write_completes(ec) PROVE StepTo(conn')
  <2> DEFINE d == [conn EXCEPT !.writing = Tail(@)]
  <2>1. Good(conn) /\ conn.writing # << >>
    BY <1>4, OnlyEstablish DEF write_completes, IInv
  <2>2. conn \in Conn /\ Tail(conn.writing) \in Seq(1 .. MaxSends)
    BY <2>1, FrontMessage DEF Good, Conn
  <2>3. /\ d \in Conn /\ d.queue = conn.queue /\ d.wheel \subseteq d.timers
        /\ d.state = conn.state /\ d.is_cleaned = conn.is_cleaned /\ d.accepted = conn.accepted
    BY <2>1, <2>2 DEF Good, Conn
  <2> HIDE DEF d
  <2>4. StepTo(d)
    BY <2>1, <2>3, SameQueueGood DEF StepTo
  <2>5. completion("handle_write", ec) \in Task /\ completion("handle_write", ec).kind \in RawKinds
    BY TaskTypes DEF RawKinds
  <2>6. /\ Good(run_in_loop(d, "io", completion("handle_write", ec)))
        /\ Advances(d, run_in_loop(d, "io", completion("handle_write", ec)))
    BY <2>4, <2>5, RunInLoopGood DEF StepTo
  <2> QED
    BY <1>4, <2>4, <2>6, Chain DEF write_completes, d
<1>5. ASSUME app_send PROVE StepTo(conn')
  <2> DEFINE d == [conn EXCEPT !.sends = @ + 1]
             t == [kind |-> "send", msg |-> conn.sends + 1, ec |-> "ok"]
  <2>1. Good(conn)
    BY <1>5 DEF app_send, IInv
  <2>2. conn \in Conn /\ conn.sends + 1 \in 0 .. MaxSends /\ conn.sends + 1 \in 1 .. MaxSends
    <3>1. conn \in Conn /\ conn.sends \in 0 .. MaxSends
      BY <2>1 DEF Good, Conn
    <3> QED
      BY <1>5, <3>1 DEF app_send
  <2>3. /\ d \in Conn /\ d.queue = conn.queue /\ d.wheel \subseteq d.timers
        /\ d.state = conn.state /\ d.is_cleaned = conn.is_cleaned /\ d.accepted = conn.accepted
    BY <2>1, <2>2 DEF Good, Conn
  <2>4. t \in Task /\ t.kind \in RawKinds
    BY <2>2 DEF Task, RawKinds
  <2>5. conn' = run_in_loop(d, "io", t)
    BY <1>5 DEF app_send
  <2> HIDE DEF d, t
  <2>6. StepTo(d)
    BY <2>1, <2>3, SameQueueGood DEF StepTo
  <2>7. Good(run_in_loop(d, "io", t)) /\ Advances(d, run_in_loop(d, "io", t))
    BY <2>4, <2>6, RunInLoopGood DEF StepTo
  <2> QED
    BY <2>5, <2>6, <2>7, Chain
<1>6. ASSUME NEW op \in {"shutdown", "shutdown_cb", "force_close"},
             app_test_flag(op) \/ app_drop
      PROVE  StepTo(conn')
  <2>1. Good(conn) /\ conn' = conn
    BY <1>6 DEF app_test_flag, app_drop, IInv
  <2>2. Advances(conn, conn)
    BY <2>1, SameQueueGood DEF Good
  <2> QED
    BY <2>1, <2>2 DEF StepTo
<1>7. ASSUME app_set_flag PROVE StepTo(conn')
  <2>1. Good(conn)
    BY <1>7 DEF app_set_flag, IInv, IdleApp
  <2>2. PICK f \in raced_flags : conn' = [conn EXCEPT !.flag = f]
    BY <1>7 DEF app_set_flag
  <2>3. f \subseteq EFlag
    <3>1. shutdown_flags(app.op) \subseteq EFlag
      BY DEF shutdown_flags, EFlag
    <3>2. conn.flag \subseteq EFlag /\ app.loaded \subseteq EFlag
      BY DEF IInv, TypeOK, Conn
    <3> QED
      BY <3>1, <3>2 DEF raced_flags
  <2>4. /\ conn' \in Conn /\ conn'.queue = conn.queue /\ conn'.wheel \subseteq conn'.timers
        /\ conn'.state = conn.state /\ conn'.is_cleaned = conn.is_cleaned
        /\ conn'.accepted = conn.accepted
    BY <2>1, <2>2, <2>3 DEF Good, Conn
  <2> QED
    BY <2>1, <2>4, SameQueueGood DEF StepTo
<1>8. ASSUME app_post PROVE StepTo(conn')
  <2> DEFINE d == conn
             t == task(IF app.op = "force_close" THEN "force_close" ELSE "shutdown")
  <2>1. Good(conn)
    BY <1>8 DEF app_post, IInv, IdleApp
  <2>2. /\ d \in Conn /\ d.queue = conn.queue /\ d.wheel \subseteq d.timers
        /\ d.state = conn.state /\ d.is_cleaned = conn.is_cleaned /\ d.accepted = conn.accepted
    BY <2>1 DEF Good, Conn
  <2>3. t \in Task /\ t.kind \in RawKinds
    BY TaskTypes DEF RawKinds
  <2>4. conn' = run_in_loop(d, "io", t)
    BY <1>8 DEF app_post
  <2> HIDE DEF d, t
  <2>5. StepTo(d)
    BY <2>1, <2>2, SameQueueGood DEF StepTo
  <2>6. Good(run_in_loop(d, "io", t)) /\ Advances(d, run_in_loop(d, "io", t))
    BY <2>3, <2>5, RunInLoopGood DEF StepTo
  <2> QED
    BY <2>4, <2>5, <2>6, Chain
<1> QED
  BY <1>1, <1>2, <1>3, <1>4, <1>5, <1>6, <1>7, <1>8 DEF Peer, App

\* The server erases the connection: the token is spent, connect_destroy posted.
LEMMA RemoveStep ==
  ASSUME IInv, remove_connection
  PROVE  /\ IInv' /\ Advances(conn, conn')
         /\ registered /\ conn.is_cleaned /\ conn'.is_cleaned /\ conn'.state = conn.state
<1> DEFINE p == pop(conn, base)
           t == task("connect_destroy")
<1>1. /\ base \in Loops /\ conn.queue[base] # << >>
      /\ Head(conn.queue[base]).kind = "remove_connection"
      /\ registered' = FALSE /\ conn' = run_in_loop(p, "io", t)
      /\ UNCHANGED <<base, limits, held, app, expired, wire, reads>>
  BY DEF remove_connection, Runs, IInv, TypeOK
<1>2. Good(conn)
  <2>1. conn.state # "Connecting"
    BY <1>1, OnlyEstablish DEF Loops
  <2> QED
    BY <2>1 DEF IInv
<1>3. /\ conn \in Conn /\ conn.queue \in [Loops -> Seq(Task)]
      /\ conn.queue["io"] \in Seq(Task) /\ conn.queue["base"] \in Seq(Task)
  BY <1>2 DEF Good, Conn, Loops
<1>4. registered /\ conn.is_cleaned
  <2>1. Len(conn.queue[base]) \in Nat \ {0} /\ Head(conn.queue[base]) = conn.queue[base][1]
    BY <1>1, <1>3, EmptySeq DEF Loops
  <2>2. ~No(conn.queue[base], "remove_connection")
    BY <1>1, <2>1 DEF No
  <2> QED
    BY <1>2, <2>2 DEF Good
<1>5. /\ Tail(conn.queue[base]) \in Seq(Task)
      /\ No(Tail(conn.queue[base]), "remove_connection")
      /\ No(conn.queue["io"], "connect_establised") /\ base = "io" =>
           No(Tail(conn.queue["io"]), "connect_establised")
  BY <1>1, <1>2, <1>3, TailTask DEF Good, Loops
<1>6. /\ p \in Conn /\ p.queue[base] = Tail(conn.queue[base])
      /\ base # "io" => p.queue["io"] = conn.queue["io"]
      /\ p.state = conn.state /\ p.is_cleaned /\ p.accepted = conn.accepted
      /\ p.wheel = conn.wheel /\ p.timers = conn.timers
  BY <1>1, <1>3, <1>4, <1>5 DEF pop, Conn, Loops
<1>7. t \in Task /\ t.kind = "connect_destroy"
  BY TaskTypes DEF RefKinds
<1> HIDE DEF p, t
<1>8. No(p.queue["io"], "connect_establised") /\ p.queue["io"] \in Seq(Task)
  <2>1. No(p.queue["io"], "connect_establised")
    BY <1>1, <1>2, <1>5, <1>6 DEF Good, Loops
  <2> QED
    BY <1>6, <2>1 DEF Conn, Loops
<1>9. /\ Append(p.queue["io"], t) \in Seq(Task)
      /\ No(Append(p.queue["io"], t), "connect_establised")
      /\ No(p.queue["io"], "remove_connection") =>
           No(Append(p.queue["io"], t), "remove_connection")
  <2>1. t.kind # "connect_establised" /\ t.kind # "remove_connection"
    BY <1>7
  <2> QED
    BY <1>7, <1>8, <2>1, AppendTask
<1>10. /\ conn' \in Conn /\ conn'.queue["io"] = Append(p.queue["io"], t)
       /\ base # "io" => conn'.queue[base] = p.queue[base]
       /\ conn'.state = conn.state /\ conn'.is_cleaned /\ conn'.accepted = conn.accepted
       /\ conn'.wheel = conn.wheel /\ conn'.timers = conn.timers
  BY <1>1, <1>6, <1>9 DEF run_in_loop, Conn, Loops
<1>11. No(conn'.queue[base], "remove_connection")
  <2>1. CASE base = "io"
    BY <1>5, <1>6, <1>9, <1>10, <2>1
  <2>2. CASE base # "io"
    BY <1>5, <1>6, <1>10, <2>2
  <2> QED
    BY <2>1, <2>2
<1>12. Once(conn'.queue[base], "remove_connection")
  BY <1>11 DEF No, Once
<1>13. Good(conn)'
  BY <1>1, <1>2, <1>4, <1>9, <1>10, <1>11, <1>12 DEF Good
<1>14. EraseOnce' /\ failed' = failed
  BY <1>4 DEF remove_connection, IInv, EraseOnce
<1>15. TypeOK'
  BY <1>1, <1>10, <1>14 DEF IInv, TypeOK
<1>16. Advances(conn, conn')
  BY <1>3, <1>10, Stages DEF Advances, Conn
<1> QED
  BY <1>4, <1>10, <1>13, <1>14, <1>15, <1>16 DEF IInv, Good

\* The parts of the state around the connection keep their types.
LEMMA NextIInv ==
  ASSUME IInv, [Next]_vars
  PROVE  IInv' /\ Advances(conn, conn')
<1> USE DEF IInv
<1>1. TypeOK /\ EraseOnce
  OBVIOUS
<1>2. CASE UNCHANGED vars
  <2>1. IInv'
    BY <1>2 DEF vars, TypeOK, EraseOnce, Good
  <2>2. Advances(conn, conn')
    BY <1>1, <1>2, Stages DEF vars, Advances, TypeOK, Conn
  <2> QED
    BY <2>1, <2>2
<1>3. CASE remove_connection
  BY <1>3, RemoveStep
<1>4. CASE IoLoop
  <2>1. StepTo(conn')
    BY <1>4, EstablishedStep, HandlerStep DEF IoLoop
  <2>2. /\ UNCHANGED <<base, limits, registered, app, expired, wire, reads>>
        /\ held' \in BOOLEAN
        /\ failed' \subseteq failed \cup {"front", "dangling"}
    BY <1>1, <1>4 DEF IoLoop, connect_establised, run_send, run_shutdown, run_force_close,
       handle_read, handle_write, run_connect_destroy, run_dangling, TypeOK
  <2>3. IInv'
    BY <1>1, <2>1, <2>2, StepKeeps DEF TypeOK, EraseOnce
  <2> QED
    BY <2>1, <2>3 DEF StepTo
<1>5. CASE turn_wheel \/ handle_timeout
  <2>1. StepTo(conn')
    BY <1>5, OutsideStep
  <2>2. /\ UNCHANGED <<base, limits, registered, held, app, wire, reads>>
        /\ failed' \subseteq failed \cup {"timer", "dangling"}
    BY <1>5 DEF turn_wheel, handle_timeout
  <2>3. expired' \in Seq(Timers)
    <3>1. CASE turn_wheel
      BY <3>1 DEF turn_wheel, Timers
    <3>2. CASE handle_timeout
      BY <1>1, <3>2, HeadTailProperties DEF handle_timeout, TypeOK
    <3> QED
      BY <1>5, <3>1, <3>2
  <2>4. IInv'
    BY <1>1, <2>1, <2>2, <2>3, StepKeeps DEF TypeOK, EraseOnce
  <2> QED
    BY <2>1, <2>4 DEF StepTo
<1>6. CASE Peer
  <2>1. StepTo(conn')
    BY <1>6, OutsideStep
  <2>2. UNCHANGED <<base, limits, registered, held, app, expired, failed>>
    BY <1>6 DEF Peer, read_completes, write_completes
  <2>3. reads' \in 0 .. MaxReads
    BY <1>1, <1>6 DEF Peer, read_completes, write_completes, TypeOK
  <2>4. wire' \in Seq(1 .. MaxSends)
    <3>1. CASE wire' = wire
      BY <1>1, <3>1 DEF TypeOK
    <3>2. CASE conn.writing # << >> /\ wire' = Append(wire, Head(conn.writing))
      <4>1. conn.writing \in Seq(1 .. MaxSends) /\ wire \in Seq(1 .. MaxSends)
        BY <1>1 DEF TypeOK, Conn
      <4>2. Head(conn.writing) \in 1 .. MaxSends
        BY <3>2, <4>1, FrontMessage
      <4> QED
        BY <3>2, <4>1, <4>2, AppendFront
    <3> QED
      BY <1>6, <3>1, <3>2 DEF Peer, read_completes, write_completes
  <2>5. IInv'
    BY <1>1, <2>1, <2>2, <2>3, <2>4, StepKeeps DEF TypeOK, EraseOnce
  <2> QED
    BY <2>1, <2>5 DEF StepTo
<1>7. CASE App
  <2>1. StepTo(conn')
    BY <1>7, OutsideStep
  <2>2. /\ UNCHANGED <<base, limits, registered, expired, wire, reads, failed>>
        /\ held' \in BOOLEAN
    BY <1>1, <1>7 DEF App, app_send, app_test_flag, app_set_flag, app_post, app_drop, TypeOK
  <2>3. app' \in [pc : {"idle", "tested", "flagged"},
                  op : {"none", "shutdown", "shutdown_cb", "force_close"},
                  loaded : SUBSET EFlag]
    <3>1. conn.flag \subseteq EFlag
      BY <1>1 DEF TypeOK, Conn
    <3>2. CASE app_send \/ app_drop
      BY <1>1, <3>2 DEF app_send, app_drop, TypeOK
    <3>3. ASSUME NEW op \in {"shutdown", "shutdown_cb", "force_close"}, app_test_flag(op)
          PROVE  app' \in [pc : {"idle", "tested", "flagged"},
                           op : {"none", "shutdown", "shutdown_cb", "force_close"},
                           loaded : SUBSET EFlag]
      BY <3>1, <3>3 DEF app_test_flag
    <3>4. CASE app_set_flag
      BY <1>1, <3>4 DEF app_set_flag, TypeOK
    <3>5. CASE app_post
      BY <3>5 DEF app_post, IdleApp
    <3> QED
      BY <1>7, <3>2, <3>3, <3>4, <3>5 DEF App
  <2>4. IInv'
    BY <1>1, <2>1, <2>2, <2>3, StepKeeps DEF TypeOK, EraseOnce
  <2> QED
    BY <2>1, <2>4 DEF StepTo
<1>8. CASE Finished
  BY <1>2, <1>8 DEF Finished
<1> QED
  BY <1>2, <1>3, <1>4, <1>5, <1>6, <1>7, <1>8 DEF Next

LEMMA Invariance == Spec => []IInv
<1>1. Init => IInv
  BY InitIInv
<1>2. IInv /\ [Next]_vars => IInv'
  BY NextIInv
<1> QED
  BY <1>1, <1>2, PTL DEF Spec

-----------------------------------------------------------------------------
(* What follows *)

\* Type correctness, and no timer armed without its handle.
THEOREM TypeCorrect == Spec => []TypeOK
<1>1. IInv => TypeOK
  BY DEF IInv
<1> QED
  BY <1>1, Invariance, PTL

\* The assertion n == 1 of tcp_server::remove_connection never fails.
THEOREM ErasedOnce == Spec => []EraseOnce
<1>1. IInv => EraseOnce
  BY DEF IInv
<1> QED
  BY <1>1, Invariance, PTL

\* The server lets go only of a connection that was cleaned up, and the
\* connection is destroyed only after that.
THEOREM DestroyedLast == Spec => []RegisteredUntilCleaned
<1>1. IInv => RegisteredUntilCleaned
  <2> SUFFICES ASSUME IInv PROVE RegisteredUntilCleaned
    OBVIOUS
  <2>1. CASE conn.state = "Connecting"
    BY <2>1 DEF IInv, RegisteredUntilCleaned
  <2>2. CASE conn.state # "Connecting"
    BY <2>2 DEF IInv, RegisteredUntilCleaned, Good
  <2> QED
    BY <2>1, <2>2
<1> QED
  BY <1>1, Invariance, PTL

\* The life of a connection goes one way.
THEOREM LifeGoesOneWay == Spec => OneWay
<1>1. IInv /\ [Next]_vars => [Stage(conn'.state) >= Stage(conn.state)]_vars
  BY NextIInv DEF Advances
<1> QED
  BY <1>1, Invariance, PTL DEF Spec, OneWay

\* A connection that was cleaned up takes no more data.
THEOREM NothingAfterCleanup == Spec => CleanedTakesNothing
<1>1. IInv /\ [Next]_vars => [conn.is_cleaned => conn'.accepted = conn.accepted]_vars
  BY NextIInv DEF Advances
<1> QED
  BY <1>1, Invariance, PTL DEF Spec, CleanedTakesNothing

\* Only remove_connection changes what the server holds.
LEMMA OnlyRemoveErases ==
  ASSUME [Next]_vars, ~remove_connection
  PROVE  UNCHANGED registered
<1>1. ASSUME IoLoop PROVE UNCHANGED registered
  BY <1>1 DEF IoLoop, connect_establised, run_send, run_shutdown, run_force_close,
     handle_read, handle_write, run_connect_destroy, run_dangling
<1>2. ASSUME turn_wheel \/ handle_timeout PROVE UNCHANGED registered
  BY <1>2 DEF turn_wheel, handle_timeout
<1>3. ASSUME Peer \/ App PROVE UNCHANGED registered
  BY <1>3 DEF Peer, App, read_completes, write_completes, app_send, app_test_flag,
     app_set_flag, app_post, app_drop
<1> QED
  BY <1>1, <1>2, <1>3 DEF Next, Finished, vars

\* How state_, is_cleaned_ and connections_ go together.
Agree ==
  /\ conn.state \in EState
  /\ registered => conn.state # "Closed"
  /\ ~registered => conn.is_cleaned /\ conn.state \in {"WaitClose", "Closed"}
  /\ conn.is_cleaned => conn.state # "Connecting"

LEMMA InvariantAgrees == IInv => Agree
<1> SUFFICES ASSUME IInv PROVE Agree
  OBVIOUS
<1>1. conn.state \in EState /\ registered \in BOOLEAN
  BY DEF IInv, TypeOK, Conn
<1>2. CASE conn.state = "Connecting"
  BY <1>1, <1>2 DEF IInv, NewConn, Agree
<1>3. CASE conn.state # "Connecting"
  BY <1>1, <1>3 DEF IInv, Good, Agree
<1> QED
  BY <1>2, <1>3

\* The connection follows ConnectionLife.
THEOREM KeepsLife == Spec => LifeSpec
<1>1. Init => server_view = "connecting"
  BY DEF Init, NewConn, server_view
<1>2. IInv' => Agree'
  BY InvariantAgrees, PTL
<1>3. ASSUME IInv, [Next]_vars
      PROVE  Life!Next \/ UNCHANGED server_view
  <2>1. /\ IInv' /\ Advances(conn, conn')
        /\ remove_connection => /\ registered /\ conn.is_cleaned /\ conn'.is_cleaned
                                /\ conn'.state = conn.state
    BY <1>3, NextIInv, RemoveStep
  <2>2. /\ conn.state \in EState
        /\ registered => conn.state # "Closed"
        /\ ~registered => conn.is_cleaned /\ conn.state \in {"WaitClose", "Closed"}
        /\ conn.is_cleaned => conn.state # "Connecting"
    BY <1>3, InvariantAgrees DEF Agree
  <2>3. /\ conn'.state \in EState
        /\ registered' => conn'.state # "Closed"
        /\ ~registered' => conn'.is_cleaned /\ conn'.state \in {"WaitClose", "Closed"}
        /\ conn'.is_cleaned => conn'.state # "Connecting"
    BY <1>2, <2>1 DEF Agree
  <2>4. CASE remove_connection
    <3>1. registered' = FALSE
      BY <2>4 DEF remove_connection
    <3>2. server_view = "cleaned" /\ server_view' = "removed"
      BY <2>1, <2>2, <2>4, <3>1 DEF server_view
    <3> QED
      BY <3>2 DEF Life!Next, Life!Remove
  <2>5. CASE ~remove_connection /\ registered
    <3>1. registered'
      BY <1>3, <2>5, OnlyRemoveErases
    <3>2. /\ conn.is_cleaned => conn'.is_cleaned
          /\ conn.state # "Connecting" => conn'.state # "Connecting"
      BY <2>1, <2>2, <2>3, Stages DEF Advances, EState
    <3> QED
      BY <2>2, <2>3, <2>5, <3>1, <3>2
      DEF server_view, EState, Life!Next, Life!Establish, Life!Cleanup
  <2>6. CASE ~remove_connection /\ ~registered
    <3>1. ~registered'
      BY <1>3, <2>6, OnlyRemoveErases
    <3>2. conn.state = "Closed" => conn'.state = "Closed"
      BY <2>1, <2>3, Stages DEF Advances, EState
    <3> QED
      BY <2>2, <2>3, <2>6, <3>1, <3>2 DEF server_view, Life!Next, Life!Destroy
  <2> QED
    BY <2>4, <2>5, <2>6
<1> QED
  BY <1>1, <1>3, Invariance, PTL DEF Spec, LifeSpec, Life!AcceptedSpec

-----------------------------------------------------------------------------
(* One write at a time *)

\* At most one write is in flight, for the buffer at the front of the list.
WGood(d) ==
  /\ Len(d.writing) <= 1
  /\ Once(d.queue["io"], "handle_write")
  /\ d.writing # << >> => /\ No(d.queue["io"], "handle_write")
                          /\ d.output_buffer # << >>
                          /\ Head(d.output_buffer) = d.writing[1]
  /\ ~No(d.queue["io"], "handle_write") => d.output_buffer # << >>

\* No write is in flight: so it is inside handle_write.
WFree(d) == d.writing = << >> /\ No(d.queue["io"], "handle_write")

LEMMA FreeIsGood == ASSUME NEW d, WFree(d) PROVE WGood(d)
<1>1. Len(<< >>) = 0
  BY EmptySeq
<1> QED
  BY <1>1 DEF WFree, WGood, No, Once

\* A change that starts, ends and queues no write.
LEMMA KeepsWrites ==
  ASSUME NEW d, NEW e, e.writing = d.writing, e.output_buffer = d.output_buffer,
         No(d.queue["io"], "handle_write") => No(e.queue["io"], "handle_write"),
         Once(d.queue["io"], "handle_write") => Once(e.queue["io"], "handle_write")
  PROVE  /\ WFree(d) => WFree(e)
         /\ WGood(d) /\ (No(e.queue["io"], "handle_write") => No(d.queue["io"], "handle_write"))
              => WGood(e)
BY DEF WFree, WGood

LEMMA RunInLoopWrites ==
  ASSUME NEW d \in Conn, NEW l \in Loops, NEW t \in Task, t.kind # "handle_write"
  PROVE  /\ WFree(d) => WFree(run_in_loop(d, l, t))
         /\ WGood(d) => WGood(run_in_loop(d, l, t))
<1> DEFINE e == run_in_loop(d, l, t)
<1>1. /\ d.queue["io"] \in Seq(Task) /\ e.writing = d.writing
      /\ e.output_buffer = d.output_buffer
      /\ l = "io" => e.queue["io"] = Append(d.queue["io"], t)
      /\ l # "io" => e.queue["io"] = d.queue["io"]
  BY DEF run_in_loop, Conn, Loops
<1> HIDE DEF e
<1>2. /\ No(d.queue["io"], "handle_write") <=> No(e.queue["io"], "handle_write")
      /\ Once(d.queue["io"], "handle_write") => Once(e.queue["io"], "handle_write")
  <2>1. CASE l = "io"
    <3>1. e.queue["io"] = Append(d.queue["io"], t) /\ d.queue["io"] \in Seq(Task)
      BY <1>1, <2>1
    <3>2. /\ No(Append(d.queue["io"], t), "handle_write") <=>
               No(d.queue["io"], "handle_write") /\ t.kind # "handle_write"
          /\ Once(d.queue["io"], "handle_write") /\ t.kind # "handle_write" =>
               Once(Append(d.queue["io"], t), "handle_write")
      BY <3>1, AppendTask
    <3> QED
      BY <3>1, <3>2
  <2>2. CASE l # "io"
    BY <1>1, <2>2
  <2> QED
    BY <2>1, <2>2
<1>3. (WFree(d) => WFree(e)) /\ (WGood(d) => WGood(e))
  BY <1>1, <1>2, KeepsWrites
<1> QED
  BY <1>3 DEF e

LEMMA AsyncReadWrites ==
  ASSUME NEW d \in Conn, WGood(d)
  PROVE  WGood(async_read(d))
<1>1. CASE d.open
  <2> DEFINE e == [d EXCEPT !.reading = TRUE]
  <2>1. e.writing = d.writing /\ e.output_buffer = d.output_buffer /\ e.queue = d.queue
    BY DEF Conn
  <2> HIDE DEF e
  <2>2. WGood(e)
    BY <2>1, KeepsWrites
  <2> QED
    BY <1>1, <2>2 DEF async_read, e
<1>2. CASE ~d.open
  BY <1>2, TaskTypes, RunInLoopWrites DEF async_read, RawKinds, Loops
<1> QED
  BY <1>1, <1>2

\* async_write is called with no write in flight.
LEMMA AsyncWriteWrites ==
  ASSUME NEW d, Good(d), WFree(d), d.output_buffer # << >>
  PROVE  WGood(async_write(d))
<1> DEFINE w == write_timer(d)
<1>1. /\ w \in Conn /\ w.output_buffer = d.output_buffer /\ w.writing = << >>
      /\ w.queue = d.queue /\ w.queue["io"] \in Seq(Task)
      /\ No(w.queue["io"], "handle_write")
      /\ d.output_buffer \in Seq(1 .. MaxSends)
  BY WriteTimerGood DEF Good, WFree, Conn, Loops
<1> HIDE DEF w
<1>2. CASE d.open
  <2> DEFINE e == [w EXCEPT !.writing = Append(@, Head(d.output_buffer))]
  <2>1. /\ e.writing = Append(<< >>, Head(d.output_buffer))
        /\ e.output_buffer = d.output_buffer /\ e.queue = w.queue
    BY <1>1 DEF Conn
  <2> HIDE DEF e
  <2>2. Head(d.output_buffer) \in 1 .. MaxSends
    BY <1>1, FrontMessage
  <2>3. << >> \in Seq(1 .. MaxSends) /\ Len(<< >>) = 0
    BY EmptySeq
  <2>4. Len(e.writing) = 1 /\ e.writing[1] = Head(d.output_buffer)
    BY <2>1, <2>2, <2>3, AppendProperties
  <2>5. WGood(e)
    BY <1>1, <2>1, <2>4 DEF WGood, No, Once
  <2> QED
    BY <1>2, <2>5 DEF async_write, w, e
<1>3. CASE ~d.open
  <2> DEFINE t == completion("handle_write", "error")
             e == run_in_loop(w, "io", t)
  <2>1. t \in Task
    BY TaskTypes DEF RawKinds
  <2> HIDE DEF t
  <2>2. /\ e.writing = << >> /\ e.output_buffer = d.output_buffer
        /\ e.queue["io"] = Append(w.queue["io"], t)
    BY <1>1 DEF run_in_loop, Conn, Loops
  <2> HIDE DEF e
  <2>3. Once(e.queue["io"], "handle_write")
    BY <1>1, <2>1, <2>2, AppendTask
  <2>4. Len(e.writing) = 0
    BY <2>2, EmptySeq
  <2>5. WGood(e)
    BY <2>2, <2>3, <2>4 DEF WGood
  <2> QED
    BY <1>3, <2>5 DEF async_write, w, e, t
<1> QED
  BY <1>2, <1>3

LEMMA CancelTimerWrites ==
  ASSUME NEW d, Good(d), NEW t
  PROVE  /\ WFree(d) => WFree(cancel_timer(d, t))
         /\ WGood(d) => WGood(cancel_timer(d, t))
<1> DEFINE e == cancel_timer(d, t)
<1>1. e.writing = d.writing /\ e.output_buffer = d.output_buffer /\ e.queue = d.queue
  BY CancelTimerFields DEF Good
<1> HIDE DEF e
<1> QED
  BY <1>1, KeepsWrites DEF e

\* Cancelling turns a write in flight into its queued completion.
LEMMA CancelOperationsWrites ==
  ASSUME NEW d \in Conn
  PROVE  /\ WFree(d) => WFree(cancel_operations(d))
         /\ WGood(d) => WGood(cancel_operations(d))
<1> DEFINE e == cancel_operations(d)
           a == aborted_operations(d)
<1>1. /\ d.queue["io"] \in Seq(Task) /\ a \in Seq(Task)
      /\ d.writing = << >> => No(a, "handle_write")
      /\ Len(d.writing) <= 1 => Once(a, "handle_write")
  <2>1. d.queue["io"] \in Seq(Task)
    BY DEF Conn, Loops
  <2> HIDE DEF a
  <2>2. "handle_write" # "handle_read"
    OBVIOUS
  <2> QED
    BY <2>1, <2>2, Aborted DEF a
<1>2. /\ e.writing = << >> /\ e.output_buffer = d.output_buffer
      /\ e.queue["io"] = d.queue["io"] \o a /\ Len(e.writing) = 0
  BY EmptySeq DEF cancel_operations, Conn, Loops
<1> HIDE DEF a, e
<1>3. No(e.queue["io"], "handle_write") <=>
        No(d.queue["io"], "handle_write") /\ No(a, "handle_write")
  BY <1>1, <1>2, ConcatTask
<1>4. WFree(d) => WFree(e)
  BY <1>1, <1>2, <1>3 DEF WFree
<1>5. ASSUME WGood(d) PROVE WGood(e)
  <2>1. CASE d.writing = << >>
    <3>1. Once(e.queue["io"], "handle_write")
      BY <1>1, <1>2, <1>5, <2>1, ConcatTask DEF WGood
    <3> QED
      BY <1>1, <1>2, <1>3, <1>5, <2>1, <3>1 DEF WGood
  <2>2. CASE d.writing # << >>
    <3>1. Once(e.queue["io"], "handle_write")
      BY <1>1, <1>2, <1>5, <2>2, ConcatTask DEF WGood
    <3> QED
      BY <1>2, <1>5, <2>2, <3>1 DEF WGood
  <2> QED
    BY <2>1, <2>2
<1> QED
  BY <1>4, <1>5 DEF e

LEMMA ConnectCleanupWrites ==
  ASSUME NEW d, Good(d), NEW why \in Causes
  PROVE  /\ WFree(d) => WFree(connect_cleanup(d, why))
         /\ WGood(d) => WGood(connect_cleanup(d, why))
<1> DEFINE s == [d EXCEPT !.state = "WaitClose"]
           m == [s EXCEPT !.is_cleaned = TRUE, !.cause = why]
           b == cancel_timer(cancel_timer(m, "read"), "write")
           c == cancel_operations(b)
<1>1. /\ s.writing = d.writing /\ s.output_buffer = d.output_buffer /\ s.queue = d.queue
      /\ m \in Conn /\ m.wheel \subseteq m.timers
      /\ m.writing = d.writing /\ m.output_buffer = d.output_buffer /\ m.queue = d.queue
  BY DEF Good, Conn, EState
<1> HIDE DEF m
<1>2. /\ b \in Conn /\ b.writing = d.writing /\ b.output_buffer = d.output_buffer
      /\ b.queue = d.queue
  BY <1>1, CancelTimerFields
<1> HIDE DEF s, b
<1>3. (WFree(d) => WFree(s) /\ WFree(b)) /\ (WGood(d) => WGood(s) /\ WGood(b))
  BY <1>1, <1>2, KeepsWrites
<1>4. (WFree(d) => WFree(c)) /\ (WGood(d) => WGood(c))
  BY <1>2, <1>3, CancelOperationsWrites
<1>5. c \in Conn
  <2>1. b.queue["io"] \in Seq(Task) /\ aborted_operations(b) \in Seq(Task)
    BY <1>2, Aborted DEF Conn, Loops
  <2>2. b.queue["io"] \o aborted_operations(b) \in Seq(Task)
    BY <2>1, ConcatTask
  <2> QED
    BY <1>2, <2>2, EmptySeq DEF cancel_operations, Conn, Loops
<1> HIDE DEF c
<1>6. /\ task("remove_connection") \in Task
      /\ task("remove_connection").kind # "handle_write" /\ base \in Loops
  BY TaskTypes DEF RefKinds, Good
<1>7. /\ WFree(d) => WFree(run_in_loop(c, base, task("remove_connection")))
      /\ WGood(d) => WGood(run_in_loop(c, base, task("remove_connection")))
  BY <1>4, <1>5, <1>6, RunInLoopWrites
<1> QED
  BY <1>3, <1>7 DEF connect_cleanup, cleanup_once, s, m, b, c

LEMMA ShutdownInLoopWrites ==
  ASSUME NEW d, Good(d)
  PROVE  /\ WFree(d) => WFree(shutdown_in_loop(d))
         /\ WGood(d) => WGood(shutdown_in_loop(d))
<1> DEFINE e == [d EXCEPT !.state = "WaitClose"]
<1>1. CASE d.state \in {"Closed", "WaitClose"}
  BY <1>1 DEF shutdown_in_loop
<1>2. CASE d.state \notin {"Closed", "WaitClose"}
  <2>1. /\ e \in Conn /\ e.queue = d.queue /\ e.wheel \subseteq e.timers
        /\ e.state = "WaitClose" /\ e.is_cleaned = d.is_cleaned /\ e.accepted = d.accepted
        /\ e.writing = d.writing /\ e.output_buffer = d.output_buffer
    BY DEF Good, Conn, EState
  <2> HIDE DEF e
  <2>2. Good(e)
    BY <1>2, <2>1 DEF Good
  <2>3. (WFree(d) => WFree(e)) /\ (WGood(d) => WGood(e))
    BY <2>1, KeepsWrites
  <2>4. /\ WFree(e) => WFree(connect_cleanup(e, "shutdown"))
        /\ WGood(e) => WGood(connect_cleanup(e, "shutdown"))
    BY <2>2, ConnectCleanupWrites DEF Causes
  <2> QED
    BY <1>2, <2>3, <2>4 DEF shutdown_in_loop, e
<1> QED
  BY <1>1, <1>2

\* An empty list means no write in flight; a list that is not keeps its front.
LEMMA SendInLoopWrites ==
  ASSUME NEW d, Good(d), WGood(d), NEW m \in 1 .. MaxSends
  PROVE  WGood(send_in_loop(d, m))
<1> DEFINE e == [d EXCEPT !.output_buffer = Append(@, m), !.accepted = Append(@, m)]
<1>1. CASE d.state \in {"Closed", "WaitClose"}
  BY <1>1 DEF send_in_loop
<1>2. CASE d.state \notin {"Closed", "WaitClose"}
  <2>1. d \in Conn /\ d.output_buffer \in Seq(1 .. MaxSends) /\ d.accepted \in Seq(1 .. MaxSends)
    BY DEF Good, Conn
  <2>2. /\ Append(d.output_buffer, m) \in Seq(1 .. MaxSends)
        /\ Append(d.output_buffer, m) # << >>
        /\ d.output_buffer # << >> =>
             Head(Append(d.output_buffer, m)) = Head(d.output_buffer)
    BY <2>1, AppendFront
  <2>3. Append(d.accepted, m) \in Seq(1 .. MaxSends)
    BY <2>1, AppendFront
  <2>4. /\ e \in Conn /\ e.queue = d.queue /\ e.wheel \subseteq e.timers
        /\ e.state = d.state /\ e.is_cleaned = d.is_cleaned /\ e.writing = d.writing
        /\ e.output_buffer = Append(d.output_buffer, m)
    BY <2>1, <2>2, <2>3 DEF Good, Conn
  <2> HIDE DEF e
  <2>5. Good(e)
    BY <1>2, <2>4 DEF Good
  <2>6. CASE d.output_buffer = << >>
    <3>1. WFree(d)
      BY <2>6 DEF WGood, WFree
    <3>2. WFree(e)
      BY <2>4, <3>1 DEF WFree
    <3>3. WGood(async_write(e))
      BY <2>2, <2>4, <2>5, <3>2, AsyncWriteWrites
    <3> QED
      BY <1>2, <2>6, <3>3 DEF send_in_loop, e
  <2>7. CASE d.output_buffer # << >>
    <3>1. WGood(e)
      BY <2>2, <2>4, <2>7 DEF WGood
    <3> QED
      BY <1>2, <2>7, <3>1 DEF send_in_loop, e
  <2> QED
    BY <2>6, <2>7
<1> QED
  BY <1>1, <1>2

LEMMA CallWrites ==
  ASSUME NEW d, Good(d), NEW op \in Calls
  PROVE  /\ WGood(d) => WGood(call(d, op))
         /\ WFree(d) /\ op # "send" => WFree(call(d, op))
<1>1. CASE op = "none"
  BY <1>1 DEF call
<1>2. CASE op = "send"
  <2>1. CASE d.sends < MaxSends
    <3> DEFINE e == [d EXCEPT !.sends = @ + 1]
    <3>1. d.sends \in 0 .. MaxSends /\ d \in Conn
      BY DEF Good, Conn
    <3>2. d.sends + 1 \in 0 .. MaxSends /\ d.sends + 1 \in 1 .. MaxSends
      BY <2>1, <3>1
    <3>3. /\ e \in Conn /\ e.queue = d.queue /\ e.wheel \subseteq e.timers
          /\ e.state = d.state /\ e.is_cleaned = d.is_cleaned /\ e.accepted = d.accepted
          /\ e.writing = d.writing /\ e.output_buffer = d.output_buffer
      BY <3>1, <3>2 DEF Good, Conn
    <3> HIDE DEF e
    <3>4. Good(e) /\ (WGood(d) => WGood(e))
      BY <3>3, SameQueueGood, KeepsWrites
    <3>5. WGood(d) => WGood(send_in_loop(e, d.sends + 1))
      BY <3>2, <3>4, SendInLoopWrites
    <3> QED
      BY <1>2, <2>1, <3>5 DEF call, send, e
  <2>2. CASE ~(d.sends < MaxSends)
    BY <1>2, <2>2 DEF call, send
  <2> QED
    BY <2>1, <2>2
<1>3. CASE op \in {"shutdown", "shutdown_cb"}
  <2>1. CASE may_shutdown(d.flag)
    <3> DEFINE e == [d EXCEPT !.flag = @ \cup shutdown_flags(op)]
    <3>1. /\ e \in Conn /\ e.queue = d.queue /\ e.wheel \subseteq e.timers
          /\ e.state = d.state /\ e.is_cleaned = d.is_cleaned /\ e.accepted = d.accepted
          /\ e.writing = d.writing /\ e.output_buffer = d.output_buffer
      BY <1>3 DEF Good, Conn, shutdown_flags, EFlag
    <3> HIDE DEF e
    <3>2. Good(e) /\ (WGood(d) => WGood(e)) /\ (WFree(d) => WFree(e))
      BY <3>1, SameQueueGood, KeepsWrites
    <3>3. /\ WGood(d) => WGood(shutdown_in_loop(e))
          /\ WFree(d) => WFree(shutdown_in_loop(e))
      BY <3>2, ShutdownInLoopWrites
    <3> QED
      BY <1>3, <2>1, <3>3 DEF call, shutdown, e
  <2>2. CASE ~may_shutdown(d.flag)
    BY <1>3, <2>2 DEF call, shutdown
  <2> QED
    BY <2>1, <2>2
<1>4. CASE op = "force_close"
  <2>1. CASE may_force_close(d.flag)
    <3> DEFINE e == [d EXCEPT !.flag = @ \cup shutdown_flags("force_close")]
    <3>1. /\ e \in Conn /\ e.queue = d.queue /\ e.wheel \subseteq e.timers
          /\ e.state = d.state /\ e.is_cleaned = d.is_cleaned /\ e.accepted = d.accepted
          /\ e.writing = d.writing /\ e.output_buffer = d.output_buffer
      BY DEF Good, Conn, shutdown_flags, EFlag
    <3> HIDE DEF e
    <3>2. Good(e) /\ (WGood(d) => WGood(e)) /\ (WFree(d) => WFree(e))
      BY <3>1, SameQueueGood, KeepsWrites
    <3>3. /\ WGood(d) => WGood(force_close_in_loop(e))
          /\ WFree(d) => WFree(force_close_in_loop(e))
      BY <3>2, ConnectCleanupWrites DEF force_close_in_loop, Causes
    <3> QED
      BY <1>4, <2>1, <3>3 DEF call, force_close, e
  <2>2. CASE ~may_force_close(d.flag)
    BY <1>4, <2>2 DEF call, force_close
  <2> QED
    BY <2>1, <2>2
<1> QED
  BY <1>1, <1>2, <1>3, <1>4 DEF Calls

LEMMA CallbackWrites ==
  ASSUME NEW d, Good(d), NEW r \in Calls \X Calls
  PROVE  /\ WGood(d) => WGood(callback(d, r))
         /\ WFree(d) /\ r[1] # "send" /\ r[2] # "send" => WFree(callback(d, r))
<1> DEFINE e == call(d, r[1])
<1>1. /\ Good(e) /\ (WGood(d) => WGood(e))
      /\ WFree(d) /\ r[1] # "send" => WFree(e)
  BY CallGood, CallWrites
<1> HIDE DEF e
<1>2. /\ WGood(e) => WGood(call(e, r[2]))
      /\ WFree(e) /\ r[2] # "send" => WFree(call(e, r[2]))
  BY <1>1, CallWrites
<1> QED
  BY <1>1, <1>2 DEF callback, e

LEMMA WriteNextWrites ==
  ASSUME NEW d, Good(d), WFree(d)
  PROVE  WGood(write_next(d))
<1>1. WGood(d) /\ WGood(cancel_timer(d, "write")) /\ WGood(connect_cleanup(d, "shutdown"))
  BY FreeIsGood, CancelTimerWrites, ConnectCleanupWrites DEF Causes
<1>2. d.output_buffer # << >> => WGood(async_write(d))
  BY AsyncWriteWrites
<1> QED
  BY <1>1, <1>2 DEF write_next

\* write_complete_cb_ does not call send(): the assumption under which there is
\* one write at a time.
NoSendInWriteCb == \A r \in WriteReactions : r[1] # "send" /\ r[2] # "send"

\* Taking any task but a completed write's.
LEMMA PopWrites ==
  ASSUME NEW d \in Conn, WGood(d), NEW l \in Loops, d.queue[l] # << >>
  PROVE  /\ Head(d.queue[l]).kind # "handle_write" => WGood(pop(d, l))
         /\ l = "io" /\ Head(d.queue[l]).kind = "handle_write" =>
              WFree(pop(d, l)) /\ d.output_buffer # << >>
<1> DEFINE e == pop(d, l)
           s == d.queue["io"]
<1>1. /\ s \in Seq(Task) /\ e.writing = d.writing
      /\ e.output_buffer = d.output_buffer
      /\ l = "io" => e.queue["io"] = Tail(s) /\ s # << >>
      /\ l # "io" => e.queue["io"] = s
  BY DEF pop, Conn, Loops
<1> HIDE DEF e
<1>2. CASE l # "io"
  <2>1. WGood(e)
    BY <1>1, <1>2, KeepsWrites
  <2> QED
    BY <1>2, <2>1 DEF e
<1>3. CASE l = "io"
  <2>1. /\ s # << >> /\ e.queue["io"] = Tail(s) /\ s \in Seq(Task)
        /\ Len(s) \in Nat \ {0} /\ Head(s) = s[1]
    BY <1>1, <1>3, EmptySeq
  <2> HIDE DEF s
  <2>2. /\ No(s, "handle_write") => No(Tail(s), "handle_write")
        /\ Once(s, "handle_write") => Once(Tail(s), "handle_write")
        /\ Once(s, "handle_write") /\ Head(s).kind = "handle_write" =>
             No(Tail(s), "handle_write")
        /\ Head(s).kind = "handle_write" => ~No(s, "handle_write")
    BY <2>1, TailTask DEF No
  <2>3. Head(s).kind # "handle_write" => WGood(e)
    <3>1. No(Tail(s), "handle_write") \/ ~No(s, "handle_write")
      BY <2>2
    <3> QED
      BY <1>1, <2>1, <2>2, <3>1 DEF WGood, s
  <2>4. Head(s).kind = "handle_write" => WFree(e) /\ d.output_buffer # << >>
    BY <1>1, <2>1, <2>2 DEF WGood, WFree, s
  <2> QED
    BY <1>3, <2>3, <2>4 DEF e, s
<1> QED
  BY <1>2, <1>3

LEMMA InitWrites == Init => WGood(conn)
<1> SUFFICES ASSUME Init PROVE WGood(conn)
  OBVIOUS
<1>1. /\ conn.writing = << >>
      /\ conn.queue["io"] = <<task("connect_establised")>>
  BY DEF Init, NewConn, Loops
<1>2. No(conn.queue["io"], "handle_write")
  BY <1>1 DEF No, task
<1> QED
  BY <1>1, <1>2, FreeIsGood DEF WFree

\* The first handler: connect_establised.
LEMMA EstablishedWrites ==
  ASSUME IInv, WGood(conn), connect_establised
  PROVE  WGood(conn')
<1> DEFINE p == pop(conn, "io")
           s == [p EXCEPT !.state = "Established"]
           q == start_read_timer(s)
<1>1. /\ conn \in Conn /\ conn.queue["io"] # << >>
      /\ Head(conn.queue["io"]).kind = "connect_establised"
      /\ base \in Loops /\ limits \subseteq Timers
  BY DEF IInv, TypeOK, connect_establised, Runs
<1>2. conn.state = "Connecting"
  <2>1. CASE conn.state # "Connecting"
    <3>1. conn.queue["io"] \in Seq(Task) /\ No(conn.queue["io"], "connect_establised")
      BY <2>1 DEF IInv, Good, Conn, Loops
    <3>2. Len(conn.queue["io"]) \in Nat \ {0} /\ Head(conn.queue["io"]) = conn.queue["io"][1]
      BY <1>1, <3>1, EmptySeq
    <3> QED
      BY <1>1, <3>1, <3>2 DEF No
  <2> QED
    BY <2>1
<1>3. WGood(p)
  BY <1>1, PopWrites DEF Loops
<1>4. /\ q \in Conn /\ q.writing = p.writing /\ q.output_buffer = p.output_buffer
      /\ q.queue = p.queue /\ q.wheel \subseteq q.timers /\ q.state = "Established"
      /\ ~q.is_cleaned /\ q.queue["io"] = << >> /\ q.queue["base"] = << >>
  <2>1. /\ conn.queue["base"] = << >> /\ conn.queue["io"] = <<task("connect_establised")>>
        /\ conn.wheel = {} /\ conn.timers = {} /\ ~conn.is_cleaned
    BY <1>2, OnlyEstablish
  <2>2. Tail(conn.queue["io"]) = << >> /\ << >> \in Seq(Task)
    BY <2>1
  <2>3. /\ s \in Conn /\ s.writing = p.writing /\ s.output_buffer = p.output_buffer
        /\ s.queue = p.queue /\ s.wheel \subseteq s.timers /\ s.state = "Established"
        /\ ~s.is_cleaned /\ s.queue["io"] = << >> /\ s.queue["base"] = << >>
    BY <1>1, <2>1, <2>2 DEF pop, Conn, EState, Loops
  <2> HIDE DEF s, p
  <2> QED
    BY <2>3 DEF start_read_timer, Conn, Timers
<1> HIDE DEF q, p, s
<1>5. Good(q)
  <2>1. \A k : No(<< >>, k) /\ Once(<< >>, k)
    BY DEF No, Once
  <2>2. registered
    BY <1>2 DEF IInv
  <2> QED
    BY <1>1, <1>4, <2>1, <2>2 DEF Good, Loops
<1>6. WGood(q)
  BY <1>3, <1>4, KeepsWrites
<1>7. Good(async_read(q)) /\ WGood(async_read(q))
  BY <1>4, <1>5, <1>6, AsyncReadGood, AsyncReadWrites
<1>8. PICK r \in ConnectReactions : conn' = callback(async_read(q), r)
  BY DEF connect_establised, p, s, q
<1> QED
  BY <1>7, <1>8, CallbackWrites

LEMMA HandlerWrites ==
  ASSUME IInv, WGood(conn), NoSendInWriteCb,
         \/ run_send \/ run_shutdown \/ run_force_close \/ handle_read \/ handle_write
         \/ run_connect_destroy \/ run_dangling
  PROVE  WGood(conn')
<1> DEFINE p == pop(conn, "io")
<1>0. ASSUME NEW k \in (RefKinds \cup RawKinds) \ {"connect_establised", "handle_write"},
             Runs("io", k)
      PROVE  Good(p) /\ WGood(p)
  <2>1. Good(p) /\ Good(conn)
    BY <1>0, Popped DEF StepTo
  <2>2. conn \in Conn /\ conn.queue["io"] # << >> /\ Head(conn.queue["io"]).kind = k
    BY <1>0, <2>1 DEF Runs, Good
  <2> QED
    BY <2>1, <2>2, PopWrites DEF Loops
<1>1. ASSUME run_send PROVE WGood(conn')
  <2>1. Good(p) /\ WGood(p)
    BY <1>0, <1>1 DEF run_send, RawKinds
  <2>2. Head(conn.queue["io"]) \in Task
    BY <1>1, Popped DEF run_send
  <2>3. Head(conn.queue["io"]).msg \in 1 .. MaxSends
    BY <1>1, <2>2 DEF run_send, Runs, Task
  <2> QED
    BY <1>1, <2>1, <2>3, SendInLoopWrites DEF run_send
<1>2. ASSUME run_shutdown PROVE WGood(conn')
  <2>1. Good(p) /\ WGood(p)
    BY <1>0, <1>2 DEF run_shutdown, RawKinds
  <2> QED
    BY <1>2, <2>1, ShutdownInLoopWrites DEF run_shutdown
<1>3. ASSUME run_force_close PROVE WGood(conn')
  <2>1. Good(p) /\ WGood(p)
    BY <1>0, <1>3 DEF run_force_close, RawKinds
  <2> QED
    BY <1>3, <2>1, ConnectCleanupWrites DEF run_force_close, force_close_in_loop, Causes
<1>4. ASSUME handle_read PROVE WGood(conn')
  <2>1. Good(p) /\ WGood(p)
    BY <1>0, <1>4 DEF handle_read, RawKinds
  <2>2. WGood(connect_cleanup(p, "socket_err")) /\ WGood(async_read(p))
    BY <2>1, ConnectCleanupWrites, AsyncReadWrites DEF Causes, Good
  <2>3. ASSUME NEW r \in ReadReactions
        PROVE  WGood(async_read(callback(p, r)))
    <3>1. Good(callback(p, r)) /\ WGood(callback(p, r))
      BY <2>1, CallbackGood, CallbackWrites
    <3> QED
      BY <3>1, AsyncReadWrites DEF Good
  <2> QED
    BY <1>4, <2>2, <2>3 DEF handle_read
<1>5. ASSUME handle_write PROVE WGood(conn')
  <2>1. Good(p) /\ Good(conn)
    BY <1>5, Popped DEF handle_write, StepTo
  <2>2. WFree(p) /\ conn.output_buffer # << >>
    <3>1. conn \in Conn /\ conn.queue["io"] # << >>
          /\ Head(conn.queue["io"]).kind = "handle_write"
      BY <1>5, <2>1 DEF handle_write, Runs, Good
    <3> QED
      BY <3>1, PopWrites DEF Loops
  <2> DEFINE d == [p EXCEPT !.output_buffer = Tail(@)]
  <2>3. Good(d) /\ WFree(d)
    <3>1. p.output_buffer = conn.output_buffer /\ p \in Conn /\ conn \in Conn
      BY <2>1 DEF Good, pop, Conn
    <3> HIDE DEF p
    <3>2. Tail(p.output_buffer) \in Seq(1 .. MaxSends)
      BY <2>2, <3>1, FrontMessage DEF Conn
    <3>3. /\ d \in Conn /\ d.queue = p.queue /\ d.wheel \subseteq d.timers
          /\ d.state = p.state /\ d.is_cleaned = p.is_cleaned /\ d.accepted = p.accepted
          /\ d.writing = p.writing
      BY <2>1, <3>1, <3>2 DEF Good, Conn
    <3> HIDE DEF d
    <3>4. Good(d)
      BY <2>1, <3>3, SameQueueGood
    <3> QED
      BY <2>2, <3>3, <3>4 DEF WFree
  <2>4. \/ conn' = connect_cleanup(d, "socket_err")
        \/ \E r \in WriteReactions : conn' = write_next(callback(d, r))
    BY <1>5, <2>2 DEF handle_write
  <2> HIDE DEF d
  <2>5. WGood(connect_cleanup(d, "socket_err"))
    BY <2>3, FreeIsGood, ConnectCleanupWrites DEF Causes
  <2>6. ASSUME NEW r \in WriteReactions
        PROVE  WGood(write_next(callback(d, r)))
    <3>1. r \in Calls \X Calls /\ r[1] # "send" /\ r[2] # "send"
      BY DEF NoSendInWriteCb
    <3>2. Good(callback(d, r)) /\ WFree(callback(d, r))
      BY <2>3, <3>1, CallbackGood, CallbackWrites
    <3> QED
      BY <3>2, WriteNextWrites
  <2> QED
    BY <2>4, <2>5, <2>6
<1>6. ASSUME run_connect_destroy PROVE WGood(conn')
  <2>1. Good(p) /\ WGood(p)
    BY <1>0, <1>6 DEF run_connect_destroy, RefKinds
  <2> DEFINE e == [p EXCEPT !.state = "Closed", !.open = FALSE]
  <2>2. /\ e \in Conn /\ e.queue = p.queue /\ e.writing = p.writing
        /\ e.output_buffer = p.output_buffer
    BY <2>1 DEF Good, Conn, EState
  <2> HIDE DEF e
  <2>3. WGood(e)
    BY <2>1, <2>2, KeepsWrites
  <2>4. WGood(cancel_operations(e))
    BY <2>2, <2>3, CancelOperationsWrites
  <2>5. WGood(connect_destroy(p))
    BY <2>1, <2>4 DEF connect_destroy, e
  <2> QED
    BY <1>6, <2>5 DEF run_connect_destroy
<1>7. ASSUME run_dangling PROVE WGood(conn')
  BY <1>7 DEF run_dangling
<1> QED
  BY <1>1, <1>2, <1>3, <1>4, <1>5, <1>6, <1>7

\* Timers and the application thread leave the writes alone; a completed write
\* becomes its queued handler.
LEMMA OutsideWrites ==
  ASSUME IInv, WGood(conn), turn_wheel \/ handle_timeout \/ Peer \/ App
  PROVE  WGood(conn')
<1>0. conn \in Conn /\ conn.queue["io"] \in Seq(Task) /\ conn.writing \in Seq(1 .. MaxSends)
  BY DEF IInv, TypeOK, Conn, Loops
<1>1. ASSUME conn'.writing = conn.writing, conn'.output_buffer = conn.output_buffer,
             conn'.queue = conn.queue
      PROVE  WGood(conn')
  BY <1>1, KeepsWrites
<1>2. ASSUME NEW d \in Conn, d.writing = conn.writing, d.queue = conn.queue,
             d.output_buffer = conn.output_buffer,
             NEW t \in Task, t.kind # "handle_write", conn' = run_in_loop(d, "io", t)
      PROVE  WGood(conn')
  <2>1. WGood(d)
    BY <1>2, KeepsWrites
  <2> QED
    BY <1>2, <2>1, RunInLoopWrites DEF Loops
<1>3. ASSUME handle_timeout PROVE WGood(conn')
  <2>1. Good(conn)
    BY <1>3 DEF handle_timeout, IInv
  <2>2. WGood(connect_cleanup(conn, "timeout"))
    BY <2>1, ConnectCleanupWrites DEF Causes
  <2> QED
    BY <1>3, <2>2 DEF handle_timeout
<1>4. ASSUME NEW ec \in {"ok", "eof", "error"}, read_completes(ec) PROVE WGood(conn')
  <2> DEFINE d == [conn EXCEPT !.reading = FALSE]
             t == completion("handle_read", ec)
  <2>1. /\ d \in Conn /\ d.writing = conn.writing /\ d.queue = conn.queue
        /\ d.output_buffer = conn.output_buffer
    BY <1>0 DEF Conn
  <2>2. t \in Task /\ t.kind # "handle_write" /\ conn' = run_in_loop(d, "io", t)
    BY <1>4, TaskTypes DEF RawKinds, read_completes
  <2> HIDE DEF d, t
  <2> QED
    BY <1>2, <2>1, <2>2
<1>5. ASSUME NEW ec \in {"ok", "error"}, write_completes(ec) PROVE WGood(conn')
  <2> DEFINE t == completion("handle_write", ec)
             s == conn.queue["io"]
  <2>1. t \in Task
    BY TaskTypes DEF RawKinds
  <2>2. /\ conn.writing # << >> /\ No(s, "handle_write") /\ conn.output_buffer # << >>
        /\ Len(conn.writing) <= 1
    BY <1>5 DEF write_completes, WGood
  <2> HIDE DEF t
  <2>3. /\ conn'.writing = Tail(conn.writing) /\ conn'.output_buffer = conn.output_buffer
        /\ conn'.queue["io"] = Append(s, t)
    BY <1>0, <1>5 DEF write_completes, run_in_loop, Conn, Loops, t
  <2>4. Len(Tail(conn.writing)) = 0
    <3> DEFINE w == conn.writing
    <3>1. w \in Seq(1 .. MaxSends) /\ w # << >> /\ Len(w) <= 1
      BY <1>0, <2>2
    <3> HIDE DEF w
    <3>2. Len(w) \in Nat \ {0}
      BY <3>1, EmptySeq, LenProperties
    <3>3. Len(Tail(w)) = Len(w) - 1
      BY <3>1, HeadTailProperties
    <3>4. Len(Tail(w)) = 0
      BY <3>1, <3>2, <3>3
    <3> QED
      BY <3>4 DEF w
  <2>5. Tail(conn.writing) = << >>
    <3>1. Tail(conn.writing) \in Seq(1 .. MaxSends)
      BY <1>0, <2>2, FrontMessage
    <3> QED
      BY <2>4, <3>1, EmptySeq
  <2>6. Once(Append(s, t), "handle_write")
    BY <1>0, <2>1, <2>2, AppendTask
  <2> QED
    BY <2>2, <2>3, <2>4, <2>5, <2>6 DEF WGood
<1>6. ASSUME app_send PROVE WGood(conn')
  <2> DEFINE d == [conn EXCEPT !.sends = @ + 1]
             t == [kind |-> "send", msg |-> conn.sends + 1, ec |-> "ok"]
  <2>1. conn.sends + 1 \in 0 .. MaxSends /\ conn.sends + 1 \in 1 .. MaxSends
    <3>1. conn.sends \in 0 .. MaxSends
      BY <1>0 DEF Conn
    <3> QED
      BY <1>6, <3>1 DEF app_send
  <2>2. /\ d \in Conn /\ d.writing = conn.writing /\ d.queue = conn.queue
        /\ d.output_buffer = conn.output_buffer
    BY <1>0, <2>1 DEF Conn
  <2>3. t \in Task /\ t.kind # "handle_write"
    BY <2>1 DEF Task
  <2>4. conn' = run_in_loop(d, "io", t)
    BY <1>6 DEF app_send
  <2> HIDE DEF d, t
  <2> QED
    BY <1>2, <2>2, <2>3, <2>4
<1>7. ASSUME app_post PROVE WGood(conn')
  <2> DEFINE d == conn
             t == task(IF app.op = "force_close" THEN "force_close" ELSE "shutdown")
  <2>1. /\ d \in Conn /\ d.writing = conn.writing /\ d.queue = conn.queue
        /\ d.output_buffer = conn.output_buffer
    BY <1>0 DEF Conn
  <2>2. t \in Task /\ t.kind # "handle_write"
    BY TaskTypes DEF RawKinds
  <2>3. conn' = run_in_loop(d, "io", t)
    BY <1>7 DEF app_post
  <2> HIDE DEF d, t
  <2> QED
    BY <1>2, <2>1, <2>2, <2>3
<1>8. CASE turn_wheel
  BY <1>0, <1>1, <1>8 DEF turn_wheel, Conn
<1>9. CASE \/ app_set_flag \/ app_drop
           \/ \E op \in {"shutdown", "shutdown_cb", "force_close"} : app_test_flag(op)
  BY <1>0, <1>1, <1>9 DEF app_test_flag, app_drop, app_set_flag, Conn
<1> QED
  BY <1>3, <1>4, <1>5, <1>6, <1>7, <1>8, <1>9 DEF Peer, App

LEMMA RemoveWrites ==
  ASSUME IInv, WGood(conn), remove_connection
  PROVE  WGood(conn')
<1> DEFINE p == pop(conn, base)
           t == task("connect_destroy")
<1>1. /\ conn \in Conn /\ base \in Loops /\ conn.queue[base] # << >>
      /\ Head(conn.queue[base]).kind = "remove_connection"
      /\ conn' = run_in_loop(p, "io", t)
  BY DEF remove_connection, Runs, IInv, TypeOK
<1>2. t \in Task /\ t.kind # "handle_write"
  BY TaskTypes DEF RefKinds
<1>3. WGood(p)
  BY <1>1, PopWrites
<1>4. p \in Conn
  <2>1. conn.queue \in [Loops -> Seq(Task)] /\ conn.queue[base] \in Seq(Task)
    BY <1>1 DEF Conn
  <2>2. Tail(conn.queue[base]) \in Seq(Task)
    BY <1>1, <2>1, TailTask
  <2> QED
    BY <1>1, <2>1, <2>2 DEF pop, Conn
<1> HIDE DEF p, t
<1> QED
  BY <1>1, <1>2, <1>3, <1>4, RunInLoopWrites DEF Loops

\* The queued handlers counted by OneWrite, as a set of positions.
LEMMA WritesOneByOne ==
  ASSUME WGood(conn)
  PROVE  OneWrite
<1>1. No(conn.queue["io"], "handle_write") <=> Queued("handle_write") = {}
  BY DEF No, Queued
<1>2. \A i, j \in Queued("handle_write") : i = j
  BY DEF WGood, Once, Queued
<1> QED
  BY <1>1, <1>2 DEF WGood, OneWrite

\* At most one write is in flight, and it writes the front of output_buffer_,
\* whatever the callbacks call, as long as write_complete_cb_ does not call send().
THEOREM WritesAlternate ==
  ASSUME NoSendInWriteCb
  PROVE  Spec => []OneWrite
<1>1. Init => IInv /\ WGood(conn)
  BY InitIInv, InitWrites
<1>2. IInv /\ WGood(conn) /\ [Next]_vars => IInv' /\ WGood(conn)'
  <2> SUFFICES ASSUME IInv, WGood(conn), [Next]_vars PROVE IInv' /\ WGood(conn')
    OBVIOUS
  <2>1. ASSUME UNCHANGED vars PROVE WGood(conn')
    BY <2>1 DEF vars
  <2>2. ASSUME IoLoop PROVE WGood(conn')
    BY <2>2, EstablishedWrites, HandlerWrites DEF IoLoop
  <2>3. ASSUME turn_wheel \/ handle_timeout \/ Peer \/ App PROVE WGood(conn')
    BY <2>3, OutsideWrites
  <2>4. ASSUME remove_connection PROVE WGood(conn')
    BY <2>4, RemoveWrites
  <2>5. ASSUME Finished PROVE WGood(conn')
    BY <2>5 DEF Finished, vars
  <2>6. WGood(conn')
    BY <2>1, <2>2, <2>3, <2>4, <2>5 DEF Next
  <2> QED
    BY <2>6, NextIInv
<1>3. WGood(conn) => OneWrite
  BY WritesOneByOne
<1> QED
  BY <1>1, <1>2, <1>3, PTL DEF Spec

-----------------------------------------------------------------------------
(* What was written, and what guards it *)

\* A queue without the handler of a write that went well.
NoOk(s) == \A i \in 1 .. Len(s) : ~(s[i].kind = "handle_write" /\ s[i].ec = "ok")

\* Messages that handle_write has taken off output_buffer_.
Written(d) == Len(d.accepted) - Len(d.output_buffer)

\* Timers found expired whose callback has not run.
Fired == {expired[i] : i \in 1 .. Len(expired)}

\* Whoever is about to shut the connection down, or has, left a flag that says so.
Flags(d) ==
  /\ d.flag # {} => d.flag \cap {"OptShutdown", "OptForceClose"} # {}
  /\ d.state = "WaitClose" /\ ~d.is_cleaned => d.flag # {}
  /\ ~No(d.queue["io"], "shutdown") => d.flag # {}
  /\ app.pc = "flagged" => d.flag # {}
  /\ app.pc = "tested" => app.loaded \subseteq d.flag

\* OptForceClose comes with the cleanup unless it is the other thread that sets it.
Alone(d) == app.pc = "tested" /\ "OptForceClose" \in d.flag => d.is_cleaned

\* What the server erased keeps its connect_destroy until that has run.
Kept(d) == ~registered /\ d.state # "Closed" => ~No(d.queue["io"], "connect_destroy")

\* A handle means a timer that is armed or has fired; the timers that the
\* configuration asks for have one.
Armed(d) ==
  ~d.is_cleaned /\ d.state # "Connecting" =>
    /\ d.timers \subseteq d.wheel \cup Fired
    /\ "read" \in limits => "read" \in d.timers
    /\ "write" \in limits /\ d.writing # << >> => "write" \in d.timers

\* output_buffer_ is what remains of the accepted messages, the socket was given
\* those before it: as many as handle_write has counted, one more while its
\* handler is queued, and possibly fewer once a write has failed.
Ordered(d) ==
  /\ wire \in Seq(1 .. MaxSends)
  /\ Len(d.output_buffer) <= Len(d.accepted)
  /\ \A i \in 1 .. Len(d.output_buffer) : d.output_buffer[i] = d.accepted[Written(d) + i]
  /\ Len(wire) <= Len(d.accepted)
  /\ \A i \in 1 .. Len(wire) : wire[i] = d.accepted[i]
  /\ d.writing # << >> => Len(wire) = Written(d)
  /\ ~NoOk(d.queue["io"]) => Len(wire) = Written(d) + 1

\* A cleanup by shutdown() found everything written.
Drained(d) ==
  /\ d.cause # "none" => d.is_cleaned
  /\ d.cause = "shutdown" => d.output_buffer = << >> /\ wire = d.accepted

Rest(d) == Flags(d) /\ Kept(d) /\ Armed(d) /\ Ordered(d) /\ Drained(d)

\* Until the cleanup output waits for a write in flight, and without one the socket
\* was given what handle_write has counted.
Flows(d) ==
  ~d.is_cleaned /\ WFree(d) =>
    /\ "OptForceClose" \in d.flag \/ d.output_buffer = << >>
    /\ Len(wire) = Written(d)

\* What holds between two handlers, and what holds inside handle_write from
\* pop_front() to the next write.
Whole(d)  == Good(d) /\ WGood(d) /\ Rest(d) /\ Flows(d) /\ Alone(d)
Inside(d) == Good(d) /\ WFree(d) /\ Rest(d) /\ Alone(d) /\ Len(wire) = Written(d)

\* What Append, Tail and concatenation do to queued handlers.
LEMMA OkWrites ==
  ASSUME NEW s \in Seq(Task), NEW t \in Task, NEW u \in Seq(Task)
  PROVE  /\ NoOk(Append(s, t)) <=> NoOk(s) /\ ~(t.kind = "handle_write" /\ t.ec = "ok")
         /\ s # << >> /\ NoOk(s) => NoOk(Tail(s))
         /\ NoOk(s) /\ NoOk(u) => NoOk(s \o u)
         /\ No(s, "handle_write") => NoOk(s)
<1>1. /\ Len(Append(s, t)) = Len(s) + 1
      /\ \A i \in 1 .. Len(s) : Append(s, t)[i] = s[i]
      /\ Append(s, t)[Len(s) + 1] = t
      /\ Len(s) \in Nat /\ Len(u) \in Nat
  BY AppendProperties, LenProperties
<1>2. NoOk(Append(s, t)) <=> NoOk(s) /\ ~(t.kind = "handle_write" /\ t.ec = "ok")
  BY <1>1 DEF NoOk
<1>3. ASSUME s # << >>, NoOk(s) PROVE NoOk(Tail(s))
  <2>1. /\ Len(Tail(s)) = Len(s) - 1
        /\ \A i \in 1 .. Len(Tail(s)) : Tail(s)[i] = s[i + 1]
    BY <1>3, HeadTailProperties
  <2> QED
    BY <1>1, <1>3, <2>1 DEF NoOk
<1>4. ASSUME NoOk(s), NoOk(u) PROVE NoOk(s \o u)
  <2>1. /\ Len(s \o u) = Len(s) + Len(u)
        /\ \A i \in 1 .. Len(s) + Len(u) :
             (s \o u)[i] = IF i <= Len(s) THEN s[i] ELSE u[i - Len(s)]
    BY ConcatProperties
  <2> QED
    BY <1>1, <1>4, <2>1 DEF NoOk
<1>5. No(s, "handle_write") => NoOk(s)
  BY DEF No, NoOk
<1> QED
  BY <1>2, <1>3, <1>4, <1>5

\* Tail takes away the head alone.
LEMMA TailKeeps ==
  ASSUME NEW s \in Seq(Task), s # << >>, NEW k, Head(s).kind # k
  PROVE  No(Tail(s), k) => No(s, k)
<1>1. /\ Len(Tail(s)) = Len(s) - 1
      /\ \A i \in 1 .. Len(Tail(s)) : Tail(s)[i] = s[i + 1]
  BY HeadTailProperties
<1>2. Len(s) \in Nat \ {0} /\ Head(s) = s[1]
  BY LenProperties, EmptySeq
<1> SUFFICES ASSUME No(Tail(s), k), NEW i \in 1 .. Len(s) PROVE s[i].kind # k
  BY DEF No
<1>3. CASE i = 1
  BY <1>2, <1>3
<1>4. CASE i # 1
  <2>1. i - 1 \in 1 .. Len(Tail(s)) /\ Tail(s)[i - 1] = s[i]
    BY <1>1, <1>2, <1>4
  <2> QED
    BY <2>1 DEF No
<1> QED
  BY <1>3, <1>4

\* The completions of cancelled operations did not go well.
LEMMA AbortedFails ==
  ASSUME NEW d \in Conn
  PROVE  NoOk(aborted_operations(d))
<1> DEFINE r == IF d.reading THEN <<completion("handle_read", "aborted")>> ELSE << >>
           w == [i \in 1 .. Len(d.writing) |-> completion("handle_write", "aborted")]
<1>1. d.writing \in Seq(1 .. MaxSends) /\ Len(d.writing) \in Nat
  BY LenProperties DEF Conn
<1>2. /\ completion("handle_read", "aborted") \in Task
      /\ completion("handle_read", "aborted").kind = "handle_read"
      /\ completion("handle_write", "aborted") \in Task
      /\ completion("handle_write", "aborted").ec = "aborted"
  BY TaskTypes DEF RawKinds, completion
<1>3. r \in Seq(Task) /\ NoOk(r)
  BY <1>2 DEF NoOk
<1>4. w \in Seq(Task) /\ NoOk(w)
  <2>1. w \in [1 .. Len(d.writing) -> Task]
    BY <1>2
  <2>2. w \in Seq(Task)
    BY <1>1, <2>1, SeqDef
  <2>3. DOMAIN w = 1 .. Len(w)
    BY <2>2, LenProperties
  <2> QED
    BY <1>2, <2>2, <2>3 DEF NoOk
<1>5. aborted_operations(d) = r \o w
  BY DEF aborted_operations
<1> HIDE DEF r, w
<1> QED
  BY <1>3, <1>4, <1>5, <1>2, OkWrites

\* A list of messages that was written to its end.
LEMMA AllWritten ==
  ASSUME NEW d \in Conn, Ordered(d), d.output_buffer = << >>, Len(wire) = Written(d)
  PROVE  wire = d.accepted
<1>1. /\ d.accepted \in Seq(1 .. MaxSends) /\ wire \in Seq(1 .. MaxSends)
      /\ Len(d.accepted) \in Nat /\ Len(d.output_buffer) = 0
  BY EmptySeq, LenProperties DEF Conn, Ordered
<1>2. Len(wire) = Len(d.accepted) /\ \A i \in 1 .. Len(wire) : wire[i] = d.accepted[i]
  BY <1>1 DEF Ordered, Written
<1> QED
  BY <1>1, <1>2, SeqEqual

-----------------------------------------------------------------------------
(* The functions of the class preserve the rest *)

\* The queues hold the same tasks as far as the invariant counts them.
SameTasks(d, e) ==
  /\ No(d.queue["io"], "shutdown") => No(e.queue["io"], "shutdown")
  /\ No(e.queue["io"], "connect_destroy") => No(d.queue["io"], "connect_destroy")
  /\ No(e.queue["io"], "handle_write") <=> No(d.queue["io"], "handle_write")
  /\ NoOk(d.queue["io"]) => NoOk(e.queue["io"])

\* A change that touches neither the messages nor the timers.
LEMMA KeepsRest ==
  ASSUME NEW d, NEW e, SameTasks(d, e),
         e.state = d.state, e.flag = d.flag, e.is_cleaned = d.is_cleaned,
         e.cause = d.cause, e.accepted = d.accepted, e.output_buffer = d.output_buffer,
         e.writing = d.writing, e.timers = d.timers, e.wheel = d.wheel
  PROVE  /\ Rest(d) => Rest(e)
         /\ Flows(d) => Flows(e)
         /\ Alone(d) => Alone(e)
         /\ Written(e) = Written(d)
<1>1. WFree(d) <=> WFree(e)
  BY DEF SameTasks, WFree
<1>2. Written(e) = Written(d)
  BY DEF Written
<1>3. Flags(d) => Flags(e)
  BY DEF SameTasks, Flags
<1>4. Kept(d) => Kept(e)
  BY DEF SameTasks, Kept
<1>5. Armed(d) => Armed(e)
  BY DEF Armed
<1>6. Ordered(d) => Ordered(e)
  BY <1>1, <1>2 DEF SameTasks, Ordered
<1>7. Drained(d) => Drained(e)
  BY DEF Drained
<1> QED
  BY <1>1, <1>2, <1>3, <1>4, <1>5, <1>6, <1>7 DEF Rest, Flows, Alone

\* Posting a task that neither shuts down, ends a write nor destroys.
LEMMA RunInLoopWhole ==
  ASSUME NEW d, Good(d), NEW t \in Task, t.kind \in RawKinds \ {"shutdown", "handle_write"}
  PROVE  /\ Whole(d) => Whole(run_in_loop(d, "io", t))
         /\ Inside(d) => Inside(run_in_loop(d, "io", t))
<1> DEFINE e == run_in_loop(d, "io", t)
<1>1. d \in Conn /\ d.queue["io"] \in Seq(Task)
  BY DEF Good, Conn, Loops
<1>2. /\ e.queue["io"] = Append(d.queue["io"], t)
      /\ e.state = d.state /\ e.flag = d.flag /\ e.is_cleaned = d.is_cleaned
      /\ e.cause = d.cause /\ e.accepted = d.accepted /\ e.output_buffer = d.output_buffer
      /\ e.writing = d.writing /\ e.timers = d.timers /\ e.wheel = d.wheel
  BY <1>1 DEF run_in_loop, Conn, Loops
<1>3. Good(e)
  BY RunInLoopGood
<1>4. (WGood(d) => WGood(e)) /\ (WFree(d) => WFree(e))
  BY <1>1, RunInLoopWrites DEF Loops
<1> HIDE DEF e
<1>5. SameTasks(d, e)
  <2>1. t.kind # "shutdown" /\ t.kind # "handle_write" /\ t.kind # "connect_destroy"
    BY DEF RawKinds
  <2> QED
    BY <1>1, <1>2, <2>1, AppendTask, OkWrites DEF SameTasks
<1>6. (Rest(d) => Rest(e)) /\ (Flows(d) => Flows(e)) /\ (Alone(d) => Alone(e))
      /\ Written(e) = Written(d)
  BY <1>2, <1>5, KeepsRest
<1> QED
  BY <1>3, <1>4, <1>6 DEF Whole, Inside, e

\* Taking a task of another sort from the io loop.
LEMMA PopWhole ==
  ASSUME NEW d, Whole(d), d.queue["io"] # << >>,
         Head(d.queue["io"]).kind \notin {"handle_write", "connect_destroy"}
  PROVE  Whole(pop(d, "io"))
<1> DEFINE e == pop(d, "io")
           s == d.queue["io"]
<1>1. d \in Conn /\ Good(d) /\ WGood(d) /\ s \in Seq(Task) /\ s # << >>
  BY DEF Whole, Good, Conn, Loops
<1>2. /\ e.queue["io"] = Tail(s)
      /\ e.state = d.state /\ e.flag = d.flag /\ e.is_cleaned = d.is_cleaned
      /\ e.cause = d.cause /\ e.accepted = d.accepted /\ e.output_buffer = d.output_buffer
      /\ e.writing = d.writing /\ e.timers = d.timers /\ e.wheel = d.wheel
  BY <1>1 DEF pop, Conn, Loops
<1>3. Good(e)
  BY <1>1, PopGood
<1>4. WGood(e)
  BY <1>1, PopWrites DEF Loops
<1>5. SameTasks(d, e)
  <2>1. Head(s).kind # "handle_write" /\ Head(s).kind # "connect_destroy"
    OBVIOUS
  <2> HIDE DEF s
  <2>2. NoOk(s) => NoOk(Tail(s))
    BY <1>1, OkWrites, TailTask
  <2>3. /\ No(s, "shutdown") => No(Tail(s), "shutdown")
        /\ No(s, "handle_write") => No(Tail(s), "handle_write")
        /\ No(Tail(s), "handle_write") => No(s, "handle_write")
        /\ No(Tail(s), "connect_destroy") => No(s, "connect_destroy")
    BY <1>1, <2>1, TailTask, TailKeeps
  <2> QED
    BY <1>2, <2>2, <2>3 DEF SameTasks, s
<1> HIDE DEF e
<1>6. Rest(e) /\ Flows(e) /\ Alone(e)
  BY <1>2, <1>5, KeepsRest DEF Whole
<1> QED
  BY <1>3, <1>4, <1>6 DEF Whole, e

LEMMA AsyncReadWhole ==
  ASSUME NEW d, Whole(d)
  PROVE  Whole(async_read(d))
<1>1. CASE d.open
  <2> DEFINE e == [d EXCEPT !.reading = TRUE]
  <2>1. d \in Conn
    BY DEF Whole, Good
  <2>2. /\ e.queue = d.queue
        /\ e.state = d.state /\ e.flag = d.flag /\ e.is_cleaned = d.is_cleaned
        /\ e.cause = d.cause /\ e.accepted = d.accepted /\ e.output_buffer = d.output_buffer
        /\ e.writing = d.writing /\ e.timers = d.timers /\ e.wheel = d.wheel
    BY <2>1 DEF Conn
  <2>3. async_read(d) = e
    BY <1>1 DEF async_read
  <2> HIDE DEF e
  <2>4. SameTasks(d, e)
    BY <2>2 DEF SameTasks
  <2>5. Rest(e) /\ Flows(e) /\ Alone(e)
    BY <2>2, <2>4, KeepsRest DEF Whole
  <2> QED
    BY <2>1, <2>3, <2>5, AsyncReadGood, AsyncReadWrites DEF Whole
<1>2. CASE ~d.open
  BY <1>2, TaskTypes, RunInLoopWhole DEF async_read, RawKinds, Whole
<1> QED
  BY <1>1, <1>2

\* Starting a write where none is in flight.
LEMMA AsyncWriteWhole ==
  ASSUME NEW d, Inside(d), d.output_buffer # << >>
  PROVE  Whole(async_write(d))
<1> DEFINE w == write_timer(d)
           e == async_write(d)
<1>1. /\ Good(d) /\ WFree(d) /\ d \in Conn /\ d.writing = << >>
      /\ d.output_buffer \in Seq(1 .. MaxSends) /\ limits \subseteq Timers
  BY DEF Inside, Good, WFree, Conn
<1>2. Good(e) /\ WGood(e)
  BY <1>1, AsyncWriteGood, AsyncWriteWrites
<1>3. /\ w \in Conn /\ w.queue = d.queue
      /\ w.state = d.state /\ w.flag = d.flag /\ w.is_cleaned = d.is_cleaned
      /\ w.cause = d.cause /\ w.accepted = d.accepted /\ w.output_buffer = d.output_buffer
      /\ w.writing = d.writing
      /\ d.timers \subseteq w.timers /\ w.timers \ d.timers \subseteq w.wheel
      /\ d.wheel \subseteq w.wheel
      /\ "write" \in limits => "write" \in w.timers
  BY <1>1 DEF write_timer, Conn, Timers
<1> HIDE DEF w
<1>4. /\ e.state = w.state /\ e.flag = w.flag /\ e.is_cleaned = w.is_cleaned
      /\ e.cause = w.cause /\ e.accepted = w.accepted /\ e.output_buffer = w.output_buffer
      /\ e.timers = w.timers /\ e.wheel = w.wheel
  BY <1>3 DEF async_write, run_in_loop, Conn, w
<1>5. /\ No(d.queue["io"], "shutdown") => No(e.queue["io"], "shutdown")
      /\ No(e.queue["io"], "connect_destroy") => No(d.queue["io"], "connect_destroy")
      /\ NoOk(e.queue["io"])
      /\ ~WFree(e)
  <2>1. w.queue["io"] = d.queue["io"] /\ d.queue["io"] \in Seq(Task)
        /\ No(d.queue["io"], "handle_write")
    BY <1>1, <1>3 DEF Conn, Loops, WFree
  <2> DEFINE t == completion("handle_write", "error")
  <2>2. t \in Task /\ t.kind = "handle_write" /\ t.ec # "ok"
    BY TaskTypes DEF RawKinds, completion
  <2>3. NoOk(d.queue["io"])
    BY <2>1, <2>2, OkWrites
  <2>4. CASE d.open
    <3>1. Head(d.output_buffer) \in 1 .. MaxSends
      BY <1>1, FrontMessage
    <3>2. Append(<< >>, Head(d.output_buffer)) # << >>
      BY <3>1, AppendFront
    <3>3. e.queue = d.queue /\ e.writing = Append(<< >>, Head(d.output_buffer))
      BY <1>1, <1>3, <2>4 DEF async_write, Conn, w
    <3> QED
      BY <2>3, <3>2, <3>3 DEF WFree
  <2>5. CASE ~d.open
    <3>1. e.queue["io"] = Append(d.queue["io"], t)
      BY <1>3, <2>5 DEF async_write, run_in_loop, Conn, Loops, w
    <3> HIDE DEF t, e
    <3>2. t.kind # "shutdown" /\ t.kind # "connect_destroy"
      BY <2>2
    <3> QED
      BY <2>1, <2>2, <2>3, <3>1, <3>2, AppendTask, OkWrites DEF WFree
  <2> QED
    BY <2>4, <2>5
<1> HIDE DEF e
<1>6. Written(e) = Written(d)
  BY <1>3, <1>4 DEF Written
<1>7. Flags(e) /\ Kept(e) /\ Drained(e) /\ Alone(e)
  BY <1>3, <1>4, <1>5 DEF Inside, Rest, Flags, Kept, Drained, Alone
<1>8. Armed(e)
  BY <1>3, <1>4 DEF Inside, Rest, Armed
<1>9. Ordered(e)
  BY <1>3, <1>4, <1>5, <1>6 DEF Inside, Rest, Ordered
<1>10. Flows(e)
  BY <1>5 DEF Flows
<1> QED
  BY <1>2, <1>7, <1>8, <1>9, <1>10 DEF Whole, Rest, e

\* The write timer goes when nothing is left to write.
LEMMA CancelWriteTimer ==
  ASSUME NEW d, Inside(d), d.output_buffer = << >> \/ "OptForceClose" \in d.flag
  PROVE  Whole(cancel_timer(d, "write"))
<1> DEFINE e == cancel_timer(d, "write")
<1>1. Good(d) /\ WFree(d) /\ d \in Conn
  BY DEF Inside, Good
<1>2. Good(e) /\ WGood(e) /\ WFree(e)
  BY <1>1, CancelTimerGood, CancelTimerWrites, FreeIsGood
<1>3. /\ e.queue = d.queue
      /\ e.state = d.state /\ e.flag = d.flag /\ e.is_cleaned = d.is_cleaned
      /\ e.cause = d.cause /\ e.accepted = d.accepted /\ e.output_buffer = d.output_buffer
      /\ e.writing = << >>
      /\ e.timers \subseteq d.timers /\ d.timers \ e.timers \subseteq {"write"}
      /\ d.wheel \ e.wheel \subseteq d.timers \ e.timers
  BY <1>1 DEF cancel_timer, Conn, WFree
<1> HIDE DEF e
<1>4. Written(e) = Written(d)
  BY <1>3 DEF Written
<1>5. Flags(e) /\ Kept(e) /\ Drained(e) /\ Flows(e) /\ Alone(e)
  BY <1>3, <1>4 DEF Inside, Rest, Flags, Kept, Drained, Flows, Alone
<1>6. Armed(e)
  BY <1>3 DEF Inside, Rest, Armed
<1>7. Ordered(e)
  BY <1>3, <1>4 DEF Inside, Rest, Ordered
<1> QED
  BY <1>2, <1>5, <1>6, <1>7 DEF Whole, Rest, e

\* What the one cleanup changes.
LEMMA CleanupFields ==
  ASSUME NEW d, Good(d), NEW why \in Causes
  PROVE  LET e == cleanup_once([d EXCEPT !.state = "WaitClose"], why)
         IN  /\ e.state = "WaitClose" /\ e.flag = d.flag /\ e.is_cleaned /\ e.cause = why
             /\ e.accepted = d.accepted /\ e.output_buffer = d.output_buffer
             /\ e.writing = << >>
             /\ No(d.queue["io"], "shutdown") => No(e.queue["io"], "shutdown")
             /\ No(e.queue["io"], "connect_destroy") => No(d.queue["io"], "connect_destroy")
             /\ NoOk(d.queue["io"]) => NoOk(e.queue["io"])
<1> DEFINE m == [d EXCEPT !.state = "WaitClose", !.is_cleaned = TRUE, !.cause = why]
           b == cancel_timer(cancel_timer(m, "read"), "write")
           c == cancel_operations(b)
           t == task("remove_connection")
           e == run_in_loop(c, base, t)
<1>1. d \in Conn /\ d.wheel \subseteq d.timers /\ base \in Loops
  BY DEF Good
<1>2. cleanup_once([d EXCEPT !.state = "WaitClose"], why) = e
  BY <1>1 DEF cleanup_once, Conn
<1>3. /\ m \in Conn /\ m.queue = d.queue /\ m.wheel \subseteq m.timers
      /\ m.state = "WaitClose" /\ m.flag = d.flag /\ m.is_cleaned /\ m.cause = why
      /\ m.accepted = d.accepted /\ m.output_buffer = d.output_buffer
  BY <1>1 DEF Conn, EState
<1> HIDE DEF m
<1>4. /\ b \in Conn /\ b.queue = d.queue
      /\ b.state = "WaitClose" /\ b.flag = d.flag /\ b.is_cleaned /\ b.cause = why
      /\ b.accepted = d.accepted /\ b.output_buffer = d.output_buffer
  BY <1>3 DEF cancel_timer, Conn
<1> HIDE DEF b
<1>5. /\ b.queue["io"] \in Seq(Task) /\ aborted_operations(b) \in Seq(Task)
      /\ No(aborted_operations(b), "shutdown") /\ No(aborted_operations(b), "connect_destroy")
      /\ NoOk(aborted_operations(b))
      /\ b.queue["io"] \o aborted_operations(b) \in Seq(Task)
  <2>1. b.queue["io"] \in Seq(Task) /\ aborted_operations(b) \in Seq(Task)
    BY <1>4, Aborted DEF Conn, Loops
  <2> QED
    BY <1>4, <2>1, Aborted, AbortedFails, ConcatTask
<1>6. /\ c.queue["io"] = b.queue["io"] \o aborted_operations(b)
      /\ c.state = "WaitClose" /\ c.flag = d.flag /\ c.is_cleaned /\ c.cause = why
      /\ c.accepted = d.accepted /\ c.output_buffer = d.output_buffer /\ c.writing = << >>
      /\ c \in Conn
  BY <1>4, <1>5, EmptySeq DEF cancel_operations, Conn, Loops
<1> HIDE DEF c
<1>7. t \in Task /\ t.kind = "remove_connection"
  BY TaskTypes DEF RefKinds
<1>8. /\ No(b.queue["io"], "shutdown") => No(c.queue["io"], "shutdown")
      /\ No(c.queue["io"], "connect_destroy") => No(b.queue["io"], "connect_destroy")
      /\ NoOk(b.queue["io"]) => NoOk(c.queue["io"])
  BY <1>5, <1>6, <1>7, ConcatTask, OkWrites
<1> HIDE DEF t
<1>9. /\ e.state = "WaitClose" /\ e.flag = d.flag /\ e.is_cleaned /\ e.cause = why
      /\ e.accepted = d.accepted /\ e.output_buffer = d.output_buffer /\ e.writing = << >>
      /\ e.queue["io"] \in {c.queue["io"], Append(c.queue["io"], t)}
  BY <1>1, <1>6 DEF run_in_loop, Conn, Loops
<1> HIDE DEF e
<1>10. /\ No(c.queue["io"], "shutdown") => No(e.queue["io"], "shutdown")
       /\ No(e.queue["io"], "connect_destroy") => No(c.queue["io"], "connect_destroy")
       /\ NoOk(c.queue["io"]) => NoOk(e.queue["io"])
  <2>1. c.queue["io"] \in Seq(Task)
    BY <1>6 DEF Conn, Loops
  <2>2. t.kind # "shutdown" /\ t.kind # "connect_destroy" /\ t.kind # "handle_write"
    BY <1>7
  <2>3. /\ No(c.queue["io"], "shutdown") => No(Append(c.queue["io"], t), "shutdown")
        /\ No(Append(c.queue["io"], t), "connect_destroy") => No(c.queue["io"], "connect_destroy")
        /\ NoOk(c.queue["io"]) => NoOk(Append(c.queue["io"], t))
    BY <1>7, <2>1, <2>2, AppendTask, OkWrites
  <2> QED
    BY <1>9, <2>3
<1>11. b.queue["io"] = d.queue["io"]
  BY <1>4
<1> QED
  BY <1>2, <1>8, <1>9, <1>10, <1>11

\* connect_cleanup, called for shutdown() only when everything is written.
LEMMA ConnectCleanupWhole ==
  ASSUME NEW d, Good(d), WGood(d), Rest(d), NEW why \in Causes, why # "none",
         why = "shutdown" /\ ~d.is_cleaned => d.output_buffer = << >> /\ wire = d.accepted
  PROVE  LET e == connect_cleanup(d, why)
         IN  Whole(e) /\ e.is_cleaned /\ Written(e) = Written(d)
<1> DEFINE e == connect_cleanup(d, why)
<1>1. Good(e) /\ WGood(e) /\ d \in Conn
  BY ConnectCleanupGood, ConnectCleanupWrites DEF Good
<1>2. CASE d.state = "Closed"
  <2>1. e = d /\ d.is_cleaned
    BY <1>2 DEF connect_cleanup, Good
  <2> HIDE DEF e
  <2> QED
    BY <1>1, <2>1 DEF Whole, Flows, Alone, e
<1>3. CASE d.state # "Closed" /\ d.is_cleaned
  <2>1. /\ e.queue = d.queue /\ e.state = "WaitClose" /\ e.flag = d.flag /\ e.is_cleaned
        /\ e.cause = d.cause /\ e.accepted = d.accepted /\ e.output_buffer = d.output_buffer
        /\ e.writing = d.writing
    BY <1>1, <1>3 DEF connect_cleanup, Conn
  <2> HIDE DEF e
  <2>2. Written(e) = Written(d)
    BY <2>1 DEF Written
  <2>3. Flags(e) /\ Kept(e) /\ Armed(e) /\ Drained(e) /\ Flows(e) /\ Alone(e)
    BY <1>3, <2>1 DEF Rest, Flags, Kept, Armed, Drained, Flows, Alone
  <2>4. Ordered(e)
    BY <1>3, <2>1, <2>2 DEF Rest, Ordered
  <2> QED
    BY <1>1, <2>1, <2>2, <2>3, <2>4 DEF Whole, Rest, e
<1>4. CASE d.state # "Closed" /\ ~d.is_cleaned
  <2>1. e = cleanup_once([d EXCEPT !.state = "WaitClose"], why)
    BY <1>1, <1>4 DEF connect_cleanup, Conn
  <2>2. /\ e.state = "WaitClose" /\ e.flag = d.flag /\ e.is_cleaned /\ e.cause = why
        /\ e.accepted = d.accepted /\ e.output_buffer = d.output_buffer
        /\ e.writing = << >>
        /\ No(d.queue["io"], "shutdown") => No(e.queue["io"], "shutdown")
        /\ No(e.queue["io"], "connect_destroy") => No(d.queue["io"], "connect_destroy")
        /\ NoOk(d.queue["io"]) => NoOk(e.queue["io"])
    BY <2>1, CleanupFields
  <2> HIDE DEF e
  <2>3. Written(e) = Written(d)
    BY <2>2 DEF Written
  <2>4. Flags(e) /\ Kept(e) /\ Armed(e) /\ Drained(e) /\ Flows(e) /\ Alone(e)
    BY <1>4, <2>2 DEF Rest, Flags, Kept, Armed, Drained, Flows, Alone
  <2>5. Ordered(e)
    BY <2>2, <2>3 DEF Rest, Ordered
  <2> QED
    BY <1>1, <2>2, <2>3, <2>4, <2>5 DEF Whole, Rest, e
<1> QED
  BY <1>2, <1>3, <1>4

\* An empty list between two handlers means that everything was written.
LEMMA EmptyIsWritten ==
  ASSUME NEW d, Good(d), Whole(d) \/ Inside(d), d.output_buffer = << >>, ~d.is_cleaned
  PROVE  wire = d.accepted
<1>1. d \in Conn /\ Ordered(d)
  BY DEF Good, Whole, Inside, Rest
<1>2. Len(wire) = Written(d)
  BY DEF Whole, Inside, WGood, WFree, Flows
<1> QED
  BY <1>1, <1>2, AllWritten

\* Inside handle_write a cleanup starts no write.
LEMMA ConnectCleanupInside ==
  ASSUME NEW d, Good(d), WFree(d), Rest(d), Len(wire) = Written(d),
         NEW why \in Causes, why # "none",
         why = "shutdown" => d.output_buffer = << >> \/ d.is_cleaned
  PROVE  Inside(connect_cleanup(d, why)) /\ Whole(connect_cleanup(d, why))
<1>1. WGood(d) /\ WFree(connect_cleanup(d, why)) /\ d \in Conn
  BY FreeIsGood, ConnectCleanupWrites DEF Good
<1>2. why = "shutdown" /\ ~d.is_cleaned => d.output_buffer = << >> /\ wire = d.accepted
  BY <1>1, AllWritten DEF Rest
<1>3. Whole(connect_cleanup(d, why)) /\ Written(connect_cleanup(d, why)) = Written(d)
  BY <1>1, <1>2, ConnectCleanupWhole
<1> QED
  BY <1>1, <1>3 DEF Inside, Whole

LEMMA ShutdownInLoopWhole ==
  ASSUME NEW d, d.flag # {}
  PROVE  /\ Whole(d) => Whole(shutdown_in_loop(d))
         /\ Inside(d) => Inside(shutdown_in_loop(d))
<1> DEFINE e == [d EXCEPT !.state = "WaitClose"]
<1> SUFFICES ASSUME Whole(d) \/ Inside(d), d.state \notin {"Closed", "WaitClose"}
             PROVE  /\ Whole(d) => Whole(shutdown_in_loop(d))
                    /\ Inside(d) => Inside(shutdown_in_loop(d))
  BY DEF shutdown_in_loop
<1>1. Good(d) /\ d \in Conn /\ ~d.is_cleaned
  BY DEF Whole, Inside, Good
<1>2. /\ e \in Conn /\ e.queue = d.queue /\ e.wheel \subseteq e.timers
      /\ e.state = "WaitClose" /\ e.is_cleaned = d.is_cleaned /\ e.accepted = d.accepted
      /\ e.writing = d.writing /\ e.output_buffer = d.output_buffer
      /\ e.flag = d.flag /\ e.cause = d.cause /\ e.timers = d.timers /\ e.wheel = d.wheel
  BY <1>1 DEF Good, Conn, EState
<1> HIDE DEF e
<1>3. Good(e)
  BY <1>1, <1>2 DEF Good
<1>4. (WFree(d) <=> WFree(e)) /\ (WGood(d) => WGood(e))
  BY <1>2, KeepsWrites DEF WFree
<1>5. Rest(d) => Rest(e)
  <2>1. Written(e) = Written(d)
    BY <1>2 DEF Written
  <2>2. Rest(d) => Flags(e) /\ Kept(e) /\ Armed(e) /\ Drained(e)
    BY <1>1, <1>2 DEF Rest, Flags, Kept, Armed, Drained, Good
  <2>3. Rest(d) => Ordered(e)
    BY <1>2, <1>4, <2>1 DEF Rest, Ordered
  <2> QED
    BY <2>2, <2>3 DEF Rest
<1>6. (Whole(d) => Whole(e)) /\ (Inside(d) => Inside(e))
  BY <1>2, <1>3, <1>4, <1>5 DEF Whole, Inside, Flows, Alone, Written
<1>7. CASE d.output_buffer # << >>
  BY <1>6, <1>7 DEF shutdown_in_loop, e
<1>8. CASE d.output_buffer = << >>
  <2>1. Whole(e) => Whole(connect_cleanup(e, "shutdown"))
    BY <1>2, <1>3, <1>8, EmptyIsWritten, ConnectCleanupWhole DEF Whole, Causes
  <2>2. Inside(e) => Inside(connect_cleanup(e, "shutdown"))
    BY <1>2, <1>8, ConnectCleanupInside DEF Causes, Inside
  <2> QED
    BY <1>6, <1>8, <2>1, <2>2 DEF shutdown_in_loop, e
<1> QED
  BY <1>7, <1>8

\* A message more at the end of the list, and of what was accepted.
LEMMA AppendOrdered ==
  ASSUME NEW d \in Conn, Ordered(d), NEW m \in 1 .. MaxSends, NEW e,
         e.output_buffer = Append(d.output_buffer, m), e.accepted = Append(d.accepted, m),
         e.writing = d.writing, e.queue = d.queue, e.is_cleaned = d.is_cleaned
  PROVE  Ordered(e) /\ Written(e) = Written(d)
<1> DEFINE n == Len(d.output_buffer)
           k == Len(d.accepted)
           o == e.output_buffer
           a == e.accepted
<1>1. d.output_buffer \in Seq(1 .. MaxSends) /\ d.accepted \in Seq(1 .. MaxSends)
  BY DEF Conn
<1>2. /\ n \in Nat /\ k \in Nat /\ Len(o) = n + 1 /\ Len(a) = k + 1
      /\ \A i \in 1 .. n : o[i] = d.output_buffer[i]
      /\ \A i \in 1 .. k : a[i] = d.accepted[i]
      /\ o[n + 1] = m /\ a[k + 1] = m
  BY <1>1, AppendProperties, LenProperties
<1>3. /\ n <= k /\ Written(d) = k - n
      /\ \A i \in 1 .. n : d.output_buffer[i] = d.accepted[Written(d) + i]
      /\ Len(wire) \in Nat /\ Len(wire) <= k
      /\ \A i \in 1 .. Len(wire) : wire[i] = d.accepted[i]
  BY LenProperties DEF Ordered, Written
<1>4. Written(e) = Len(a) - Len(o)
  BY DEF Written
<1> HIDE DEF n, k, o, a
<1>5. Written(e) = Written(d)
  BY <1>2, <1>3, <1>4
<1>6. ASSUME NEW i \in 1 .. Len(o)
      PROVE  o[i] = a[Written(e) + i]
  <2>1. CASE i = n + 1
    <3>1. Written(e) + i = k + 1
      BY <1>2, <1>3, <1>5, <2>1
    <3> QED
      BY <1>2, <2>1, <3>1
  <2>2. CASE i # n + 1
    <3>1. i \in 1 .. n /\ Written(e) + i \in 1 .. k
      BY <1>2, <1>3, <1>5, <2>2
    <3> QED
      BY <1>2, <1>3, <1>5, <3>1
  <2> QED
    BY <2>1, <2>2
<1>7. /\ Len(o) <= Len(a) /\ Len(wire) <= Len(a)
      /\ \A i \in 1 .. Len(wire) : wire[i] = a[i]
  BY <1>2, <1>3
<1>8. WFree(e) <=> WFree(d)
  BY DEF WFree
<1> QED
  BY <1>5, <1>6, <1>7, <1>8 DEF Ordered, o, a

LEMMA SendInLoopWhole ==
  ASSUME NEW d, Whole(d), NEW m \in 1 .. MaxSends
  PROVE  Whole(send_in_loop(d, m))
<1> DEFINE e == [d EXCEPT !.output_buffer = Append(@, m), !.accepted = Append(@, m)]
<1> SUFFICES ASSUME d.state \notin {"Closed", "WaitClose"}
             PROVE  Whole(send_in_loop(d, m))
  BY DEF send_in_loop
<1>1. Good(d) /\ WGood(d) /\ d \in Conn /\ ~d.is_cleaned
      /\ d.output_buffer \in Seq(1 .. MaxSends) /\ d.accepted \in Seq(1 .. MaxSends)
  BY DEF Whole, Good, Conn
<1>2. /\ Append(d.output_buffer, m) \in Seq(1 .. MaxSends)
      /\ Append(d.output_buffer, m) # << >>
      /\ d.output_buffer # << >> => Head(Append(d.output_buffer, m)) = Head(d.output_buffer)
      /\ Append(d.accepted, m) \in Seq(1 .. MaxSends)
  BY <1>1, AppendFront
<1>3. /\ e \in Conn /\ e.queue = d.queue /\ e.wheel \subseteq e.timers
      /\ e.state = d.state /\ e.is_cleaned = d.is_cleaned /\ e.writing = d.writing
      /\ e.output_buffer = Append(d.output_buffer, m) /\ e.accepted = Append(d.accepted, m)
      /\ e.flag = d.flag /\ e.cause = d.cause /\ e.timers = d.timers /\ e.wheel = d.wheel
  BY <1>1, <1>2 DEF Good, Conn
<1> HIDE DEF e
<1>4. Good(e)
  BY <1>1, <1>3 DEF Good
<1>5. Ordered(e) /\ Written(e) = Written(d)
  BY <1>1, <1>3, AppendOrdered DEF Whole, Rest
<1>6. Rest(e) /\ Alone(e)
  BY <1>1, <1>3, <1>5 DEF Whole, Rest, Flags, Kept, Armed, Drained, Alone
<1>7. WFree(e) <=> WFree(d)
  BY <1>3 DEF WFree
<1>8. CASE d.output_buffer = << >>
  <2>1. WFree(d) /\ Len(wire) = Written(d)
    BY <1>1, <1>8 DEF WGood, WFree, Whole, Flows
  <2>2. Inside(e)
    BY <1>4, <1>5, <1>6, <1>7, <2>1 DEF Inside
  <2> QED
    BY <1>2, <1>3, <1>8, <2>2, AsyncWriteWhole DEF send_in_loop, e
<1>9. CASE d.output_buffer # << >>
  <2>1. WGood(e)
    BY <1>1, <1>2, <1>3, <1>9 DEF WGood
  <2>2. Flows(e)
    BY <1>3, <1>5, <1>7, <1>9 DEF Whole, Flows
  <2> QED
    BY <1>4, <1>6, <1>9, <2>1, <2>2 DEF send_in_loop, e, Whole
<1> QED
  BY <1>8, <1>9

\* The flags a call sets. OptForceClose comes with a cleanup in the same call.
LEMMA FlaggedWhole ==
  ASSUME NEW d, NEW op \in {"shutdown", "shutdown_cb"}
  PROVE  LET e == [d EXCEPT !.flag = @ \cup shutdown_flags(op)]
         IN  /\ Whole(d) => Whole(e)
             /\ Inside(d) => Inside(e)
             /\ d \in Conn => e.flag # {}
<1> DEFINE e == [d EXCEPT !.flag = @ \cup shutdown_flags(op)]
<1> SUFFICES ASSUME d \in Conn
             PROVE  (Whole(d) => Whole(e)) /\ (Inside(d) => Inside(e)) /\ e.flag # {}
  BY DEF Whole, Inside, Good
<1>1. /\ e \in Conn /\ e.queue = d.queue
      /\ e.state = d.state /\ e.is_cleaned = d.is_cleaned /\ e.accepted = d.accepted
      /\ e.writing = d.writing /\ e.output_buffer = d.output_buffer
      /\ e.cause = d.cause /\ e.timers = d.timers /\ e.wheel = d.wheel
      /\ d.flag \subseteq e.flag /\ "OptShutdown" \in e.flag
      /\ "OptForceClose" \in e.flag => "OptForceClose" \in d.flag
  BY DEF Conn, shutdown_flags, EFlag
<1> HIDE DEF e
<1>2. (Good(d) => Good(e)) /\ (WGood(d) => WGood(e)) /\ (WFree(d) <=> WFree(e))
  BY <1>1, SameQueueGood, KeepsWrites DEF WFree, Good
<1>3. Written(e) = Written(d)
  BY <1>1 DEF Written
<1>4. Rest(d) => Flags(e) /\ Kept(e) /\ Armed(e) /\ Drained(e)
  BY <1>1 DEF Rest, Flags, Kept, Armed, Drained
<1>5. Rest(d) => Ordered(e)
  BY <1>1, <1>2, <1>3 DEF Rest, Ordered
<1>6. (Flows(d) => Flows(e)) /\ (Alone(d) => Alone(e))
  BY <1>1, <1>2, <1>3 DEF Flows, Alone
<1> QED
  BY <1>1, <1>2, <1>3, <1>4, <1>5, <1>6 DEF Whole, Inside, Rest

\* The cleanup that follows the flags of force_close.
LEMMA ForceCloseWhole ==
  ASSUME NEW d
  PROVE  /\ Whole(d) => Whole(force_close(d))
         /\ Inside(d) => Inside(force_close(d))
<1> DEFINE e == [d EXCEPT !.flag = @ \cup shutdown_flags("force_close")]
<1> SUFFICES ASSUME Whole(d) \/ Inside(d), may_force_close(d.flag)
             PROVE  (Whole(d) => Whole(force_close(d))) /\ (Inside(d) => Inside(force_close(d)))
  BY DEF force_close
<1>1. Good(d) /\ WGood(d) /\ Rest(d) /\ d \in Conn
  BY FreeIsGood DEF Whole, Inside, Good
<1>2. /\ e \in Conn /\ e.queue = d.queue /\ e.wheel \subseteq e.timers
      /\ e.state = d.state /\ e.is_cleaned = d.is_cleaned /\ e.accepted = d.accepted
      /\ e.writing = d.writing /\ e.output_buffer = d.output_buffer
      /\ e.cause = d.cause /\ e.timers = d.timers /\ e.wheel = d.wheel
      /\ d.flag \subseteq e.flag /\ "OptForceClose" \in e.flag
  BY <1>1 DEF Good, Conn, shutdown_flags, EFlag
<1>3. force_close(d) = connect_cleanup(e, "force_close")
  BY DEF force_close, force_close_in_loop
<1> HIDE DEF e
<1>4. Good(e) /\ WGood(e) /\ (WFree(d) <=> WFree(e))
  BY <1>1, <1>2, SameQueueGood, KeepsWrites DEF WFree
<1>5. Written(e) = Written(d)
  BY <1>2 DEF Written
<1>6. Flags(e) /\ Kept(e) /\ Armed(e) /\ Drained(e)
  BY <1>1, <1>2 DEF Rest, Flags, Kept, Armed, Drained
<1>7. Ordered(e)
  BY <1>1, <1>2, <1>4, <1>5 DEF Rest, Ordered
<1>8. Whole(connect_cleanup(e, "force_close"))
  BY <1>4, <1>6, <1>7, ConnectCleanupWhole DEF Rest, Causes
<1>9. Inside(d) => Inside(connect_cleanup(e, "force_close"))
  BY <1>4, <1>5, <1>6, <1>7, ConnectCleanupInside DEF Rest, Inside, Causes
<1> QED
  BY <1>3, <1>8, <1>9

\* A call the application may make from a callback.
LEMMA CallWhole ==
  ASSUME NEW d, NEW op \in Calls
  PROVE  /\ Whole(d) => Whole(call(d, op))
         /\ Inside(d) /\ op # "send" => Inside(call(d, op))
<1>1. CASE op = "none"
  BY <1>1 DEF call
<1>2. CASE op = "send"
  <2> SUFFICES ASSUME Whole(d), d.sends < MaxSends
               PROVE  Whole(send_in_loop([d EXCEPT !.sends = @ + 1], d.sends + 1))
    BY <1>2 DEF call, send
  <2> DEFINE e == [d EXCEPT !.sends = @ + 1]
  <2>1. d.sends \in 0 .. MaxSends /\ d \in Conn /\ Good(d)
    BY DEF Whole, Good, Conn
  <2>2. d.sends + 1 \in 0 .. MaxSends /\ d.sends + 1 \in 1 .. MaxSends
    <3>1. d.sends \in 0 .. MaxSends /\ d.sends < MaxSends
      BY <2>1
    <3> QED
      BY <3>1
  <2>3. /\ e \in Conn /\ e.queue = d.queue /\ e.wheel \subseteq e.timers
        /\ e.state = d.state /\ e.is_cleaned = d.is_cleaned /\ e.accepted = d.accepted
        /\ e.writing = d.writing /\ e.output_buffer = d.output_buffer
        /\ e.flag = d.flag /\ e.cause = d.cause /\ e.timers = d.timers /\ e.wheel = d.wheel
    BY <2>1, <2>2 DEF Good, Conn
  <2> HIDE DEF e
  <2>4. Good(e) /\ WGood(e)
    BY <2>1, <2>3, SameQueueGood, KeepsWrites DEF Whole
  <2>5. SameTasks(d, e)
    BY <2>3 DEF SameTasks
  <2>6. Rest(e) /\ Flows(e) /\ Alone(e)
    BY <2>3, <2>5, KeepsRest DEF Whole
  <2>7. Whole(e)
    BY <2>4, <2>6 DEF Whole
  <2>8. Whole(send_in_loop(e, d.sends + 1))
    BY <2>2, <2>7, SendInLoopWhole
  <2> QED
    BY <2>8 DEF e
<1>3. CASE op \in {"shutdown", "shutdown_cb"}
  <2> DEFINE e == [d EXCEPT !.flag = @ \cup shutdown_flags(op)]
  <2> SUFFICES ASSUME Whole(d) \/ Inside(d), may_shutdown(d.flag)
               PROVE  /\ Whole(d) => Whole(shutdown_in_loop(e))
                      /\ Inside(d) => Inside(shutdown_in_loop(e))
    BY <1>3 DEF call, shutdown
  <2>1. d \in Conn
    BY DEF Whole, Inside, Good
  <2>2. (Whole(d) => Whole(e)) /\ (Inside(d) => Inside(e)) /\ e.flag # {}
    BY <1>3, <2>1, FlaggedWhole
  <2> HIDE DEF e
  <2> QED
    BY <2>2, ShutdownInLoopWhole
<1>4. CASE op = "force_close"
  BY <1>4, ForceCloseWhole DEF call
<1> QED
  BY <1>1, <1>2, <1>3, <1>4 DEF Calls

LEMMA CallbackWhole ==
  ASSUME NEW d, NEW r \in Calls \X Calls
  PROVE  /\ Whole(d) => Whole(callback(d, r))
         /\ Inside(d) /\ r[1] # "send" /\ r[2] # "send" => Inside(callback(d, r))
<1> DEFINE e == call(d, r[1])
<1>1. (Whole(d) => Whole(e)) /\ (Inside(d) /\ r[1] # "send" => Inside(e))
  BY CallWhole
<1> HIDE DEF e
<1>2. /\ Whole(e) => Whole(call(e, r[2]))
      /\ Inside(e) /\ r[2] # "send" => Inside(call(e, r[2]))
  BY CallWhole
<1> QED
  BY <1>1, <1>2 DEF callback, e

\* After the callback handle_write goes on writing, stops or cleans up.
LEMMA WriteNextWhole ==
  ASSUME NEW d, Inside(d)
  PROVE  Whole(write_next(d))
<1>1. d.output_buffer # << >> => Whole(async_write(d))
  BY AsyncWriteWhole
<1>2. d.output_buffer = << >> \/ "OptForceClose" \in d.flag => Whole(cancel_timer(d, "write"))
  BY CancelWriteTimer
<1>3. d.output_buffer = << >> => Whole(connect_cleanup(d, "shutdown"))
  BY ConnectCleanupInside DEF Causes, Inside
<1>4. CASE d.state = "WaitClose" /\ "OptForceClose" \notin d.flag
           /\ d.flag \cap {"OptShutdown", "OptForceClose"} # {"OptShutdown"}
  <2>1. d.is_cleaned
    BY <1>4 DEF Inside, Rest, Flags
  <2>2. Whole(d)
    BY <2>1, FreeIsGood DEF Inside, Whole, Flows
  <2> QED
    BY <1>4, <2>2 DEF write_next
<1>5. CASE d.state = "WaitClose" /\ "OptForceClose" \notin d.flag
           /\ d.flag \cap {"OptShutdown", "OptForceClose"} = {"OptShutdown"}
  BY <1>1, <1>3, <1>5 DEF write_next
<1>6. CASE d.state = "WaitClose" /\ "OptForceClose" \in d.flag
  BY <1>2, <1>6 DEF write_next
<1>7. CASE d.state # "WaitClose"
  BY <1>1, <1>2, <1>7 DEF write_next
<1> QED
  BY <1>4, <1>5, <1>6, <1>7

-----------------------------------------------------------------------------
(* The steps preserve it *)

\* The invariant: nothing went wrong while the connection lived.
WInv ==
  /\ IInv /\ WGood(conn) /\ Rest(conn) /\ Flows(conn) /\ Alone(conn)
  /\ "front" \notin failed
  /\ "dangling" \in failed => conn.state = "Closed"

\* Between two handlers an established connection is whole.
LEMMA WholeConn ==
  ASSUME WInv, conn.state # "Connecting"
  PROVE  Whole(conn)
BY DEF WInv, IInv, Whole

LEMMA InitWInv == Init => WInv
<1> SUFFICES ASSUME Init PROVE WInv
  OBVIOUS
<1>1. IInv /\ WGood(conn)
  BY InitIInv, InitWrites
<1>2. /\ conn.state = "Connecting" /\ conn.flag = {} /\ ~conn.is_cleaned /\ registered
      /\ conn.output_buffer = << >> /\ conn.accepted = << >> /\ conn.writing = << >>
      /\ conn.queue["io"] = <<task("connect_establised")>> /\ conn.cause = "none"
      /\ wire = << >> /\ app.pc = "idle" /\ failed = {}
  BY DEF Init, NewConn, IdleApp, Loops
<1>3. No(conn.queue["io"], "shutdown") /\ NoOk(conn.queue["io"])
  BY <1>2 DEF No, NoOk, task
<1>4. Len(<< >>) = 0 /\ << >> \in Seq(1 .. MaxSends)
  BY EmptySeq
<1>5. Flags(conn) /\ Kept(conn) /\ Armed(conn) /\ Drained(conn) /\ Flows(conn) /\ Alone(conn)
  BY <1>2, <1>3, <1>4 DEF Flags, Kept, Armed, Drained, Flows, Alone, Written
<1>6. Ordered(conn)
  BY <1>2, <1>3, <1>4 DEF Ordered, Written
<1> QED
  BY <1>1, <1>2, <1>5, <1>6 DEF WInv, Rest

LEMMA EstablishedWhole ==
  ASSUME WInv, connect_establised
  PROVE  Whole(conn')
<1> DEFINE s == [pop(conn, "io") EXCEPT !.state = "Established"]
           q == start_read_timer(s)
<1>1. /\ conn \in Conn /\ conn.queue["io"] # << >> /\ IInv
      /\ Head(conn.queue["io"]).kind = "connect_establised"
      /\ base \in Loops /\ limits \subseteq Timers
  BY DEF WInv, IInv, TypeOK, connect_establised, Runs
<1>2. conn.state = "Connecting"
  <2>1. CASE conn.state # "Connecting"
    <3>1. conn.queue["io"] \in Seq(Task) /\ No(conn.queue["io"], "connect_establised")
      BY <1>1, <2>1 DEF IInv, Good, Conn, Loops
    <3>2. Len(conn.queue["io"]) \in Nat \ {0} /\ Head(conn.queue["io"]) = conn.queue["io"][1]
      BY <1>1, <3>1, EmptySeq
    <3> QED
      BY <1>1, <3>1, <3>2 DEF No
  <2> QED
    BY <2>1
<1>3. /\ conn.queue["base"] = << >> /\ conn.queue["io"] = <<task("connect_establised")>>
      /\ conn.wheel = {} /\ conn.timers = {} /\ ~conn.is_cleaned
      /\ conn.writing = << >> /\ conn.output_buffer = << >> /\ registered
      /\ conn.flag = {} /\ conn.cause = "none" /\ app.pc = "idle"
  BY <1>1, <1>2, OnlyEstablish DEF IInv, IdleApp, NewConn
<1>4. Tail(conn.queue["io"]) = << >> /\ << >> \in Seq(Task)
  BY <1>3
<1>5. /\ s \in Conn /\ s.writing = << >> /\ s.output_buffer = << >>
      /\ s.timers = {} /\ s.wheel = {} /\ s.state = "Established"
      /\ ~s.is_cleaned /\ s.queue["io"] = << >> /\ s.queue["base"] = << >>
      /\ s.flag = {} /\ s.cause = "none" /\ s.accepted = conn.accepted
  BY <1>1, <1>3, <1>4 DEF pop, Conn, EState, Loops
<1> HIDE DEF s
<1>6. /\ q \in Conn /\ q.writing = << >> /\ q.output_buffer = << >>
      /\ q.wheel = q.timers /\ q.state = "Established"
      /\ ~q.is_cleaned /\ q.queue["io"] = << >> /\ q.queue["base"] = << >>
      /\ q.flag = {} /\ q.cause = "none" /\ q.accepted = conn.accepted
      /\ "read" \in limits => "read" \in q.timers
  BY <1>5 DEF start_read_timer, Conn, Timers
<1> HIDE DEF q
<1>7. \A k : No(<< >>, k) /\ Once(<< >>, k) /\ NoOk(<< >>)
  BY DEF No, Once, NoOk
<1>8. Good(q)
  BY <1>1, <1>3, <1>6, <1>7 DEF Good, Loops
<1>9. WFree(q) /\ WGood(q) /\ WFree(conn)
  <2>1. No(conn.queue["io"], "handle_write")
    BY <1>3 DEF No, task
  <2>2. WFree(q) /\ WFree(conn)
    BY <1>3, <1>6, <1>7, <2>1 DEF WFree
  <2> QED
    BY <2>2, FreeIsGood
<1>10. /\ q.accepted = conn.accepted
       /\ q.output_buffer = conn.output_buffer /\ q.writing = conn.writing
       /\ NoOk(q.queue["io"]) /\ Written(q) = Written(conn)
  <2>1. NoOk(q.queue["io"])
    BY <1>6, <1>7
  <2>2. /\ q.accepted = conn.accepted
        /\ q.output_buffer = conn.output_buffer /\ q.writing = conn.writing
    BY <1>3, <1>6
  <2> QED
    BY <2>1, <2>2 DEF Written
<1>11. Flags(q) /\ Kept(q) /\ Armed(q) /\ Drained(q) /\ Alone(q)
  BY <1>3, <1>6, <1>7 DEF Flags, Kept, Armed, Drained, Alone
<1>12. Ordered(q) /\ Flows(q)
  <2>1. Ordered(conn) /\ Flows(conn)
    BY DEF WInv, Rest
  <2>2. Ordered(q)
    BY <1>10, <2>1 DEF Ordered
  <2>3. Flows(q)
    BY <1>3, <1>6, <1>9, <1>10, <2>1 DEF Flows
  <2> QED
    BY <2>2, <2>3
<1>13. Whole(async_read(q))
  BY <1>8, <1>9, <1>11, <1>12, AsyncReadWhole DEF Whole, Rest
<1>14. PICK r \in ConnectReactions : conn' = callback(async_read(q), r)
  BY DEF connect_establised, s, q
<1>15. Whole(callback(async_read(q), r))
  <2>1. r \in Calls \X Calls
    OBVIOUS
  <2> QED
    BY <1>13, <2>1, CallbackWhole
<1> QED
  BY <1>14, <1>15

\* A message less at the front of the list.
LEMMA TailWritten ==
  ASSUME NEW d \in Conn, Ordered(d), d.output_buffer # << >>, NEW e,
         e.output_buffer = Tail(d.output_buffer), e.accepted = d.accepted
  PROVE  /\ Written(d) \in Nat /\ Written(e) = Written(d) + 1
         /\ Len(e.output_buffer) <= Len(e.accepted)
         /\ \A i \in 1 .. Len(e.output_buffer) :
              e.output_buffer[i] = e.accepted[Written(e) + i]
<1> DEFINE n == Len(d.output_buffer)
           k == Len(d.accepted)
           o == e.output_buffer
<1>1. d.output_buffer \in Seq(1 .. MaxSends) /\ d.accepted \in Seq(1 .. MaxSends)
  BY DEF Conn
<1>2. /\ n \in Nat \ {0} /\ k \in Nat /\ Len(o) = n - 1
      /\ \A i \in 1 .. Len(o) : o[i] = d.output_buffer[i + 1]
  BY <1>1, HeadTailProperties, LenProperties, EmptySeq
<1>3. /\ n <= k /\ Written(d) = k - n
      /\ \A i \in 1 .. n : d.output_buffer[i] = d.accepted[Written(d) + i]
  BY DEF Ordered, Written
<1>4. Written(e) = k - Len(o)
  BY DEF Written
<1> HIDE DEF n, k, o
<1>5. Written(d) \in Nat /\ Written(e) = Written(d) + 1 /\ Len(o) <= k
  BY <1>2, <1>3, <1>4
<1>6. ASSUME NEW i \in 1 .. Len(o)
      PROVE  o[i] = d.accepted[Written(e) + i]
  <2>1. i \in Nat /\ i >= 1 /\ i <= n - 1 /\ n \in Nat
    BY <1>2
  <2>2. i + 1 \in 1 .. n
    BY <2>1
  <2>3. Written(d) + (i + 1) = Written(e) + i
    BY <1>5, <2>1
  <2> QED
    BY <1>2, <1>3, <2>2, <2>3
<1> QED
  BY <1>5, <1>6 DEF o, k

\* The handlers of the io loop.
LEMMA HandlerWhole ==
  ASSUME WInv, NoSendInWriteCb,
         \/ run_send \/ run_shutdown \/ run_force_close \/ handle_read \/ handle_write
         \/ run_connect_destroy \/ run_dangling
  PROVE  Whole(conn')
<1> DEFINE p == pop(conn, "io")
<1>0. ASSUME NEW k \in RawKinds \cup {"connect_destroy"}, Runs("io", k)
      PROVE  /\ Whole(conn) /\ conn.queue["io"] # << >> /\ Head(conn.queue["io"]).kind = k
             /\ Head(conn.queue["io"]) \in Task /\ Good(p)
             /\ k \notin {"handle_write", "connect_destroy"} => Whole(p)
             /\ conn \in Conn /\ conn.queue["io"] \in Seq(Task)
  <2>1. k # "connect_establised"
    BY DEF RawKinds
  <2>2. Good(conn) /\ Good(p) /\ Head(conn.queue["io"]) \in Task
    BY <1>0, <2>1, Popped DEF WInv, StepTo
  <2>3. Whole(conn) /\ conn \in Conn /\ conn.queue["io"] \in Seq(Task)
    BY <2>2 DEF WInv, Whole, Good, Conn, Loops
  <2>4. conn.queue["io"] # << >> /\ Head(conn.queue["io"]).kind = k
    BY <1>0 DEF Runs
  <2>5. k \notin {"handle_write", "connect_destroy"} => Whole(p)
    BY <2>3, <2>4, PopWhole
  <2> QED
    BY <2>2, <2>3, <2>4, <2>5
<1>1. ASSUME run_send PROVE Whole(conn')
  <2>1. Whole(p) /\ Head(conn.queue["io"]) \in Task /\ Head(conn.queue["io"]).kind = "send"
    BY <1>0, <1>1 DEF run_send, RawKinds
  <2>2. Head(conn.queue["io"]).msg \in 1 .. MaxSends
    BY <2>1 DEF Task
  <2> QED
    BY <1>1, <2>1, <2>2, SendInLoopWhole DEF run_send
<1>2. ASSUME run_shutdown PROVE Whole(conn')
  <2>1. /\ Whole(p) /\ Whole(conn) /\ conn.queue["io"] # << >>
        /\ Head(conn.queue["io"]).kind = "shutdown"
        /\ conn \in Conn /\ conn.queue["io"] \in Seq(Task)
    BY <1>0, <1>2 DEF run_shutdown, RawKinds
  <2>2. conn.flag # {}
    <3>1. Len(conn.queue["io"]) \in Nat \ {0} /\ Head(conn.queue["io"]) = conn.queue["io"][1]
      BY <2>1, EmptySeq
    <3>2. ~No(conn.queue["io"], "shutdown")
      BY <2>1, <3>1 DEF No
    <3> QED
      BY <2>1, <3>2 DEF Whole, Rest, Flags
  <2>3. p.flag # {}
    BY <2>1, <2>2 DEF pop, Conn
  <2> QED
    BY <1>2, <2>1, <2>3, ShutdownInLoopWhole DEF run_shutdown
<1>3. ASSUME run_force_close PROVE Whole(conn')
  <2>1. Whole(p)
    BY <1>0, <1>3 DEF run_force_close, RawKinds
  <2>2. Whole(connect_cleanup(p, "force_close"))
    BY <2>1, ConnectCleanupWhole DEF Whole, Causes
  <2> QED
    BY <1>3, <2>2 DEF run_force_close, force_close_in_loop
<1>4. ASSUME handle_read PROVE Whole(conn')
  <2>1. Whole(p)
    BY <1>0, <1>4 DEF handle_read, RawKinds
  <2>2. Whole(connect_cleanup(p, "socket_err"))
    BY <2>1, ConnectCleanupWhole DEF Whole, Causes
  <2>3. Whole(async_read(p))
    BY <2>1, AsyncReadWhole
  <2>4. ASSUME NEW r \in ReadReactions
        PROVE  Whole(async_read(callback(p, r)))
    BY <2>1, CallbackWhole, AsyncReadWhole
  <2> QED
    BY <1>4, <2>2, <2>3, <2>4 DEF handle_read
<1>5. ASSUME handle_write PROVE Whole(conn')
  <2>1. /\ Whole(conn) /\ Good(p) /\ conn.queue["io"] # << >>
        /\ Head(conn.queue["io"]).kind = "handle_write" /\ Head(conn.queue["io"]) \in Task
        /\ conn \in Conn /\ conn.queue["io"] \in Seq(Task)
    BY <1>0, <1>5 DEF handle_write, RawKinds
  <2>2. WFree(p) /\ conn.output_buffer # << >>
    BY <2>1, PopWrites DEF Loops, Whole
  <2> DEFINE d == [p EXCEPT !.output_buffer = Tail(@)]
             s == conn.queue["io"]
  <2>3. /\ d \in Conn /\ d.queue["io"] = Tail(s) /\ d.queue = p.queue
        /\ d.wheel \subseteq d.timers /\ d.state = conn.state /\ d.flag = conn.flag
        /\ d.is_cleaned = conn.is_cleaned /\ d.cause = conn.cause
        /\ d.accepted = conn.accepted /\ d.output_buffer = Tail(conn.output_buffer)
        /\ d.writing = << >> /\ d.timers = conn.timers /\ d.wheel = conn.wheel
        /\ p.state = conn.state /\ p.is_cleaned = conn.is_cleaned /\ p.accepted = conn.accepted
        /\ p.writing = << >>
    <3>1. Tail(conn.output_buffer) \in Seq(1 .. MaxSends) /\ Tail(s) \in Seq(Task)
      BY <2>1, <2>2, FrontMessage, TailTask DEF Conn
    <3> QED
      BY <2>1, <2>2, <3>1 DEF pop, Conn, Loops, Whole, Good, WFree
  <2> HIDE DEF d
  <2>4. Good(d) /\ WFree(d)
    BY <2>1, <2>2, <2>3, SameQueueGood DEF WFree
  <2>5. Flags(d) /\ Kept(d) /\ Armed(d) /\ Alone(d) /\ Drained(d)
    <3>1. /\ No(s, "shutdown") => No(Tail(s), "shutdown")
          /\ No(Tail(s), "connect_destroy") => No(s, "connect_destroy")
      BY <2>1, TailTask, TailKeeps
    <3>2. conn.cause # "shutdown"
      BY <2>1, <2>2 DEF Whole, Rest, Drained
    <3> QED
      BY <2>1, <2>3, <3>1, <3>2 DEF Whole, Rest, Flags, Kept, Armed, Alone, Drained
  <2>6. Written(d) = Written(conn) + 1 /\ Written(conn) \in Nat
    BY <2>1, <2>2, <2>3, TailWritten DEF Whole, Rest
  <2>7. Ordered(d)
    <3>1. NoOk(d.queue["io"])
      <4>1. No(Tail(s), "handle_write") /\ Tail(s) \in Seq(Task)
        BY <2>1, <2>3, <2>4, TailTask DEF WFree
      <4> QED
        BY <2>1, <2>3, <4>1, OkWrites
    <3>2. /\ wire \in Seq(1 .. MaxSends) /\ Len(wire) <= Len(d.accepted)
          /\ \A i \in 1 .. Len(wire) : wire[i] = d.accepted[i]
      BY <2>1, <2>3 DEF Whole, Rest, Ordered
    <3>3. /\ Len(d.output_buffer) <= Len(d.accepted)
          /\ \A i \in 1 .. Len(d.output_buffer) :
               d.output_buffer[i] = d.accepted[Written(d) + i]
      <4>1. /\ Ordered(conn) /\ conn \in Conn /\ conn.output_buffer # << >>
            /\ d.output_buffer = Tail(conn.output_buffer) /\ d.accepted = conn.accepted
        BY <2>1, <2>2, <2>3 DEF Whole, Rest
      <4> HIDE DEF s, p
      <4> QED
        BY ONLY <4>1, TailWritten
    <3>4. d.writing = << >>
      BY <2>3
    <3> QED
      BY <3>1, <3>2, <3>3, <3>4 DEF Ordered
  <2>8. CASE Head(s).ec # "ok"
    <3>1. Whole(connect_cleanup(d, "socket_err"))
      BY <2>4, <2>5, <2>7, FreeIsGood, ConnectCleanupWhole DEF Rest, Causes
    <3> QED
      BY <1>5, <2>2, <2>8, <3>1 DEF handle_write, d
  <2>9. CASE Head(s).ec = "ok"
    <3>1. Len(wire) = Written(d)
      <4>1. Len(s) \in Nat \ {0} /\ Head(s) = s[1]
        BY <2>1, EmptySeq
      <4>2. ~NoOk(s)
        BY <2>1, <2>9, <4>1 DEF NoOk
      <4> QED
        BY <2>1, <2>6, <4>2 DEF Whole, Rest, Ordered
    <3>2. Inside(d)
      BY <2>4, <2>5, <2>7, <3>1 DEF Inside, Rest
    <3>3. ASSUME NEW r \in WriteReactions
          PROVE  Whole(write_next(callback(d, r)))
      <4>1. r \in Calls \X Calls /\ r[1] # "send" /\ r[2] # "send"
        BY DEF NoSendInWriteCb
      <4> QED
        BY <3>2, <4>1, CallbackWhole, WriteNextWhole
    <3>4. \E r \in WriteReactions : conn' = write_next(callback(d, r))
      BY <1>5, <2>2, <2>9 DEF handle_write, d
    <3> QED
      BY <3>3, <3>4
  <2> QED
    BY <2>8, <2>9
<1>6. ASSUME run_connect_destroy PROVE Whole(conn')
  <2>1. /\ Whole(conn) /\ Good(p) /\ conn.queue["io"] # << >>
        /\ Head(conn.queue["io"]).kind = "connect_destroy"
        /\ conn \in Conn /\ conn.queue["io"] \in Seq(Task)
    BY <1>0, <1>6 DEF run_connect_destroy
  <2>2. Good(conn') /\ WGood(conn')
    BY <1>6, HandlerStep, HandlerWrites DEF WInv, StepTo
  <2>3. ~registered /\ conn.is_cleaned
    <3>1. Len(conn.queue["io"]) \in Nat \ {0} /\ Head(conn.queue["io"]) = conn.queue["io"][1]
      BY <2>1, EmptySeq
    <3>2. ~No(conn.queue["io"], "connect_destroy")
      BY <2>1, <3>1 DEF No
    <3> QED
      BY <2>1, <3>2 DEF Whole, Good
  <2> DEFINE s == conn.queue["io"]
             a == aborted_operations([p EXCEPT !.state = "Closed", !.open = FALSE])
  <2>4. /\ p.queue["io"] = Tail(s) /\ p \in Conn
        /\ p.state = conn.state /\ p.flag = conn.flag /\ p.is_cleaned = conn.is_cleaned
        /\ p.cause = conn.cause /\ p.accepted = conn.accepted
        /\ p.output_buffer = conn.output_buffer /\ p.writing = conn.writing
    BY <2>1 DEF pop, Conn, Loops, Good
  <2>5. /\ a \in Seq(Task) /\ No(a, "shutdown") /\ NoOk(a) /\ << >> \in Seq(Task)
    <3>1. [p EXCEPT !.state = "Closed", !.open = FALSE] \in Conn
      BY <2>4 DEF Conn, EState
    <3> QED
      BY <3>1, Aborted, AbortedFails
  <2>6. conn' = connect_destroy(p)
    BY <1>6 DEF run_connect_destroy
  <2> HIDE DEF p, a
  <2>7. /\ conn'.state = "Closed" /\ conn'.flag = conn.flag /\ conn'.is_cleaned
        /\ conn'.cause = conn.cause /\ conn'.accepted = conn.accepted
        /\ conn'.output_buffer = conn.output_buffer
        /\ conn'.writing \in {conn.writing, << >>}
        /\ conn'.queue["io"] \in {Tail(s), Tail(s) \o a}
    BY <2>3, <2>4, <2>6 DEF connect_destroy, cancel_operations, Conn, Loops, a
  <2>8. /\ No(s, "shutdown") => No(conn'.queue["io"], "shutdown")
        /\ NoOk(s) => NoOk(conn'.queue["io"])
    <3>1. /\ Tail(s) \in Seq(Task) /\ (No(s, "shutdown") => No(Tail(s), "shutdown"))
          /\ (NoOk(s) => NoOk(Tail(s)))
      BY <2>1, OkWrites, TailTask
    <3>2. /\ No(s, "shutdown") => No(Tail(s) \o a, "shutdown")
          /\ NoOk(s) => NoOk(Tail(s) \o a)
      BY <2>1, <2>5, <3>1, ConcatTask, OkWrites, TailTask
    <3> QED
      BY <2>7, <3>1, <3>2
  <2>9. Flags(conn') /\ Kept(conn') /\ Armed(conn') /\ Drained(conn') /\ Flows(conn')
        /\ Alone(conn')
    BY <2>1, <2>3, <2>7, <2>8
    DEF Whole, Rest, Flags, Kept, Armed, Drained, Flows, Alone
  <2>10. Ordered(conn')
    <3>1. Written(conn') = Written(conn)
      BY <2>7 DEF Written
    <3> QED
      BY <2>1, <2>7, <2>8, <3>1 DEF Whole, Rest, Ordered
  <2> QED
    BY <2>2, <2>9, <2>10 DEF Whole, Rest
<1>7. ASSUME run_dangling PROVE Whole(conn')
  <2>1. PICK k \in RawKinds : Runs("io", k)
    BY <1>7 DEF run_dangling
  <2>2. Whole(conn)
    BY <1>0, <2>1
  <2>3. conn' = conn
    BY <1>7 DEF run_dangling
  <2> QED
    BY <2>2, <2>3
<1> QED
  BY <1>1, <1>2, <1>3, <1>4, <1>5, <1>6, <1>7

\* What of the invariant comes on top of the earlier ones.
Sound == Rest(conn) /\ Flows(conn) /\ Alone(conn)

LEMMA SoundAfter ==
  ASSUME Rest(conn'), Flows(conn'), Alone(conn'),
         UNCHANGED <<limits, registered, app, expired, wire>>
  PROVE  Sound'
<1>2. Flags(conn)'
  BY DEF Rest, Flags, No
<1>3. Kept(conn)'
  BY DEF Rest, Kept, No
<1>4. Armed(conn)'
  BY DEF Rest, Armed, Fired
<1>5. Ordered(conn)'
  BY DEF Rest, Ordered, NoOk, Written
<1>6. Drained(conn)' /\ Flows(conn)' /\ Alone(conn)'
  BY DEF Rest, Drained, Flows, Alone, Written, WFree, No
<1> QED
  BY <1>2, <1>3, <1>4, <1>5, <1>6 DEF Sound, Rest

\* A connection that nobody refers to was destroyed: the server lets go of it with
\* connect_destroy posted, and that task holds it until it is Closed.
LEMMA UnheldIsClosed ==
  ASSUME WInv, ~Alive
  PROVE  conn.state = "Closed"
<1>1. ~registered /\ No(conn.queue["io"], "connect_destroy")
  BY DEF Alive, HasTask, RefKinds, Loops, No
<1> QED
  BY <1>1 DEF WInv, Rest, Kept

\* A step that concerns neither messages nor timers.
LEMMA KeepsSound ==
  ASSUME Sound, SameTasks(conn, conn'), UNCHANGED <<limits, registered, app, expired, wire>>,
         conn'.state = conn.state, conn'.flag = conn.flag,
         conn'.is_cleaned = conn.is_cleaned, conn'.cause = conn.cause,
         conn'.accepted = conn.accepted, conn'.output_buffer = conn.output_buffer,
         conn'.writing = conn.writing, conn'.timers = conn.timers, conn'.wheel = conn.wheel
  PROVE  Sound'
<1>1. Rest(conn') /\ Flows(conn') /\ Alone(conn')
  BY KeepsRest DEF Sound
<1> QED
  BY <1>1, SoundAfter

\* An expired timer goes from the wheel to the list of those to be called.
LEMMA TurnWheelSound ==
  ASSUME WInv, turn_wheel
  PROVE  Sound'
<1>1. PICK s \in {<<"read">>, <<"write">>, <<"read", "write">>, <<"write", "read">>} :
         /\ expired' = s
         /\ conn' = [conn EXCEPT !.wheel = {t \in @ : \A i \in 1 .. Len(s) : s[i] # t}]
  BY DEF turn_wheel
<1>2. conn \in Conn /\ expired = << >>
  BY DEF turn_wheel, IoIdle, WInv, IInv, TypeOK
<1>3. /\ conn'.queue = conn.queue /\ conn'.state = conn.state /\ conn'.flag = conn.flag
      /\ conn'.is_cleaned = conn.is_cleaned /\ conn'.cause = conn.cause
      /\ conn'.accepted = conn.accepted /\ conn'.output_buffer = conn.output_buffer
      /\ conn'.writing = conn.writing /\ conn'.timers = conn.timers
      /\ conn'.wheel = {t \in conn.wheel : \A i \in 1 .. Len(s) : s[i] # t}
  BY <1>1, <1>2 DEF Conn
<1>4. UNCHANGED <<limits, registered, app, wire>>
  BY DEF turn_wheel
<1>5. Written(conn)' = Written(conn)
  BY <1>3 DEF Written
<1>6. Flags(conn)' /\ Kept(conn)' /\ Drained(conn)' /\ Flows(conn)' /\ Alone(conn)'
  BY <1>3, <1>4, <1>5
  DEF WInv, Rest, Flags, Kept, Drained, Flows, Alone, No, WFree
<1>7. Ordered(conn)'
  BY <1>3, <1>4, <1>5 DEF WInv, Rest, Ordered, NoOk
<1>8. Armed(conn)'
  <2>1. Fired = {} /\ Fired' = {s[i] : i \in 1 .. Len(s)}
    <3>1. Len(expired) = 0
      BY <1>2
    <3> QED
      BY <1>1, <3>1 DEF Fired
  <2>2. conn.wheel \subseteq conn'.wheel \cup Fired'
    BY <1>3, <2>1
  <2> QED
    BY <1>3, <1>4, <2>1, <2>2 DEF WInv, Rest, Armed
<1> QED
  BY <1>6, <1>7, <1>8 DEF Sound, Rest

\* A timeout cleans up: after that no timer has to be armed.
LEMMA TimeoutSound ==
  ASSUME WInv, handle_timeout
  PROVE  Sound'
<1>1. UNCHANGED <<limits, registered, app, wire>>
  BY DEF handle_timeout
<1>2. Whole(conn)
  BY WholeConn DEF handle_timeout, WInv, IInv
<1>3. Whole(conn') /\ conn'.is_cleaned
  <2>1. CASE ~Alive
    <3>1. conn' = conn /\ conn.is_cleaned
      BY <1>2, <2>1 DEF handle_timeout, Alive, Whole, Good
    <3> QED
      BY <1>2, <3>1
  <2>2. CASE Alive
    <3>1. conn' = connect_cleanup(conn, "timeout")
      BY <2>2 DEF handle_timeout
    <3> QED
      BY <1>2, <3>1, ConnectCleanupWhole DEF Whole, Causes
  <2> QED
    BY <2>1, <2>2
<1>4. Flags(conn)' /\ Kept(conn)' /\ Drained(conn)' /\ Flows(conn)' /\ Alone(conn)'
  BY <1>1, <1>3 DEF Whole, Rest, Flags, Kept, Drained, Flows, Alone, No
<1>5. Ordered(conn)'
  BY <1>1, <1>3 DEF Whole, Rest, Ordered, NoOk, Written
<1>6. Armed(conn)'
  BY <1>3 DEF Armed
<1> QED
  BY <1>4, <1>5, <1>6 DEF Sound, Rest

LEMMA ReadCompletesSound ==
  ASSUME WInv, NEW ec \in {"ok", "eof", "error"}, read_completes(ec)
  PROVE  Sound'
<1> DEFINE d == [conn EXCEPT !.reading = FALSE]
           t == completion("handle_read", ec)
<1>1. Whole(conn) /\ conn \in Conn
  BY WholeConn, OnlyEstablish DEF read_completes, WInv, IInv, TypeOK
<1>2. /\ d \in Conn /\ d.queue = conn.queue /\ d.wheel \subseteq d.timers
      /\ d.state = conn.state /\ d.flag = conn.flag /\ d.is_cleaned = conn.is_cleaned
      /\ d.cause = conn.cause /\ d.accepted = conn.accepted
      /\ d.output_buffer = conn.output_buffer
      /\ d.writing = conn.writing /\ d.timers = conn.timers /\ d.wheel = conn.wheel
  BY <1>1 DEF Conn, Whole, Good
<1>3. t \in Task /\ t.kind \in RawKinds \ {"shutdown", "handle_write"}
  BY TaskTypes DEF RawKinds
<1>4. conn' = run_in_loop(d, "io", t)
  BY DEF read_completes
<1> HIDE DEF d, t
<1>5. Good(d) /\ WGood(d)
  BY <1>1, <1>2, SameQueueGood, KeepsWrites DEF Whole
<1>6. Rest(d) /\ Flows(d) /\ Alone(d)
  <2>1. SameTasks(conn, d)
    BY <1>2 DEF SameTasks
  <2> QED
    BY <1>1, <1>2, <2>1, KeepsRest DEF Whole
<1>7. Whole(conn')
  BY <1>3, <1>4, <1>5, <1>6, RunInLoopWhole DEF Whole
<1> QED
  BY <1>7, SoundAfter DEF read_completes, Whole

\* A list of one message.
LEMMA OneLeft ==
  ASSUME NEW w \in Seq(1 .. MaxSends), w # << >>, Len(w) <= 1
  PROVE  Tail(w) = << >> /\ Head(w) = w[1] /\ Head(w) \in 1 .. MaxSends
<1> DEFINE n == Len(w)
<1>1. n \in Nat /\ n # 0 /\ n <= 1
  BY EmptySeq, LenProperties
<1> HIDE DEF n
<1>2. n = 1
  BY <1>1
<1>3. Tail(w) \in Seq(1 .. MaxSends) /\ Len(Tail(w)) = 0
  BY <1>2, HeadTailProperties DEF n
<1>4. Head(w) = w[1] /\ Head(w) \in 1 .. MaxSends
  BY HeadTailProperties
<1> QED
  BY <1>3, <1>4, EmptySeq

\* The socket was given the message at the front of the list, the next to count.
LEMMA WriteCompletesSound ==
  ASSUME WInv, NEW ec \in {"ok", "error"}, write_completes(ec)
  PROVE  Sound'
<1> DEFINE t == completion("handle_write", ec)
           s == conn.queue["io"]
           w == conn.writing
           o == conn.output_buffer
           a == conn.accepted
           n == Written(conn)
<1>1. /\ conn \in Conn /\ WGood(conn) /\ Rest(conn) /\ w # << >>
      /\ s \in Seq(Task) /\ w \in Seq(1 .. MaxSends) /\ o \in Seq(1 .. MaxSends)
      /\ a \in Seq(1 .. MaxSends) /\ wire \in Seq(1 .. MaxSends)
  BY DEF WInv, IInv, TypeOK, Conn, Loops, write_completes
<1>2. t \in Task /\ t.kind = "handle_write" /\ t.ec = ec
  BY TaskTypes DEF RawKinds, completion
<1>3. /\ Len(w) <= 1 /\ No(s, "handle_write") /\ o # << >> /\ Head(o) = w[1]
      /\ Len(wire) = n
  BY <1>1 DEF WGood, Rest, Ordered
<1>4. UNCHANGED <<limits, registered, app, expired>>
  BY DEF write_completes
<1>5. wire' = IF ec = "ok" THEN Append(wire, Head(w)) ELSE wire
  BY DEF write_completes
<1> HIDE DEF t
<1>6. /\ conn'.writing = Tail(w) /\ conn'.output_buffer = o /\ conn'.accepted = a
      /\ conn'.queue["io"] = Append(s, t)
      /\ conn'.state = conn.state /\ conn'.flag = conn.flag
      /\ conn'.is_cleaned = conn.is_cleaned /\ conn'.cause = conn.cause
      /\ conn'.timers = conn.timers /\ conn'.wheel = conn.wheel
  BY <1>1 DEF write_completes, run_in_loop, Conn, Loops, t
<1>7. /\ No(Append(s, t), "shutdown") <=> No(s, "shutdown")
      /\ No(Append(s, t), "connect_destroy") <=> No(s, "connect_destroy")
      /\ ~No(Append(s, t), "handle_write")
      /\ NoOk(Append(s, t)) <=> ec # "ok"
  <2>1. t.kind # "shutdown" /\ t.kind # "connect_destroy" /\ NoOk(s)
    BY <1>2, <1>3 DEF No, NoOk
  <2> QED
    BY <1>1, <1>2, <2>1, AppendTask, OkWrites
<1>8. Written(conn)' = n
  BY <1>6 DEF Written
<1>9. Tail(w) = << >> /\ Head(w) = w[1] /\ Head(w) \in 1 .. MaxSends
  BY <1>1, <1>3, OneLeft
<1>10. Head(w) = a[n + 1] /\ n + 1 <= Len(a) /\ n \in Nat
  <2>1. Ordered(conn)
    BY <1>1 DEF Rest
  <2>2. Len(o) \in Nat \ {0} /\ Len(a) \in Nat /\ o[1] = Head(o) /\ n = Len(a) - Len(o)
        /\ Len(o) <= Len(a)
    BY <1>1, <1>3, <2>1, EmptySeq, LenProperties, HeadTailProperties DEF Ordered, Written
  <2>3. o[1] = a[n + 1]
    <3>1. \A i \in 1 .. Len(o) : o[i] = a[n + i]
      BY <2>1 DEF Ordered
    <3> HIDE DEF o, a, n
    <3> QED
      BY <2>2, <3>1
  <2> HIDE DEF n, o, a, w
  <2> QED
    BY <1>3, <1>9, <2>2, <2>3
<1> HIDE DEF s, w, o, a, n
<1>11. Flags(conn)' /\ Kept(conn)' /\ Drained(conn)' /\ Flows(conn)' /\ Alone(conn)'
  <2>1. ~WFree(conn)'
    BY <1>6, <1>7 DEF WFree
  <2>2. conn.cause # "shutdown"
    <3>1. conn.cause = "shutdown" => o = << >>
      BY <1>1 DEF Rest, Drained, o
    <3> QED
      BY <1>3, <3>1
  <2> QED
    BY <1>1, <1>4, <1>6, <1>7, <2>1, <2>2
    DEF WInv, Rest, Flags, Kept, Drained, Flows, Alone, s
<1>12. Armed(conn)'
  <2>1. Fired' = Fired
    BY <1>4 DEF Fired
  <2> QED
    BY <1>1, <1>4, <1>6, <1>9, <2>1 DEF Rest, Armed
<1>13. Ordered(conn)'
  <2>1. /\ wire' \in Seq(1 .. MaxSends) /\ Len(wire') <= Len(a)
        /\ \A i \in 1 .. Len(wire') : wire'[i] = a[i]
        /\ ec = "ok" => Len(wire') = n + 1
    <3>0. Len(wire) <= Len(a) /\ \A i \in 1 .. Len(wire) : wire[i] = a[i]
      BY <1>1 DEF Rest, Ordered, a
    <3>1. CASE ec = "ok"
      <4>1. /\ wire' \in Seq(1 .. MaxSends) /\ Len(wire') = n + 1
            /\ \A i \in 1 .. n : wire'[i] = wire[i]
            /\ wire'[n + 1] = a[n + 1]
        BY <1>1, <1>3, <1>5, <1>9, <1>10, <3>1, AppendProperties
      <4>2. ASSUME NEW i \in 1 .. n + 1 PROVE wire'[i] = a[i]
        <5>1. i \in 1 .. n \/ i = n + 1
          BY <1>10
        <5> QED
          BY <1>3, <3>0, <4>1, <5>1
      <4> QED
        BY <1>10, <4>1, <4>2
    <3>2. CASE ec # "ok"
      BY <1>1, <1>5, <3>0, <3>2
    <3> QED
      BY <3>1, <3>2
  <2>2. /\ Len(conn'.output_buffer) <= Len(conn'.accepted)
        /\ \A i \in 1 .. Len(conn'.output_buffer) :
             conn'.output_buffer[i] = conn'.accepted[n + i]
    BY <1>1, <1>6 DEF Rest, Ordered, o, a, n
  <2> QED
    BY <1>6, <1>7, <1>8, <1>9, <2>1, <2>2 DEF Ordered
<1> QED
  BY <1>11, <1>12, <1>13 DEF Sound, Rest

\* A step that neither writes nor ends a write leaves the order alone.
LEMMA SameOrdered ==
  ASSUME Ordered(conn), wire' = wire, conn'.output_buffer = conn.output_buffer,
         conn'.accepted = conn.accepted, conn'.writing = conn.writing,
         NoOk(conn.queue["io"]) => NoOk(conn'.queue["io"])
  PROVE  Ordered(conn)'
<1> DEFINE o == conn.output_buffer
           a == conn.accepted
<1>1. Written(conn') = Written(conn)
  BY DEF Written
<1>2. /\ conn'.output_buffer = o /\ conn'.accepted = a /\ wire' = wire
      /\ Len(o) <= Len(a) /\ \A i \in 1 .. Len(o) : o[i] = a[Written(conn) + i]
      /\ Len(wire) <= Len(a) /\ \A i \in 1 .. Len(wire) : wire[i] = a[i]
      /\ wire \in Seq(1 .. MaxSends)
  BY DEF Ordered
<1>3. /\ conn'.writing # << >> => Len(wire) = Written(conn)
      /\ ~NoOk(conn'.queue["io"]) => Len(wire) = Written(conn) + 1
  BY DEF Ordered
<1> HIDE DEF o, a
<1>4. Ordered(conn')
  BY <1>1, <1>2, <1>3 DEF Ordered
<1> QED
  BY <1>4 DEF Ordered, Written, NoOk

\* The application thread: its posts, and the flags that its calls leave.
LEMMA AppSound ==
  ASSUME WInv, App
  PROVE  Sound'
<1>0. conn \in Conn /\ Sound /\ conn.queue["io"] \in Seq(Task)
  BY DEF WInv, IInv, TypeOK, Sound, Conn, Loops
<1>1. ASSUME app_send PROVE Sound'
  <2> DEFINE d == [conn EXCEPT !.sends = @ + 1]
             t == [kind |-> "send", msg |-> conn.sends + 1, ec |-> "ok"]
  <2>1. conn.sends + 1 \in 0 .. MaxSends /\ conn.sends + 1 \in 1 .. MaxSends
    <3>1. conn.sends \in 0 .. MaxSends
      BY <1>0 DEF Conn
    <3> QED
      BY <1>1, <3>1 DEF app_send
  <2>2. t \in Task /\ t.kind = "send"
    BY <2>1 DEF Task
  <2>3. conn' = run_in_loop(d, "io", t)
    BY <1>1 DEF app_send
  <2> HIDE DEF t
  <2>4. /\ conn'.queue["io"] = Append(conn.queue["io"], t)
        /\ conn'.state = conn.state /\ conn'.flag = conn.flag
        /\ conn'.is_cleaned = conn.is_cleaned /\ conn'.cause = conn.cause
        /\ conn'.accepted = conn.accepted /\ conn'.output_buffer = conn.output_buffer
        /\ conn'.writing = conn.writing /\ conn'.timers = conn.timers
        /\ conn'.wheel = conn.wheel
    BY <1>0, <2>1, <2>3 DEF run_in_loop, Conn, Loops
  <2>5. SameTasks(conn, conn')
    <3>1. t.kind # "shutdown" /\ t.kind # "connect_destroy" /\ t.kind # "handle_write"
      BY <2>2
    <3> QED
      BY <1>0, <2>2, <2>4, <3>1, AppendTask, OkWrites DEF SameTasks
  <2>6. UNCHANGED <<limits, registered, app, expired, wire>>
    BY <1>1 DEF app_send
  <2> QED
    BY <1>0, <2>4, <2>5, <2>6, KeepsSound
<1>2. ASSUME NEW op \in {"shutdown", "shutdown_cb", "force_close"}, app_test_flag(op)
      PROVE  Sound'
  <2>1. /\ conn' = conn /\ app' = [pc |-> "tested", op |-> op, loaded |-> conn.flag]
        /\ UNCHANGED <<limits, registered, expired, wire>>
    BY <1>2 DEF app_test_flag
  <2>2. "OptForceClose" \notin conn.flag
    BY <1>2 DEF app_test_flag, may_force_close, may_shutdown
  <2>3. Flags(conn)'
    <3>1. app'.pc = "tested" /\ app'.loaded = conn.flag
      BY <2>1
    <3> QED
      BY <1>0, <2>1, <3>1 DEF Sound, Rest, Flags, No
  <2>4. Kept(conn)' /\ Drained(conn)' /\ Armed(conn)' /\ Flows(conn)'
    BY <1>0, <2>1 DEF Sound, Rest, Kept, Drained, Armed, Flows, Fired, No, WFree, Written
  <2>5. Ordered(conn)'
    BY <1>0, <2>1 DEF Sound, Rest, Ordered, NoOk, Written
  <2>6. Alone(conn)'
    BY <2>1, <2>2 DEF Alone
  <2> QED
    BY <2>3, <2>4, <2>5, <2>6 DEF Sound, Rest
<1>3. ASSUME app_set_flag PROVE Sound'
  <2>1. PICK f \in raced_flags : conn' = [conn EXCEPT !.flag = f]
    BY <1>3 DEF app_set_flag
  <2>2. /\ app' = [app EXCEPT !.pc = "flagged", !.loaded = {}] /\ app.pc = "tested"
        /\ UNCHANGED <<limits, registered, expired, wire>>
    BY <1>3 DEF app_set_flag
  <2>3. /\ conn'.queue = conn.queue /\ conn'.state = conn.state /\ conn'.flag = f
        /\ conn'.is_cleaned = conn.is_cleaned /\ conn'.cause = conn.cause
        /\ conn'.accepted = conn.accepted /\ conn'.output_buffer = conn.output_buffer
        /\ conn'.writing = conn.writing /\ conn'.timers = conn.timers
        /\ conn'.wheel = conn.wheel
    BY <1>0, <2>1 DEF Conn
  <2>4. f \cap {"OptShutdown", "OptForceClose"} # {}
    <3>1. conn.flag # {} => conn.flag \cap {"OptShutdown", "OptForceClose"} # {}
      BY <1>0 DEF Sound, Rest, Flags
    <3>2. app.loaded \subseteq conn.flag
      BY <1>0, <2>2 DEF Sound, Rest, Flags
    <3>3. shutdown_flags(app.op) \cap {"OptShutdown", "OptForceClose"} # {}
      BY DEF shutdown_flags
    <3>4. conn.flag # app.loaded => conn.flag # {}
      BY <3>2
    <3> QED
      BY <3>1, <3>3, <3>4 DEF raced_flags
  <2>5. app'.pc = "flagged"
    BY <2>2 DEF WInv, IInv, TypeOK
  <2>6. Flags(conn)' /\ Alone(conn)'
    BY <2>3, <2>4, <2>5 DEF Flags, Alone
  <2>7. "OptForceClose" \in conn.flag => conn.is_cleaned \/ "OptForceClose" \in f
    BY <1>0, <2>2 DEF Sound, Alone
  <2>8. Kept(conn)' /\ Drained(conn)' /\ Armed(conn)' /\ Flows(conn)'
    BY <1>0, <2>2, <2>3, <2>7
    DEF Sound, Rest, Kept, Drained, Armed, Flows, Fired, No, WFree, Written
  <2>9. Ordered(conn)'
    BY <1>0, <2>2, <2>3 DEF Sound, Rest, Ordered, NoOk, Written
  <2> QED
    BY <2>6, <2>8, <2>9 DEF Sound, Rest
<1>4. ASSUME app_post PROVE Sound'
  <2> DEFINE t == task(IF app.op = "force_close" THEN "force_close" ELSE "shutdown")
             s == conn.queue["io"]
  <2>1. t \in Task /\ t.kind \in {"force_close", "shutdown"}
    BY TaskTypes DEF RawKinds
  <2>2. /\ conn' = run_in_loop(conn, "io", t) /\ app' = IdleApp /\ app.pc = "flagged"
        /\ UNCHANGED <<limits, registered, expired, wire>>
    BY <1>4 DEF app_post
  <2>3. conn.flag # {}
    BY <1>0, <2>2 DEF Sound, Rest, Flags
  <2> HIDE DEF t
  <2>4. /\ conn'.queue["io"] = Append(s, t)
        /\ conn'.state = conn.state /\ conn'.flag = conn.flag
        /\ conn'.is_cleaned = conn.is_cleaned /\ conn'.cause = conn.cause
        /\ conn'.accepted = conn.accepted /\ conn'.output_buffer = conn.output_buffer
        /\ conn'.writing = conn.writing /\ conn'.timers = conn.timers
        /\ conn'.wheel = conn.wheel
    BY <1>0, <2>2 DEF run_in_loop, Conn, Loops
  <2>5. /\ No(Append(s, t), "connect_destroy") <=> No(s, "connect_destroy")
        /\ No(Append(s, t), "handle_write") <=> No(s, "handle_write")
        /\ NoOk(Append(s, t)) <=> NoOk(s)
    <3>1. t.kind # "connect_destroy" /\ t.kind # "handle_write"
      BY <2>1
    <3> QED
      BY <1>0, <2>1, <3>1, AppendTask, OkWrites
  <2>6. app'.pc = "idle"
    BY <2>2 DEF IdleApp
  <2>7. Written(conn)' = Written(conn)
    BY <2>4 DEF Written
  <2>8. Flags(conn)' /\ Alone(conn)'
    BY <1>0, <2>3, <2>4, <2>6 DEF Sound, Rest, Flags, Alone
  <2>9. Kept(conn)' /\ Drained(conn)' /\ Armed(conn)' /\ Flows(conn)'
    <3>1. Fired' = Fired
      BY <2>2 DEF Fired
    <3>2. WFree(conn)' <=> WFree(conn)
      BY <2>4, <2>5 DEF WFree
    <3>3. Flows(conn)'
      BY <1>0, <2>2, <2>4, <2>7, <3>2 DEF Sound, Flows
    <3>4. Armed(conn)'
      BY <1>0, <2>2, <2>4, <3>1 DEF Sound, Rest, Armed
    <3> QED
      BY <1>0, <2>2, <2>4, <2>5, <3>3, <3>4 DEF Sound, Rest, Kept, Drained
  <2>10. Ordered(conn)'
    BY <1>0, <2>2, <2>4, <2>5, SameOrdered DEF Sound, Rest
  <2> QED
    BY <2>8, <2>9, <2>10 DEF Sound, Rest
<1>5. ASSUME app_drop PROVE Sound'
  <2>1. /\ conn' = conn /\ UNCHANGED <<limits, registered, app, expired, wire>>
    BY <1>5 DEF app_drop
  <2> QED
    BY <1>0, <2>1, KeepsSound DEF SameTasks
<1> QED
  BY <1>1, <1>2, <1>3, <1>4, <1>5 DEF App

\* The server lets go, with connect_destroy posted.
LEMMA RemoveSound ==
  ASSUME WInv, remove_connection
  PROVE  Sound'
<1> DEFINE p == pop(conn, base)
           t == task("connect_destroy")
           s == conn.queue["io"]
<1>1. /\ conn \in Conn /\ base \in Loops /\ conn.queue[base] # << >>
      /\ Head(conn.queue[base]).kind = "remove_connection"
      /\ conn' = run_in_loop(p, "io", t) /\ registered' = FALSE
      /\ UNCHANGED <<limits, app, expired, wire>>
      /\ conn.queue[base] \in Seq(Task) /\ s \in Seq(Task) /\ Sound
  BY DEF remove_connection, Runs, WInv, IInv, TypeOK, Conn, Loops, Sound
<1>2. conn.is_cleaned
  BY RemoveStep DEF WInv
<1>3. t \in Task /\ t.kind = "connect_destroy"
  BY TaskTypes DEF RefKinds
<1> HIDE DEF t
<1>4. /\ p.queue["io"] = IF base = "io" THEN Tail(s) ELSE s
      /\ p.queue \in [Loops -> Seq(Task)]
      /\ conn'.queue["io"] = Append(p.queue["io"], t)
      /\ conn'.state = conn.state /\ conn'.flag = conn.flag
      /\ conn'.is_cleaned = conn.is_cleaned /\ conn'.cause = conn.cause
      /\ conn'.accepted = conn.accepted /\ conn'.output_buffer = conn.output_buffer
      /\ conn'.writing = conn.writing /\ conn'.timers = conn.timers
      /\ conn'.wheel = conn.wheel
  <2>1. Tail(conn.queue[base]) \in Seq(Task)
    BY <1>1, TailTask
  <2>2. /\ p \in Conn /\ p.queue["io"] = IF base = "io" THEN Tail(s) ELSE s
        /\ p.state = conn.state /\ p.flag = conn.flag
        /\ p.is_cleaned = conn.is_cleaned /\ p.cause = conn.cause
        /\ p.accepted = conn.accepted /\ p.output_buffer = conn.output_buffer
        /\ p.writing = conn.writing /\ p.timers = conn.timers /\ p.wheel = conn.wheel
    BY <1>1, <2>1 DEF pop, Conn, Loops
  <2> HIDE DEF p
  <2> QED
    BY <1>1, <2>2 DEF run_in_loop, Conn, Loops
<1> HIDE DEF p
<1>5. /\ p.queue["io"] \in Seq(Task)
      /\ No(s, "shutdown") => No(p.queue["io"], "shutdown")
      /\ NoOk(s) => NoOk(p.queue["io"])
  <2>1. CASE base = "io"
    BY <1>1, <1>4, <2>1, TailTask, OkWrites
  <2>2. CASE base # "io"
    BY <1>1, <1>4, <2>2
  <2> QED
    BY <2>1, <2>2
<1>6. /\ No(s, "shutdown") => No(conn'.queue["io"], "shutdown")
      /\ NoOk(s) => NoOk(conn'.queue["io"])
      /\ ~No(conn'.queue["io"], "connect_destroy")
  <2>1. t.kind # "shutdown" /\ t.kind # "handle_write"
    BY <1>3
  <2>2. /\ No(p.queue["io"], "shutdown") => No(Append(p.queue["io"], t), "shutdown")
        /\ NoOk(p.queue["io"]) => NoOk(Append(p.queue["io"], t))
        /\ ~No(Append(p.queue["io"], t), "connect_destroy")
    BY <1>3, <1>5, <2>1, AppendTask, OkWrites
  <2> QED
    BY <1>4, <1>5, <2>2
<1>7. Written(conn)' = Written(conn)
  BY <1>4 DEF Written
<1>8. Flags(conn)' /\ Kept(conn)' /\ Drained(conn)'
  BY <1>1, <1>4, <1>6 DEF Sound, Rest, Flags, Kept, Drained
<1>9. Armed(conn)' /\ Flows(conn)' /\ Alone(conn)'
  BY <1>2, <1>4 DEF Armed, Flows, Alone
<1>10. Ordered(conn)'
  BY <1>1, <1>4, <1>6, SameOrdered DEF Sound, Rest
<1> QED
  BY <1>8, <1>9, <1>10 DEF Sound, Rest

\* Nothing undefined is met while the connection lives.
LEMMA NothingFails ==
  ASSUME WInv, [Next]_vars
  PROVE  /\ "front" \notin failed'
         /\ "dangling" \in failed' => conn'.state = "Closed"
<1>1. conn.state = "Closed" => conn'.state = "Closed"
  <2>1. IInv' /\ Advances(conn, conn')
    BY NextIInv DEF WInv
  <2>2. conn.state \in EState /\ conn'.state \in EState
    BY <2>1 DEF WInv, IInv, TypeOK, Conn
  <2> QED
    BY <2>1, <2>2, Stages DEF Advances, EState
<1>2. ASSUME handle_write PROVE "front" \notin failed' /\ failed' = failed
  <2>1. conn \in Conn /\ conn.queue["io"] # << >> /\ WGood(conn)
        /\ Head(conn.queue["io"]).kind = "handle_write"
    BY <1>2 DEF handle_write, Runs, WInv, IInv, TypeOK
  <2>2. conn.output_buffer # << >>
    BY <2>1, PopWrites DEF Loops
  <2> QED
    BY <1>2, <2>2 DEF handle_write, WInv
<1>3. ASSUME run_dangling \/ handle_timeout
      PROVE  /\ "front" \notin failed'
             /\ "dangling" \in failed' => "dangling" \in failed \/ conn.state = "Closed"
  BY <1>3, UnheldIsClosed DEF run_dangling, handle_timeout, WInv
<1>4. ASSUME IoLoop \/ Peer \/ App \/ turn_wheel \/ remove_connection \/ Finished
             \/ UNCHANGED vars,
             ~handle_write, ~run_dangling
      PROVE  "front" \notin failed' /\ ("dangling" \in failed' => "dangling" \in failed)
  <2>1. CASE IoLoop
    BY <1>4, <2>1 DEF WInv, IoLoop, connect_establised, run_send, run_shutdown,
       run_force_close, handle_read, run_connect_destroy
  <2>2. CASE Peer \/ App
    BY <2>2 DEF WInv, Peer, App, read_completes, write_completes, app_send, app_test_flag,
       app_set_flag, app_post, app_drop
  <2>3. CASE turn_wheel \/ remove_connection
    BY <2>3 DEF WInv, turn_wheel, remove_connection
  <2>4. CASE Finished \/ UNCHANGED vars
    BY <2>4 DEF WInv, Finished, vars
  <2> QED
    BY <1>4, <2>1, <2>2, <2>3, <2>4
<1> QED
  BY <1>1, <1>2, <1>3, <1>4 DEF Next, IoLoop, WInv

LEMMA NextWInv ==
  ASSUME WInv, NoSendInWriteCb, [Next]_vars
  PROVE  WInv'
<1>0. IInv /\ WGood(conn) /\ Sound
  BY DEF WInv, Sound
<1>1. ASSUME IoLoop PROVE WGood(conn') /\ Sound'
  <2>1. Whole(conn')
    BY <1>1, EstablishedWhole, HandlerWhole DEF IoLoop
  <2>2. UNCHANGED <<limits, registered, app, expired, wire>>
    BY <1>1 DEF IoLoop, connect_establised, run_send, run_shutdown, run_force_close,
       handle_read, handle_write, run_connect_destroy, run_dangling
  <2> QED
    BY <2>1, <2>2, SoundAfter DEF Whole
<1>2. ASSUME turn_wheel \/ handle_timeout \/ Peer \/ App PROVE WGood(conn') /\ Sound'
  <2>1. WGood(conn')
    BY <1>0, <1>2, OutsideWrites
  <2>2. Sound'
    BY <1>2, TurnWheelSound, TimeoutSound, ReadCompletesSound, WriteCompletesSound, AppSound
    DEF Peer
  <2> QED
    BY <2>1, <2>2
<1>3. ASSUME remove_connection PROVE WGood(conn') /\ Sound'
  BY <1>0, <1>3, RemoveWrites, RemoveSound
<1>4. ASSUME UNCHANGED vars \/ Finished PROVE WGood(conn') /\ Sound'
  <2>1. conn' = conn /\ UNCHANGED <<limits, registered, app, expired, wire>>
    BY <1>4 DEF Finished, vars
  <2> QED
    BY <1>0, <2>1, KeepsSound DEF SameTasks
<1>5. WGood(conn') /\ Sound'
  BY <1>1, <1>2, <1>3, <1>4 DEF Next
<1>6. WGood(conn)'
  BY <1>5
<1>7. IInv'
  BY <1>0, NextIInv
<1> QED
  BY <1>5, <1>6, <1>7, NothingFails DEF WInv, Sound

LEMMA WholeInvariance == NoSendInWriteCb => (Spec => []WInv)
<1> SUFFICES ASSUME NoSendInWriteCb PROVE Spec => []WInv
  OBVIOUS
<1>1. Init => WInv
  BY InitWInv
<1>2. WInv /\ [Next]_vars => WInv'
  BY NextWInv
<1> QED
  BY <1>1, <1>2, PTL DEF Spec

\* Up to its destruction the connection is held by some shared_ptr, and no handler
\* meets undefined behaviour: neither a freed object nor an empty output_buffer_.
THEOREM OutlivesItsHandlers ==
  ASSUME NoSendInWriteCb
  PROVE  Spec => []AliveUntilClosed
<1>1. WInv => AliveUntilClosed
  BY UnheldIsClosed DEF WInv, AliveUntilClosed, Crashed
<1> QED
  BY <1>1, WholeInvariance, PTL

\* The timeouts asked for are armed, or expired and about to be handled, as long
\* as there is something for them to watch: handle_write cancels the write timer
\* only when it starts no write, and no path drops a handle without its entry.
THEOREM TimersGuard ==
  ASSUME NoSendInWriteCb
  PROVE  Spec => []Guarded
<1>1. WInv => Guarded
  <2> SUFFICES ASSUME WInv PROVE Guarded
    OBVIOUS
  <2>1. \A t \in conn.wheel \cup Fired : Pending(t)
    BY DEF Fired, Pending
  <2>2. conn.state # "Connecting" /\ ~conn.is_cleaned =>
          /\ "read" \in limits => "read" \in conn.wheel \cup Fired
          /\ "write" \in limits /\ conn.writing # << >> => "write" \in conn.wheel \cup Fired
    BY DEF WInv, Rest, Armed
  <2>3. conn.state = "Connecting" => conn.writing = << >>
    BY OnlyEstablish DEF WInv
  <2> QED
    BY <2>1, <2>2, <2>3 DEF Guarded
<1> QED
  BY <1>1, WholeInvariance, PTL

\* The peer gets a prefix of the accepted messages: in their order, none twice,
\* none skipped, however writes, completions and sends alternate.
THEOREM WireInOrder ==
  ASSUME NoSendInWriteCb
  PROVE  Spec => []InOrder
<1>1. WInv => InOrder
  <2> SUFFICES ASSUME WInv PROVE InOrder
    OBVIOUS
  <2> DEFINE n == Len(wire)
             a == conn.accepted
             b == SubSeq(a, 1, n)
  <2>1. /\ wire \in Seq(1 .. MaxSends) /\ a \in Seq(1 .. MaxSends)
        /\ n \in Nat /\ Len(a) \in Nat /\ n <= Len(a)
        /\ \A i \in 1 .. n : wire[i] = a[i]
    BY LenProperties DEF WInv, IInv, TypeOK, Conn, Rest, Ordered
  <2> HIDE DEF n, a
  <2>2. b \in Seq(1 .. MaxSends) /\ Len(b) = n /\ \A i \in 1 .. n : b[i] = a[i]
    BY <2>1, SubSeqProperties
  <2> HIDE DEF b
  <2>3. wire = b
    BY <2>1, <2>2, SeqEqual DEF n
  <2> QED
    BY <2>1, <2>3 DEF InOrder, n, a, b
<1> QED
  BY <1>1, WholeInvariance, PTL

\* A connection that shutdown() cleaned up has written all it accepted: the
\* cleanup waits in WaitClose until handle_write finds output_buffer_ empty.
THEOREM DrainsFirst ==
  ASSUME NoSendInWriteCb
  PROVE  Spec => []GracefulDrain
<1>1. WInv => GracefulDrain
  BY DEF WInv, Rest, Drained, GracefulDrain
<1> QED
  BY <1>1, WholeInvariance, PTL

-----------------------------------------------------------------------------
(* Output moves, whatever the callbacks call *)

\* What holds at any time, inside handle_write too.
Steady(d) == Good(d) /\ Flags(d) /\ Alone(d)

\* Output that waits has a write in flight; with OptForceClose handle_write stops.
Moving(d) ==
  ~d.is_cleaned /\ d.output_buffer # << >> => "OptForceClose" \in d.flag \/ ~WFree(d)

LEMMA KeepsMoving ==
  ASSUME NEW d, Steady(d), NEW e, Good(e),
         e.state = d.state, e.flag = d.flag, e.is_cleaned = d.is_cleaned,
         No(d.queue["io"], "shutdown") => No(e.queue["io"], "shutdown")
  PROVE  /\ Steady(e)
         /\ Moving(d) /\ e.output_buffer = d.output_buffer /\ (WFree(e) => WFree(d))
              => Moving(e)
<1>1. Flags(e) /\ Alone(e)
  BY DEF Steady, Flags, Alone
<1> QED
  BY <1>1 DEF Steady, Moving

\* Posting anything but a shutdown.
LEMMA PostMoving ==
  ASSUME NEW d, Steady(d), NEW t \in Task, t.kind \in RawKinds \ {"shutdown"}
  PROVE  LET e == run_in_loop(d, "io", t)
         IN  /\ Steady(e)
             /\ Moving(d) \/ t.kind = "handle_write" => Moving(e)
<1> DEFINE e == run_in_loop(d, "io", t)
<1>1. d \in Conn /\ Good(d) /\ d.queue["io"] \in Seq(Task)
  BY DEF Steady, Good, Conn, Loops
<1>2. /\ e.queue["io"] = Append(d.queue["io"], t) /\ e.writing = d.writing
      /\ e.state = d.state /\ e.flag = d.flag /\ e.is_cleaned = d.is_cleaned
      /\ e.output_buffer = d.output_buffer
  BY <1>1 DEF run_in_loop, Conn, Loops
<1>3. Good(e)
  BY <1>1, RunInLoopGood
<1> HIDE DEF e
<1>4. /\ No(d.queue["io"], "shutdown") => No(e.queue["io"], "shutdown")
      /\ WFree(e) => WFree(d)
      /\ t.kind = "handle_write" => ~WFree(e)
  BY <1>1, <1>2, AppendTask DEF WFree
<1>5. Steady(e) /\ (Moving(d) => Moving(e))
  BY <1>2, <1>3, <1>4, KeepsMoving
<1>6. t.kind = "handle_write" => Moving(e)
  BY <1>4 DEF Moving
<1> QED
  BY <1>5, <1>6 DEF e

\* Taking a task that ends no write.
LEMMA PopMoving ==
  ASSUME NEW d, Steady(d), d.queue["io"] # << >>
  PROVE  /\ Steady(pop(d, "io"))
         /\ Moving(d) /\ Head(d.queue["io"]).kind # "handle_write" => Moving(pop(d, "io"))
<1> DEFINE e == pop(d, "io")
           s == d.queue["io"]
<1>1. d \in Conn /\ Good(d) /\ s \in Seq(Task) /\ s # << >>
  BY DEF Steady, Good, Conn, Loops
<1>2. /\ e.queue["io"] = Tail(s) /\ e.writing = d.writing
      /\ e.state = d.state /\ e.flag = d.flag /\ e.is_cleaned = d.is_cleaned
      /\ e.output_buffer = d.output_buffer
  BY <1>1 DEF pop, Conn, Loops
<1>3. Good(e)
  BY <1>1, PopGood
<1> HIDE DEF e
<1>4. /\ No(s, "shutdown") => No(e.queue["io"], "shutdown")
      /\ Head(s).kind # "handle_write" => (WFree(e) => WFree(d))
  <2> HIDE DEF s
  <2>1. No(s, "shutdown") => No(Tail(s), "shutdown")
    BY <1>1, TailTask
  <2>2. Head(s).kind # "handle_write" =>
          (No(Tail(s), "handle_write") => No(s, "handle_write"))
    BY <1>1, TailKeeps
  <2> QED
    BY <1>2, <2>1, <2>2 DEF WFree, s
<1> QED
  BY <1>2, <1>3, <1>4, KeepsMoving DEF e

LEMMA AsyncReadMoving ==
  ASSUME NEW d, Steady(d)
  PROVE  Steady(async_read(d)) /\ (Moving(d) => Moving(async_read(d)))
<1>1. CASE d.open
  <2> DEFINE e == [d EXCEPT !.reading = TRUE]
  <2>1. d \in Conn /\ Good(d) /\ async_read(d) = e
    BY <1>1 DEF Steady, Good, async_read
  <2>2. /\ e.queue = d.queue /\ e.writing = d.writing
        /\ e.state = d.state /\ e.flag = d.flag /\ e.is_cleaned = d.is_cleaned
        /\ e.output_buffer = d.output_buffer
    BY <2>1 DEF Conn
  <2> HIDE DEF e
  <2>3. Good(e)
    BY <2>1, AsyncReadGood
  <2>4. Steady(e) /\ (Moving(d) => Moving(e))
    BY <2>2, <2>3, KeepsMoving DEF WFree
  <2> QED
    BY <2>1, <2>4
<1>2. CASE ~d.open
  BY <1>2, TaskTypes, PostMoving DEF async_read, RawKinds
<1> QED
  BY <1>1, <1>2

\* Whatever is in flight already, a write more is.
LEMMA AsyncWriteMoving ==
  ASSUME NEW d, Steady(d), d.output_buffer # << >>
  PROVE  Steady(async_write(d)) /\ Moving(async_write(d))
<1> DEFINE w == write_timer(d)
<1>1. d \in Conn /\ Good(d) /\ w \in Conn /\ Good(w) /\ w.queue = d.queue
      /\ w.writing = d.writing /\ w.output_buffer = d.output_buffer
  BY WriteTimerGood DEF Steady, Good
<1>2. w.state = d.state /\ w.flag = d.flag /\ w.is_cleaned = d.is_cleaned
  BY <1>1 DEF write_timer, Conn
<1> HIDE DEF w
<1>3. Steady(w)
  BY <1>1, <1>2, KeepsMoving
<1>4. CASE d.open
  <2> DEFINE e == [w EXCEPT !.writing = Append(@, Head(d.output_buffer))]
  <2>1. async_write(d) = e
    BY <1>4 DEF async_write, w
  <2>2. /\ e.queue = w.queue /\ e.writing = Append(w.writing, Head(d.output_buffer))
        /\ e.state = w.state /\ e.flag = w.flag /\ e.is_cleaned = w.is_cleaned
    BY <1>1 DEF Conn
  <2> HIDE DEF e
  <2>3. Append(w.writing, Head(d.output_buffer)) # << >>
    <3>1. w.writing \in Seq(1 .. MaxSends) /\ d.output_buffer \in Seq(1 .. MaxSends)
      BY <1>1 DEF Conn
    <3>2. Head(d.output_buffer) \in 1 .. MaxSends
      BY <3>1, FrontMessage
    <3> QED
      BY <3>1, <3>2, AppendFront
  <2>4. Good(e)
    BY <1>1, <2>1, AsyncWriteGood
  <2>5. Steady(e)
    BY <1>3, <2>2, <2>4, KeepsMoving
  <2>6. Moving(e)
    BY <2>2, <2>3 DEF Moving, WFree
  <2> QED
    BY <2>1, <2>5, <2>6
<1>5. CASE ~d.open
  <2> DEFINE t == completion("handle_write", "error")
  <2>1. t \in Task /\ t.kind = "handle_write" /\ t.kind \in RawKinds \ {"shutdown"}
    BY TaskTypes DEF RawKinds
  <2>2. async_write(d) = run_in_loop(w, "io", t)
    BY <1>5 DEF async_write, w
  <2> HIDE DEF t
  <2> QED
    BY <1>3, <2>1, <2>2, PostMoving
<1> QED
  BY <1>4, <1>5

\* After a cleanup output need not move.
LEMMA CleanupMoving ==
  ASSUME NEW d, Good(d), Flags(d), NEW why \in Causes
  PROVE  LET e == connect_cleanup(d, why) IN Steady(e) /\ e.is_cleaned /\ Moving(e)
<1> DEFINE e == connect_cleanup(d, why)
<1>1. Good(e) /\ d \in Conn
  BY ConnectCleanupGood DEF Good
<1>2. /\ e.is_cleaned /\ e.flag = d.flag
      /\ No(d.queue["io"], "shutdown") => No(e.queue["io"], "shutdown")
  <2>1. CASE d.state = "Closed"
    BY <2>1 DEF connect_cleanup, Good
  <2>2. CASE d.state # "Closed" /\ d.is_cleaned
    BY <1>1, <2>2 DEF connect_cleanup, Conn
  <2>3. CASE d.state # "Closed" /\ ~d.is_cleaned
    <3>1. e = cleanup_once([d EXCEPT !.state = "WaitClose"], why)
      BY <1>1, <2>3 DEF connect_cleanup, Conn
    <3> QED
      BY <3>1, CleanupFields
  <2> QED
    BY <2>1, <2>2, <2>3
<1> HIDE DEF e
<1>3. Flags(e) /\ Alone(e) /\ Moving(e)
  BY <1>2 DEF Flags, Alone, Moving
<1> QED
  BY <1>1, <1>2, <1>3 DEF Steady, e

LEMMA ShutdownInLoopMoving ==
  ASSUME NEW d, Steady(d), d.flag # {}
  PROVE  Steady(shutdown_in_loop(d)) /\ (Moving(d) => Moving(shutdown_in_loop(d)))
<1> DEFINE e == [d EXCEPT !.state = "WaitClose"]
<1> SUFFICES ASSUME d.state \notin {"Closed", "WaitClose"}
             PROVE  Steady(shutdown_in_loop(d)) /\ (Moving(d) => Moving(shutdown_in_loop(d)))
  BY DEF shutdown_in_loop
<1>1. Good(d) /\ d \in Conn /\ ~d.is_cleaned
  BY DEF Steady, Good
<1>2. /\ e \in Conn /\ e.queue = d.queue /\ e.wheel \subseteq e.timers
      /\ e.state = "WaitClose" /\ e.is_cleaned = d.is_cleaned
      /\ e.writing = d.writing /\ e.output_buffer = d.output_buffer /\ e.flag = d.flag
  BY <1>1 DEF Good, Conn, EState
<1>3. Good(e)
  BY <1>1, <1>2 DEF Good
<1> HIDE DEF e
<1>4. Steady(e) /\ (Moving(d) => Moving(e))
  BY <1>2, <1>3 DEF Steady, Flags, Alone, Moving, WFree
<1>5. Steady(connect_cleanup(e, "shutdown")) /\ Moving(connect_cleanup(e, "shutdown"))
  BY <1>4, CleanupMoving DEF Steady, Causes
<1> QED
  BY <1>4, <1>5 DEF shutdown_in_loop, e

LEMMA SendInLoopMoving ==
  ASSUME NEW d, Steady(d), NEW m \in 1 .. MaxSends
  PROVE  Steady(send_in_loop(d, m)) /\ (Moving(d) => Moving(send_in_loop(d, m)))
<1> DEFINE e == [d EXCEPT !.output_buffer = Append(@, m), !.accepted = Append(@, m)]
<1> SUFFICES ASSUME d.state \notin {"Closed", "WaitClose"}
             PROVE  Steady(send_in_loop(d, m)) /\ (Moving(d) => Moving(send_in_loop(d, m)))
  BY DEF send_in_loop
<1>1. Good(d) /\ d \in Conn /\ ~d.is_cleaned
      /\ d.output_buffer \in Seq(1 .. MaxSends) /\ d.accepted \in Seq(1 .. MaxSends)
  BY DEF Steady, Good, Conn
<1>2. /\ Append(d.output_buffer, m) \in Seq(1 .. MaxSends)
      /\ Append(d.output_buffer, m) # << >>
      /\ Append(d.accepted, m) \in Seq(1 .. MaxSends)
  BY <1>1, AppendFront
<1>3. /\ e \in Conn /\ e.queue = d.queue /\ e.wheel \subseteq e.timers
      /\ e.state = d.state /\ e.is_cleaned = d.is_cleaned /\ e.writing = d.writing
      /\ e.output_buffer # << >> /\ e.flag = d.flag
  BY <1>1, <1>2 DEF Good, Conn
<1> HIDE DEF e
<1>4. Good(e)
  BY <1>1, <1>3 DEF Good
<1>5. Steady(e) /\ (Moving(d) /\ d.output_buffer # << >> => Moving(e))
  BY <1>3, <1>4 DEF Steady, Flags, Alone, Moving, WFree
<1>6. Steady(async_write(e)) /\ Moving(async_write(e))
  BY <1>3, <1>5, AsyncWriteMoving
<1> QED
  BY <1>5, <1>6 DEF send_in_loop, e

\* The calls of the application: OptForceClose comes with a cleanup.
LEMMA CallMoving ==
  ASSUME NEW d, Steady(d), NEW op \in Calls
  PROVE  Steady(call(d, op)) /\ (Moving(d) => Moving(call(d, op)))
<1>0. Good(d) /\ d \in Conn /\ d.wheel \subseteq d.timers
  BY DEF Steady, Good
<1>1. CASE op = "none"
  BY <1>1 DEF call
<1>2. CASE op = "send"
  <2> DEFINE e == [d EXCEPT !.sends = @ + 1]
  <2> SUFFICES ASSUME d.sends < MaxSends
               PROVE  /\ Steady(send_in_loop(e, d.sends + 1))
                      /\ Moving(d) => Moving(send_in_loop(e, d.sends + 1))
    BY <1>2 DEF call, send
  <2>1. d.sends + 1 \in 0 .. MaxSends /\ d.sends + 1 \in 1 .. MaxSends
    <3>1. d.sends \in 0 .. MaxSends /\ d.sends < MaxSends
      BY <1>0 DEF Conn
    <3> QED
      BY <3>1, BoundsAssumption
  <2>2. /\ e \in Conn /\ e.queue = d.queue /\ e.wheel \subseteq e.timers
        /\ e.state = d.state /\ e.is_cleaned = d.is_cleaned /\ e.accepted = d.accepted
        /\ e.writing = d.writing /\ e.output_buffer = d.output_buffer /\ e.flag = d.flag
    BY <1>0, <2>1 DEF Conn
  <2> HIDE DEF e
  <2>3. Steady(e) /\ (Moving(d) => Moving(e))
    BY <1>0, <2>2, SameQueueGood, KeepsMoving DEF WFree
  <2> QED
    BY <2>1, <2>3, SendInLoopMoving
<1>3. CASE op \in {"shutdown", "shutdown_cb"}
  <2> DEFINE e == [d EXCEPT !.flag = @ \cup shutdown_flags(op)]
  <2> SUFFICES ASSUME may_shutdown(d.flag)
               PROVE  /\ Steady(shutdown_in_loop(e))
                      /\ Moving(d) => Moving(shutdown_in_loop(e))
    BY <1>3 DEF call, shutdown
  <2>1. /\ e \in Conn /\ e.queue = d.queue /\ e.wheel \subseteq e.timers
        /\ e.state = d.state /\ e.is_cleaned = d.is_cleaned /\ e.accepted = d.accepted
        /\ e.writing = d.writing /\ e.output_buffer = d.output_buffer
        /\ d.flag \subseteq e.flag /\ "OptShutdown" \in e.flag
        /\ "OptForceClose" \in e.flag => "OptForceClose" \in d.flag
    BY <1>0, <1>3 DEF Conn, shutdown_flags, EFlag
  <2> HIDE DEF e
  <2>2. Good(e)
    BY <1>0, <2>1, SameQueueGood
  <2>3. Steady(e) /\ (Moving(d) => Moving(e)) /\ e.flag # {}
    BY <2>1, <2>2 DEF Steady, Flags, Alone, Moving, WFree
  <2> QED
    BY <2>3, ShutdownInLoopMoving
<1>4. CASE op = "force_close"
  <2> DEFINE e == [d EXCEPT !.flag = @ \cup shutdown_flags("force_close")]
  <2> SUFFICES ASSUME may_force_close(d.flag)
               PROVE  /\ Steady(connect_cleanup(e, "force_close"))
                      /\ Moving(connect_cleanup(e, "force_close"))
    BY <1>4 DEF call, force_close, force_close_in_loop
  <2>1. /\ e \in Conn /\ e.queue = d.queue /\ e.wheel \subseteq e.timers
        /\ e.state = d.state /\ e.is_cleaned = d.is_cleaned /\ e.accepted = d.accepted
        /\ d.flag \subseteq e.flag /\ "OptForceClose" \in e.flag
    BY <1>0 DEF Conn, shutdown_flags, EFlag
  <2> HIDE DEF e
  <2>2. Good(e)
    BY <1>0, <2>1, SameQueueGood
  <2>3. Flags(e)
    BY <2>1 DEF Steady, Flags
  <2> QED
    BY <2>2, <2>3, CleanupMoving DEF Causes
<1> QED
  BY <1>1, <1>2, <1>3, <1>4 DEF Calls

LEMMA CallbackMoving ==
  ASSUME NEW d, Steady(d), NEW r \in Calls \X Calls
  PROVE  Steady(callback(d, r)) /\ (Moving(d) => Moving(callback(d, r)))
<1> DEFINE e == call(d, r[1])
<1>1. Steady(e) /\ (Moving(d) => Moving(e))
  BY CallMoving
<1> HIDE DEF e
<1>2. Steady(call(e, r[2])) /\ (Moving(e) => Moving(call(e, r[2])))
  BY <1>1, CallMoving
<1> QED
  BY <1>1, <1>2 DEF callback, e

\* handle_write leaves output moving, whatever its callback has done: it starts
\* a write of what is left, or a shutdown is complete, or OptForceClose stops it.
LEMMA WriteNextMoving ==
  ASSUME NEW d, Steady(d)
  PROVE  Steady(write_next(d)) /\ Moving(write_next(d))
<1>1. d.output_buffer # << >> => Steady(async_write(d)) /\ Moving(async_write(d))
  BY AsyncWriteMoving
<1>2. /\ Steady(cancel_timer(d, "write"))
      /\ d.output_buffer = << >> \/ "OptForceClose" \in d.flag
           => Moving(cancel_timer(d, "write"))
  <2> DEFINE e == cancel_timer(d, "write")
  <2>1. Good(d) /\ d \in Conn /\ Good(e)
    BY CancelTimerGood DEF Steady, Good
  <2>2. /\ e.queue = d.queue /\ e.state = d.state /\ e.flag = d.flag
        /\ e.is_cleaned = d.is_cleaned /\ e.output_buffer = d.output_buffer
    BY <2>1 DEF cancel_timer, Conn
  <2> HIDE DEF e
  <2>3. Steady(e) /\ (d.output_buffer = << >> \/ "OptForceClose" \in d.flag => Moving(e))
    BY <2>1, <2>2, KeepsMoving DEF Moving
  <2> QED
    BY <2>3 DEF e
<1>3. Steady(connect_cleanup(d, "shutdown")) /\ Moving(connect_cleanup(d, "shutdown"))
  BY CleanupMoving DEF Steady, Causes
<1>4. CASE d.state = "WaitClose" /\ "OptForceClose" \notin d.flag
           /\ d.flag \cap {"OptShutdown", "OptForceClose"} # {"OptShutdown"}
  <2>1. d.is_cleaned
    BY <1>4 DEF Steady, Flags
  <2> QED
    BY <1>4, <2>1 DEF write_next, Moving
<1>5. CASE d.state = "WaitClose" /\ "OptForceClose" \notin d.flag
           /\ d.flag \cap {"OptShutdown", "OptForceClose"} = {"OptShutdown"}
  BY <1>1, <1>3, <1>5 DEF write_next
<1>6. CASE d.state = "WaitClose" /\ "OptForceClose" \in d.flag
  BY <1>2, <1>6 DEF write_next
<1>7. CASE d.state # "WaitClose"
  BY <1>1, <1>2, <1>7 DEF write_next
<1> QED
  BY <1>4, <1>5, <1>6, <1>7

\* The invariant of moving output, for any callbacks.
MInv == IInv /\ Flags(conn) /\ Alone(conn) /\ Moving(conn)

LEMMA SteadyConn ==
  ASSUME MInv, conn.state # "Connecting"
  PROVE  Steady(conn)
BY DEF MInv, IInv, Steady

LEMMA InitMInv == Init => MInv
<1> SUFFICES ASSUME Init PROVE MInv
  OBVIOUS
<1>1. /\ conn.flag = {} /\ conn.state = "Connecting" /\ conn.output_buffer = << >>
      /\ conn.queue["io"] = <<task("connect_establised")>> /\ app.pc = "idle"
  BY DEF Init, NewConn, IdleApp, Loops
<1>2. No(conn.queue["io"], "shutdown")
  BY <1>1 DEF No, task
<1> QED
  BY <1>1, <1>2, InitIInv DEF MInv, Flags, Alone, Moving

LEMMA EstablishedMoving ==
  ASSUME MInv, connect_establised
  PROVE  Steady(conn') /\ Moving(conn')
<1> DEFINE s == [pop(conn, "io") EXCEPT !.state = "Established"]
           q == start_read_timer(s)
<1>1. /\ conn \in Conn /\ conn.queue["io"] # << >> /\ IInv
      /\ Head(conn.queue["io"]).kind = "connect_establised"
      /\ base \in Loops /\ limits \subseteq Timers
  BY DEF MInv, IInv, TypeOK, connect_establised, Runs
<1>2. conn.state = "Connecting"
  <2>1. CASE conn.state # "Connecting"
    <3>1. conn.queue["io"] \in Seq(Task) /\ No(conn.queue["io"], "connect_establised")
      BY <1>1, <2>1 DEF IInv, Good, Conn, Loops
    <3>2. Len(conn.queue["io"]) \in Nat \ {0} /\ Head(conn.queue["io"]) = conn.queue["io"][1]
      BY <1>1, <3>1, EmptySeq
    <3> QED
      BY <1>1, <3>1, <3>2 DEF No
  <2> QED
    BY <2>1
<1>3. /\ conn.queue["base"] = << >> /\ conn.queue["io"] = <<task("connect_establised")>>
      /\ conn.wheel = {} /\ conn.timers = {} /\ ~conn.is_cleaned
      /\ conn.output_buffer = << >> /\ registered /\ conn.flag = {} /\ app.pc = "idle"
  BY <1>1, <1>2, OnlyEstablish DEF IInv, IdleApp, NewConn
<1>4. Tail(conn.queue["io"]) = << >> /\ << >> \in Seq(Task)
  BY <1>3
<1>5. /\ s \in Conn /\ s.output_buffer = << >> /\ s.timers = {} /\ s.wheel = {}
      /\ s.state = "Established" /\ ~s.is_cleaned /\ s.flag = {}
      /\ s.queue["io"] = << >> /\ s.queue["base"] = << >>
  BY <1>1, <1>3, <1>4 DEF pop, Conn, EState, Loops
<1> HIDE DEF s
<1>6. /\ q \in Conn /\ q.output_buffer = << >> /\ q.wheel \subseteq q.timers
      /\ q.state = "Established" /\ ~q.is_cleaned /\ q.flag = {}
      /\ q.queue["io"] = << >> /\ q.queue["base"] = << >>
  BY <1>5 DEF start_read_timer, Conn, Timers
<1> HIDE DEF q
<1>7. \A k : No(<< >>, k) /\ Once(<< >>, k)
  BY DEF No, Once
<1>8. Good(q)
  BY <1>1, <1>3, <1>6, <1>7 DEF Good, Loops
<1>9. Steady(q) /\ Moving(q)
  BY <1>3, <1>6, <1>7, <1>8 DEF Steady, Flags, Alone, Moving
<1>10. Steady(async_read(q)) /\ Moving(async_read(q))
  BY <1>9, AsyncReadMoving
<1>11. PICK r \in ConnectReactions : conn' = callback(async_read(q), r)
  BY DEF connect_establised, s, q
<1>12. r \in Calls \X Calls
  BY ReactionAssumption
<1> QED
  BY <1>10, <1>11, <1>12, CallbackMoving

LEMMA HandlerMoving ==
  ASSUME MInv,
         \/ run_send \/ run_shutdown \/ run_force_close \/ handle_read \/ handle_write
         \/ run_connect_destroy \/ run_dangling
  PROVE  Steady(conn') /\ Moving(conn')
<1> DEFINE p == pop(conn, "io")
           h == Head(conn.queue["io"])
<1>0. IInv /\ Flags(conn) /\ Alone(conn) /\ Moving(conn)
  BY DEF MInv
<1>1. ASSUME NEW k, k # "connect_establised", Runs("io", k)
      PROVE  /\ Steady(conn) /\ Steady(p) /\ (k # "handle_write" => Moving(p))
             /\ h \in Task /\ h.kind = k
  <2>1. Good(conn) /\ h \in Task
    BY <1>0, <1>1, Popped
  <2>2. conn.queue["io"] # << >> /\ h.kind = k
    BY <1>1 DEF Runs
  <2>3. Steady(conn)
    BY <1>0, <2>1 DEF Steady
  <2> QED
    BY <1>0, <2>1, <2>2, <2>3, PopMoving
<1>2. ASSUME run_send PROVE Steady(conn') /\ Moving(conn')
  <2>1. Runs("io", "send") /\ conn' = send_in_loop(p, h.msg)
    BY <1>2 DEF run_send
  <2>2. Steady(p) /\ Moving(p) /\ h \in Task /\ h.kind = "send"
    BY <1>1, <2>1
  <2>3. h.msg \in 1 .. MaxSends
    BY <2>2 DEF Task
  <2> HIDE DEF h, p
  <2> QED
    BY <2>1, <2>2, <2>3, SendInLoopMoving
<1>3. ASSUME run_shutdown PROVE Steady(conn') /\ Moving(conn')
  <2>1. Runs("io", "shutdown") /\ conn' = shutdown_in_loop(p)
    BY <1>3 DEF run_shutdown
  <2>2. Steady(p) /\ Moving(p) /\ h.kind = "shutdown" /\ Good(conn)
    BY <1>1, <2>1 DEF Steady
  <2>3. conn.queue["io"] \in Seq(Task) /\ conn.queue["io"] # << >> /\ conn \in Conn
    BY <2>1, <2>2 DEF Runs, Good, Conn, Loops
  <2>4. ~No(conn.queue["io"], "shutdown")
    <3>1. Len(conn.queue["io"]) \in Nat \ {0} /\ h = conn.queue["io"][1]
      BY <2>3, EmptySeq
    <3> QED
      BY <2>2, <3>1 DEF No
  <2>5. p.flag # {}
    BY <1>0, <2>3, <2>4 DEF Flags, pop, Conn
  <2> HIDE DEF p
  <2> QED
    BY <2>1, <2>2, <2>5, ShutdownInLoopMoving
<1>4. ASSUME run_force_close PROVE Steady(conn') /\ Moving(conn')
  <2>1. Runs("io", "force_close") /\ conn' = connect_cleanup(p, "force_close")
    BY <1>4 DEF run_force_close, force_close_in_loop
  <2>2. Steady(p)
    BY <1>1, <2>1
  <2> HIDE DEF p
  <2> QED
    BY <2>1, <2>2, CleanupMoving DEF Steady, Causes
<1>5. ASSUME handle_read PROVE Steady(conn') /\ Moving(conn')
  <2>1. Runs("io", "handle_read")
    BY <1>5 DEF handle_read
  <2>2. Steady(p) /\ Moving(p)
    BY <1>1, <2>1
  <2>3. \/ conn' = connect_cleanup(p, "socket_err")
        \/ \E r \in ReadReactions : conn' = async_read(callback(p, r))
        \/ conn' = async_read(p)
    BY <1>5 DEF handle_read
  <2> HIDE DEF p
  <2>4. /\ Steady(connect_cleanup(p, "socket_err")) /\ Moving(connect_cleanup(p, "socket_err"))
        /\ Steady(async_read(p)) /\ Moving(async_read(p))
    BY <2>2, CleanupMoving, AsyncReadMoving DEF Steady, Causes
  <2>5. ASSUME NEW r \in ReadReactions
        PROVE  Steady(async_read(callback(p, r))) /\ Moving(async_read(callback(p, r)))
    <3>1. r \in Calls \X Calls
      BY ReactionAssumption
    <3> QED
      BY <2>2, <3>1, CallbackMoving, AsyncReadMoving
  <2> QED
    BY <2>3, <2>4, <2>5
<1>6. ASSUME handle_write PROVE Steady(conn') /\ Moving(conn')
  <2>1. Runs("io", "handle_write")
    BY <1>6 DEF handle_write
  <2>2. Steady(p) /\ Steady(conn)
    BY <1>1, <2>1
  <2>3. CASE conn.output_buffer = << >>
    BY <1>0, <1>6, <2>2, <2>3 DEF handle_write
  <2>4. CASE conn.output_buffer # << >>
    <3> DEFINE d == [p EXCEPT !.output_buffer = Tail(@)]
    <3>1. p \in Conn /\ Good(p) /\ conn \in Conn /\ p.output_buffer = conn.output_buffer
      BY <2>2 DEF Steady, Good, pop, Conn
    <3>2. \/ conn' = connect_cleanup(d, "socket_err")
          \/ \E r \in WriteReactions : conn' = write_next(callback(d, r))
      BY <1>6, <2>4 DEF handle_write
    <3> HIDE DEF p
    <3>3. Tail(p.output_buffer) \in Seq(1 .. MaxSends)
      BY <2>4, <3>1, FrontMessage DEF Conn
    <3>4. /\ d \in Conn /\ d.queue = p.queue /\ d.wheel = p.wheel /\ d.timers = p.timers
          /\ d.state = p.state /\ d.flag = p.flag /\ d.is_cleaned = p.is_cleaned
          /\ d.accepted = p.accepted
      BY <3>1, <3>3 DEF Conn
    <3> HIDE DEF d
    <3>5. Good(d)
      BY <3>1, <3>4, SameQueueGood DEF Good
    <3>6. Steady(d)
      BY <2>2, <3>4, <3>5, KeepsMoving
    <3>7. Steady(connect_cleanup(d, "socket_err")) /\ Moving(connect_cleanup(d, "socket_err"))
      BY <3>6, CleanupMoving DEF Steady, Causes
    <3>8. ASSUME NEW r \in WriteReactions
          PROVE  Steady(write_next(callback(d, r))) /\ Moving(write_next(callback(d, r)))
      <4>1. r \in Calls \X Calls
        BY ReactionAssumption
      <4> QED
        BY <3>6, <4>1, CallbackMoving, WriteNextMoving
    <3> QED
      BY <3>2, <3>7, <3>8
  <2> QED
    BY <2>3, <2>4
<1>7. ASSUME run_connect_destroy PROVE Steady(conn') /\ Moving(conn')
  <2>1. Runs("io", "connect_destroy") /\ conn' = connect_destroy(p)
    BY <1>7 DEF run_connect_destroy
  <2>2. Steady(p) /\ Moving(p) /\ h.kind = "connect_destroy" /\ Good(conn)
    BY <1>1, <2>1 DEF Steady
  <2>3. ~registered
    <3>1. conn.queue["io"] \in Seq(Task) /\ conn.queue["io"] # << >>
      BY <2>1, <2>2 DEF Runs, Good, Conn, Loops
    <3>2. Len(conn.queue["io"]) \in Nat \ {0} /\ h = conn.queue["io"][1]
      BY <3>1, EmptySeq
    <3>3. ~No(conn.queue["io"], "connect_destroy")
      BY <2>2, <3>1, <3>2 DEF No
    <3> QED
      BY <2>2, <3>3 DEF Good
  <2> HIDE DEF p
  <2>4. Good(p) /\ p.is_cleaned /\ p \in Conn /\ Good(connect_destroy(p))
    BY <2>2, <2>3, ConnectDestroyGood DEF Steady, Good
  <2>5. CASE p.state = "Closed"
    BY <2>1, <2>2, <2>5 DEF connect_destroy
  <2>6. CASE p.state # "Closed"
    <3> DEFINE m == [p EXCEPT !.state = "Closed", !.open = FALSE]
               e == cancel_operations(m)
    <3>1. /\ m \in Conn /\ m.queue = p.queue /\ m.state = "Closed"
          /\ m.flag = p.flag /\ m.is_cleaned = p.is_cleaned
      BY <2>4 DEF Conn, EState
    <3>2. connect_destroy(p) = e
      BY <2>6 DEF connect_destroy
    <3> HIDE DEF m
    <3>3. /\ m.queue["io"] \in Seq(Task) /\ aborted_operations(m) \in Seq(Task)
          /\ No(aborted_operations(m), "shutdown")
      BY <3>1, Aborted DEF Conn, Loops
    <3>4. /\ e.queue["io"] = m.queue["io"] \o aborted_operations(m)
          /\ e.state = "Closed" /\ e.flag = p.flag /\ e.is_cleaned
      BY <2>4, <3>1 DEF cancel_operations, Conn, Loops
    <3> HIDE DEF e
    <3>5. No(p.queue["io"], "shutdown") => No(e.queue["io"], "shutdown")
      BY <3>1, <3>3, <3>4, ConcatTask
    <3>6. Flags(e) /\ Alone(e) /\ Moving(e)
      BY <2>2, <3>4, <3>5 DEF Steady, Flags, Alone, Moving
    <3> QED
      BY <2>1, <2>4, <3>2, <3>6 DEF Steady
  <2> QED
    BY <2>5, <2>6
<1>8. ASSUME run_dangling PROVE Steady(conn') /\ Moving(conn')
  <2>1. PICK k \in RawKinds : Runs("io", k)
    BY <1>8 DEF run_dangling
  <2>2. Steady(conn)
    BY <1>1, <2>1 DEF RawKinds
  <2> QED
    BY <1>0, <1>8, <2>2 DEF run_dangling
<1> QED
  BY <1>2, <1>3, <1>4, <1>5, <1>6, <1>7, <1>8

\* What a step outside the handlers has to preserve.
Moved == Flags(conn) /\ Alone(conn) /\ Moving(conn)

\* A task more in the io loop.
LEMMA PostMoved ==
  ASSUME conn.queue["io"] \in Seq(Task), NEW t \in Task,
         conn'.queue["io"] = Append(conn.queue["io"], t), Moved,
         conn'.state = conn.state, conn'.flag = conn.flag,
         conn'.is_cleaned = conn.is_cleaned, conn'.output_buffer = conn.output_buffer,
         conn'.writing = conn.writing \/ t.kind = "handle_write",
         t.kind = "shutdown" => conn.flag # {},
         app' = app \/ app'.pc = "idle"
  PROVE  Moved'
<1>1. /\ No(conn.queue["io"], "shutdown") /\ t.kind # "shutdown"
           => No(conn'.queue["io"], "shutdown")
      /\ WFree(conn') => WFree(conn)
      /\ t.kind = "handle_write" => ~WFree(conn')
  BY AppendTask DEF WFree
<1>2. Moving(conn')
  BY <1>1 DEF Moved, Moving
<1>3. Flags(conn)'
  BY <1>1 DEF Moved, Flags
<1>4. Alone(conn)'
  BY DEF Moved, Alone
<1>5. Moving(conn)'
  BY <1>2 DEF Moving, WFree, No
<1> QED
  BY <1>3, <1>4, <1>5 DEF Moved

LEMMA OutsideMoving ==
  ASSUME MInv, turn_wheel \/ handle_timeout \/ Peer
  PROVE  Moved'
<1>0. Moved /\ IInv /\ conn \in Conn /\ conn.queue["io"] \in Seq(Task)
  BY DEF MInv, Moved, IInv, TypeOK, Conn, Loops
<1>1. ASSUME turn_wheel PROVE Moved'
  <2>1. /\ conn'.queue = conn.queue /\ conn'.state = conn.state
        /\ conn'.flag = conn.flag /\ conn'.is_cleaned = conn.is_cleaned
        /\ conn'.output_buffer = conn.output_buffer /\ conn'.writing = conn.writing
        /\ app' = app
    BY <1>0, <1>1 DEF turn_wheel, Conn
  <2> QED
    BY <1>0, <2>1 DEF Moved, Flags, Alone, Moving, WFree, No
<1>2. ASSUME handle_timeout PROVE Moved'
  <2>1. Steady(conn) /\ Moving(conn)
    BY <1>0, <1>2, SteadyConn DEF handle_timeout, IInv, MInv
  <2>2. conn' = conn \/ conn' = connect_cleanup(conn, "timeout")
    BY <1>2 DEF handle_timeout
  <2>3. Steady(conn') /\ Moving(conn')
    BY <2>1, <2>2, CleanupMoving DEF Steady, Causes
  <2>4. app' = app
    BY <1>2 DEF handle_timeout
  <2> QED
    BY <2>3, <2>4 DEF Steady, Moved, Flags, Alone, Moving, WFree, No
<1>3. ASSUME NEW ec \in {"ok", "eof", "error"}, read_completes(ec) PROVE Moved'
  <2> DEFINE t == completion("handle_read", ec)
  <2>1. t \in Task /\ t.kind = "handle_read"
    BY TaskTypes DEF RawKinds
  <2>2. conn' = run_in_loop([conn EXCEPT !.reading = FALSE], "io", t) /\ app' = app
    BY <1>3 DEF read_completes
  <2> HIDE DEF t
  <2>3. /\ conn'.queue["io"] = Append(conn.queue["io"], t) /\ conn'.writing = conn.writing
        /\ conn'.state = conn.state /\ conn'.flag = conn.flag
        /\ conn'.is_cleaned = conn.is_cleaned /\ conn'.output_buffer = conn.output_buffer
    BY <1>0, <2>2 DEF run_in_loop, Conn, Loops
  <2> QED
    BY <1>0, <2>1, <2>2, <2>3, PostMoved
<1>4. ASSUME NEW ec \in {"ok", "error"}, write_completes(ec) PROVE Moved'
  <2> DEFINE t == completion("handle_write", ec)
  <2>1. t \in Task /\ t.kind = "handle_write"
    BY TaskTypes DEF RawKinds
  <2>2. conn' = run_in_loop([conn EXCEPT !.writing = Tail(@)], "io", t) /\ app' = app
    BY <1>4 DEF write_completes
  <2> HIDE DEF t
  <2>3. /\ conn'.queue["io"] = Append(conn.queue["io"], t)
        /\ conn'.state = conn.state /\ conn'.flag = conn.flag
        /\ conn'.is_cleaned = conn.is_cleaned /\ conn'.output_buffer = conn.output_buffer
    BY <1>0, <2>2 DEF run_in_loop, Conn, Loops
  <2> QED
    BY <1>0, <2>1, <2>2, <2>3, PostMoved
<1> QED
  BY <1>1, <1>2, <1>3, <1>4 DEF Peer

\* The application thread. Its update of flag_ may lose the loop's OptForceClose,
\* but then the connection was cleaned up with it.
LEMMA AppMoving ==
  ASSUME MInv, App
  PROVE  Moved'
<1>0. Moved /\ conn \in Conn /\ conn.queue["io"] \in Seq(Task)
  BY DEF MInv, Moved, IInv, TypeOK, Conn, Loops
<1>1. ASSUME app_send PROVE Moved'
  <2> DEFINE t == [kind |-> "send", msg |-> conn.sends + 1, ec |-> "ok"]
  <2>1. conn.sends + 1 \in 1 .. MaxSends
    <3>1. conn.sends \in 0 .. MaxSends /\ conn.sends < MaxSends
      BY <1>0, <1>1 DEF Conn, app_send
    <3> QED
      BY <3>1, BoundsAssumption
  <2>2. t \in Task /\ t.kind = "send"
    BY <2>1 DEF Task
  <2>3. conn' = run_in_loop([conn EXCEPT !.sends = @ + 1], "io", t) /\ app' = app
    BY <1>1 DEF app_send
  <2> HIDE DEF t
  <2>4. /\ conn'.queue["io"] = Append(conn.queue["io"], t) /\ conn'.writing = conn.writing
        /\ conn'.state = conn.state /\ conn'.flag = conn.flag
        /\ conn'.is_cleaned = conn.is_cleaned /\ conn'.output_buffer = conn.output_buffer
    BY <1>0, <2>3 DEF run_in_loop, Conn, Loops
  <2> QED
    BY <1>0, <2>2, <2>3, <2>4, PostMoved
<1>2. ASSUME NEW op \in {"shutdown", "shutdown_cb", "force_close"}, app_test_flag(op)
      PROVE  Moved'
  <2>1. conn' = conn /\ app' = [pc |-> "tested", op |-> op, loaded |-> conn.flag]
    BY <1>2 DEF app_test_flag
  <2>2. "OptForceClose" \notin conn.flag
    BY <1>2 DEF app_test_flag, may_force_close, may_shutdown
  <2>3. app'.pc = "tested" /\ app'.loaded = conn.flag
    BY <2>1
  <2>4. Flags(conn)' /\ Alone(conn)'
    BY <1>0, <2>1, <2>2, <2>3 DEF Moved, Flags, Alone, No
  <2>5. Moving(conn)'
    BY <1>0, <2>1 DEF Moved, Moving, WFree, No
  <2> QED
    BY <2>4, <2>5 DEF Moved
<1>3. ASSUME app_set_flag PROVE Moved'
  <2>1. PICK f \in raced_flags : conn' = [conn EXCEPT !.flag = f]
    BY <1>3 DEF app_set_flag
  <2>2. app' = [app EXCEPT !.pc = "flagged", !.loaded = {}] /\ app.pc = "tested"
    BY <1>3 DEF app_set_flag
  <2>3. /\ conn'.queue = conn.queue /\ conn'.state = conn.state /\ conn'.flag = f
        /\ conn'.is_cleaned = conn.is_cleaned /\ conn'.output_buffer = conn.output_buffer
        /\ conn'.writing = conn.writing
    BY <1>0, <2>1 DEF Conn
  <2>4. f \cap {"OptShutdown", "OptForceClose"} # {}
    <3>1. /\ conn.flag # {} => conn.flag \cap {"OptShutdown", "OptForceClose"} # {}
          /\ app.loaded \subseteq conn.flag
      BY <1>0, <2>2 DEF Moved, Flags
    <3>2. shutdown_flags(app.op) \cap {"OptShutdown", "OptForceClose"} # {}
      BY DEF shutdown_flags
    <3>3. conn.flag # app.loaded => conn.flag # {}
      BY <3>1
    <3> QED
      BY <3>1, <3>2, <3>3 DEF raced_flags
  <2>5. app'.pc = "flagged"
    BY <2>2 DEF MInv, IInv, TypeOK
  <2>6. Flags(conn)' /\ Alone(conn)'
    BY <2>3, <2>4, <2>5 DEF Flags, Alone
  <2>7. "OptForceClose" \in conn.flag => conn.is_cleaned
    BY <1>0, <2>2 DEF Moved, Alone
  <2>8. Moving(conn)'
    BY <1>0, <2>3, <2>7 DEF Moved, Moving, WFree, No
  <2> QED
    BY <2>6, <2>8 DEF Moved
<1>4. ASSUME app_post PROVE Moved'
  <2> DEFINE t == task(IF app.op = "force_close" THEN "force_close" ELSE "shutdown")
  <2>1. t \in Task /\ t.kind \in {"force_close", "shutdown"}
    BY TaskTypes DEF RawKinds
  <2>2. conn' = run_in_loop(conn, "io", t) /\ app'.pc = "idle" /\ app.pc = "flagged"
    BY <1>4 DEF app_post, IdleApp
  <2> HIDE DEF t
  <2>3. conn.flag # {}
    BY <1>0, <2>2 DEF Moved, Flags
  <2>4. /\ conn'.queue["io"] = Append(conn.queue["io"], t) /\ conn'.writing = conn.writing
        /\ conn'.state = conn.state /\ conn'.flag = conn.flag
        /\ conn'.is_cleaned = conn.is_cleaned /\ conn'.output_buffer = conn.output_buffer
    BY <1>0, <2>2 DEF run_in_loop, Conn, Loops
  <2> QED
    BY <1>0, <2>1, <2>2, <2>3, <2>4, PostMoved
<1>5. ASSUME app_drop PROVE Moved'
  BY <1>0, <1>5 DEF app_drop, Moved, Flags, Alone, Moving, WFree, No
<1> QED
  BY <1>1, <1>2, <1>3, <1>4, <1>5 DEF App

\* What the server removes was cleaned up.
LEMMA RemoveMoving ==
  ASSUME MInv, remove_connection
  PROVE  Moved'
<1> DEFINE p == pop(conn, base)
           t == task("connect_destroy")
           s == conn.queue["io"]
<1>1. /\ conn \in Conn /\ base \in Loops /\ conn.queue[base] # << >>
      /\ conn' = run_in_loop(p, "io", t) /\ app' = app
      /\ conn.queue[base] \in Seq(Task) /\ s \in Seq(Task) /\ Moved
  BY DEF remove_connection, Runs, MInv, IInv, TypeOK, Conn, Loops, Moved
<1>2. conn.is_cleaned
  BY RemoveStep DEF MInv
<1>3. t \in Task /\ t.kind = "connect_destroy"
  BY TaskTypes DEF RefKinds
<1> HIDE DEF t
<1>4. Tail(conn.queue[base]) \in Seq(Task)
  BY <1>1, TailTask
<1>5. /\ p \in Conn /\ p.queue["io"] = IF base = "io" THEN Tail(s) ELSE s
      /\ p.state = conn.state /\ p.flag = conn.flag /\ p.is_cleaned = conn.is_cleaned
  BY <1>1, <1>4 DEF pop, Conn, Loops
<1> HIDE DEF p
<1>6. /\ conn'.queue["io"] = Append(p.queue["io"], t) /\ p.queue["io"] \in Seq(Task)
      /\ conn'.state = conn.state /\ conn'.flag = conn.flag
      /\ conn'.is_cleaned = conn.is_cleaned
  BY <1>1, <1>5 DEF run_in_loop, Conn, Loops
<1>7. No(s, "shutdown") => No(conn'.queue["io"], "shutdown")
  <2>1. No(s, "shutdown") => No(p.queue["io"], "shutdown")
    BY <1>1, <1>5, TailTask
  <2> QED
    BY <1>3, <1>6, <2>1, AppendTask
<1> QED
  BY <1>1, <1>2, <1>6, <1>7 DEF Moved, Flags, Alone, Moving

LEMMA NextMInv ==
  ASSUME MInv, [Next]_vars
  PROVE  MInv'
<1>0. IInv /\ Moved
  BY DEF MInv, Moved
<1>1. ASSUME IoLoop PROVE Moved'
  <2>1. Steady(conn') /\ Moving(conn')
    BY <1>1, EstablishedMoving, HandlerMoving DEF IoLoop
  <2>2. app' = app
    BY <1>1 DEF IoLoop, connect_establised, run_send, run_shutdown, run_force_close,
       handle_read, handle_write, run_connect_destroy, run_dangling
  <2> QED
    BY <2>1, <2>2 DEF Steady, Moved, Flags, Alone, Moving, WFree, No
<1>2. ASSUME turn_wheel \/ handle_timeout \/ Peer PROVE Moved'
  BY <1>2, OutsideMoving
<1>3. ASSUME App PROVE Moved'
  BY <1>3, AppMoving
<1>4. ASSUME remove_connection PROVE Moved'
  BY <1>4, RemoveMoving
<1>5. ASSUME UNCHANGED vars \/ Finished PROVE Moved'
  BY <1>0, <1>5 DEF Finished, vars, Moved, Flags, Alone, Moving, WFree, No
<1>6. Moved'
  BY <1>1, <1>2, <1>3, <1>4, <1>5 DEF Next
<1>7. IInv'
  BY <1>0, NextIInv
<1> QED
  BY <1>6, <1>7 DEF MInv, Moved

\* Accepted output never waits without a write in flight, unless the connection
\* is being torn down: whoever appends to the empty list starts one, handle_write
\* starts the next, also after shutdown() and whatever its callback has called. An
\* OptForceClose, which handle_write obeys at once, comes with the teardown.
THEOREM OutputMoves == Spec => []NoStuckOutput
<1>1. Init => MInv
  BY InitMInv
<1>2. MInv /\ [Next]_vars => MInv'
  BY NextMInv
<1>3. MInv => NoStuckOutput
  <2>1. No(conn.queue["io"], "handle_write") <=> Queued("handle_write") = {}
    BY DEF No, Queued
  <2> QED
    BY <2>1 DEF MInv, Moving, WFree, NoStuckOutput, WriteInFlight
<1> QED
  BY <1>1, <1>2, <1>3, PTL DEF Spec
=============================================================================
