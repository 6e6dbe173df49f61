--------------------------- MODULE TcpConnection ---------------------------
(***************************************************************************)
(* One server-side tcp_connection of zysoft/net from the moment the        *)
(* acceptor hands it over (state Connecting, in connections_, its          *)
(* connect_establised posted) to its destruction, together with all that   *)
(* touches it: the io loop that runs its handlers in FIFO order, the base  *)
(* loop that owns connections_, the timer wheel of the io loop, the socket *)
(* with its outstanding asynchronous operations, the peer, the             *)
(* application's callbacks and one application thread that was given a     *)
(* shared_ptr to the connection.                                           *)
(*                                                                         *)
(* The functions of the class are operators from record to record (the     *)
(* variable conn), under the names they have in tcp_connection.h; a        *)
(* handler run by a loop is one action built from them.                    *)
(***************************************************************************)
EXTENDS Integers, Sequences

CONSTANTS
  MaxSends,          \* bound: messages the application ever sends
  MaxReads,          \* bound: reads that ever deliver data
  Limits,            \* the choices of which operations have a timeout
  ConnectReactions,  \* what connection_cb_ may call, a pair of calls
  ReadReactions,     \* what message_cb_ may call
  WriteReactions     \* what write_complete_cb_ may call

\* The member functions a callback may call on its own connection:
\* shutdown(false) is "shutdown", shutdown(true) is "shutdown_cb".
Calls == {"none", "send", "shutdown", "shutdown_cb", "force_close"}

ASSUME BoundsAssumption == MaxSends \in Nat /\ MaxReads \in Nat
ASSUME LimitsAssumption == Limits \subseteq SUBSET {"read", "write"}
ASSUME ReactionAssumption ==
  /\ ConnectReactions \subseteq Calls \X Calls
  /\ ReadReactions \subseteq Calls \X Calls
  /\ WriteReactions \subseteq Calls \X Calls

VARIABLES
  conn,        \* the tcp_connection, its socket and the two task queues
  base,        \* the server's own loop: "io" when the pool has no thread
  limits,      \* the timeouts that are > 0 (read_timeout_sec_, write_timeout_sec_)
  registered,  \* the connection is in tcp_server::connections_
  held,        \* the application thread holds a shared_ptr
  app,         \* where that thread is inside shutdown() / force_close()
  expired,     \* timer_queue::expired_ still to be called by turn_wheel
  wire,        \* history: messages written to the socket, in order
  reads,       \* history: reads that delivered data
  failed       \* history: assertions that failed, undefined behaviour met

vars == <<conn, base, limits, registered, held, app, expired, wire, reads, failed>>

EState == {"Closed", "Connecting", "Established", "WaitClose"}
EFlag  == {"OptShutdown", "OptForceClose", "OptDoNotMessageCallback"}
Timers == {"read", "write"}
Loops  == {"io", "base"}
Causes == {"none", "shutdown", "force_close", "socket_err", "timeout"}

\* A task of a loop. "remove_connection" and the two connect_ tasks are bound
\* to a shared_ptr, all the others to the raw this.
RefKinds == {"connect_establised", "remove_connection", "connect_destroy"}
RawKinds == {"send", "shutdown", "force_close", "handle_read", "handle_write"}
Task == [kind : (RefKinds \cup RawKinds) \ {"send"}, msg : {0},
         ec : {"ok", "eof", "error", "aborted"}]
        \cup [kind : {"send"}, msg : 1 .. MaxSends, ec : {"ok"}]

task(k)          == [kind |-> k, msg |-> 0, ec |-> "ok"]
completion(k, e) == [kind |-> k, msg |-> 0, ec |-> e]

Conn == [state         : EState,
         flag          : SUBSET EFlag,
         output_buffer : Seq(1 .. MaxSends),
         is_cleaned    : BOOLEAN,
         timers        : SUBSET Timers,      \* read_timer_, write_timer_ not null
         wheel         : SUBSET Timers,      \* their entries in the timing wheel
         open          : BOOLEAN,            \* the socket is open
         reading       : BOOLEAN,            \* an async_read_some is outstanding
         writing       : Seq(1 .. MaxSends), \* outstanding async_writes
         queue         : [Loops -> Seq(Task)],
         sends         : 0 .. MaxSends,      \* messages sent so far
         accepted      : Seq(1 .. MaxSends), \* history: taken by send_in_loop
         cause         : Causes]             \* history: why it was cleaned

-----------------------------------------------------------------------------
(* event_loop::run_in_loop and the socket *)

run_in_loop(d, l, t) == [d EXCEPT !.queue[l] = Append(@, t)]
pop(d, l)            == [d EXCEPT !.queue[l] = Tail(@)]

\* socket_.cancel() and socket_.close(): the handlers of the outstanding
\* operations are queued with operation_aborted, the read's first.
aborted_operations(d) ==
  (IF d.reading THEN <<completion("handle_read", "aborted")>> ELSE << >>)
    \o [i \in 1 .. Len(d.writing) |-> completion("handle_write", "aborted")]

cancel_operations(d) ==
  [d EXCEPT !.reading = FALSE, !.writing = << >>,
            !.queue["io"] = @ \o aborted_operations(d)]

\* An operation started on a closed socket fails at once, through the queue.
\* Resetting the read timer leaves its entry in the wheel.
async_read(d) ==
  IF d.open THEN [d EXCEPT !.reading = TRUE]
            ELSE run_in_loop(d, "io", completion("handle_read", "error"))

\* Mutant: no write timer.
write_timer_none(d) == d

write_timer(d) ==
  IF "write" \in limits /\ "write" \notin d.timers
    THEN [d EXCEPT !.timers = @ \cup {"write"}, !.wheel = @ \cup {"write"}]
    ELSE d

async_write(d) ==
  IF d.open
    THEN [write_timer(d) EXCEPT !.writing = Append(@, Head(d.output_buffer))]
    ELSE run_in_loop(write_timer(d), "io", completion("handle_write", "error"))

\* Mutant: only the handle is dropped.
cancel_timer_handle_only(d, t) == [d EXCEPT !.timers = @ \ {t}]

cancel_timer(d, t) ==
  IF t \in d.timers
    THEN [d EXCEPT !.timers = @ \ {t}, !.wheel = @ \ {t}]
    ELSE d

-----------------------------------------------------------------------------
(* Closing *)

\* connect_cleanup and the server's handle_connection_cleanup it calls.
cleanup_once(d, why) ==
  run_in_loop(
    cancel_operations(cancel_timer(cancel_timer(
      [d EXCEPT !.is_cleaned = TRUE, !.cause = why], "read"), "write")),
    base, task("remove_connection"))

\* Mutant: without the is_cleaned_ test.
connect_cleanup_again(d, why) ==
  IF d.state = "Closed" THEN d ELSE cleanup_once([d EXCEPT !.state = "WaitClose"], why)

connect_cleanup(d, why) ==
  IF d.state = "Closed" THEN d
  ELSE LET e == [d EXCEPT !.state = "WaitClose"]
       IN  IF d.is_cleaned THEN e ELSE cleanup_once(e, why)

\* The destructor calls it too, always after the posted one: then a no-op.
connect_destroy(d) ==
  IF d.state = "Closed" THEN d
  ELSE cancel_operations([d EXCEPT !.state = "Closed", !.open = FALSE])

\* Mutant: does not wait for the output to be written.
shutdown_in_loop_now(d) == connect_cleanup(d, "shutdown")

shutdown_in_loop(d) ==
  IF d.state \in {"Closed", "WaitClose"} THEN d
  ELSE LET e == [d EXCEPT !.state = "WaitClose"]
       IN  IF d.output_buffer = << >> THEN connect_cleanup(e, "shutdown") ELSE e

\* Mutant: closes the socket before the server knows.
force_close_in_loop_destroys(d) == connect_destroy(connect_cleanup(d, "force_close"))

force_close_in_loop(d) == connect_cleanup(d, "force_close")

-----------------------------------------------------------------------------
(* The calls of the application, from a callback (on the loop's thread) *)

\* Mutants: a write for every message; the newest first.
send_in_loop_always(d, m) ==
  IF d.state \in {"WaitClose", "Closed"} THEN d
  ELSE async_write([d EXCEPT !.output_buffer = Append(@, m), !.accepted = Append(@, m)])
send_in_loop_front(d, m) ==
  IF d.state \in {"WaitClose", "Closed"} THEN d
  ELSE LET e == [d EXCEPT !.output_buffer = <<m>> \o @, !.accepted = Append(@, m)]
       IN  IF d.output_buffer = << >> THEN async_write(e) ELSE e

send_in_loop(d, m) ==
  IF d.state \in {"WaitClose", "Closed"} THEN d
  ELSE LET e == [d EXCEPT !.output_buffer = Append(@, m), !.accepted = Append(@, m)]
       IN  IF d.output_buffer = << >> THEN async_write(e) ELSE e

send(d) ==
  IF d.sends < MaxSends
    THEN send_in_loop([d EXCEPT !.sends = @ + 1], d.sends + 1)
    ELSE d

may_shutdown(flag)    == flag \cap {"OptShutdown", "OptForceClose"} = {}
may_force_close(flag) == "OptForceClose" \notin flag

\* The flags each call sets.
shutdown_flags(op) ==
  CASE op = "shutdown"    -> {"OptShutdown", "OptDoNotMessageCallback"}
    [] op = "shutdown_cb" -> {"OptShutdown"}
    [] OTHER              -> {"OptForceClose", "OptDoNotMessageCallback"}

shutdown(d, op) ==
  IF may_shutdown(d.flag)
    THEN shutdown_in_loop([d EXCEPT !.flag = @ \cup shutdown_flags(op)])
    ELSE d

force_close(d) ==
  IF may_force_close(d.flag)
    THEN force_close_in_loop([d EXCEPT !.flag = @ \cup shutdown_flags("force_close")])
    ELSE d

call(d, op) ==
  CASE op = "none"                       -> d
    [] op = "send"                       -> send(d)
    [] op \in {"shutdown", "shutdown_cb"} -> shutdown(d, op)
    [] op = "force_close"                -> force_close(d)

callback(d, reaction) == call(call(d, reaction[1]), reaction[2])

need_message_callback(d) == "OptDoNotMessageCallback" \notin d.flag

-----------------------------------------------------------------------------
(* Life time *)

HasTask(k) == \E l \in Loops : \E i \in 1 .. Len(conn.queue[l]) : conn.queue[l][i].kind = k

\* Some shared_ptr to the connection exists.
Alive == registered \/ held \/ \E k \in RefKinds : HasTask(k)

\* Undefined behaviour was met: nothing more is said of the run.
Crashed == failed \cap {"front", "dangling"} # {}

IoIdle == expired = << >> /\ ~Crashed
\* The next task of loop l is a k, and the loop's thread is free to run it.
Runs(l, k) ==
  /\ ~Crashed
  /\ l = "io" => expired = << >>
  /\ conn.queue[l] # << >>
  /\ Head(conn.queue[l]).kind = k

-----------------------------------------------------------------------------
(* tcp_server::handle_new_connection has just returned *)

NewConn ==
  [state |-> "Connecting", flag |-> {}, output_buffer |-> << >>, is_cleaned |-> FALSE,
   timers |-> {}, wheel |-> {}, open |-> TRUE, reading |-> FALSE, writing |-> << >>,
   queue |-> [l \in Loops |-> IF l = "io" THEN <<task("connect_establised")>> ELSE << >>],
   sends |-> 0, accepted |-> << >>, cause |-> "none"]

IdleApp == [pc |-> "idle", op |-> "none", loaded |-> {}]

Init ==
  /\ conn = NewConn
  /\ base \in Loops
  /\ limits \in Limits
  /\ registered = TRUE
  /\ held = FALSE
  /\ app = IdleApp
  /\ expired = << >>
  /\ wire = << >>
  /\ reads = 0
  /\ failed = {}

-----------------------------------------------------------------------------
(* Handlers of the io loop *)

start_read_timer(d) ==
  IF "read" \in limits THEN [d EXCEPT !.timers = @ \cup {"read"}, !.wheel = @ \cup {"read"}] ELSE d

\* connection_cb_ may keep the shared_ptr it is given.
connect_establised ==
  /\ Runs("io", "connect_establised")
  /\ \E r \in ConnectReactions :
       conn' = callback(async_read(start_read_timer(
                 [pop(conn, "io") EXCEPT !.state = "Established"])), r)
  /\ held' \in BOOLEAN
  /\ UNCHANGED <<base, limits, registered, app, expired, wire, reads, failed>>

run_send ==
  /\ Runs("io", "send")
  /\ Alive
  /\ conn' = send_in_loop(pop(conn, "io"), Head(conn.queue["io"]).msg)
  /\ UNCHANGED <<base, limits, registered, held, app, expired, wire, reads, failed>>

run_shutdown ==
  /\ Runs("io", "shutdown")
  /\ Alive
  /\ conn' = shutdown_in_loop(pop(conn, "io"))
  /\ UNCHANGED <<base, limits, registered, held, app, expired, wire, reads, failed>>

run_force_close ==
  /\ Runs("io", "force_close")
  /\ Alive
  /\ conn' = force_close_in_loop(pop(conn, "io"))
  /\ UNCHANGED <<base, limits, registered, held, app, expired, wire, reads, failed>>

handle_read ==
  /\ Runs("io", "handle_read")
  /\ Alive
  /\ \/ /\ Head(conn.queue["io"]).ec # "ok"
        /\ conn' = connect_cleanup(pop(conn, "io"), "socket_err")
     \/ /\ Head(conn.queue["io"]).ec = "ok"
        /\ need_message_callback(conn)
        /\ \E r \in ReadReactions : conn' = async_read(callback(pop(conn, "io"), r))
     \/ /\ Head(conn.queue["io"]).ec = "ok"
        /\ ~need_message_callback(conn)
        /\ conn' = async_read(pop(conn, "io"))
  /\ UNCHANGED <<base, limits, registered, held, app, expired, wire, reads, failed>>

\* Mutants: the rest is not written after shutdown(); the wrong timer is cancelled.
write_next_stops(d) ==
  IF d.state = "WaitClose" THEN d
  ELSE IF d.output_buffer # << >> THEN async_write(d) ELSE cancel_timer(d, "write")
write_next_wrong_timer(d) ==
  IF d.output_buffer # << >> THEN async_write(d)
  ELSE IF d.state = "WaitClose" THEN connect_cleanup(d, "shutdown")
  ELSE cancel_timer(d, "read")

\* What handle_write does after write_complete_cb_.
write_next(d) ==
  IF d.state = "WaitClose"
    THEN CASE "OptForceClose" \in d.flag -> cancel_timer(d, "write")
           [] d.flag \cap {"OptShutdown", "OptForceClose"} = {"OptShutdown"} ->
                IF d.output_buffer = << >> THEN connect_cleanup(d, "shutdown")
                                           ELSE async_write(d)
           [] OTHER -> d
    ELSE IF d.output_buffer # << >> THEN async_write(d) ELSE cancel_timer(d, "write")

\* front() and pop_front() of an empty list are undefined.
handle_write ==
  /\ Runs("io", "handle_write")
  /\ Alive
  /\ failed' = failed \cup (IF conn.output_buffer = << >> THEN {"front"} ELSE {})
  /\ LET d == [pop(conn, "io") EXCEPT !.output_buffer = Tail(@)]
     IN  IF conn.output_buffer = << >> THEN conn' = conn
         ELSE \/ /\ Head(conn.queue["io"]).ec # "ok"
                 /\ conn' = connect_cleanup(d, "socket_err")
              \/ /\ Head(conn.queue["io"]).ec = "ok"
                 /\ \E r \in WriteReactions : conn' = write_next(callback(d, r))
  /\ UNCHANGED <<base, limits, registered, held, app, expired, wire, reads>>

run_connect_destroy ==
  /\ Runs("io", "connect_destroy")
  /\ conn' = connect_destroy(pop(conn, "io"))
  /\ UNCHANGED <<base, limits, registered, held, app, expired, wire, reads, failed>>

\* A handler bound to the raw this runs after the object was freed.
run_dangling ==
  /\ \E k \in RawKinds : Runs("io", k)
  /\ ~Alive
  /\ failed' = failed \cup {"dangling"}
  /\ UNCHANGED <<conn, base, limits, registered, held, app, expired, wire, reads>>

\* timer_queue::turn_wheel: any of the armed timers are found expired together,
\* in either order; they leave the wheel before the first callback runs.
turn_wheel ==
  /\ IoIdle
  /\ \E s \in {<<"read">>, <<"write">>, <<"read", "write">>, <<"write", "read">>} :
       /\ \A i \in 1 .. Len(s) : s[i] \in conn.wheel
       /\ expired' = s
       /\ conn' = [conn EXCEPT !.wheel = {t \in @ : \A i \in 1 .. Len(s) : s[i] # t}]
  /\ UNCHANGED <<base, limits, registered, held, app, wire, reads, failed>>

\* The assertion that the timer's handle is not null is recorded and, as in a
\* build without assertions, the handler goes on.
handle_timeout ==
  /\ expired # << >> /\ ~Crashed
  /\ expired' = Tail(expired)
  /\ \/ /\ ~Alive
        /\ failed' = failed \cup {"dangling"}
        /\ UNCHANGED conn
     \/ /\ Alive
        /\ failed' = failed \cup (IF conn.state # "Closed" /\ Head(expired) \notin conn.timers
                                    THEN {"timer"} ELSE {})
        /\ conn' = connect_cleanup(conn, "timeout")
  /\ UNCHANGED <<base, limits, registered, held, app, wire, reads>>

-----------------------------------------------------------------------------
(* The base loop *)

\* Mutant: connect_destroy is not posted.
remove_connection_only ==
  /\ Runs(base, "remove_connection")
  /\ registered' = FALSE
  /\ conn' = pop(conn, base)
  /\ UNCHANGED <<base, limits, held, app, expired, wire, reads, failed>>

\* tcp_server::remove_connection
remove_connection ==
  /\ Runs(base, "remove_connection")
  /\ failed' = failed \cup (IF registered THEN {} ELSE {"erase"})
  /\ registered' = FALSE
  /\ conn' = run_in_loop(pop(conn, base), "io", task("connect_destroy"))
  /\ UNCHANGED <<base, limits, held, app, expired, wire, reads>>

-----------------------------------------------------------------------------
(* The peer and the kernel: outstanding operations complete *)

read_completes(ec) ==
  /\ ~Crashed /\ conn.reading
  /\ ec = "ok" => reads < MaxReads
  /\ reads' = IF ec = "ok" THEN reads + 1 ELSE reads
  /\ conn' = run_in_loop([conn EXCEPT !.reading = FALSE], "io", completion("handle_read", ec))
  /\ UNCHANGED <<base, limits, registered, held, app, expired, wire, failed>>

write_completes(ec) ==
  /\ ~Crashed /\ conn.writing # << >>
  /\ wire' = IF ec = "ok" THEN Append(wire, Head(conn.writing)) ELSE wire
  /\ conn' = run_in_loop([conn EXCEPT !.writing = Tail(@)], "io", completion("handle_write", ec))
  /\ UNCHANGED <<base, limits, registered, held, app, expired, reads, failed>>

-----------------------------------------------------------------------------
(* The application thread *)

app_send ==
  /\ ~Crashed /\ held /\ app.pc = "idle" /\ conn.sends < MaxSends
  /\ conn' = run_in_loop([conn EXCEPT !.sends = @ + 1], "io",
                         [kind |-> "send", msg |-> conn.sends + 1, ec |-> "ok"])
  /\ UNCHANGED <<base, limits, registered, held, app, expired, wire, reads, failed>>

\* shutdown() and force_close() test flag_ and then read, modify and write it
\* while the loop's thread may do the same: flag_ is neither atomic nor locked.
app_test_flag(op) ==
  /\ ~Crashed /\ held /\ app.pc = "idle"
  /\ IF op = "force_close" THEN may_force_close(conn.flag) ELSE may_shutdown(conn.flag)
  /\ app' = [pc |-> "tested", op |-> op, loaded |-> conn.flag]
  /\ UNCHANGED <<conn, base, limits, registered, held, expired, wire, reads, failed>>

\* Either thread's update may overwrite the other's.
raced_flags ==
  LET new == shutdown_flags(app.op)
  IN  {conn.flag \cup new, app.loaded \cup new}
        \cup (IF conn.flag # app.loaded THEN {conn.flag} ELSE {})

app_set_flag ==
  /\ ~Crashed /\ app.pc = "tested"
  /\ \E f \in raced_flags : conn' = [conn EXCEPT !.flag = f]
  /\ app' = [app EXCEPT !.pc = "flagged", !.loaded = {}]
  /\ UNCHANGED <<base, limits, registered, held, expired, wire, reads, failed>>

app_post ==
  /\ ~Crashed /\ app.pc = "flagged"
  /\ conn' = run_in_loop(conn, "io",
               task(IF app.op = "force_close" THEN "force_close" ELSE "shutdown"))
  /\ app' = IdleApp
  /\ UNCHANGED <<base, limits, registered, held, expired, wire, reads, failed>>

\* The thread lets go of its shared_ptr.
app_drop ==
  /\ ~Crashed /\ held /\ app.pc = "idle"
  /\ held' = FALSE
  /\ UNCHANGED <<conn, base, limits, registered, app, expired, wire, reads, failed>>

-----------------------------------------------------------------------------

IoLoop ==
  \/ connect_establised \/ run_send \/ run_shutdown \/ run_force_close
  \/ handle_read \/ handle_write \/ run_connect_destroy \/ run_dangling

Peer == \/ \E ec \in {"ok", "eof", "error"} : read_completes(ec)
        \/ \E ec \in {"ok", "error"} : write_completes(ec)

App == \/ app_send
       \/ \E op \in {"shutdown", "shutdown_cb", "force_close"} : app_test_flag(op)
       \/ app_set_flag \/ app_post \/ app_drop

\* The object is gone, or undefined behaviour was met: the model stops.
Finished == /\ Crashed \/ conn.state = "Closed"
            /\ UNCHANGED vars

Next == IoLoop \/ turn_wheel \/ handle_timeout \/ remove_connection \/ Peer \/ App \/ Finished

Spec == Init /\ [][Next]_vars

\* The loops keep running their tasks, an armed timer is found expired sooner or
\* later, a thread inside shutdown() or force_close() goes on. Nothing is
\* assumed of the peer and nothing makes the application call.
Fairness ==
  /\ WF_vars(IoLoop)
  /\ WF_vars(remove_connection)
  /\ WF_vars(turn_wheel)
  /\ WF_vars(handle_timeout)
  /\ WF_vars(app_set_flag \/ app_post)

FairSpec == Spec /\ Fairness
-----------------------------------------------------------------------------
(* Correctness *)

\* The variables hold values of their types, and what is armed in the wheel has a
\* handle through which it can be cancelled.
TypeOK ==
  /\ conn \in Conn
  /\ base \in Loops
  /\ conn.wheel \subseteq conn.timers
  /\ limits \subseteq Timers
  /\ registered \in BOOLEAN
  /\ held \in BOOLEAN
  /\ app \in [pc : {"idle", "tested", "flagged"},
              op : {"none", "shutdown", "shutdown_cb", "force_close"},
              loaded : SUBSET EFlag]
  /\ expired \in Seq(Timers)
  /\ wire \in Seq(1 .. MaxSends)
  /\ reads \in 0 .. MaxReads
  /\ failed \subseteq {"front", "dangling", "timer", "erase"}

Queued(k) == {i \in 1 .. Len(conn.queue["io"]) : conn.queue["io"][i].kind = k}

\* A write was handed to the socket and its handler has not run.
WriteInFlight == conn.writing # << >> \/ Queued("handle_write") # {}

\* At most one async_write is in flight, and it writes the buffer at the front
\* of output_buffer_ (front() and pop_front() in handle_write rely on it).
OneWrite ==
  /\ Len(conn.writing) <= 1
  /\ \A i, j \in Queued("handle_write") : i = j
  /\ conn.writing # << >> =>
       /\ Queued("handle_write") = {}
       /\ conn.output_buffer # << >>
       /\ Head(conn.output_buffer) = conn.writing[1]
  /\ Queued("handle_write") # {} => conn.output_buffer # << >>

\* Accepted data never waits for ever: while the connection is not being torn
\* down, output that is not empty has a write in flight (send_in_loop starts one
\* only for an empty list, handle_write only for what is left).
NoStuckOutput ==
  conn.output_buffer # << >> /\ ~conn.is_cleaned /\ "OptForceClose" \notin conn.flag
    => WriteInFlight

\* The peer gets the accepted messages in order, none twice, none skipped.
InOrder == Len(wire) <= Len(conn.accepted) /\ wire = SubSeq(conn.accepted, 1, Len(wire))

\* A connection closed by shutdown() has written all it accepted first.
GracefulDrain == conn.cause = "shutdown" => wire = conn.accepted

\* assert(n == 1) of remove_connection: the server erases a connection once.
EraseOnce == "erase" \notin failed

\* A connection is destroyed only after the server has let go of it, and the
\* server lets go of it only after its cleanup.
RegisteredUntilCleaned ==
  /\ conn.state = "Closed" => ~registered
  /\ ~registered => conn.is_cleaned

\* With a read timeout configured an established connection that is not yet
\* cleaned up always has its read timer armed, or expired and about to be handled;
\* with a write timeout configured a write in flight is guarded likewise.
Pending(t) == t \in conn.wheel \/ \E i \in 1 .. Len(expired) : expired[i] = t
Guarded ==
  /\ "read" \in limits /\ conn.state \in {"Established", "WaitClose"} /\ ~conn.is_cleaned
       => Pending("read")
  /\ "write" \in limits /\ conn.writing # << >> /\ ~conn.is_cleaned => Pending("write")

\* The object outlives whatever is bound to its raw this up to its destruction:
\* handlers, posted calls and timers can only dangle once it is Closed.
AliveUntilClosed == conn.state # "Closed" => Alive /\ ~Crashed

\* The life of a connection goes one way: Connecting, Established, WaitClose,
\* Closed; no late call, completion or timer takes it back.
Stage(s) == CASE s = "Connecting" -> 0 [] s = "Established" -> 1
              [] s = "WaitClose" -> 2  [] s = "Closed" -> 3
OneWay == [][Stage(conn'.state) >= Stage(conn.state)]_vars

\* Once cleaned up the connection takes no more data from the application.
CleanedTakesNothing == [][conn.is_cleaned => conn'.accepted = conn.accepted]_vars

\* The connection keeps the promise its server is built on, ConnectionLife: it is
\* established, cleaned up, erased and destroyed, once each and in that order,
\* whatever the peer, the timers, the callbacks and other threads do.
server_view ==
  CASE conn.state = "Closed" -> "destroyed"
    [] conn.state # "Closed" /\ ~registered -> "removed"
    [] conn.state # "Closed" /\ registered /\ conn.is_cleaned -> "cleaned"
    [] conn.state = "Connecting" /\ registered /\ ~conn.is_cleaned -> "connecting"
    [] OTHER -> "open"
Life == INSTANCE ConnectionLife WITH life <- server_view
LifeSpec == Life!AcceptedSpec

\* Cleanup always ends in the socket closed, whatever is queued meanwhile.
CleanedCloses == conn.is_cleaned ~> conn.state = "Closed"

\* With a write timeout a connection that was shut down is closed even if the
\* peer never reads.
ShutdownCloses ==
  "write" \in limits /\ conn.state = "WaitClose" ~> conn.state = "Closed"

\* With a read timeout every connection is closed in the end.
SilentPeerCloses == "read" \in limits => <>(conn.state = "Closed")

-----------------------------------------------------------------------------
(* What comments and assertions say and the code does not keep *)

\* "established: async_read is registered, data can be sent normally" (line 33):
\* also from write_complete_cb_, where send() finds the list empty, starts a
\* write, and handle_write then starts another for the same buffer: the peer gets
\* it twice.
SentOnce == \A i, j \in 1 .. Len(wire) : wire[i] = wire[j] => i = j

\* assert(read_timer_) and assert(write_timer_) of handle_timeout: a timer that
\* expires has its handle. Two timers found expired in one tick break it.
TimeoutHasHandle == "timer" \notin failed

\* "destroy closes only the socket it holds, this is safe" (lines 78-80): no
\* handler runs on a connection that was freed.
NoDangling == "dangling" \notin failed
=============================================================================
