----------------------------- MODULE TcpClient ------------------------------
(***************************************************************************)
(* tcp_client and connector: an application thread connects, waiting for a *)
(* promise or not, tries again after an error or when it has waited long   *)
(* enough, calls the connection, from its own thread and from message_cb_, *)
(* and destroys the client while the loop runs, keeping the connection or  *)
(* not; the loop's thread runs the handlers.                               *)
(* The client never sets cleanup_cb_, so connect_cleanup ends in an        *)
(* exception once it has cancelled the timers and the socket: nothing else *)
(* follows, and the connection stays in WaitClose.                         *)
(***************************************************************************)
EXTENDS Integers, Sequences

CONSTANTS
  MaxConnects,   \* bound: calls that connect
  MaxPosts       \* bound: its calls of send, shutdown and force_close

ASSUME ClientAssumption == MaxConnects \in Nat /\ MaxPosts \in Nat

VARIABLES
  waiting,    \* the call the application waits in, 0 for none
  calls,      \* the kinds of the connecting calls so far
  promise,    \* for each call, what its promise holds
  answer,     \* for each call, what sync_connect_wait_for returned
  kept,       \* the application keeps a tcp_connection_ptr of its own
  alive,      \* the client was not destroyed
  socket,     \* "idle", "connecting", "connected" or "closed"
  pending,    \* the call whose async_connect is outstanding, 0 for none
  queue,      \* the tasks and completions of the loop
  handler,    \* the call whose handler has set its promise and goes on, 0 for none
  state_, is_cleaned_,
  ops,        \* the handlers of the operations that are outstanding
  outputs,    \* the length of output_buffer_
  posts,      \* calls of send, shutdown and force_close so far
  flag_,      \* the closing calls that were made
  asked,      \* history: a closing call was made in time, and not ignored
  hurried,    \* history: something was still to come when the client was destroyed
  failed      \* history: sends lost, assertions that failed, freed objects used

life_vars == <<kept, alive, hurried>>
app_vars  == <<waiting, calls, answer>>
call_vars == <<posts, flag_, asked>>
conn_vars == <<state_, is_cleaned_, ops, outputs>>
vars == <<life_vars, app_vars, call_vars, promise, socket, pending, queue, handler, conn_vars, failed>>

Calls == 1 .. MaxConnects
EState == {"Closed", "Established", "WaitClose"}
Completions == [kind : {"connected", "connect_failed"}, call : Calls]

\* told: the application had been told that the connection is there.
CallKinds == {"send", "shutdown", "force_close"}
Posted == [kind : CallKinds, told : BOOLEAN]
IoHandlers == {"handle_read", "handle_write"}
Handled == [kind : IoHandlers, ok : BOOLEAN]
Tasks == Completions \cup Posted \cup Handled
handled(h, ok) == [kind |-> h, ok |-> ok]
connect_failed_for(c) == [kind |-> "connect_failed", call |-> c]

Init ==
  /\ kept \in BOOLEAN /\ alive = TRUE /\ hurried = FALSE
  /\ waiting = 0 /\ calls = << >> /\ posts = 0 /\ flag_ = {} /\ asked = FALSE
  /\ promise = [c \in Calls |-> "none"]
  /\ answer = [c \in Calls |-> "none"]
  /\ socket = "idle" /\ pending = 0
  /\ queue = << >> /\ handler = 0
  /\ state_ = "Closed" /\ is_cleaned_ = FALSE /\ ops = {} /\ outputs = 0
  /\ failed = {}

\* The last tcp_connection_ptr is gone.
freed == ~alive /\ ~kept
Crashed == "dangling" \in failed

told == \E c \in Calls : answer[c] = "true"
Queued(kinds) == \E i \in 1 .. Len(queue) : queue[i].kind \in kinds

\* The handlers of what is outstanding, with operation_aborted.
aborted ==
  (IF "handle_read" \in ops THEN <<handled("handle_read", FALSE)>> ELSE << >>)
    \o (IF "handle_write" \in ops THEN <<handled("handle_write", FALSE)>> ELSE << >>)

-----------------------------------------------------------------------------
(* The application's thread *)

\* socket.async_connect: an error at once while the socket is connecting or
\* connected.
async_connect(c) ==
  IF socket = "idle"
    THEN socket' = "connecting" /\ pending' = c /\ UNCHANGED queue
    ELSE /\ queue' = Append(queue, connect_failed_for(c))
         /\ UNCHANGED <<socket, pending>>

connects(kind) ==
  /\ alive /\ waiting = 0 /\ Len(calls) < MaxConnects
  /\ calls' = Append(calls, kind)
  /\ async_connect(Len(calls) + 1)
  /\ UNCHANGED <<life_vars, promise, answer, handler, conn_vars, call_vars, failed>>

async_connect_impl == connects("async") /\ UNCHANGED waiting
sync_connect_wait_for_impl == connects("sync") /\ waiting' = Len(calls) + 1

answered(v) ==
  /\ answer' = [answer EXCEPT ![waiting] = v]
  /\ waiting' = 0
  /\ UNCHANGED <<life_vars, calls, call_vars, promise, socket, pending, queue, handler,
                 conn_vars, failed>>

\* The future is ready.
wait_ready ==
  /\ waiting # 0 /\ promise[waiting] # "none"
  /\ answered(IF promise[waiting] = "ok" THEN "true" ELSE "false")

\* The seconds are over; the connect goes on.
wait_timeout ==
  /\ waiting # 0 /\ promise[waiting] = "none"
  /\ answered("false")

\* A closing call is ignored after force_close, and shutdown after shutdown, even
\* if the first was made before there was a connection.
ignored(kind) == kind # "send" /\ {kind, "force_close"} \cap flag_ # {}

\* A call of the application, made in time if it knows of the connection.
called(kind, in_time) ==
  /\ posts < MaxPosts /\ posts' = posts + 1
  /\ flag_' = IF ignored(kind) THEN flag_ ELSE flag_ \cup ({kind} \ {"send"})
  /\ asked' = (asked \/ (in_time /\ kind # "send" /\ ~ignored(kind)))

\* send, shutdown and force_close from outside the loop.
post(kind) ==
  /\ ~freed /\ waiting = 0
  /\ called(kind, told)
  /\ queue' = IF ignored(kind) THEN queue ELSE Append(queue, [kind |-> kind, told |-> told])
  /\ UNCHANGED <<life_vars, app_vars, promise, socket, pending, handler, conn_vars, failed>>

\* Something that uses the connector, or the connection that goes with it.
to_come ==
  \/ handler # 0 \/ Queued({"connected"})
  \/ kept /\ pending # 0
  \/ ~kept /\ (ops # {} \/ Queued(CallKinds \cup IoHandlers))

\* ~tcp_client, and ~tcp_connection with it when nobody keeps the connection.
destroy_client ==
  /\ alive /\ waiting = 0
  /\ alive' = FALSE
  /\ hurried' = to_come
  /\ IF kept THEN UNCHANGED <<state_, socket, pending, ops, queue>>
     ELSE /\ state_' = "Closed" /\ socket' = "closed"
          /\ pending' = 0 /\ ops' = {}
          /\ queue' = queue \o aborted
                        \o (IF pending = 0 THEN << >> ELSE <<connect_failed_for(pending)>>)
  /\ UNCHANGED <<kept, app_vars, call_vars, promise, handler, is_cleaned_, outputs, failed>>

-----------------------------------------------------------------------------
(* The loop's thread *)

next_is(kind) == ~Crashed /\ queue # << >> /\ Head(queue).kind = kind

\* Mutant: connect_establised is posted, and other tasks run before it.
runs_between(kind) == next_is(kind)

runs(kind) == handler = 0 /\ next_is(kind)

set_value(c, v) ==
  promise' = IF calls[c] = "sync" THEN [promise EXCEPT ![c] = v] ELSE promise

\* The handler of a connect that succeeded, up to connect_establised.
connected ==
  /\ runs("connected") /\ alive
  /\ set_value(Head(queue).call, "ok")
  /\ handler' = Head(queue).call
  /\ queue' = Tail(queue)
  /\ UNCHANGED <<life_vars, app_vars, call_vars, socket, pending, conn_vars, failed>>

connect_establised ==
  /\ handler # 0 /\ alive /\ ~Crashed
  /\ handler' = 0
  /\ state_' = "Established"
  /\ ops' = ops \cup {"handle_read"}
  /\ failed' = failed \cup (IF state_ = "Closed" THEN {} ELSE {"twice"})
  /\ UNCHANGED <<life_vars, app_vars, call_vars, promise, socket, pending, queue, is_cleaned_,
                 outputs>>

\* Mutant: the return is missing after the error.
connect_failed_goes_on ==
  /\ runs("connect_failed")
  /\ set_value(Head(queue).call, "error")
  /\ handler' = Head(queue).call
  /\ queue' = Tail(queue)
  /\ UNCHANGED <<life_vars, app_vars, call_vars, socket, pending, conn_vars, failed>>

\* retry() does nothing: the handler does not use the connector.
connect_failed ==
  /\ runs("connect_failed")
  /\ set_value(Head(queue).call, "error")
  /\ queue' = Tail(queue)
  /\ UNCHANGED <<life_vars, app_vars, call_vars, socket, pending, handler, conn_vars, failed>>

\* What a call does to the connection, when q is still to be run and the operations
\* of more are started after it: nothing;
stays(q, more) ==
  /\ queue' = q /\ ops' = ops \cup more
  /\ UNCHANGED <<state_, is_cleaned_, outputs>>

\* connect_cleanup: the first one aborts what is outstanding;
connect_cleanup(q, more) ==
  /\ state_' = "WaitClose" /\ is_cleaned_' = TRUE
  /\ IF is_cleaned_ THEN queue' = q /\ ops' = ops \cup more
                    ELSE queue' = q \o aborted /\ ops' = more

send_in_loop(q, more) ==
  IF state_ # "Established" THEN stays(q, more)
  ELSE /\ outputs' = outputs + 1
       /\ ops' = ops \cup more \cup (IF outputs = 0 THEN {"handle_write"} ELSE {})
       /\ queue' = q /\ UNCHANGED <<state_, is_cleaned_>>

\* Mutant: the state is set only when nothing is left to send.
shutdown_in_loop_drained(q, more) ==
  IF state_ # "Established" \/ outputs > 0 THEN stays(q, more)
  ELSE connect_cleanup(q, more) /\ UNCHANGED outputs

shutdown_in_loop(q, more) ==
  IF state_ # "Established" THEN stays(q, more)
  ELSE IF outputs = 0 THEN connect_cleanup(q, more) /\ UNCHANGED outputs
  ELSE /\ state_' = "WaitClose" /\ queue' = q /\ ops' = ops \cup more
       /\ UNCHANGED <<is_cleaned_, outputs>>

force_close_in_loop(q, more) ==
  IF state_ = "Closed" THEN stays(q, more)
  ELSE connect_cleanup(q, more) /\ UNCHANGED outputs

in_loop(kind, q, more) ==
  \/ kind = "send" /\ send_in_loop(q, more)
  \/ kind = "shutdown" /\ shutdown_in_loop(q, more)
  \/ kind = "force_close" /\ force_close_in_loop(q, more)

\* The next task is a k for the connection.
serves(k) ==
  /\ runs(k) /\ ~freed
  /\ UNCHANGED <<life_vars, app_vars, promise, socket, pending, handler>>

run_posted(kind) ==
  /\ serves(kind)
  /\ in_loop(kind, Tail(queue), {})
  /\ failed' = failed \cup
       (IF kind = "send" /\ Head(queue).told /\ state_ = "Closed" THEN {"lost"} ELSE {})
  /\ UNCHANGED call_vars

handle_read_error ==
  /\ serves("handle_read") /\ ~Head(queue).ok
  /\ connect_cleanup(Tail(queue), {})
  /\ UNCHANGED <<outputs, call_vars, failed>>

\* What was read is dropped, or message_cb_ leaves the connection alone. handle_read
\* reads on, also after a cleanup.
handle_read ==
  /\ serves("handle_read") /\ Head(queue).ok
  /\ stays(Tail(queue), {"handle_read"})
  /\ UNCHANGED <<call_vars, failed>>

\* message_cb_ makes a call, unless it was silenced; an exception ends in it.
message_cb(kind) ==
  /\ serves("handle_read") /\ Head(queue).ok
  /\ "force_close" \notin flag_
  /\ called(kind, TRUE)
  /\ IF ignored(kind) THEN stays(Tail(queue), {"handle_read"})
                      ELSE in_loop(kind, Tail(queue), {"handle_read"})
  /\ UNCHANGED failed

\* When it is closing, handle_write goes on as long as there is output, unless
\* force_close was called.
writes_on == outputs > 1 /\ (state_ = "Established" \/ flag_ = {"shutdown"})
drained == outputs = 1 /\ state_ = "WaitClose" /\ flag_ = {"shutdown"}

handle_write ==
  /\ serves("handle_write")
  /\ outputs' = outputs - 1
  /\ IF ~Head(queue).ok \/ drained THEN connect_cleanup(Tail(queue), {})
     ELSE /\ ops' = ops \cup (IF writes_on THEN {"handle_write"} ELSE {})
          /\ queue' = Tail(queue) /\ UNCHANGED <<state_, is_cleaned_>>
  /\ UNCHANGED <<call_vars, failed>>

\* A timer expired.
handle_timeout ==
  /\ ~Crashed /\ handler = 0 /\ state_ # "Closed" /\ ~is_cleaned_
  /\ connect_cleanup(queue, {})
  /\ UNCHANGED <<life_vars, app_vars, call_vars, promise, socket, pending, handler, outputs,
                 failed>>

\* A handler uses a connector or a connection that was destroyed.
run_dangling ==
  /\ ~Crashed
  /\ \/ ~alive /\ (handler # 0 \/ runs("connected"))
     \/ freed /\ handler = 0 /\ queue # << >>
          /\ Head(queue).kind \notin {"connected", "connect_failed"}
  /\ failed' = failed \cup {"dangling"}
  /\ UNCHANGED <<life_vars, app_vars, call_vars, promise, socket, pending, queue, handler,
                 conn_vars>>

-----------------------------------------------------------------------------
(* The kernel and the peer *)

connect_completes(ok) ==
  /\ ~Crashed /\ pending # 0
  /\ socket' = IF ok THEN "connected" ELSE "idle"
  /\ queue' = Append(queue, IF ok THEN [kind |-> "connected", call |-> pending]
                                  ELSE connect_failed_for(pending))
  /\ pending' = 0
  /\ UNCHANGED <<life_vars, app_vars, call_vars, promise, handler, conn_vars, failed>>

\* A read or a write ends.
completes(h, ok) ==
  /\ ~Crashed /\ h \in ops
  /\ ops' = ops \ {h}
  /\ queue' = Append(queue, handled(h, ok))
  /\ UNCHANGED <<life_vars, app_vars, call_vars, promise, socket, pending, handler, state_,
                 is_cleaned_, outputs, failed>>

-----------------------------------------------------------------------------

App ==
  \/ async_connect_impl \/ sync_connect_wait_for_impl \/ wait_ready \/ wait_timeout
  \/ \E k \in CallKinds : post(k)
  \/ destroy_client

Handlers ==
  \/ connected \/ connect_establised \/ connect_failed
  \/ \E k \in CallKinds : run_posted(k) \/ message_cb(k)
  \/ handle_read_error \/ handle_read \/ handle_write \/ run_dangling

Kernel ==
  \E ok \in BOOLEAN : connect_completes(ok) \/ \E h \in IoHandlers : completes(h, ok)

\* The application has no calls left in the bounds of the model, or has crashed.
Finished ==
  /\ Crashed \/ (waiting = 0 /\ queue = << >> /\ (freed \/ posts = MaxPosts))
  /\ UNCHANGED vars

Next ==
  \/ ~Crashed /\ App
  \/ Handlers \/ handle_timeout \/ Kernel \/ Finished

Spec == Init /\ [][Next]_vars

\* The loop runs what is queued. Nothing makes the application, the peer or a timer
\* do anything.
FairSpec == Spec /\ WF_vars(Handlers)

-----------------------------------------------------------------------------
(* Correctness *)

\* Types of the variables; only a call that waits has a promise and an answer, and
\* a connect is outstanding exactly while the socket connects.
TypeOK ==
  /\ kept \in BOOLEAN /\ alive \in BOOLEAN /\ hurried \in BOOLEAN
  /\ waiting \in 0 .. Len(calls)
  /\ calls \in Seq({"sync", "async"})
  /\ promise \in [Calls -> {"none", "ok", "error"}]
  /\ answer \in [Calls -> {"none", "true", "false"}]
  /\ socket \in {"idle", "connecting", "connected", "closed"}
  /\ pending \in 0 .. Len(calls)
  /\ queue \in Seq(Tasks)
  /\ handler \in 0 .. Len(calls)
  /\ state_ \in EState
  /\ is_cleaned_ \in BOOLEAN /\ ops \subseteq IoHandlers /\ outputs \in Int
  /\ posts \in 0 .. MaxPosts
  /\ flag_ \subseteq {"shutdown", "force_close"} /\ asked \in BOOLEAN
  /\ failed \subseteq {"lost", "twice", "dangling"}
  /\ \A c \in Calls :
       promise[c] # "none" \/ answer[c] # "none" => c <= Len(calls) /\ calls[c] = "sync"
  /\ pending # 0 <=> socket = "connecting"

\* What is sent after sync_connect_wait_for returned true is never lost because
\* the connection is not established yet: the promise is kept a step before
\* connect_establised, but nothing runs between.
TrueIsOpen == "lost" \notin failed

\* However many calls connect, time out, fail or come back late, the connection is
\* established at most once (assert(!read_timer_)) and only on a connected socket,
\* and at most one call is told of it.
OpenIsConnected ==
  /\ "twice" \notin failed
  /\ alive /\ (state_ # "Closed" \/ handler # 0) => socket = "connected"
  /\ \A c, d \in Calls : promise[c] = "ok" /\ promise[d] = "ok" => c = d

\* No handler uses a destroyed client or connection unless, when the client was
\* destroyed, a successful connect was still to be handled, or the connection had
\* calls or handlers to come that nobody kept it for. A connect that is outstanding,
\* with nobody keeping the connection, is no danger: it is aborted.
DestroyedInTime == Crashed => hurried

\* If every write ends, a shutdown or force_close that is not ignored (flag_), of an
\* application that was told of the connection or in its message_cb_, is followed by
\* the cleanup: output that was accepted before a shutdown is written first, what is
\* outstanding is cancelled, and the timers are. That is as far as a client goes: its
\* cleanup ends in an exception, so the socket stays open until the last
\* tcp_connection_ptr goes, and no close or error callback comes. (A shutdown made
\* before there is a connection does nothing, and the ones after it are ignored.)
ClosingCleansUp ==
  []<>("handle_write" \notin ops) => (asked ~> is_cleaned_ \/ freed \/ Crashed)
=============================================================================
