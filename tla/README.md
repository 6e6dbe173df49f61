# zysoft in TLA+

zysoft is a C++ library: a small network layer over asio (`zysoft/net`) and a
toolbox of headers (`zysoft/zysoft`: timing wheel, buffers, string splitting,
command line arguments, clocks). This directory holds TLA+ models of the parts
with state or with an algorithm, TLC configurations that check them on small
instances, and proofs of the main results checked by TLAPS. `PROJECT.json` maps
every definition to the lines it was translated from and lists the runs, the
mutants (a plausible bug for every property, which the run must catch), the
hazards and the theorems.

Run `tlc -config X.cfg M` and `tlapm M.tla` from this directory. The cfg and module
of each run are in the table of section 4.

## 1. Inventory

### The network layer

| Component (file) | State | Operations | Meets |
|---|---|---|---|
| `event_loop`, `event_loop_thread`, `event_loop_thread_pool` | an `io_context` with its queue; for each thread its `running_` and `loop_`; the pool's `running_num_`, `num_threads_` and `next_` | `loop`, `quit`, `run_in_loop`, `sync_start`, `async_start`, `next_event_loop`, destructors that stop and join | everything else runs as tasks of a loop |
| `acceptor`, `tcp_server` | the connection being accepted (`conn_`), `connections_`, `next_conn_id_` | `start`, `listen`, `start_accept`, `handle_new_connection`, `handle_connection_cleanup`, `remove_connection`, destructor | runs in the base loop; gives every connection a loop of the pool and tells it to establish and destroy itself by posted tasks |
| `tcp_connection` | `state_`, `flag_`, `output_buffer_`, `input_buffer_`, `is_cleaned_`, two timers, the socket with its outstanding operations | `send`, `shutdown`, `force_close` from any thread; `handle_read`, `handle_write`, `handle_timeout`, `connect_establised`, `connect_cleanup`, `connect_destroy` in its loop | callbacks of the application, the timer queue of its loop, the server |
| `timer_queue` | a timing wheel, a steady timer, the expired batch | `add_timer`, `cancel_timer`, `reset_timer`, `turn_wheel` | one per loop; calls the connection's timeout handler |
| `tcp_client`, `connector` | one connection, a promise per waiting call | `async_connect`, `sync_connect_wait_for`, the destructor, and the connection's `send`, `shutdown`, `force_close` | an application thread and the loop's thread |
| `buffer`, `flat_buffer` | bytes, two positions | `append`, `consume`, `clear`, `shrink`, `swap`, copy, move, `make_space` | read buffer and messages of a connection |
| `find_CRLF`, `find_EOL` (`net/utility.h`) | none | search of the readable bytes | read callbacks that take lines |

Hard behaviours: three or more threads (base loop, io loop, application) talk by
tasks in FIFO queues, and read and write `flag_` without a lock; completion
handlers and posted lambdas hold a raw `this`; five reasons can each end a
connection, several at once; output restarts only from the handler of the last
write; both timers may be found expired in the same turn; cleanup crosses two
loops; the pool's loops are pointers written by another thread; a waiting
`connect` may time out while the operation goes on; a client may be destroyed while
its loop still has handlers that use it.

Right means: accepted data goes out in order and once and never gets stuck;
`shutdown` drains; a connection is erased and destroyed once, in that order, and
nothing touches it afterwards; a silent peer is dropped in the configured time;
the server keeps accepting and forgets exactly what was closed; a pool that has
started can be used, and can be dropped; a client's connection is established once,
and is cleaned up when it was told to close.

### The toolbox

| Component (file) | State | Right means |
|---|---|---|
| `timing_wheel` | slots, each ordered by expiry; `immediate_entries_`, `all_entries_`, `current_tick` | an entry is reported at the turn it is due, once, unless it was cancelled; the internal assertions hold |
| `flat_buffer`, `buffer` | storage, read and write positions | a FIFO of bytes through every growth, copy and move |
| `auto_buffer` | N items inside, or a block, `items_` | contents survive a resize, also one whose allocation fails |
| `split_functions` | none | every recipient gets its piece, for delimiters anywhere |
| `cmdargs` | options and values, in order | every argument is accounted for once |
| text functions of `utility` | none | nothing is lost but what is filtered, removed or trimmed |
| `time`, `clock_timer`, `MicrosecondTimer` | time points | readings of one clock agree, spans are those that passed |
| allocators, case functions, `types.h`, `inet_address`, `log`, `basic_timer`, `sys`, random helpers | none, or two settings | no control of their own: not modelled (section 7) |

## 2. The modules and what they correspond to

    ByteQueue <-- Buffer <-- LineReader --.
                             AutoBuffer --+-- MCLibrary
             SplitFunctions <-- CmdArgs --+
                   TextUtility, Clocks ---'

    ConnectionLife <-- TcpConnection <-- MCTcpConnection
          ^
          '---------- TcpServer --extends--> EventLoopThreadPool

    TimingWheel <-- TimingWheelUse <-- MCTimingWheel
         ^
         '--- TimerQueue --implements--> TimerService

    TcpClient

The proofs are in modules of their own, which extend what they are about:
`TcpConnectionProofs`, `EventLoopThreadPoolProofs`, `TcpServerProofs` (on the pool's),
`TimingWheelProofs`, and on it `TimerQueueProofs` and `TimingWheelUseProofs`,
`TcpClientProofs`, and `LibraryProofs` for `Buffer`, `LineReader`, `AutoBuffer`, `Clocks`,
`SplitFunctions`, `CmdArgs` and `TextUtility`.

**TcpConnection.** One connection of a server from `handle_new_connection` to its
destruction, with all that touches it. The functions of the class are operators
from record to record over `conn` under the names they have in
`tcp_connection.h`; a handler run by a loop, an operation the kernel completes
and a step of the application thread are one action each. `conn.queue["io"]` and
`conn.queue["base"]` are the two loops' queues (`base = "io"` is a pool without
threads, where the server's loop runs the connections too); a completion handler
is a task of the queue, with the error code it will be called with. `wheel` is what
is armed in the timing wheel and `timers` what `read_timer_` and `write_timer_`
point to: the code keeps two references and so does the model. `expired` is the
batch `turn_wheel` is working through. Callbacks are a pair of calls drawn from
`ConnectReactions`, `ReadReactions`, `WriteReactions`: whatever the application may
do in `connection_cb_`, `message_cb_`, `write_complete_cb_`. The application thread
is given a `shared_ptr` or is not, and calls `send`, `shutdown`, `shutdown(true)` and
`force_close`, the last three in three steps: test of `flag_`, the update, the post.
The update races with the loop's thread, so its outcome is either value, either
thread's update lost included. `registered`, `held` and the tasks that carry a
`shared_ptr` decide whether the object exists (`Alive`); a raw-`this` handler that
runs when it does not is the recorded failure `"dangling"`. Assertions are
compiled out, as in a release build, and recorded in `failed`.

**ConnectionLife** is the contract between a connection and its server: created,
connecting, open, cleaned, removed, destroyed. `TcpConnection` implements it
(`LifeSpec`, proved as `KeepsLife`), and `TcpServer` uses it in place of the inside of
a connection, with the posts that go with each step.

**EventLoopThreadPool.** The owner's thread and the threads of the pool, step by
step: `sync_start` or `async_start` begins the threads one after another and, in the
first case, polls the counter; a started pool may be started again, which adds as
many threads but compares the counter with `num_threads_` only. A thread makes its
loop, counts itself, runs, and ends. `event_loop::loop` catches a `std::exception` of a
task and runs again (`task_throws`, `run_again`); anything else a task throws leaves
`loop` and `thread_func`, and the process ends (`task_terminates`, after which nothing
moves; for the base loop, when the code that called `loop` does not catch it either). The
destructor quits and joins one thread after another, and quits only a loop that
was already made: a thread that makes its loop afterwards is joined for ever
(`joins_for_ever`). Loop 0 is `base_loop_`.

**TcpServer** extends the pool: acceptor and server in loop 0, connections in the
loops `next_event_loop` gives, all by tasks in those loops' queues. `start` may
fail in `listen`, with the acceptor's socket opened or not, and may be called again:
the pool is started a second time, and a socket that is open cannot be opened
again. Names of connections are `id % NameRange`, for the `%d` that prints a 64-bit
number as an `int`. The error branch of `handle_new_connection` (`handle_accept_error`)
passes a null connection to `wait_accept`, which dereferences it: recorded as
`"null_conn"`, and the model stops there; so it does at a null loop (`"null_loop"`).
`destroy_server` leaves the base loop and destroys the members in the order C++ does:
`connections_`, then the pool, last the acceptor with the connection it would have
accepted (`destroy_acceptor`). The application may keep the pointer of an open
connection (`held`) and let go of it at any time, from any thread.

**TimingWheel** is `timing_wheel.h` over a record `w`; **TimingWheelUse** drives it as
a program that calls `tick` and `get_expired` in any order and any number of times;
**TimerQueue** drives it as `timer_queue.h` does, one tick and one poll per turn and
a callback for each entry of the batch, which may itself add, reset and cancel.
**TimerService** is what the queue promises: timers with deadlines, no wheel.

**Buffer** (`buffer` and `flat_buffer`, whose text differs in `consume`) implements
**ByteQueue**, queues of bytes: bytes, positions and storage are modelled,
including growth against move-to-front. A buffer that was moved from keeps its
positions over an empty vector; `usable` says which one is not in that state, and
the program puts, consumes and shrinks only such a buffer, as the code of the
repository does.

**LineReader** is `find_CRLF` or `find_EOL` under a read callback like the ones of
`tests/zysoft_net_test`: bytes come in pieces that respect no line, and each call
takes one line if a whole one is there. Its buffer is one of `Buffer`.

**AutoBuffer** is `auto_buffer` with an allocator that may give nothing and a count of
the blocks it gave. **SplitFunctions** writes the overloads as one operator of the
number of recipients, and **CmdArgs** parses arguments (`cmdargs.h` has a `split` of
its own). **TextUtility** applies the text functions of `utility` to every short text,
in any order. **Clocks** has the conversions of `time.h`, whose milliseconds are
rounded up, those of `utility.h`, which are rounded down, `clock_timer` on a steady
clock and `MicrosecondTimer` on a system clock that may be set.

**MCLibrary** picks one of these machines in its initial state, so that one run
covers them.

**TcpClient.** The connecting calls of one application thread, their promises, the
socket (an `async_connect` on a socket that is connecting or connected fails at
once), and the loop's handlers. The handler of a successful connect sets the
promise *before* it establishes the connection, so the two are separate steps.
A client never sets `cleanup_cb_`, so `connect_cleanup` ends in an exception after
it has cancelled timers and operations: nothing else follows, and the model ends
the cleanup there. What happens inside an established connection is
`TcpConnection`'s; here it is a list length, the outstanding operations and the state,
with enough of `handle_write` to tell a drain that ends from one that does not.
`message_cb_` may call `send`, `shutdown` or `force_close` (`message_cb`), and a read that was
complete when the cleanup came is still handled, and read on. An update of `flag_` is
one step here; `TcpConnection` has it in parts.
The application may destroy the client at any time it is not waiting, and keeps a
`tcp_connection_ptr` of its own or not (`kept`). The connect handlers hold a raw
pointer to the connector; an outstanding connect is aborted, harmlessly, when the
socket goes with the client, and completes on a freed connector when it does not.
`hurried` records, at the moment of destruction, whether something that uses the
freed objects was still to come.

## 3. Assumptions of the models

* `io_context` runs tasks and completions of one loop in FIFO order; `cancel()` and
  `close()` queue the handlers of outstanding operations at once, with
  `operation_aborted`. An operation that has already completed keeps its result.
  This is asio's reactor, on Linux. The README of the repository says that it
  compiles only on Windows for now; there aborted operations end in the same code
  and completed ones keep their result too, but a handler is queued when the kernel
  reports it and not within `cancel()`, an order that is not modelled.
* A handler is atomic with respect to its own loop, and only `flag_` and the task
  queues are shared with other threads. Where a call of another thread can
  interleave with `flag_` it is split in steps.
* The close, error and timeout callbacks of the application do not call back into
  the connection; in `TcpClient` neither do `connection_cb_` and `write_complete_cb_`, which
  `TcpConnection` has.
* In `TcpConnection` timers carry no time: an armed timer may be found expired in any
  turn, alone or with the other. `TimerQueue` is where time is exact.
* The order of entries within one poll of the wheel is left open; overflow of the
  wheel's 64-bit tick is not reached.
* The pool's `thread_num` is set before the first start and not after.

## 4. Runs

The configuration of a run is `<run>.cfg`; the conn_ runs use `MCTcpConnection`,
timer_lasts `TimerQueue`. Passing runs:

| Run | Module | Properties | Question |
|---|---|---|---|
| conn_safety | MCTcpConnection | TypeOK OneWrite NoStuckOutput InOrder GracefulDrain EraseOnce Guarded AliveUntilClosed LifeSpec | Is output right, and is the end of a connection orderly, under all races of peer, timers, callbacks, two loops and an application thread? |
| conn_liveness | MCTcpConnection | CleanedCloses ShutdownCloses SilentPeerCloses | Does a connection that should end, end? |
| wheel_use | MCTimingWheel | ReportedOnTime NothingMissed | Does the wheel keep its order and report what is due, however it is polled? |
| timer_queue | TimerQueue | EntriesPlaced NeverOverdue OnTime ServiceSpec | Are timers called at their deadline, when callbacks change the wheel under the batch? |
| pool | EventLoopThreadPool | LoopReady Balanced LoopOutlivesRun TasksRun StartAndDropEnd | When can a started pool be used and dropped, started once or more often, waited for or not? |
| server | TcpServer | Registered KeepsAccepting EraseFinds SafeWhileServing LivesFollowed CleanedDestroyed | Does the map hold the right connections, does the server keep accepting, what can crash it, is what was cleaned up destroyed? |
| library | MCLibrary | SplitExact ArgsAccounted LinesExact TextExact ReadingsAgree FifoSpec ResizeKeeps | Are buffers FIFOs, are lines found however they arrive, do resizes keep contents, do splitting, parsing and filtering account for every character, do the clocks agree? |
| client | TcpClient | TrueIsOpen OpenIsConnected DestroyedInTime ClosingCleansUp | Do waiting, giving up and trying again leave client and socket in agreement, when is destroying the client safe, does a shutdown or force_close that is not ignored lead to the cleanup? |

Runs that show a disagreement between the code and what it says of itself (each
checks one property, and TLC finds it violated):

| Run | Property | What happens |
|---|---|---|
| conn_double_write | SentOnce | `send()` from `write_complete_cb_` finds the list empty after `pop_front` and starts a write; `handle_write` then starts another of the same buffer. The peer gets it twice, and the second completion pops an empty list. |
| conn_two_timeouts | TimeoutHasHandle | Both timers are found expired in one turn; the first callback cleans up, the second meets a null handle and `assert(read_timer_)` or `assert(write_timer_)` fails. |
| conn_dangling | NoDangling | After `connect_destroy` the last `shared_ptr` goes while a posted call or an aborted handler with a raw `this` is still queued. |
| timer_lasts | LastsSeconds | `add_timer` counts `sec * 1000` ticks, the wheel turns every 10 ms: timers last ten times as long as asked. |

The properties of conn_safety hold with `send()` kept out of `write_complete_cb_`
(`WriteReactions` of the run): with it, conn_double_write is what happens.

### Bounds, and why they are enough

* conn_safety: 2 messages, 1 read with data, both timeouts or none. Two messages
  are what it takes for one to wait behind a write in flight, to be reordered or
  to be written twice; a second read adds no state that the first has not (the
  buffer is the application's). Each call can be made from a callback, from the
  other thread, before and after each other, and the pool has threads or none.
* conn_liveness: 1 message, at most one timeout, callbacks that answer and shut
  down or force-close: the shapes of waiting; more messages lengthen the drain.
* wheel_use: 3 slots, 2 entries (symmetric), durations 0, 1, 3 and 4: none, less
  than, exactly and more than one revolution; 6 ticks. `CancelImmediate = FALSE`:
  see section 6.
* timer_queue: 2 slots, 3 timers, durations of 0, 1 and 3 ticks, `Scale = 1` in place of
  the code's 1000: two timers of one batch and a third to change, several
  revolutions. timer_lasts uses the code's 1000 and 100 Hz.
* pool: 0 to 3 threads, so that a pool of one thread can be started three times, and
  one without threads any number of times; 2 tasks waiting in a loop, 3 calls of
  `next_event_loop` per loop: every residue of the round robin, more than one full turn.
* server: 0 to 2 threads (one thread can be started twice), 3 connections, one of
  which can be accepted while another is removed and a third is kept.
  `NameRange = 4 > MaxConns` stands for 2^32 names: no wrap.
* library: two buffers with 1 byte of prepend area, 1 of initial storage and 3
  readable bytes, so that both branches of `make_space` and the exact fits are taken;
  lines of up to 7 bytes in pieces that split `\r\n` and pieces that hold two ends;
  N = 2 items inside and up to 4; up to 2 arguments of up to 3 characters from `-`, `=`
  and one other; texts of up to 5 of 4 characters; clocks of up to 4 microseconds
  with 2 of them to a millisecond and 2 of those to a second, so that every
  rounding and the carry to the seconds are met.
* client: 2 connecting calls, one that gives up and one that meets the late result, on a
  socket that is connecting or connected; 3 other calls, each from the application's
  thread or from `message_cb_`: two sends, of which one waits behind the other, and a
  shutdown, or a shutdown and a force_close with output left.

Deadlock is checked in every run; the states in which a system has rightly
stopped have an explicit `Finished`, `Done`, `Complete` or `Silent` step.

### Fairness

Loops run their queued tasks and threads are scheduled (weak fairness on the
handlers of a loop, on each thread of the pool): that is what `io_context::run` and
the operating system do. An owner that may start its pool over and over comes back to
its own loop in between (strong fairness for the base loop). An armed timer is found expired sooner or later, since
`timer_queue` restarts its steady timer after each turn. An application thread
inside `shutdown()` or `force_close()` goes on, since nothing blocks there. Nothing
is assumed of the peer, of new connections, or of the application making calls;
`ClosingCleansUp` is about clients whose writes end, and says so in its premise: a peer
that never reads keeps a shutdown waiting for ever when there is no write timeout.

## 5. Proofs

All for every value of the constants, from the named assumptions of the modules.
A hypothesis beyond those is part of the theorem and is named below. Of the 40
properties of the passing runs 33 are theorems, among them every invariant.

**TcpConnectionProofs.** Three invariants, one on the other.

`IInv` joins the types with the path a connection's removal takes: before cleanup
there is no removal task anywhere; after it exactly one *token* exists: a
`remove_connection` in the base queue, then a `connect_destroy` in the io queue,
then the state `Closed`, and `registered` and `is_cleaned` agree with where the token
is. `EraseOnce` alone is not inductive since nothing in it says that no second
removal is queued. From it:

* `TypeCorrect`, `ErasedOnce`;
* `DestroyedLast` (a closed connection is not registered, an unregistered one is
  cleaned), `LifeGoesOneWay`, `NothingAfterCleanup` (action properties);
* `KeepsLife`: every step of `TcpConnection` is a step of `ConnectionLife` or a stutter,
  so the server may rely on the abstract life.

`MInv` adds what output needs to move, and holds for all callbacks: `Flags` (a
`flag_` that is not empty names a shutdown or a forced close, and is not empty as
long as one is under way in the state, in a queued task or in the application's
thread), `Alone` (while that thread is between its test and its update of `flag_`,
an `OptForceClose` in it was set together with a cleanup, so the lost update does no
harm) and `Moving`. `NoStuckOutput` alone is not inductive: in `WaitClose` with an
empty `flag_` `handle_write` would start nothing, and an update that drops
`OptForceClose` would leave output stuck if the connection were not cleaned up.
Hence `OutputMoves` (`NoStuckOutput`). Inside `handle_write`, between the pop and the
next write, only `Flags` and `Alone` hold; `write_next` restores `Moving`.

The rest is proved under the hypothesis `NoSendInWriteCb`: no reaction of
`WriteReactions` sends. The code needs it: conn_double_write is what happens
otherwise, and TLC then finds every one of the properties below violated.
`WGood` says that a write is outstanding, or its handler is queued, never both, and
that the list's head is what is written (`WFree`: inside `handle_write` none is). `WInv`
joins to it `Kept` (what was erased has its `connect_destroy`), `Armed` (a handle is
a timer that is armed or has expired), `Ordered` (`output_buffer_` is the rest of what
was accepted, the peer has what precedes it, one more while the handler of a
write that went well is queued), `Drained`, `Flows`, and that nothing undefined was
met before the state `Closed`. The parts need each other: `InOrder` needs that one
write is in flight at a time, that needs the list's head to be the message in
flight, `GracefulDrain` needs `InOrder` and that the list is empty only when
everything was written, and all of them that the model has not stopped at a freed
object. Hence

* `WritesAlternate` (`OneWrite`), `WireInOrder` (`InOrder`), `DrainsFirst` (`GracefulDrain`);
* `TimersGuard` (`Guarded`), `OutlivesItsHandlers` (`AliveUntilClosed`).

**TimingWheelProofs, TimerQueueProofs.** `Placed` (each entry is in the slot and under
the key computed from its expiry, the sizes agree) and agreement of the history
with the wheel give `WheelInOrder`, `NoneOverdue`, `CalledOnTime` and `Implements`
(the queue implements `TimerService`), for any number of slots and a finite set
of timers, when no duration-0 timer is cancelled (`~CancelZero`, section 6).

**TimingWheelUseProofs.** Under any alternation of ticks and polls. `ReportInv`: what
is in the wheel is under the key of its own tick, and what was reported is gone
from it. This gives `ReportedAtItsTick` (`ReportedOnTime`) with no hypothesis: an entry
of duration 0 that was cancelled in vain is reported all the same, at its tick.
`MissInv`: `Placed`, and no armed entry has a tick at which a poll has been; it gives
`NothingIsMissed` (`NothingMissed`) when none of duration 0 is cancelled
(`~CancelImmediate`: otherwise the wheel's assertion fails, section 6).

**EventLoopThreadPoolProofs.** `running_num_` is the number of threads that have
passed `thread_cb`, a thread counts itself after it has made its loop, and before
the pool is dropped no loop is stopped and no thread has ended: so when the counter
`sync_start` polls reaches the number of threads, every `loop_` pointer is set. This
gives `StartedIsReady` (`LoopReady`) and `LoopsOutliveThreads` (`LoopOutlivesRun`) for
any number of threads and of starts; it rests on facts about cardinalities of finite
sets. A second `sync_start` does not wait, since the counter has long reached the
number of one start: `LoopReady` says so by its premise. `TurnsAreFair` (`Balanced`)
comes from `GivenInv`: the loops before `next_` were given once more than those from
it on, which a second start breaks, since `next_` then goes on in a longer list.

**TcpServerProofs**, on the invariant of the pool. `ServerInv` says where a connection
is by the tasks that are queued for it: at most one, whose kind its life
determines (`TasksAgree`), none before it is made (`CreatedAgree`), in the base loop
where it belongs there; and that server and pool agree on who is running
(`OwnersAgree`). It gives `GoesOnAccepting` (`KeepsAccepting`) and `LivesAreFollowed`
(`LivesFollowed`): no step skips a stage of `ConnectionLife`, though the map, the
tasks and the application's pointer are three reasons for a connection to exist.
`NamesInv` adds the map, for `MaxConns <= NameRange`: names are different for the
first 2^32 connections, and only for those (section 6). It gives `MapIsExact`
(`Registered`), `FoundWhenErased` (`EraseFinds`) and `ServesSafely` (`SafeWhileServing`).

**TcpClientProofs.** The connection is in one place: nowhere, in the queue as the
completion of a successful connect, with the handler that has kept the promise, or
established; of each call at most one completion is queued, and then its promise is
still open; and a task whose caller had been told comes after a kept promise.
`Quiet` adds what a client that was destroyed in time leaves behind: if nothing was to
come, then no success is queued or outstanding, and, unless the connection is
kept, nothing but failed connects is queued and no operation is outstanding. Without
it `DestroyedInTime` is not inductive, as it speaks only of the moment of the crash.
Hence `EstablishedOnce` (`OpenIsConnected`), `SentAfterTrue` (`TrueIsOpen`), `NotHurried`
(`DestroyedInTime`) and `ClientTypes`, for any number of calls.

**LibraryProofs.** `BuffersAreQueues`: `Buffer` implements `ByteQueue` (`FifoSpec`), for any
number of buffers, sizes and contents. The invariant `BInv` keeps `read_pos_` and
`write_pos_` in order; `usable`, that both lie inside the storage, is an operation's
premise and not part of it, for a moved-from buffer breaks it. Each operation has
a lemma on the bytes between its positions, `prepare_writable_bytes` one for each
branch of `make_space`.

`LinesAreWhole` (`LinesExact`): the lines a read callback takes, each
with its end, and what is readable are what the peer sent, for any pieces. The text
of the lines is a recursive function, and what it is for every number of lines is
not proved by induction on that number but along the steps: `LInv` says that some function
satisfies the recursion and that every one that does gives the text received; a
line taken extends such a function by one place (`TextGoesOn`), and each of the longer list
is one of the shorter list with the new line and its end behind (`TextBefore`). A line holds
no end of its own because `find_in` gives the first place (`Found`).

`ItemsAreKept` (`ResizeKeeps`): `auto_buffer` keeps the items both sizes have, whether they go
to the inside, to a new block or stay where an allocation failed, and has a block of
the allocator exactly when it uses one (`AInv`). `ClocksAgree` (`ReadingsAgree`): until
the system's clock is set it is the steady clock with an offset, and a stamp rounded up is at most one ahead of a reading rounded
down (`CInv`); it rests on lemmas about quotients by `Scale`, which is a constant.

`SplitsAreExact` (`SplitExact`): for any arguments and each overload, of two to six recipients
(the lemma `SplitExactly` is for any number), the parts of `split` are the text between
its first delimiters and those of `str_split` the text between all of them, nothing lost and nothing added. This is induction over data, which the
theorems of the proof library cannot give here, as they take an operator as
parameter; `FromZero` states induction over a *set* of numbers, and follows from the
library's theorem that such a set has a minimal element. `StepByStep` then says that
a recursive function exists where each value follows from the one before, `Cuts`, `Joined` and
`Lines` which functions those of the model are, and the rest is arithmetic on the
places of the delimiters (`AtDelimiters`) and regrouping (`JoinMore`).

`ArgumentsAreAccounted` (`ArgsAccounted`): for any arguments. `m_options` and `m_values` are
loops that go through the arguments and collect what belongs to some of them;
`Collects` says so for any such loop, and the lemmas about it say what every one gives:
as many as there are indices to collect from, each of them once, in their order, from
no other index. An option's text is its argument by `OptionText`, with the places of the
dashes and of the first `=`; the searches give the least match (`FirstOf`, `SearchEnds`), so
that a search for any type ends no later than one for a given type (`SearchShorter`).

`TextsAreExact` (`TextExact`): for texts of any length; `MaxText` bounds only what is filtered.
Where `filter_comment` goes from line to line it is a recursive function from each place
to a later one, which exists and is unique by `Built`. `RestLines` then says that
what is read of a text from a place on is what is read of the rest alone, so that
`filter_comment` of a line, its end and a text is what is kept of the line and
`filter_comment` of that text (`FilterMore`), and likewise for the lines
(`LinesOfMore`). With these `FilterExact` is proved by strong induction on the length, line
by line (`LineByLine`): a text is one line, or a line, an end and a shorter text. What
`str_remove` keeps is collected as above (`Removal`), and two texts that keep the same
characters in the same order are removed to the same text (`TrimmedRemoved`,
`MarkedRemoved`).

**Only model-checked:** the liveness of connection, pool, server and client
(`CleanedCloses`, `ShutdownCloses`, `SilentPeerCloses`, `TasksRun`, `StartAndDropEnd`,
`CleanedDestroyed`, `ClosingCleansUp`): fairness and `ENABLED` are out of the prover's reach.

## 6. What the models show beside the runs

These follow from the code too, and each can be reproduced by the change named.
The first three disagree with a sentence of the repository: two assertions and a
comment. They have no run of their own since no caller in the repository meets the
first (a timeout of 0 seconds makes no timer), the second takes 2^32 connections, and
the third is, as said there, no more than the order of two calls. The others
contradict no sentence.

* `cancel` of an entry of duration 0 looks for it in a slot it was never put in and
  trips the assertion at `timing_wheel.h:229`; without assertions it erases `end()`, which
  is undefined (set `CancelImmediate` or `CancelZero` to TRUE and check `NothingMissed` or
  `EntriesPlaced`).
* With fewer names than connections (`NameRange < MaxConns`, after 2^32 connections)
  a new connection replaces an open one in `connections_`, and for the second of them
  that is removed the assertion at `tcp_server.h:130` fails (`EraseFinds`).
* The race on `flag_` can drop `OptDoNotMessageCallback`: `message_cb_` is called again
  after a `shutdown()`, where the comment at `tcp_connection.h:256-257` says that what
  comes then is dropped. It takes a `shutdown(true)` of the loop's thread at the same
  time, and that call made first, without any race, has the same effect, as the second
  one is then ignored: two callers who want different things. The lost updates are
  part of every run of `TcpConnection`.
* A timer's callback is told `sec * 1000`, not `sec`.
* `~tcp_server` frees open connections before the threads that run their handlers
  are joined; the model reaches `"dangling"` then, and only then (`SafeWhileServing`). A
  failed accept reaches `"null_conn"`. The acceptor goes after the pool, and its
  waiting connection closes a socket of a loop that is gone; so does a connection
  the application keeps longer than the server.
* A `start` that failed in `listen` and is repeated starts the pool a second time,
  whose new threads may not have made their loops when the first connection is
  given to one (`"null_loop"`); if the socket had been opened, it fails for ever.
* A pool dropped while its threads come up may join a thread that nobody stops
  (`joins_for_ever`; drop the premise of `StartAndDropEnd` to see it).
* A task that throws what is no `std::exception` ends the process with all its loops
  (`task_terminates`; drop `"terminated"` from `TasksRun` to see it). The server calls the
  application's callbacks inside a `catch (...)`, so this concerns tasks that a user of
  the loop gives it.
* A client destroyed with a successful connect still to be handled, or with
  handlers of a connection nobody keeps, crashes (`DestroyedInTime` without `hurried`).
* A callback that takes one line per read leaves a second one in the buffer until
  the peer sends more (`LineReader!handle_read`).
* An argument with three hyphens is an option of type 2, though `cmdargs.h` has a
  `tripleDash` (`CmdArgs!type_of`).
* `filter_comment` adds an empty line to a text that ends with an end of line.
* `shutdown()` before the connection is established only sets `flag_`, and every later
  `shutdown()` is then ignored (`TcpClient!ignored`): such calls are outside the premise
  of `ClosingCleansUp`, and the connection may stay open; `force_close()` still works.
* A client's cleanup ends in `bad_function_call` (`tcp_connection.h:428`), since `cleanup_cb_` is
  not set. Its close and error callbacks are never called, and the socket stays open,
  without operations but the read a handler may start again, until the last
  `tcp_connection_ptr` goes.
* `auto_buffer` gives a block back with the current, possibly smaller, number of
  items; a moved-from `buffer` keeps positions over empty storage, which `clear()`
  does not repair. Neither is met by the code of the repository.

## 7. Not modelled

Allocators and shims (forwarding), case functions (a map over characters),
`types.h` and addresses (declarations, formatting), the log (output), wrappers of
error codes and of random distributions, tests and build files. Of `timer.h`,
`basic_timer`: an accumulated and a target duration that only its user adds and
compares. Of `time.h` and `utility`: local time and its texts (the C library's
calendar; `YYYYMMDD_HHMMSS_ToLocaltime` takes `mktime`'s -1 for an error, which is also the
second before the epoch), `hex_dump` (formatting) and `cat_file` (a loop over
`fread` that takes a read error for the end of the file). Of `auto_buffer`: `swap`,
which names members that do not exist, and the iterators (`cbegin()` returns the
end). `allocator_base::deallocate` calls a function that does not exist.

## 8. Plan

Done, in this order: `TcpConnection` with `ConnectionLife`; the timing wheel and
timer queue with `TimerService`; the pool; the server on both; the library; the
client; the first proofs.

Then: destruction of a client against its loop and the end of what it closes;
starts without waiting, repeated and failed starts of pool and server; copies and
moves of buffers, lines, text functions and clocks; connections of the server that
the application keeps.

After that, the proofs of section 5, until the safety properties of all machines
were theorems, and last the arguments and the texts.

Next: `TcpClient` over the operators of `TcpConnection` in place of its own short
ones, with the proofs of `TcpClientProofs` on top of `IInv` and `MInv`.
