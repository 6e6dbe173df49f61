----------------------------- MODULE TcpServer -----------------------------
(***************************************************************************)
(* tcp_server with its acceptor and its pool of event loops: it accepts    *)
(* connections in the base loop, gives each to the next loop of the pool,  *)
(* keeps it in connections_ until it was cleaned up, and has it destroyed  *)
(* in its own loop. A connection is seen as ConnectionLife describes it;   *)
(* TcpConnection models what happens inside.                               *)
(***************************************************************************)
EXTENDS EventLoopThreadPool

CONSTANTS
  MaxConns,   \* bound: connections ever created
  NameRange   \* how many values "%d" tells apart: 2^32 for an int

ASSUME ServerAssumption == MaxConns \in Nat \ {0} /\ NameRange \in Nat \ {0}

VARIABLES
  server,        \* what start() has come to
  opened,        \* the acceptor's socket is open
  accepting,     \* acceptor_::conn_, 0 when it is null
  connections_,  \* from names to connections, 0 for none
  next_conn_id_,
  life,          \* for each connection, where it is in its life
  io_loop,       \* for each connection, the loop it was given
  held,          \* the connections the application keeps a tcp_connection_ptr of
  failed         \* history: assertions that failed, undefined behaviour met

server_vars == <<server, opened, accepting, connections_, next_conn_id_, life, io_loop, held, failed>>
vars == <<pool_vars, server_vars>>

Conns == 1 .. MaxConns
Names == 0 .. NameRange - 1

TaskKinds == {"accepted", "accept_failed", "connect_establised", "remove_connection",
              "connect_destroy"}
ServerTasks == [kind : TaskKinds, conn : Conns]

\* run_in_loop takes any functor.
ASSUME TasksAssumption == ServerTasks \subseteq Tasks

task(k, c) == [kind |-> k, conn |-> c]

\* Mutant: the overload without the number.
create_connection_name_same(id) == 0

\* The address is the same for all: the number tells names apart.
create_connection_name(id) == id % NameRange

Init ==
  /\ PoolInit
  /\ server = "idle" /\ opened = FALSE
  /\ accepting = 0
  /\ connections_ = [n \in Names |-> 0]
  /\ next_conn_id_ = 1
  /\ life = [c \in Conns |-> "created"]
  /\ io_loop = [c \in Conns |-> 0]
  /\ held = {}
  /\ failed = {}

Crashed == failed \cap {"null_conn", "null_loop", "dangling"} # {}

Queued(c) == \E l \in loop_ : \E i \in 1 .. Len(queue[l]) : queue[l][i].conn = c

\* The server, its acceptor and the tasks let go of c.
Unowned(c) == accepting # c /\ (\A n \in Names : connections_[n] # c) /\ ~Queued(c)

\* An open connection was freed, with its read outstanding.
Freed(c) == life[c] = "open" /\ Unowned(c) /\ c \notin held

-----------------------------------------------------------------------------
(* The base loop *)

\* start_accept: a connection for the next loop, which the connection dereferences,
\* and an outstanding accept.
start_accept ==
  IF next_conn_id_ > MaxConns
    THEN accepting' = 0 /\ UNCHANGED <<next_conn_id_, io_loop, next_, given, failed>>
    ELSE /\ io_loop' = [io_loop EXCEPT ![next_conn_id_] = next_loop]
         /\ next_event_loop
         /\ accepting' = next_conn_id_
         /\ next_conn_id_' = next_conn_id_ + 1
         /\ failed' = failed \cup (IF next_loop \in loop_ THEN {} ELSE {"null_loop"})

\* start(), the first time or again after it returned false.
start ==
  /\ ~Crashed /\ server \in {"idle", "failed"}
  /\ sync_start
  /\ server' = "starting"
  /\ UNCHANGED <<opened, accepting, connections_, next_conn_id_, life, io_loop, held, failed>>

\* An acceptor that is open cannot be opened again.
listen ==
  /\ owner = "started" /\ server = "starting" /\ ~opened
  /\ server' = "listening" /\ opened' = TRUE
  /\ start_accept
  /\ UNCHANGED <<own, thr, ctx, num_threads_, connections_, life, held>>

\* open, bind or listen throws.
listen_fails ==
  /\ owner = "started" /\ server = "starting"
  /\ server' = "failed" /\ opened' \in {opened, TRUE}
  /\ UNCHANGED <<pool_vars, accepting, connections_, next_conn_id_, life, io_loop, held, failed>>

\* The next task of loop l is a k for connection c.
Runs(l, k, c) == ~Crashed /\ runs(l) /\ Head(queue[l]) = task(k, c)

\* Mutant: the next accept is not started.
handle_new_connection_last(c) ==
  /\ Runs(0, "accepted", c)
  /\ life' = [life EXCEPT ![c] = "connecting"]
  /\ connections_' = [connections_ EXCEPT ![create_connection_name(c)] = c]
  /\ queue' = run_in_loop(taken(queue, 0), io_loop[c], task("connect_establised", c))
  /\ accepting' = 0
  /\ UNCHANGED <<choice, own, thr, loop_, stopped, server, opened, next_conn_id_, io_loop, held, failed>>

handle_new_connection(c) ==
  /\ Runs(0, "accepted", c)
  /\ life' = [life EXCEPT ![c] = "connecting"]
  /\ connections_' = [connections_ EXCEPT ![create_connection_name(c)] = c]
  /\ queue' = run_in_loop(taken(queue, 0), io_loop[c], task("connect_establised", c))
  /\ start_accept
  /\ UNCHANGED <<own, thr, loop_, stopped, num_threads_, server, opened, held>>

\* wait_accept(nullptr, ...) calls get_socket() of a null connection.
handle_accept_error(c) ==
  /\ Runs(0, "accept_failed", c)
  /\ queue' = taken(queue, 0)
  /\ accepting' = 0
  /\ failed' = failed \cup {"null_conn"}
  /\ UNCHANGED <<choice, own, thr, loop_, stopped, server, opened, connections_, next_conn_id_,
                 life, io_loop, held>>

\* Mutants: the connection is not erased; connect_destroy is not posted.
remove_connection_kept(c) ==
  /\ Runs(0, "remove_connection", c)
  /\ life' = [life EXCEPT ![c] = "removed"]
  /\ queue' = run_in_loop(taken(queue, 0), io_loop[c], task("connect_destroy", c))
  /\ UNCHANGED <<choice, own, thr, loop_, stopped, server, opened, accepting, connections_,
                 next_conn_id_, io_loop, held, failed>>
remove_connection_only(c) ==
  /\ Runs(0, "remove_connection", c)
  /\ connections_' = [connections_ EXCEPT ![create_connection_name(c)] = 0]
  /\ life' = [life EXCEPT ![c] = "removed"]
  /\ queue' = taken(queue, 0)
  /\ UNCHANGED <<choice, own, thr, loop_, stopped, server, opened, accepting, next_conn_id_,
                 io_loop, held, failed>>

remove_connection(c) ==
  /\ Runs(0, "remove_connection", c)
  /\ connections_' = [connections_ EXCEPT ![create_connection_name(c)] = 0]
  /\ failed' = failed \cup
       (IF connections_[create_connection_name(c)] = 0 THEN {"erase"} ELSE {})
  /\ life' = [life EXCEPT ![c] = "removed"]
  /\ queue' = run_in_loop(taken(queue, 0), io_loop[c], task("connect_destroy", c))
  /\ UNCHANGED <<choice, own, thr, loop_, stopped, server, opened, accepting, next_conn_id_,
                 io_loop, held>>

\* The base loop is left and ~tcp_server destroys connections_, then the pool and
\* last the acceptor, whose connection has a socket of a loop of the pool.
destroy_server ==
  /\ ~Crashed
  /\ server # "starting"
  /\ quit_base
  /\ server' = "destroyed"
  /\ connections_' = [n \in Names |-> 0]
  /\ UNCHANGED <<opened, accepting, next_conn_id_, life, io_loop, held, failed>>

\* The last pointer to c goes: its socket and its timers need its loop.
freed_in_loop(c) == IF io_loop[c] \in loop_ THEN {} ELSE {"dangling"}

destroy_acceptor ==
  /\ ~Crashed /\ owner = "destroyed" /\ accepting # 0
  /\ accepting' = 0
  /\ failed' = failed \cup freed_in_loop(accepting)
  /\ UNCHANGED <<pool_vars, server, opened, connections_, next_conn_id_, life, io_loop, held>>

-----------------------------------------------------------------------------
(* The loops of the connections *)

connect_establised(c) ==
  /\ Runs(io_loop[c], "connect_establised", c)
  /\ life' = [life EXCEPT ![c] = "open"]
  /\ queue' = taken(queue, io_loop[c])
  /\ UNCHANGED <<choice, own, thr, loop_, stopped, server, opened, accepting, connections_,
                 next_conn_id_, io_loop, held, failed>>

\* Mutant: destroyed without the base loop.
handle_connection_cleanup_direct(c) ==
  /\ ~Crashed /\ in_run(io_loop[c])
  /\ life[c] = "open" /\ ~Freed(c) /\ server # "destroyed"
  /\ life' = [life EXCEPT ![c] = "cleaned"]
  /\ queue' = run_in_loop(queue, io_loop[c], task("connect_destroy", c))
  /\ UNCHANGED <<choice, own, thr, loop_, stopped, server, opened, accepting, connections_,
                 next_conn_id_, io_loop, held, failed>>

\* Some handler of the connection cleans it up: handle_connection_cleanup.
handle_connection_cleanup(c) ==
  /\ ~Crashed /\ in_run(io_loop[c])
  /\ life[c] = "open" /\ ~Freed(c) /\ server # "destroyed"
  /\ life' = [life EXCEPT ![c] = "cleaned"]
  /\ queue' = run_in_loop(queue, 0, task("remove_connection", c))
  /\ UNCHANGED <<choice, own, thr, loop_, stopped, server, opened, accepting, connections_,
                 next_conn_id_, io_loop, held, failed>>

connect_destroy(c) ==
  /\ Runs(io_loop[c], "connect_destroy", c)
  /\ life' = [life EXCEPT ![c] = "destroyed"]
  /\ queue' = taken(queue, io_loop[c])
  /\ UNCHANGED <<choice, own, thr, loop_, stopped, server, opened, accepting, connections_,
                 next_conn_id_, io_loop, held, failed>>

\* The outstanding read of a freed connection is aborted, and its handler runs; or a
\* handler of a connection that is left calls cleanup_cb_, which has a raw server.
run_dangling(c) ==
  /\ ~Crashed /\ in_run(io_loop[c])
  /\ Freed(c) \/ (life[c] = "open" /\ server = "destroyed")
  /\ failed' = failed \cup {"dangling"}
  /\ UNCHANGED <<pool_vars, server, opened, accepting, connections_, next_conn_id_, life, io_loop, held>>

-----------------------------------------------------------------------------
(* The application and the kernel *)

\* A callback of the connection copies the pointer; any thread lets go of it.
app_keeps(c) ==
  /\ ~Crashed /\ in_run(io_loop[c])
  /\ life[c] = "open" /\ ~Freed(c) /\ c \notin held
  /\ held' = held \cup {c}
  /\ UNCHANGED <<pool_vars, server, opened, accepting, connections_, next_conn_id_, life, io_loop,
                 failed>>

app_drops(c) ==
  /\ ~Crashed /\ c \in held
  /\ held' = held \ {c}
  /\ failed' = failed \cup (IF Unowned(c) THEN freed_in_loop(c) ELSE {})
  /\ UNCHANGED <<pool_vars, server, opened, accepting, connections_, next_conn_id_, life, io_loop>>

accept_completes(k) ==
  /\ ~Crashed /\ accepting # 0 /\ 0 \notin stopped
  /\ ~\E i \in 1 .. Len(queue[0]) : queue[0][i].conn = accepting
  /\ queue' = run_in_loop(queue, 0, task(k, accepting))
  /\ UNCHANGED <<choice, own, thr, loop_, stopped, server_vars>>

-----------------------------------------------------------------------------

BaseLoop(c) == handle_new_connection(c) \/ handle_accept_error(c) \/ remove_connection(c)
IoLoop(c) == connect_establised(c) \/ connect_destroy(c)

Pool == Starting \/ Dropping \/ \E l \in Loops : Thread(l)

Finished == (Crashed \/ owner = "destroyed" \/ joins_for_ever) /\ UNCHANGED vars

Next ==
  \/ ~Crashed /\ Pool /\ UNCHANGED server_vars
  \/ start \/ listen \/ listen_fails \/ destroy_server \/ destroy_acceptor
  \/ \E c \in Conns :
       BaseLoop(c) \/ IoLoop(c) \/ handle_connection_cleanup(c) \/ run_dangling(c)
  \/ \E c \in Conns : app_keeps(c) \/ app_drops(c)
  \/ \E k \in {"accepted", "accept_failed"} : accept_completes(k)
  \/ Finished

Spec == Init /\ [][Next]_vars

\* The loops run their tasks. Nothing makes a peer connect or a connection end.
FairSpec ==
  /\ Spec
  /\ \A c \in Conns : WF_vars(BaseLoop(c)) /\ WF_vars(IoLoop(c))
  /\ WF_vars(~Crashed /\ (Starting \/ Dropping) /\ UNCHANGED server_vars)
  /\ WF_vars(~Crashed /\ (\E l \in Loops : Thread(l)) /\ UNCHANGED server_vars)

-----------------------------------------------------------------------------
(* Correctness *)

\* Types of the variables.
TypeOK ==
  /\ PoolTypeOK
  /\ server \in {"idle", "starting", "listening", "failed", "destroyed"}
  /\ opened \in BOOLEAN
  /\ accepting \in Conns \cup {0}
  /\ connections_ \in [Names -> Conns \cup {0}]
  /\ next_conn_id_ \in 1 .. MaxConns + 1
  /\ life \in [Conns -> {"created", "connecting", "open", "cleaned", "removed", "destroyed"}]
  /\ io_loop \in [Conns -> Loops]
  /\ held \subseteq Conns
  /\ failed \subseteq {"null_conn", "null_loop", "dangling", "erase"}

\* As long as the server exists, connections_ holds exactly the connections that
\* were accepted and not removed, each under its own name.
Registered ==
  server # "destroyed" =>
    \A c \in Conns, n \in Names :
      connections_[n] = c <=>
        n = create_connection_name(c) /\ life[c] \in {"connecting", "open", "cleaned"}

\* A listening server always has an accept outstanding or its completion queued,
\* until it fails or the model's connections are used up.
KeepsAccepting ==
  server = "listening" /\ ~Crashed /\ next_conn_id_ <= MaxConns => accepting # 0

\* While the server exists no handler of a freed connection runs: connections_
\* keeps what is open, whatever was accepted and erased and whatever the application
\* lets go of meanwhile. A server whose
\* start() succeeds at once never gets a null loop from the pool.
SafeWhileServing ==
  /\ "dangling" \in failed => server = "destroyed"
  /\ "null_loop" \in failed => goal > num_threads_

\* Every connection follows ConnectionLife.
Life(c) == INSTANCE ConnectionLife WITH life <- life[c]
LivesFollowed ==
  (\A c \in Conns : life[c] = "created")
    /\ [][\A c \in Conns : Life(c)!Next \/ UNCHANGED life[c]]_life

\* What was cleaned up is destroyed, unless the server is torn down or an accept
\* fails before.
CleanedDestroyed ==
  \A c \in Conns : life[c] = "cleaned" ~> life[c] = "destroyed" \/ Crashed \/ server = "destroyed"

\* assert(n == 1) of remove_connection: the name of a connection is still in the
\* map when the base loop comes to erase it.
EraseFinds == "erase" \notin failed
=============================================================================
