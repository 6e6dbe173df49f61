-------------------------- MODULE TcpClientProofs ---------------------------
(***************************************************************************)
(* However often a client connects, waits, gives up, tries again and is    *)
(* destroyed, one call at most is told of a connection, the connection is  *)
(* established once, what is sent after the answer finds it established,   *)
(* and no handler meets a destroyed object that nobody hurried.            *)
(***************************************************************************)
EXTENDS TcpClient, TLAPS

IsConnected(t)  == t.kind = "connected"
IsCompletion(t) == t.kind \in {"connected", "connect_failed"}
IsSend(t)       == t.kind = "send"
IsHandler(t)    == t.kind \in IoHandlers

Told(p) == \E c \in Calls : p[c] = "ok"

NoSuccess(q)  == \A i \in 1 .. Len(q) : ~IsConnected(q[i])
OnlyFailed(q) == \A i \in 1 .. Len(q) : q[i].kind = "connect_failed"

\* r is q with two handlers of the connection added at most.
Grown(q, r) ==
  \/ r = q
  \/ \E t \in Handled : r = Append(q, t)
  \/ \E t, u \in Handled : r = Append(Append(q, t), u)

\* Types of what the calls of the application change.
CallTypes ==
  /\ posts \in 0 .. MaxPosts
  /\ flag_ \subseteq {"shutdown", "force_close"} /\ asked \in BOOLEAN

\* Types, without what TypeOK says of promises.
Types ==
  /\ kept \in BOOLEAN /\ alive \in BOOLEAN /\ hurried \in BOOLEAN
  /\ calls \in Seq({"sync", "async"})
  /\ waiting \in 0 .. Len(calls)
  /\ Len(calls) <= MaxConnects
  /\ promise \in [Calls -> {"none", "ok", "error"}]
  /\ answer \in [Calls -> {"none", "true", "false"}]
  /\ socket \in {"idle", "connecting", "connected", "closed"}
  /\ pending \in 0 .. Len(calls)
  /\ queue \in Seq(Tasks)
  /\ handler \in 0 .. Len(calls)
  /\ state_ \in EState
  /\ is_cleaned_ \in BOOLEAN /\ ops \subseteq IoHandlers /\ outputs \in Int
  /\ posts \in 0 .. MaxPosts
  /\ flag_ \subseteq {"shutdown", "force_close"} /\ asked \in BOOLEAN

\* What the queue q may hold when n calls were made, p are the promises, e the
\* outstanding call, con says that a success may be in it and up that handlers of
\* the connection may: of each call at most one completion, and then it was not
\* answered and is not outstanding; one success at most; what is sent after an
\* answer comes after a promise.
QueueInv(q, n, p, e, con, up) ==
  /\ \A i \in 1 .. Len(q) : IsCompletion(q[i]) =>
       q[i].call \in 1 .. n /\ q[i].call # e /\ p[q[i].call] = "none"
  /\ \A i, j \in 1 .. Len(q) :
       IsCompletion(q[i]) /\ IsCompletion(q[j]) /\ q[i].call = q[j].call => i = j
  /\ \A i, j \in 1 .. Len(q) : IsConnected(q[i]) /\ IsConnected(q[j]) => i = j
  /\ \A i \in 1 .. Len(q) : IsConnected(q[i]) => con
  /\ \A i \in 1 .. Len(q) : IsSend(q[i]) /\ q[i].told => Told(p)
  /\ \A i \in 1 .. Len(q) : IsHandler(q[i]) => up

Open == handler # 0 \/ state_ # "Closed"
Con == freed \/ (socket = "connected" /\ ~Open)
Up == freed \/ state_ # "Closed"
Queue(q) == QueueInv(q, Len(calls), promise, pending, Con, Up)

\* The connection is in one place: nowhere, in the queue, with the handler, or
\* established; and when it is freed nothing is outstanding.
OnePlace ==
  /\ ~freed =>
       /\ Open => socket = "connected"
       /\ handler # 0 => state_ = "Closed"
       /\ Told(promise) => Open
       /\ ops # {} => state_ # "Closed"
  /\ freed => state_ = "Closed" /\ pending = 0 /\ ops = {}
  /\ pending # 0 <=> socket = "connecting"

\* Promises and answers belong to the calls that wait for them.
Promises ==
  /\ pending # 0 => promise[pending] = "none"
  /\ \A c, d \in Calls : promise[c] = "ok" /\ promise[d] = "ok" => c = d
  /\ \A c \in Calls : answer[c] = "true" => promise[c] = "ok"
  /\ \A c \in Calls : promise[c] # "none" \/ answer[c] # "none" =>
       c <= Len(calls) /\ calls[c] = "sync"
  /\ waiting # 0 => calls[waiting] = "sync"

\* When nothing was to come of what goes with the client, nothing comes.
Quiet ==
  ~alive /\ ~hurried =>
    /\ handler = 0
    /\ kept => pending = 0 /\ NoSuccess(queue)
    /\ ~kept => ops = {} /\ OnlyFailed(queue)

Unharmed == failed \subseteq {"dangling"} /\ DestroyedInTime

ClientInv == Types /\ Queue(queue) /\ OnePlace /\ Promises /\ Quiet /\ Unharmed

-----------------------------------------------------------------------------
(* The queue *)
\* Elements of a sequence after a task is added at its end.
LEMMA Added ==
  ASSUME NEW q \in Seq(Tasks), NEW t \in Tasks
  PROVE  /\ Append(q, t) \in Seq(Tasks)
         /\ Len(q) \in Nat
         /\ Len(Append(q, t)) = Len(q) + 1
         /\ Append(q, t)[Len(q) + 1] = t
         /\ \A i \in 1 .. Len(q) : Append(q, t)[i] = q[i]
OBVIOUS

\* Elements of a sequence after its first was taken.
LEMMA Taken ==
  ASSUME NEW q \in Seq(Tasks), q # << >>
  PROVE  /\ Tail(q) \in Seq(Tasks)
         /\ Head(q) = q[1]
         /\ Head(q) \in Tasks
         /\ Len(q) \in Nat \ {0}
         /\ Len(Tail(q)) = Len(q) - 1
         /\ \A i \in 1 .. Len(q) - 1 : Tail(q)[i] = q[i + 1]
OBVIOUS

\* A completion names a call, and a post says what its caller knew.
LEMMA Kinds ==
  ASSUME NEW t \in Tasks
  PROVE  /\ IsCompletion(t) => t \in Completions /\ t.call \in Calls
         /\ IsSend(t) => t \in Posted /\ t.told \in BOOLEAN
BY DEF Tasks, Completions, Posted, CallKinds, Handled, IoHandlers, IsCompletion, IsSend

\* What is left of a queue; when the first task was a completion no other one has
\* its call, and when it was the success there is no other.
LEMMA TakenInv ==
  ASSUME NEW q \in Seq(Tasks), q # << >>,
         NEW n, NEW p, NEW e, NEW con, NEW up,
         QueueInv(q, n, p, e, con, up)
  PROVE  /\ QueueInv(Tail(q), n, p, e, con, up)
         /\ IsCompletion(Head(q)) => \A i \in 1 .. Len(Tail(q)) :
              IsCompletion(Tail(q)[i]) => Tail(q)[i].call # Head(q).call
         /\ IsConnected(Head(q)) => \A i \in 1 .. Len(Tail(q)) : ~IsConnected(Tail(q)[i])
<1>1. \A i \in 1 .. Len(Tail(q)) : i + 1 \in 1 .. Len(q) /\ i + 1 # 1 /\ Tail(q)[i] = q[i + 1]
  BY Taken
<1>2. \A i, j \in 1 .. Len(Tail(q)) : i + 1 = j + 1 => i = j
  BY Taken
<1>3. QueueInv(Tail(q), n, p, e, con, up)
  BY <1>1, <1>2 DEF QueueInv
<1>4. Head(q) = q[1] /\ 1 \in 1 .. Len(q)
  BY Taken
<1>5. IsCompletion(Head(q)) => \A i \in 1 .. Len(Tail(q)) :
        IsCompletion(Tail(q)[i]) => Tail(q)[i].call # Head(q).call
  BY <1>1, <1>4 DEF QueueInv
<1>6. IsConnected(Head(q)) => \A i \in 1 .. Len(Tail(q)) : ~IsConnected(Tail(q)[i])
  BY <1>1, <1>4 DEF QueueInv
<1> QED
  BY <1>3, <1>5, <1>6

\* A task that is not a completion is added.
LEMMA AddedInv ==
  ASSUME NEW q \in Seq(Tasks), NEW t \in Tasks,
         NEW n, NEW p, NEW e, NEW con, NEW up,
         QueueInv(q, n, p, e, con, up),
         ~IsCompletion(t), IsSend(t) /\ t.told => Told(p),
         IsHandler(t) => up
  PROVE  QueueInv(Append(q, t), n, p, e, con, up)
<1> DEFINE r == Append(q, t)
<1>1. \A i \in 1 .. Len(r) :
        \/ i \in 1 .. Len(q) /\ r[i] = q[i]
        \/ i = Len(q) + 1 /\ r[i] = t
  <2>1. Len(q) \in Nat /\ Len(r) = Len(q) + 1
    BY Added
  <2> SUFFICES ASSUME NEW i \in 1 .. Len(r), i \notin 1 .. Len(q)
      PROVE i = Len(q) + 1 /\ r[i] = t
    BY Added
  <2>2. i = Len(q) + 1
    BY <2>1
  <2> QED
    BY <2>2, Added
<1>2. ~IsConnected(t)
  BY DEF IsConnected, IsCompletion
<1> HIDE DEF r
<1>3. \A i \in 1 .. Len(r) : IsCompletion(r[i]) =>
        r[i].call \in 1 .. n /\ r[i].call # e /\ p[r[i].call] = "none"
  BY <1>1 DEF QueueInv
<1>4. \A i, j \in 1 .. Len(r) :
        IsCompletion(r[i]) /\ IsCompletion(r[j]) /\ r[i].call = r[j].call => i = j
  BY <1>1 DEF QueueInv
<1>5. \A i, j \in 1 .. Len(r) : IsConnected(r[i]) /\ IsConnected(r[j]) => i = j
  BY <1>1, <1>2 DEF QueueInv
<1>6. \A i \in 1 .. Len(r) : IsConnected(r[i]) => con
  BY <1>1, <1>2 DEF QueueInv
<1>7. \A i \in 1 .. Len(r) : IsSend(r[i]) /\ r[i].told => Told(p)
  BY <1>1, <1>2 DEF QueueInv
<1>8. \A i \in 1 .. Len(r) : IsHandler(r[i]) => up
  BY <1>1, <1>2 DEF QueueInv
<1>9. QueueInv(r, n, p, e, con, up)
  BY <1>3, <1>4, <1>5, <1>6, <1>7, <1>8 DEF QueueInv
<1> QED
  BY <1>9 DEF r

\* A completion is added, of a call that has none and is not outstanding any more.
LEMMA CompletionAdded ==
  ASSUME NEW q \in Seq(Tasks), NEW t \in Tasks,
         NEW n, NEW p, NEW e, NEW con, NEW up,
         QueueInv(q, n, p, e, con, up),
         IsCompletion(t), t.call \in 1 .. n, t.call # e, p[t.call] = "none",
         \A i \in 1 .. Len(q) : IsCompletion(q[i]) => q[i].call # t.call,
         IsConnected(t) =>
           /\ con
           /\ \A i \in 1 .. Len(q) : ~IsConnected(q[i])
  PROVE  QueueInv(Append(q, t), n, p, e, con, up)
<1> DEFINE r == Append(q, t)
<1>1. \A i \in 1 .. Len(r) :
        \/ i \in 1 .. Len(q) /\ r[i] = q[i]
        \/ i = Len(q) + 1 /\ r[i] = t
  <2>1. Len(q) \in Nat /\ Len(r) = Len(q) + 1
    BY Added
  <2> SUFFICES ASSUME NEW i \in 1 .. Len(r), i \notin 1 .. Len(q)
      PROVE i = Len(q) + 1 /\ r[i] = t
    BY Added
  <2>2. i = Len(q) + 1
    BY <2>1
  <2> QED
    BY <2>2, Added
<1>2. ~IsSend(t) /\ ~IsHandler(t)
  BY DEF IsSend, IsCompletion, IsHandler, IoHandlers
<1> HIDE DEF r
<1>3. \A i \in 1 .. Len(r) : IsCompletion(r[i]) =>
        r[i].call \in 1 .. n /\ r[i].call # e /\ p[r[i].call] = "none"
  BY <1>1 DEF QueueInv
<1>4. \A i, j \in 1 .. Len(r) :
        IsCompletion(r[i]) /\ IsCompletion(r[j]) /\ r[i].call = r[j].call => i = j
  BY <1>1 DEF QueueInv
<1>5. \A i, j \in 1 .. Len(r) : IsConnected(r[i]) /\ IsConnected(r[j]) => i = j
  BY <1>1, <1>2 DEF QueueInv
<1>6. \A i \in 1 .. Len(r) : IsConnected(r[i]) => con
  BY <1>1, <1>2 DEF QueueInv
<1>7. \A i \in 1 .. Len(r) : IsSend(r[i]) /\ r[i].told => Told(p)
  BY <1>1, <1>2 DEF QueueInv
<1>8. \A i \in 1 .. Len(r) : IsHandler(r[i]) => up
  BY <1>1, <1>2 DEF QueueInv
<1>9. QueueInv(r, n, p, e, con, up)
  BY <1>3, <1>4, <1>5, <1>6, <1>7, <1>8 DEF QueueInv
<1> QED
  BY <1>9 DEF r

\* The rest of the state changes in a way the queue does not notice.
LEMMA Carried ==
  ASSUME NEW q, NEW n \in Nat, NEW p, NEW e, NEW con, NEW up,
         NEW n2 \in Nat, NEW p2, NEW e2, NEW con2, NEW up2,
         QueueInv(q, n, p, e, con, up),
         n <= n2,
         \A i \in 1 .. Len(q) : IsCompletion(q[i]) =>
           q[i].call # e2 /\ p2[q[i].call] = "none",
         Told(p) => Told(p2),
         \A i \in 1 .. Len(q) : IsConnected(q[i]) => con2,
         \A i \in 1 .. Len(q) : IsHandler(q[i]) => up2
  PROVE  QueueInv(q, n2, p2, e2, con2, up2)
BY DEF QueueInv

\* A task is added to, or taken from, a queue without a success or with failures only.
LEMMA Without ==
  ASSUME NEW q \in Seq(Tasks)
  PROVE  /\ \A t \in Tasks : NoSuccess(q) /\ ~IsConnected(t) => NoSuccess(Append(q, t))
         /\ \A t \in Tasks : OnlyFailed(q) /\ t.kind = "connect_failed" => OnlyFailed(Append(q, t))
         /\ q # << >> /\ NoSuccess(q) => NoSuccess(Tail(q))
         /\ q # << >> /\ OnlyFailed(q) => OnlyFailed(Tail(q))
<1>1. ASSUME NEW t \in Tasks, NEW i \in 1 .. Len(Append(q, t))
      PROVE  (i \in 1 .. Len(q) /\ Append(q, t)[i] = q[i]) \/ Append(q, t)[i] = t
  <2>1. Len(q) \in Nat /\ Len(Append(q, t)) = Len(q) + 1 /\ Append(q, t)[Len(q) + 1] = t
        /\ \A k \in 1 .. Len(q) : Append(q, t)[k] = q[k]
    BY Added
  <2>2. i \in 1 .. Len(q) \/ i = Len(q) + 1
    BY <2>1
  <2> QED
    BY <2>1, <2>2
<1>2. ASSUME q # << >>, NEW i \in 1 .. Len(Tail(q))
      PROVE  i + 1 \in 1 .. Len(q) /\ Tail(q)[i] = q[i + 1]
  BY <1>2, Taken
<1> QED
  BY <1>1, <1>2 DEF NoSuccess, OnlyFailed

\* Handlers of the connection are added.
LEMMA GrownInv ==
  ASSUME NEW q \in Seq(Tasks), NEW r, Grown(q, r),
         NEW n, NEW p, NEW e, NEW con, NEW up,
         QueueInv(q, n, p, e, con, up), \A t \in Handled : IsHandler(t) => up
  PROVE  /\ r \in Seq(Tasks)
         /\ QueueInv(r, n, p, e, con, up)
         /\ NoSuccess(q) => NoSuccess(r)
<1>1. ASSUME NEW t \in Handled
      PROVE  t \in Tasks /\ ~IsCompletion(t) /\ ~IsSend(t) /\ ~IsConnected(t)
  BY DEF Handled, IoHandlers, Tasks, IsCompletion, IsSend, IsConnected
<1>2. ASSUME NEW s \in Seq(Tasks), QueueInv(s, n, p, e, con, up), NEW t \in Handled
      PROVE  /\ Append(s, t) \in Seq(Tasks)
             /\ QueueInv(Append(s, t), n, p, e, con, up)
             /\ NoSuccess(s) => NoSuccess(Append(s, t))
  <2>1. t \in Tasks /\ ~IsCompletion(t) /\ ~IsSend(t) /\ ~IsConnected(t)
    BY <1>1
  <2>2. QueueInv(Append(s, t), n, p, e, con, up)
    BY <1>2, <2>1, AddedInv
  <2>3. Append(s, t) \in Seq(Tasks)
    BY <1>2, <2>1, Added
  <2>4. NoSuccess(s) => NoSuccess(Append(s, t))
    BY <1>2, <2>1, Without
  <2> QED
    BY <2>2, <2>3, <2>4
<1>3. CASE r = q
  BY <1>3
<1>4. CASE \E t \in Handled : r = Append(q, t)
  BY <1>2, <1>4
<1>5. CASE \E t, u \in Handled : r = Append(Append(q, t), u)
  <2>1. PICK t \in Handled, u \in Handled : r = Append(Append(q, t), u)
    BY <1>5
  <2> DEFINE s == Append(q, t)
  <2>2. s \in Seq(Tasks) /\ QueueInv(s, n, p, e, con, up) /\ (NoSuccess(q) => NoSuccess(s))
    BY <1>2
  <2> HIDE DEF s
  <2>3. /\ Append(s, u) \in Seq(Tasks)
        /\ QueueInv(Append(s, u), n, p, e, con, up)
        /\ NoSuccess(s) => NoSuccess(Append(s, u))
    BY <1>2, <2>2
  <2> QED
    BY <2>1, <2>2, <2>3 DEF s
<1> QED
  BY <1>3, <1>4, <1>5 DEF Grown

\* Two sequences of one element at most are added.
LEMMA Joined ==
  ASSUME NEW S, NEW a \in S, NEW b \in S, NEW q \in Seq(S)
  PROVE  /\ q \o (<< >> \o << >>) = q
         /\ q \o (<<a>> \o << >>) = Append(q, a)
         /\ q \o (<< >> \o <<b>>) = Append(q, b)
         /\ q \o (<<a>> \o <<b>>) = Append(Append(q, a), b)
<1>1. << >> \in Seq(S) /\ <<a>> \in Seq(S) /\ <<b>> \in Seq(S)
  OBVIOUS
<1>2. /\ << >> \o << >> = << >> /\ <<a>> \o << >> = <<a>> /\ << >> \o <<b>> = <<b>>
  BY <1>1
<1>3. /\ q \o << >> = q /\ q \o <<a>> = Append(q, a) /\ q \o <<b>> = Append(q, b)
      /\ Append(q, a) \o <<b>> = Append(Append(q, a), b)
  BY <1>1
<1>4. q \o (<<a>> \o <<b>>) = (q \o <<a>>) \o <<b>>
  BY <1>1
<1> QED
  BY <1>2, <1>3, <1>4

\* What is aborted is added.
LEMMA AbortedGrows == ASSUME NEW q \in Seq(Tasks) PROVE Grown(q, q \o aborted)
<1> DEFINE v == handled("handle_read", FALSE)
           w == handled("handle_write", FALSE)
<1>1. v \in Handled /\ w \in Handled
  BY DEF Handled, IoHandlers, handled
<1>2. v \in Tasks /\ w \in Tasks
  BY <1>1 DEF Tasks
<1> HIDE DEF v, w
<1>3. /\ q \o (<< >> \o << >>) = q
      /\ q \o (<<v>> \o << >>) = Append(q, v)
      /\ q \o (<< >> \o <<w>>) = Append(q, w)
      /\ q \o (<<v>> \o <<w>>) = Append(Append(q, v), w)
  BY <1>2, Joined
<1>4. \/ aborted = << >> \o << >> \/ aborted = <<v>> \o << >>
      \/ aborted = << >> \o <<w>> \/ aborted = <<v>> \o <<w>>
  BY Zenon DEF aborted, v, w
<1> QED
  BY <1>1, <1>3, <1>4 DEF Grown

-----------------------------------------------------------------------------
(* The steps *)

\* The invariant holds before the first call.
LEMMA InitInv == ASSUME Init PROVE ClientInv
<1>1. Types
  <2>1. calls = << >> /\ queue = << >> /\ Len(calls) = 0
    BY DEF Init
  <2>2. calls \in Seq({"sync", "async"}) /\ queue \in Seq(Tasks)
    BY <2>1
  <2>3. promise \in [Calls -> {"none", "ok", "error"}] /\ answer \in [Calls -> {"none", "true", "false"}]
    BY DEF Init
  <2>4. waiting \in 0 .. Len(calls) /\ pending \in 0 .. Len(calls) /\ handler \in 0 .. Len(calls)
        /\ Len(calls) <= MaxConnects /\ posts \in 0 .. MaxPosts
    BY <2>1, ClientAssumption DEF Init
  <2>5. kept \in BOOLEAN /\ alive \in BOOLEAN /\ hurried \in BOOLEAN
        /\ is_cleaned_ \in BOOLEAN /\ asked \in BOOLEAN
    BY Zenon DEF Init
  <2> QED
    BY <2>2, <2>3, <2>4, <2>5 DEF Init, Types, EState, IoHandlers
<1>2. Queue(queue)
  BY DEF Init, Queue, QueueInv
<1>3. OnePlace /\ Promises /\ Quiet /\ Unharmed
  BY DEF Init, OnePlace, Promises, Quiet, Unharmed, DestroyedInTime, Crashed, freed, Open, Told, Calls
<1> QED
  BY <1>1, <1>2, <1>3 DEF ClientInv

\* Only failed tells whether something was harmed.
LEMMA StillUnharmed ==
  ASSUME ClientInv, failed' = failed, hurried' = hurried
  PROVE  Unharmed'
BY DEF ClientInv, Unharmed, DestroyedInTime, Crashed

\* A call that connects.
LEMMA ConnectsStep ==
  ASSUME ClientInv, NEW kind \in {"sync", "async"}, connects(kind),
         waiting' = waiting \/ (kind = "sync" /\ waiting' = Len(calls) + 1)
  PROVE  ClientInv'
<1> DEFINE n == Len(calls)
<1> USE DEF ClientInv
<1>1. /\ n \in Nat /\ n + 1 \in Calls /\ Len(calls') = n + 1
      /\ calls' \in Seq({"sync", "async"})
      /\ calls'[n + 1] = kind
      /\ \A c \in 1 .. n : calls'[c] = calls[c]
      /\ waiting = 0
  BY ClientAssumption DEF connects, Types, Calls
<1>2. /\ UNCHANGED <<kept, alive, hurried, promise, answer, handler, state_, is_cleaned_, ops,
                     outputs, posts, flag_, asked, failed>>
      /\ async_connect(n + 1) /\ alive
  BY DEF connects, conn_vars, call_vars, life_vars
<1>3. promise[n + 1] = "none" /\ answer[n + 1] = "none"
  BY <1>1 DEF Promises
<1>4. /\ pending' \in 0 .. n + 1 /\ socket' \in {"idle", "connecting", "connected", "closed"}
      /\ pending' # 0 <=> socket' = "connecting"
      /\ socket = "connected" => socket' = "connected"
      /\ pending' # 0 => promise[pending'] = "none"
  BY <1>1, <1>2, <1>3 DEF async_connect, Types, OnePlace, Promises
<1>a. ~freed /\ ~freed' /\ Open' = Open /\ Up' = Up
  BY <1>2 DEF freed, Open, Up
<1>5. queue' \in Seq(Tasks) /\ Queue(queue)'
  <2>1. CASE socket = "idle"
    <3>1. queue' = queue /\ pending' = n + 1 /\ socket' = "connecting"
      BY <1>2, <2>1 DEF async_connect
    <3>2. \A i \in 1 .. Len(queue) : IsConnected(queue[i]) => Con'
      BY <1>a, <2>1 DEF Queue, QueueInv, Con
    <3>3. \A i \in 1 .. Len(queue) : IsCompletion(queue[i]) =>
            queue[i].call # n + 1 /\ promise[queue[i].call] = "none"
      BY <1>1 DEF Queue, QueueInv
    <3>4. QueueInv(queue, n + 1, promise, n + 1, Con', Up)
      <4> DEFINE q == queue
                 m == n + 1
                 c2 == Con'
      <4>1. /\ QueueInv(q, n, promise, pending, Con, Up)
            /\ m \in Nat /\ n \in Nat /\ n <= m
            /\ \A i \in 1 .. Len(q) : IsCompletion(q[i]) => q[i].call # m /\ promise[q[i].call] = "none"
            /\ \A i \in 1 .. Len(q) : IsConnected(q[i]) => c2
            /\ \A i \in 1 .. Len(q) : IsHandler(q[i]) => Up
        BY <1>1, <3>2, <3>3 DEF Queue, QueueInv
      <4> HIDE DEF q, n, m, c2
      <4>2. QueueInv(q, m, promise, m, c2, Up)
        BY <4>1, Carried
      <4> QED
        BY <4>2 DEF q, m, c2
    <3> QED
      BY <1>1, <1>2, <1>a, <3>1, <3>4 DEF Queue, Types
  <2>2. CASE socket # "idle"
    <3> DEFINE t == connect_failed_for(n + 1)
    <3>1. queue' = Append(queue, t) /\ pending' = pending /\ socket' = socket
      BY <1>2, <2>2 DEF async_connect
    <3>2. t \in Tasks /\ IsCompletion(t) /\ ~IsConnected(t) /\ t.call = n + 1
      BY <1>1 DEF Tasks, Completions, IsCompletion, IsConnected, connect_failed_for
    <3> HIDE DEF t
    <3>3. \A i \in 1 .. Len(queue) : IsCompletion(queue[i]) =>
            queue[i].call # pending /\ promise[queue[i].call] = "none"
      BY DEF Queue, QueueInv
    <3>5. QueueInv(queue, n + 1, promise, pending, Con, Up)
      <4> DEFINE q == queue
                 m == n + 1
      <4>1. /\ QueueInv(q, n, promise, pending, Con, Up)
            /\ m \in Nat /\ n \in Nat /\ n <= m
            /\ \A i \in 1 .. Len(q) : IsCompletion(q[i]) =>
                 q[i].call # pending /\ promise[q[i].call] = "none"
            /\ \A i \in 1 .. Len(q) : IsConnected(q[i]) => Con
            /\ \A i \in 1 .. Len(q) : IsHandler(q[i]) => Up
        BY <1>1, <3>3 DEF Queue, QueueInv
      <4> HIDE DEF q, n, m
      <4>2. QueueInv(q, m, promise, pending, Con, Up)
        BY <4>1, Carried
      <4> QED
        BY <4>2 DEF q, m
    <3>6. \A i \in 1 .. Len(queue) : IsCompletion(queue[i]) => queue[i].call # n + 1
      BY <1>1 DEF Queue, QueueInv
    <3>7. pending # n + 1 /\ queue \in Seq(Tasks)
      BY <1>1 DEF Types
    <3>8. QueueInv(Append(queue, t), n + 1, promise, pending, Con, Up)
      BY <1>1, <1>3, <3>2, <3>5, <3>6, <3>7, CompletionAdded
    <3>9. Con' = Con /\ queue' \in Seq(Tasks)
      BY <1>a, <3>1, <3>2, <3>7, Added DEF Con
    <3> QED
      BY <1>1, <1>2, <1>a, <3>1, <3>8, <3>9 DEF Queue
  <2> QED
    BY <2>1, <2>2
<1>6. Types'
  BY <1>1, <1>2, <1>4, <1>5 DEF Types, connects, Calls
<1>7. OnePlace'
  BY <1>2, <1>4, <1>a DEF OnePlace, Told
<1>8. Promises'
  <2>1. waiting' # 0 => calls'[waiting'] = "sync"
    BY <1>1
  <2>2. \A c \in Calls : promise[c] # "none" \/ answer[c] # "none" =>
          c <= n + 1 /\ calls'[c] = "sync"
    <3> SUFFICES ASSUME NEW c \in Calls, promise[c] # "none" \/ answer[c] # "none"
        PROVE c <= n + 1 /\ calls'[c] = "sync"
      OBVIOUS
    <3>1. c \in 1 .. n /\ calls[c] = "sync"
      BY <1>1 DEF Promises, Calls
    <3> QED
      BY <1>1, <3>1
  <2> QED
    BY <1>1, <1>2, <1>4, <2>1, <2>2 DEF Promises
<1>9. Quiet' /\ Unharmed'
  BY <1>2, StillUnharmed DEF Quiet
<1> QED
  BY <1>5, <1>6, <1>7, <1>8, <1>9

\* A call that waits returns.
LEMMA WaitStep ==
  ASSUME ClientInv, wait_ready \/ wait_timeout
  PROVE  ClientInv'
<1> USE DEF ClientInv
<1>1. PICK a \in {"true", "false"} : answered(a) /\ (a = "true" => promise[waiting] = "ok")
  BY DEF wait_ready, wait_timeout
<1>2. /\ UNCHANGED <<kept, alive, hurried, calls, posts, flag_, asked, promise, socket, pending, queue,
                     handler, state_, is_cleaned_, ops, outputs, failed>>
      /\ waiting' = 0 /\ waiting \in Calls
      /\ answer' = [answer EXCEPT ![waiting] = a]
  BY <1>1, ClientAssumption
  DEF wait_ready, wait_timeout, answered, life_vars, call_vars, conn_vars, Types, Calls
<1>3. Types'
  BY <1>2 DEF Types
<1>4. Queue(queue)' /\ OnePlace' /\ Quiet' /\ Unharmed'
  BY <1>2, StillUnharmed DEF Queue, OnePlace, Quiet, Con, Up, freed, Open, Told
<1>5. Promises'
  <2>1. \A c \in Calls : answer'[c] = IF c = waiting THEN a ELSE answer[c]
    BY <1>2 DEF Types
  <2>2. waiting <= Len(calls) /\ calls[waiting] = "sync"
    BY <1>2 DEF Promises, Types, Calls
  <2>3. \A c \in Calls : answer'[c] = "true" => promise[c] = "ok"
    BY <1>1, <2>1 DEF Promises
  <2>4. \A c \in Calls : promise[c] # "none" \/ answer'[c] # "none" =>
          c <= Len(calls) /\ calls[c] = "sync"
    BY <2>1, <2>2 DEF Promises
  <2> QED
    BY <1>2, <2>3, <2>4 DEF Promises
<1> QED
  BY <1>3, <1>4, <1>5

\* A call keeps the types of what it changes.
LEMMA CalledTypes ==
  ASSUME ClientInv, NEW kind \in CallKinds, NEW in_time \in BOOLEAN, called(kind, in_time)
  PROVE  CallTypes'
<1>1. CallTypes /\ MaxPosts \in Nat
  BY ClientAssumption DEF ClientInv, Types, CallTypes
<1>2. posts' \in 0 .. MaxPosts
  BY <1>1 DEF called, CallTypes
<1>3. flag_' \subseteq {"shutdown", "force_close"}
  BY <1>1 DEF called, CallTypes, CallKinds
<1>4. asked' \in BOOLEAN
  BY Zenon DEF called
<1> QED
  BY <1>2, <1>3, <1>4 DEF CallTypes

\* Another call of the application.
LEMMA PostStep ==
  ASSUME ClientInv, NEW kind \in CallKinds, post(kind)
  PROVE  ClientInv'
<1> USE DEF ClientInv
<1> DEFINE t == [kind |-> kind, told |-> told]
<1>1. /\ UNCHANGED <<kept, alive, hurried, waiting, calls, answer, promise, socket, pending, handler,
                     state_, is_cleaned_, ops, outputs, failed>>
      /\ queue' \in {queue, Append(queue, t)}
      /\ called(kind, told) /\ ~freed
  BY DEF post, life_vars, app_vars, call_vars, conn_vars
<1>2. t \in Tasks /\ ~IsCompletion(t) /\ ~IsHandler(t) /\ ~IsConnected(t)
  <2>1. told \in BOOLEAN
    BY DEF told
  <2> QED
    BY <2>1 DEF Tasks, Posted, CallKinds, IoHandlers, IsCompletion, IsHandler, IsConnected
<1>3. t.told => Told(promise)
  BY DEF Promises, Told, told
<1> HIDE DEF t
<1>4. queue \in Seq(Tasks)
  BY DEF Types
<1>5. Queue(Append(queue, t)) /\ Append(queue, t) \in Seq(Tasks)
  BY <1>2, <1>3, <1>4, AddedInv, Added DEF Queue
<1>6. Queue(queue)' /\ OnePlace' /\ Promises'
  BY <1>1, <1>5 DEF Queue, OnePlace, Promises, Con, Up, freed, Open, Told
<1>7. CallTypes'
  BY <1>1, CalledTypes DEF told
<1>8. Types'
  BY <1>1, <1>5, <1>7 DEF Types, CallTypes
<1>9. Quiet' /\ Unharmed'
  <2>1. NoSuccess(queue) => NoSuccess(queue')
    BY <1>1, <1>2, <1>4, Without
  <2> QED
    BY <1>1, <2>1, StillUnharmed DEF Quiet, freed
<1> QED
  BY <1>6, <1>8, <1>9

\* The client is destroyed.
LEMMA DestroyStep == ASSUME ClientInv, ~Crashed, destroy_client PROVE ClientInv'
<1> USE DEF ClientInv
<1>1. /\ UNCHANGED <<kept, waiting, calls, answer, posts, flag_, asked, promise, handler,
                     is_cleaned_, outputs, failed>>
      /\ alive /\ alive' = FALSE /\ hurried' = to_come
  BY DEF destroy_client, app_vars, call_vars
<1>2. ~freed /\ freed' = ~kept /\ Unharmed' /\ hurried' \in BOOLEAN /\ alive' \in BOOLEAN /\ queue \in Seq(Tasks)
  BY <1>1 DEF freed, Unharmed, DestroyedInTime, Crashed, to_come, Types
<1>3. CASE kept
  <2>1. UNCHANGED <<state_, socket, pending, ops, queue>> /\ ~freed'
    BY <1>2, <1>3 DEF destroy_client
  <2>2. Types'
    BY <1>1, <1>2, <2>1 DEF Types
  <2>3. Queue(queue)' /\ OnePlace' /\ Promises'
    BY <1>1, <1>2, <2>1 DEF Queue, OnePlace, Promises, Con, Up, Open, Told
  <2>4. Quiet'
    <3> SUFFICES ASSUME ~to_come PROVE handler' = 0 /\ pending' = 0 /\ NoSuccess(queue')
      BY <1>1, <1>3 DEF Quiet
    <3>1. handler = 0 /\ pending = 0
      BY <1>3 DEF to_come
    <3>2. NoSuccess(queue)
      BY DEF to_come, Queued, NoSuccess, IsConnected
    <3> QED
      BY <1>1, <2>1, <3>1, <3>2
  <2> QED
    BY <1>2, <2>2, <2>3, <2>4
<1>4. CASE ~kept
  <2> DEFINE r == queue \o aborted
  <2>1. /\ state_' = "Closed" /\ socket' = "closed" /\ pending' = 0 /\ ops' = {} /\ freed'
        /\ queue' = r \o (IF pending = 0 THEN << >> ELSE <<connect_failed_for(pending)>>)
    BY <1>2, <1>4 DEF destroy_client
  <2>2. Up' /\ Con'
    BY <2>1 DEF Up, Con
  <2> DEFINE q == queue
             n == Len(calls)
             c2 == Con'
             u2 == Up'
  <2>3. QueueInv(q, n, promise, pending, c2, u2)
    <3>1. /\ QueueInv(q, n, promise, pending, Con, Up) /\ n \in Nat
          /\ \A i \in 1 .. Len(q) : IsCompletion(q[i]) =>
               q[i].call # pending /\ promise[q[i].call] = "none"
          /\ \A i \in 1 .. Len(q) : IsConnected(q[i]) => c2
          /\ \A i \in 1 .. Len(q) : IsHandler(q[i]) => u2
      BY <2>2 DEF Queue, QueueInv, Types
    <3> HIDE DEF q, n, c2, u2
    <3> QED
      BY <3>1, Carried
  <2>4. r \in Seq(Tasks) /\ QueueInv(r, n, promise, pending, c2, u2)
    <3>1. Grown(q, r) /\ q \in Seq(Tasks) /\ \A t \in Handled : IsHandler(t) => u2
      BY <1>2, <2>2, AbortedGrows
    <3> HIDE DEF q, n, c2, u2, r
    <3> QED
      BY <2>3, <3>1, GrownInv
  <2>5. QueueInv(r, n, promise, 0, c2, u2)
    <3>1. /\ n \in Nat /\ \A i \in 1 .. Len(r) : IsCompletion(r[i]) =>
               r[i].call # 0 /\ promise[r[i].call] = "none"
          /\ \A i \in 1 .. Len(r) : IsConnected(r[i]) => c2
          /\ \A i \in 1 .. Len(r) : IsHandler(r[i]) => u2
      <4>1. n \in Nat
        BY DEF Types
      <4>2. \A i \in 1 .. Len(r) : IsCompletion(r[i]) => r[i].call \in 1 .. n /\ promise[r[i].call] = "none"
        <5> HIDE DEF r, n, c2, u2
        <5> QED
          BY <2>4 DEF QueueInv
      <4> HIDE DEF r, n
      <4> QED
        BY <2>2, <4>1, <4>2
    <3> HIDE DEF q, n, c2, u2, r
    <3> QED
      BY <2>4, <3>1, Carried
  <2>6. queue' \in Seq(Tasks) /\ QueueInv(queue', n, promise, 0, c2, u2)
    <3>1. CASE pending = 0
      <4> HIDE DEF n, c2, u2, r
      <4>1. queue' = r
        BY <2>1, <2>4, <3>1
      <4> QED
        BY <2>4, <2>5, <4>1
    <3>2. CASE pending # 0
      <4> DEFINE t == connect_failed_for(pending)
      <4>1. pending \in 1 .. n /\ pending \in Calls /\ promise[pending] = "none" /\ n \in Nat
        BY <3>2, ClientAssumption DEF Types, Promises, Calls
      <4>2. t \in Tasks /\ IsCompletion(t) /\ ~IsConnected(t) /\ t.call = pending
        BY <4>1 DEF Tasks, Completions, IsCompletion, IsConnected, connect_failed_for
      <4> HIDE DEF t, n, c2, u2, r
      <4>3. queue' = Append(r, t)
        BY <2>1, <2>4, <3>2, <4>2 DEF t
      <4>4. \A i \in 1 .. Len(r) : IsCompletion(r[i]) => r[i].call # t.call
        BY <2>4, <4>2 DEF QueueInv
      <4>5. QueueInv(Append(r, t), n, promise, 0, c2, u2)
        BY <2>4, <2>5, <3>2, <4>1, <4>2, <4>4, CompletionAdded
      <4> QED
        BY <2>4, <4>2, <4>3, <4>5, Added
    <3> QED
      BY <3>1, <3>2
  <2>7. Types'
    BY <1>1, <1>2, <2>1, <2>6 DEF Types, EState
  <2>8. Queue(queue)'
    BY <1>1, <2>1, <2>6 DEF Queue
  <2>9. OnePlace' /\ Promises'
    BY <1>1, <2>1 DEF OnePlace, Promises
  <2>10. Quiet'
    <3> SUFFICES ASSUME ~to_come PROVE handler' = 0 /\ OnlyFailed(queue')
      BY <1>1, <1>4, <2>1 DEF Quiet
    <3>1. handler = 0 /\ ops = {}
      BY <1>4 DEF to_come
    <3>2. OnlyFailed(queue)
      <4> SUFFICES ASSUME NEW i \in 1 .. Len(queue) PROVE queue[i].kind = "connect_failed"
        BY DEF OnlyFailed
      <4>1. queue[i] \in Tasks
        BY <1>2
      <4>2. queue[i].kind # "connected" /\ queue[i].kind \notin CallKinds \cup IoHandlers
        BY <1>4 DEF to_come, Queued
      <4> QED
        BY <4>1, <4>2 DEF Tasks, Completions, Posted, Handled
    <3>3. aborted = << >> \o << >>
      BY <3>1 DEF aborted
    <3>4. r = queue
      BY <1>2, <3>3
    <3>5. CASE pending = 0
      <4>1. queue' = queue
        BY <1>2, <2>1, <3>4, <3>5
      <4> QED
        BY <1>1, <3>1, <3>2, <4>1
    <3>6. CASE pending # 0
      <4> DEFINE t == connect_failed_for(pending)
      <4>1. pending \in Calls
        BY <3>6, ClientAssumption DEF Types, Calls
      <4>2. t \in Tasks /\ t.kind = "connect_failed"
        BY <4>1 DEF Tasks, Completions, connect_failed_for
      <4> HIDE DEF t
      <4>3. queue' = Append(queue, t)
        BY <1>2, <2>1, <3>4, <3>6, <4>2 DEF t
      <4> QED
        BY <1>1, <1>2, <3>1, <3>2, <4>2, <4>3, Without
    <3> QED
      BY <3>5, <3>6
  <2> QED
    BY <1>2, <2>7, <2>8, <2>9, <2>10
<1> QED
  BY <1>3, <1>4

\* A connect of the queue's head: the promise is set. The call is not answered yet
\* and no other completion of the queue is its own.
LEMMA HeadCall ==
  ASSUME ClientInv, queue # << >>, IsCompletion(Head(queue))
  PROVE  /\ queue \in Seq(Tasks) /\ Tail(queue) \in Seq(Tasks)
         /\ Head(queue).call \in 1 .. Len(calls)
         /\ Head(queue).call \in Calls
         /\ promise[Head(queue).call] = "none"
         /\ Head(queue).call # pending
         /\ Queue(Tail(queue))
         /\ \A i \in 1 .. Len(Tail(queue)) :
              IsCompletion(Tail(queue)[i]) => Tail(queue)[i].call # Head(queue).call
         /\ IsConnected(Head(queue)) =>
              Con /\ \A i \in 1 .. Len(Tail(queue)) : ~IsConnected(Tail(queue)[i])
<1>1. queue \in Seq(Tasks) /\ Queue(queue)
  BY DEF ClientInv, Types
<1>2. Head(queue) = queue[1] /\ 1 \in 1 .. Len(queue) /\ Tail(queue) \in Seq(Tasks)
      /\ Head(queue) \in Tasks
  BY <1>1, Taken
<1>3. /\ Head(queue).call \in 1 .. Len(calls)
      /\ Head(queue).call # pending
      /\ promise[Head(queue).call] = "none"
      /\ IsConnected(Head(queue)) => Con
  BY <1>1, <1>2 DEF Queue, QueueInv
<1>4. Head(queue).call \in Calls
  BY <1>2, Kinds
<1>5. /\ Queue(Tail(queue))
      /\ \A i \in 1 .. Len(Tail(queue)) :
           IsCompletion(Tail(queue)[i]) => Tail(queue)[i].call # Head(queue).call
      /\ IsConnected(Head(queue)) => \A i \in 1 .. Len(Tail(queue)) : ~IsConnected(Tail(queue)[i])
  BY <1>1, TakenInv DEF Queue
<1> QED
  BY <1>1, <1>2, <1>3, <1>4, <1>5

\* The promise of a call that waits is kept or broken.
LEMMA SetValue ==
  ASSUME ClientInv, NEW c \in Calls, NEW v \in {"ok", "error"},
         c \in 1 .. Len(calls), promise[c] = "none", set_value(c, v)
  PROVE  /\ promise' \in [Calls -> {"none", "ok", "error"}]
         /\ \A d \in Calls : d # c => promise'[d] = promise[d]
         /\ promise'[c] = IF calls[c] = "sync" THEN v ELSE "none"
         /\ answer[c] # "true"
BY DEF ClientInv, Types, Promises, set_value

\* The rest of the queue, when the promise of its head is set.
LEMMA RestKept ==
  ASSUME ClientInv, queue # << >>, IsCompletion(Head(queue)),
         \A d \in Calls : d # Head(queue).call => promise'[d] = promise[d],
         Told(promise) => Told(promise'),
         \A i \in 1 .. Len(Tail(queue)) : IsConnected(Tail(queue)[i]) => Con',
         \A i \in 1 .. Len(Tail(queue)) : IsHandler(Tail(queue)[i]) => Up'
  PROVE  QueueInv(Tail(queue), Len(calls), promise', pending, Con', Up')
<1> DEFINE q == Tail(queue)
           n == Len(calls)
           p2 == promise'
           c2 == Con'
           u2 == Up'
           c == Head(queue).call
<1>1. /\ q \in Seq(Tasks) /\ QueueInv(q, n, promise, pending, Con, Up)
      /\ \A i \in 1 .. Len(q) : IsCompletion(q[i]) => q[i].call # c
  BY HeadCall DEF Queue
<1>2. \A i \in 1 .. Len(q) : IsCompletion(q[i]) => q[i].call # pending /\ p2[q[i].call] = "none"
  <2> SUFFICES ASSUME NEW i \in 1 .. Len(q), IsCompletion(q[i])
      PROVE q[i].call # pending /\ p2[q[i].call] = "none"
    OBVIOUS
  <2>1. q[i].call # pending /\ promise[q[i].call] = "none" /\ q[i].call # c
    BY <1>1 DEF QueueInv
  <2>2. q[i] \in Tasks
    BY <1>1
  <2>3. q[i].call \in Calls
    BY <2>2, Kinds
  <2> QED
    BY <2>1, <2>3
<1>3. n \in Nat
  BY DEF ClientInv, Types
<1>4. /\ Told(promise) => Told(p2)
      /\ \A i \in 1 .. Len(q) : IsConnected(q[i]) => c2
      /\ \A i \in 1 .. Len(q) : IsHandler(q[i]) => u2
  OBVIOUS
<1> HIDE DEF q, n, p2, c2, u2
<1>5. QueueInv(q, n, p2, pending, c2, u2)
  BY <1>1, <1>2, <1>3, <1>4, Carried
<1> QED
  BY <1>5 DEF q, n, p2, c2, u2

\* The handler of a connect that succeeded keeps the promise and goes on.
LEMMA ConnectedStep == ASSUME ClientInv, connected PROVE ClientInv'
<1> DEFINE c == Head(queue).call
<1> USE DEF ClientInv
<1>1. handler = 0 /\ queue # << >> /\ IsConnected(Head(queue)) /\ IsCompletion(Head(queue)) /\ alive
  BY DEF connected, runs, next_is, IsConnected, IsCompletion
<1>2. /\ UNCHANGED <<kept, alive, hurried, waiting, calls, answer, posts, flag_, asked,
                     socket, pending, state_, is_cleaned_, ops, outputs, failed>>
      /\ handler' = c /\ queue' = Tail(queue) /\ set_value(c, "ok")
  BY DEF connected, life_vars, app_vars, call_vars, conn_vars
<1>3. /\ Tail(queue) \in Seq(Tasks) /\ c \in 1 .. Len(calls) /\ c \in Calls
      /\ promise[c] = "none" /\ c # pending /\ Queue(Tail(queue))
      /\ Con
      /\ \A i \in 1 .. Len(Tail(queue)) : ~IsConnected(Tail(queue)[i])
  BY <1>1, HeadCall
<1>4. /\ promise' \in [Calls -> {"none", "ok", "error"}]
      /\ \A d \in Calls : d # c => promise'[d] = promise[d]
      /\ promise'[c] = IF calls[c] = "sync" THEN "ok" ELSE "none"
      /\ answer[c] # "true"
  <2> HIDE DEF c
  <2> QED
    BY <1>2, <1>3, SetValue
<1>5. /\ ~freed /\ ~freed' /\ ~Open /\ socket = "connected"
      /\ ~Told(promise) /\ handler' # 0 /\ state_ = "Closed" /\ ops = {}
  BY <1>1, <1>2, <1>3 DEF OnePlace, Open, Con, freed
<1>6. Queue(queue)'
  <2>1. \A i \in 1 .. Len(Tail(queue)) : IsHandler(Tail(queue)[i]) => Up'
    BY <1>2, <1>3, <1>5 DEF Queue, QueueInv, Up
  <2>2. QueueInv(Tail(queue), Len(calls), promise', pending, Con', Up')
    BY <1>1, <1>3, <1>4, <1>5, <2>1, RestKept
  <2> QED
    BY <1>2, <2>2 DEF Queue
<1> HIDE DEF c
<1>7. Types'
  BY <1>2, <1>3, <1>4 DEF Types
<1>8. OnePlace'
  BY <1>2, <1>5 DEF OnePlace, Open
<1>9. Promises'
  <2>1. \A d \in Calls : promise[d] # "ok"
    BY <1>5 DEF Told
  <2>2. \A d \in Calls : promise'[d] = "ok" => d = c
    BY <1>4, <2>1
  <2>3. \A d \in Calls : answer[d] # "true"
    BY <2>1 DEF Promises
  <2>4. pending # 0 => promise'[pending] = "none"
    BY <1>3, <1>4, ClientAssumption DEF Promises, Types, Calls
  <2>5. \A d \in Calls : promise'[d] # "none" \/ answer[d] # "none" =>
          d <= Len(calls) /\ calls[d] = "sync"
    BY <1>3, <1>4 DEF Promises
  <2> QED
    BY <1>2, <2>2, <2>3, <2>4, <2>5 DEF Promises
<1>10. Quiet' /\ Unharmed'
  BY <1>1, <1>2, StillUnharmed DEF Quiet
<1> QED
  BY <1>6, <1>7, <1>8, <1>9, <1>10

\* The handler of a connect that failed breaks the promise.
LEMMA FailedStep == ASSUME ClientInv, connect_failed PROVE ClientInv'
<1> DEFINE c == Head(queue).call
<1> USE DEF ClientInv
<1>1. handler = 0 /\ queue # << >> /\ IsCompletion(Head(queue))
  BY DEF connect_failed, runs, next_is, IsCompletion
<1>2. /\ UNCHANGED <<kept, alive, hurried, waiting, calls, answer, posts, flag_, asked, socket,
                     pending, handler, state_, is_cleaned_, ops, outputs, failed>>
      /\ queue' = Tail(queue) /\ set_value(c, "error")
  BY DEF connect_failed, life_vars, app_vars, call_vars, conn_vars
<1>3. /\ Tail(queue) \in Seq(Tasks) /\ c \in 1 .. Len(calls) /\ c \in Calls
      /\ promise[c] = "none" /\ c # pending /\ Queue(Tail(queue)) /\ queue \in Seq(Tasks)
  BY <1>1, HeadCall
<1>4. /\ promise' \in [Calls -> {"none", "ok", "error"}]
      /\ \A d \in Calls : d # c => promise'[d] = promise[d]
      /\ promise'[c] = IF calls[c] = "sync" THEN "error" ELSE "none"
      /\ answer[c] # "true"
  <2> HIDE DEF c
  <2> QED
    BY <1>2, <1>3, SetValue
<1>5. \A d \in Calls : promise'[d] = "ok" <=> promise[d] = "ok"
  <2> HIDE DEF c
  <2> QED
    BY <1>3, <1>4
<1>6. Told(promise') <=> Told(promise)
  BY <1>5 DEF Told
<1>a. (freed' <=> freed) /\ (Open' <=> Open) /\ (Con' <=> Con) /\ (Up' <=> Up)
  BY <1>2 DEF freed, Open, Con, Up
<1>7. Queue(queue)'
  <2>1. /\ \A i \in 1 .. Len(Tail(queue)) : IsConnected(Tail(queue)[i]) => Con'
        /\ \A i \in 1 .. Len(Tail(queue)) : IsHandler(Tail(queue)[i]) => Up'
    BY <1>3, <1>a DEF Queue, QueueInv
  <2>2. QueueInv(Tail(queue), Len(calls), promise', pending, Con', Up')
    BY <1>1, <1>4, <1>6, <2>1, RestKept
  <2> QED
    BY <1>2, <2>2 DEF Queue
<1> HIDE DEF c
<1>8. Types'
  BY <1>2, <1>3, <1>4 DEF Types
<1>9. OnePlace'
  BY <1>2, <1>6, <1>a DEF OnePlace
<1>10. Promises'
  <2>1. pending # 0 => promise'[pending] = "none"
    BY <1>3, <1>4, ClientAssumption DEF Promises, Types, Calls
  <2>2. \A d \in Calls : promise'[d] # "none" \/ answer[d] # "none" =>
          d <= Len(calls) /\ calls[d] = "sync"
    BY <1>3, <1>4 DEF Promises
  <2>3. \A d \in Calls : answer[d] = "true" => promise'[d] = "ok"
    BY <1>5 DEF Promises
  <2>4. \A d, f \in Calls : promise'[d] = "ok" /\ promise'[f] = "ok" => d = f
    BY <1>5 DEF Promises
  <2> QED
    BY <1>2, <2>1, <2>2, <2>3, <2>4 DEF Promises
<1>11. Quiet' /\ Unharmed'
  <2>1. (NoSuccess(queue) => NoSuccess(queue')) /\ (OnlyFailed(queue) => OnlyFailed(queue'))
    BY <1>1, <1>2, <1>3, Without
  <2> QED
    BY <1>2, <2>1, StillUnharmed DEF Quiet
<1> QED
  BY <1>7, <1>8, <1>9, <1>10, <1>11

\* The handler goes on: the connection is established.
LEMMA EstablishedStep == ASSUME ClientInv, connect_establised PROVE ClientInv'
<1> USE DEF ClientInv
<1>1. /\ UNCHANGED <<kept, alive, hurried, waiting, calls, answer, posts, flag_, asked, promise,
                     socket, pending, queue, is_cleaned_, outputs>>
      /\ handler # 0 /\ handler' = 0 /\ state_' = "Established" /\ ops' = ops \cup {"handle_read"}
      /\ alive
  BY DEF connect_establised, life_vars, app_vars, call_vars
<1>2. ~freed /\ ~freed' /\ state_ = "Closed" /\ Open /\ Open' /\ socket = "connected"
  BY <1>1 DEF OnePlace, Open, freed
<1>3. failed' = failed
  BY <1>2 DEF connect_establised
<1>4. Queue(queue)'
  <2> DEFINE q == queue
             n == Len(calls)
             c2 == Con'
             u2 == Up'
  <2>1. /\ QueueInv(q, n, promise, pending, Con, Up)
        /\ n \in Nat
        /\ \A i \in 1 .. Len(q) : IsCompletion(q[i]) =>
             q[i].call # pending /\ promise[q[i].call] = "none"
        /\ \A i \in 1 .. Len(q) : IsConnected(q[i]) => c2
        /\ \A i \in 1 .. Len(q) : IsHandler(q[i]) => u2
    BY <1>1, <1>2 DEF Queue, QueueInv, Types, Con, Up
  <2> HIDE DEF q, n, c2, u2
  <2>2. QueueInv(q, n, promise, pending, c2, u2)
    BY <2>1, Carried
  <2> QED
    BY <1>1, <2>2 DEF q, n, c2, u2, Queue
<1>5. Types'
  BY <1>1 DEF Types, EState, IoHandlers
<1>6. OnePlace'
  BY <1>1, <1>2 DEF OnePlace
<1>7. Promises' /\ Quiet' /\ Unharmed'
  BY <1>1, <1>3, StillUnharmed DEF Promises, Quiet
<1> QED
  BY <1>4, <1>5, <1>6, <1>7

\* A step that leaves q of the queue and the connection as it is.
LEMMA StayStep ==
  ASSUME ClientInv, NEW q \in Seq(Tasks), Queue(q), queue' = q, ~freed,
         NoSuccess(queue) => NoSuccess(q),
         UNCHANGED <<life_vars, app_vars, call_vars, promise, socket, pending, handler,
                     conn_vars, failed>>
  PROVE  ClientInv'
<1>1. Types'
  BY DEF ClientInv, Types, life_vars, app_vars, call_vars, conn_vars
<1>2. Queue(queue)' /\ OnePlace' /\ Promises'
  BY DEF ClientInv, Queue, OnePlace, Promises, Con, Up, freed, Open, Told, life_vars, app_vars,
         conn_vars
<1>3. Quiet' /\ Unharmed'
  BY StillUnharmed DEF ClientInv, Quiet, freed, life_vars, conn_vars
<1> QED
  BY <1>1, <1>2, <1>3 DEF ClientInv

\* A step of the open connection, or one that closes it, which leaves q of the
\* queue and adds handlers to it.
LEMMA ConnectionStep ==
  ASSUME ClientInv, NEW q \in Seq(Tasks), Queue(q), Grown(q, queue'), ~freed,
         NoSuccess(queue) => NoSuccess(q),
         state_ # "Closed", state_' \in EState \ {"Closed"},
         is_cleaned_' \in BOOLEAN, ops' \subseteq IoHandlers, outputs' \in Int,
         CallTypes',
         UNCHANGED <<life_vars, app_vars, promise, socket, pending, handler, failed>>
  PROVE  ClientInv'
<1> USE DEF ClientInv
<1>0. UNCHANGED <<kept, alive, hurried, waiting, calls, answer>>
  BY DEF life_vars, app_vars
<1>1. Open /\ Open' /\ Up /\ Up' /\ ~Con /\ ~freed'
  BY <1>0 DEF Open, Up, Con, freed
<1>2. /\ queue' \in Seq(Tasks)
      /\ QueueInv(queue', Len(calls), promise, pending, Con, Up)
      /\ NoSuccess(q) => NoSuccess(queue')
  <2> DEFINE n == Len(calls)
             r == queue'
  <2>1. QueueInv(q, n, promise, pending, Con, Up) /\ \A t \in Handled : IsHandler(t) => Up
    BY <1>1 DEF Queue
  <2> HIDE DEF n, r
  <2>2. r \in Seq(Tasks) /\ QueueInv(r, n, promise, pending, Con, Up) /\ (NoSuccess(q) => NoSuccess(r))
    BY <2>1, GrownInv DEF r
  <2> QED
    BY <2>2 DEF n, r
<1>3. QueueInv(queue', Len(calls), promise, pending, Con', Up')
  BY <1>1, <1>2 DEF QueueInv
<1>4. Queue(queue)'
  BY <1>0, <1>3 DEF Queue
<1>5. Types'
  BY <1>0, <1>2 DEF Types, CallTypes
<1>6. OnePlace'
  BY <1>1 DEF OnePlace
<1>7. Promises'
  BY <1>0 DEF Promises
<1>8. Quiet' /\ Unharmed'
  BY <1>0, <1>2, StillUnharmed DEF Quiet, freed
<1> QED
  BY <1>4, <1>5, <1>6, <1>7, <1>8

\* connect_cleanup adds what is aborted to what is still to be run.
LEMMA CleanupGrows ==
  ASSUME NEW q \in Seq(Tasks), NEW more \in SUBSET IoHandlers, connect_cleanup(q, more),
         ops \subseteq IoHandlers
  PROVE  /\ Grown(q, queue') /\ state_' \in EState \ {"Closed"} /\ is_cleaned_' \in BOOLEAN
         /\ ops' \subseteq IoHandlers
BY AbortedGrows DEF connect_cleanup, Grown, EState

\* What a call, run by the loop, does to the connection: nothing to a closed one,
\* and it closes none for good.
LEMMA InLoop ==
  ASSUME NEW q \in Seq(Tasks), NEW more \in SUBSET IoHandlers,
         NEW kind \in CallKinds, in_loop(kind, q, more) \/ stays(q, more),
         state_ \in EState, is_cleaned_ \in BOOLEAN, ops \subseteq IoHandlers, outputs \in Int
  PROVE  /\ state_ = "Closed" => stays(q, more)
         /\ state_ # "Closed" =>
              /\ Grown(q, queue') /\ state_' \in EState \ {"Closed"} /\ is_cleaned_' \in BOOLEAN
              /\ ops' \subseteq IoHandlers /\ outputs' \in Int
<1>1. ASSUME queue' = q PROVE Grown(q, queue')
  BY <1>1 DEF Grown
<1>2. CASE stays(q, more)
  BY <1>1, <1>2 DEF stays
<1>3. CASE ~stays(q, more) /\ connect_cleanup(q, more) /\ UNCHANGED outputs
  <2>1. state_ # "Closed"
    BY <1>3 DEF in_loop, send_in_loop, shutdown_in_loop, force_close_in_loop
  <2> QED
    BY <1>3, <2>1, CleanupGrows
<1>4. CASE ~stays(q, more) /\ ~(connect_cleanup(q, more) /\ UNCHANGED outputs)
  <2>1. /\ state_ = "Established" /\ queue' = q /\ is_cleaned_' = is_cleaned_
        /\ state_' \in {"Established", "WaitClose"} /\ outputs' \in {outputs, outputs + 1}
        /\ ops' \subseteq ops \cup more \cup {"handle_write"}
    BY <1>4 DEF in_loop, send_in_loop, shutdown_in_loop, force_close_in_loop
  <2> QED
    BY <1>1, <2>1 DEF EState, IoHandlers
<1> QED
  BY <1>2, <1>3, <1>4

\* What the head of the queue tells, and what is left.
LEMMA HeadTask ==
  ASSUME ClientInv, handler = 0, queue # << >>, ~freed
  PROVE  /\ Tail(queue) \in Seq(Tasks) /\ Queue(Tail(queue))
         /\ NoSuccess(queue) => NoSuccess(Tail(queue))
         /\ IsHandler(Head(queue)) => state_ # "Closed"
         /\ IsSend(Head(queue)) /\ Head(queue).told => state_ # "Closed"
<1>1. queue \in Seq(Tasks) /\ Queue(queue)
  BY DEF ClientInv, Types
<1>2. Head(queue) = queue[1] /\ 1 \in 1 .. Len(queue) /\ Tail(queue) \in Seq(Tasks)
  BY <1>1, Taken
<1>3. /\ IsHandler(Head(queue)) => Up
      /\ IsSend(Head(queue)) /\ Head(queue).told => Told(promise)
  BY <1>1, <1>2 DEF Queue, QueueInv
<1>4. (Told(promise) => state_ # "Closed") /\ (Up => state_ # "Closed")
  BY DEF ClientInv, OnePlace, Open, Up
<1>5. Queue(Tail(queue))
  BY <1>1, TakenInv DEF Queue
<1> QED
  BY <1>1, <1>2, <1>3, <1>4, <1>5, Without

\* The types that the steps of the connection need.
LEMMA ConnectionTypes ==
  ASSUME ClientInv
  PROVE  /\ queue \in Seq(Tasks) /\ Queue(queue) /\ state_ \in EState
         /\ is_cleaned_ \in BOOLEAN /\ ops \subseteq IoHandlers /\ outputs \in Int
         /\ CallTypes
         /\ freed => state_ = "Closed" /\ ops = {}
         /\ ~freed /\ ops # {} => state_ # "Closed"
BY DEF ClientInv, Types, CallTypes, OnePlace

\* The loop's next task or handler for the connection.
LEMMA TaskStep ==
  ASSUME ClientInv,
         \/ \E kind \in CallKinds : run_posted(kind) \/ message_cb(kind)
         \/ handle_read_error \/ handle_read \/ handle_write
  PROVE  ClientInv'
<1> DEFINE q == Tail(queue)
<1>1. /\ handler = 0 /\ queue # << >> /\ ~freed
      /\ UNCHANGED <<life_vars, app_vars, promise, socket, pending, handler>>
  BY DEF run_posted, message_cb, handle_read_error, handle_read, handle_write, serves, runs, next_is
<1>2. /\ q \in Seq(Tasks) /\ Queue(q) /\ (NoSuccess(queue) => NoSuccess(q))
      /\ IsHandler(Head(queue)) => state_ # "Closed"
      /\ IsSend(Head(queue)) /\ Head(queue).told => state_ # "Closed"
  BY <1>1, HeadTask
<1>3. /\ state_ \in EState /\ is_cleaned_ \in BOOLEAN /\ ops \subseteq IoHandlers
      /\ outputs \in Int /\ CallTypes
      /\ {} \in SUBSET IoHandlers /\ {"handle_read"} \in SUBSET IoHandlers
  BY ConnectionTypes DEF IoHandlers
<1> HIDE DEF q
<1>4. ASSUME UNCHANGED call_vars PROVE CallTypes'
  BY <1>3, <1>4 DEF CallTypes, call_vars
<1>5. ASSUME stays(q, {}), UNCHANGED <<call_vars, failed>>
      PROVE  ClientInv'
  <2>1. UNCHANGED conn_vars /\ queue' = q
    BY <1>5 DEF conn_vars, stays
  <2> QED
    BY <1>1, <1>2, <1>5, <2>1, StayStep
<1>6. ASSUME state_ # "Closed", state_' \in EState \ {"Closed"}, Grown(q, queue'),
             is_cleaned_' \in BOOLEAN, ops' \subseteq IoHandlers, outputs' \in Int,
             CallTypes', failed' = failed
      PROVE  ClientInv'
  BY <1>1, <1>2, <1>6, ConnectionStep
<1>7. ASSUME NEW kind \in CallKinds, run_posted(kind) PROVE ClientInv'
  <2>1. in_loop(kind, q, {}) /\ UNCHANGED call_vars
    BY <1>7 DEF run_posted, q
  <2>2. failed' = failed
    BY <1>2, <1>7 DEF run_posted, serves, runs, next_is, IsSend
  <2>3. CASE state_ = "Closed"
    <3>1. stays(q, {})
      BY <1>2, <1>3, <2>1, <2>3, InLoop
    <3> QED
      BY <1>5, <2>1, <2>2, <3>1
  <2>4. CASE state_ # "Closed"
    <3>1. /\ Grown(q, queue') /\ state_' \in EState \ {"Closed"} /\ is_cleaned_' \in BOOLEAN
          /\ ops' \subseteq IoHandlers /\ outputs' \in Int
      BY <1>2, <1>3, <2>1, <2>4, InLoop
    <3> QED
      BY <1>4, <1>6, <2>1, <2>2, <2>4, <3>1
  <2> QED
    BY <2>3, <2>4
<1>8. ASSUME NEW kind \in CallKinds, message_cb(kind) PROVE ClientInv'
  <2>1. /\ in_loop(kind, q, {"handle_read"}) \/ stays(q, {"handle_read"})
        /\ called(kind, TRUE) /\ failed' = failed
    BY <1>8 DEF message_cb, q
  <2>2. state_ # "Closed"
    BY <1>2, <1>8 DEF message_cb, serves, runs, next_is, IsHandler, IoHandlers
  <2>3. CallTypes'
    BY <2>1, CalledTypes
  <2>4. /\ Grown(q, queue') /\ state_' \in EState \ {"Closed"} /\ is_cleaned_' \in BOOLEAN
        /\ ops' \subseteq IoHandlers /\ outputs' \in Int
    BY <1>2, <1>3, <2>1, <2>2, InLoop
  <2> QED
    BY <1>6, <2>1, <2>2, <2>3, <2>4
<1>9. CASE handle_read_error
  <2>1. /\ state_ # "Closed" /\ connect_cleanup(q, {})
        /\ UNCHANGED <<outputs, call_vars, failed>>
    BY <1>2, <1>9 DEF handle_read_error, serves, runs, next_is, IsHandler, IoHandlers, q
  <2>2. /\ Grown(q, queue') /\ state_' \in EState \ {"Closed"} /\ is_cleaned_' \in BOOLEAN
        /\ ops' \subseteq IoHandlers
    BY <1>2, <1>3, <2>1, CleanupGrows
  <2> QED
    BY <1>3, <1>4, <1>6, <2>1, <2>2
<1>10. CASE handle_read
  <2>1. /\ state_ # "Closed" /\ stays(q, {"handle_read"}) /\ UNCHANGED <<call_vars, failed>>
    BY <1>2, <1>10 DEF handle_read, serves, runs, next_is, IsHandler, IoHandlers, q
  <2>2. "send" \in CallKinds
    BY DEF CallKinds
  <2>3. /\ Grown(q, queue') /\ state_' \in EState \ {"Closed"} /\ is_cleaned_' \in BOOLEAN
        /\ ops' \subseteq IoHandlers /\ outputs' \in Int
    BY <1>2, <1>3, <2>1, <2>2, InLoop
  <2> QED
    BY <1>4, <1>6, <2>1, <2>3
<1>11. CASE handle_write
  <2>1. state_ # "Closed" /\ outputs' \in Int /\ UNCHANGED <<call_vars, failed>>
    BY <1>2, <1>3, <1>11 DEF handle_write, serves, runs, next_is, IsHandler, IoHandlers
  <2>2. CASE connect_cleanup(q, {})
    <3>1. /\ Grown(q, queue') /\ state_' \in EState \ {"Closed"} /\ is_cleaned_' \in BOOLEAN
          /\ ops' \subseteq IoHandlers
      BY <1>2, <1>3, <2>2, CleanupGrows
    <3> QED
      BY <1>4, <1>6, <2>1, <3>1
  <2>3. CASE ~connect_cleanup(q, {})
    <3>1. /\ ops' = ops \cup (IF writes_on THEN {"handle_write"} ELSE {})
          /\ queue' = q /\ UNCHANGED <<state_, is_cleaned_>>
      BY <1>11, <2>3 DEF handle_write, q
    <3>2. Grown(q, queue') /\ ops' \subseteq IoHandlers
      BY <1>3, <3>1 DEF Grown, IoHandlers
    <3> QED
      BY <1>3, <1>4, <1>6, <2>1, <3>1, <3>2
  <2> QED
    BY <2>2, <2>3
<1> QED
  BY <1>7, <1>8, <1>9, <1>10, <1>11

\* The steps of the connection that are no task of the queue.
LEMMA HandlerStep ==
  ASSUME ClientInv,
         handle_timeout \/ \E ok \in BOOLEAN, h \in IoHandlers : completes(h, ok)
  PROVE  ClientInv'
<1>1. /\ queue \in Seq(Tasks) /\ Queue(queue) /\ state_ \in EState
      /\ is_cleaned_ \in BOOLEAN /\ ops \subseteq IoHandlers /\ outputs \in Int /\ CallTypes
      /\ freed => state_ = "Closed" /\ ops = {}
      /\ ~freed /\ ops # {} => state_ # "Closed"
  BY ConnectionTypes
<1>2. ~freed /\ state_ # "Closed"
  BY <1>1 DEF handle_timeout, completes
<1>3. /\ UNCHANGED <<life_vars, app_vars, call_vars, promise, socket, pending, handler, failed>>
      /\ outputs' = outputs
  BY DEF handle_timeout, completes
<1>4. CallTypes'
  BY <1>1, <1>3 DEF CallTypes, call_vars
<1>5. /\ Grown(queue, queue') /\ state_' \in EState \ {"Closed"} /\ is_cleaned_' \in BOOLEAN
      /\ ops' \subseteq IoHandlers
  <2>1. CASE handle_timeout
    <3>1. connect_cleanup(queue, {})
      BY <2>1 DEF handle_timeout
    <3> QED
      BY <1>1, <3>1, CleanupGrows
  <2>2. CASE \E ok \in BOOLEAN, h \in IoHandlers : completes(h, ok)
    <3>1. PICK ok \in BOOLEAN, h \in IoHandlers : completes(h, ok)
      BY <2>2
    <3>2. handled(h, ok) \in Handled
      BY DEF Handled, handled
    <3>3. Grown(queue, queue')
      BY <3>1, <3>2 DEF completes, Grown
    <3> QED
      BY <1>1, <1>2, <3>1, <3>3 DEF completes
  <2> QED
    BY <2>1, <2>2
<1> QED
  BY <1>1, <1>2, <1>3, <1>4, <1>5, ConnectionStep

\* A handler uses what was destroyed: something was still to come.
LEMMA DanglingStep == ASSUME ClientInv, run_dangling PROVE ClientInv'
<1> USE DEF ClientInv
<1>1. /\ UNCHANGED <<kept, alive, hurried, waiting, calls, answer, posts, flag_, asked, promise, socket,
                     pending, queue, handler, state_, is_cleaned_, ops, outputs>>
      /\ failed' = failed \cup {"dangling"}
  BY DEF run_dangling, life_vars, app_vars, call_vars, conn_vars
<1>2. Types' /\ Queue(queue)' /\ OnePlace' /\ Promises' /\ Quiet'
  BY <1>1 DEF Types, Queue, OnePlace, Promises, Quiet, Con, Up, freed, Open, Told
<1>3. ~alive
  BY DEF run_dangling, freed
<1>4. hurried
  <2> SUFFICES ASSUME ~hurried PROVE FALSE
    OBVIOUS
  <2>1. /\ handler = 0
        /\ kept => NoSuccess(queue)
        /\ ~kept => OnlyFailed(queue)
    BY <1>3 DEF Quiet
  <2>2. queue # << >> /\ Head(queue).kind # "connect_failed"
        /\ (kept => Head(queue).kind = "connected")
    BY <2>1 DEF run_dangling, runs, next_is, freed
  <2>3. queue \in Seq(Tasks)
    BY DEF Types
  <2>4. Head(queue) = queue[1] /\ 1 \in 1 .. Len(queue)
    BY <2>2, <2>3, Taken
  <2> QED
    BY <2>1, <2>2, <2>4 DEF NoSuccess, OnlyFailed, IsConnected
<1>5. Unharmed'
  BY <1>1, <1>4 DEF Unharmed, DestroyedInTime
<1> QED
  BY <1>2, <1>5

\* The outstanding connect completes.
LEMMA CompletesStep ==
  ASSUME ClientInv, NEW ok \in BOOLEAN, connect_completes(ok)
  PROVE  ClientInv'
<1> USE DEF ClientInv
<1> DEFINE t == IF ok THEN [kind |-> "connected", call |-> pending] ELSE connect_failed_for(pending)
           sock == IF ok THEN "connected" ELSE "idle"
           n == Len(calls)
<1>1. /\ pending # 0 /\ pending' = 0 /\ socket' = sock /\ queue' = Append(queue, t)
      /\ UNCHANGED <<kept, alive, hurried, waiting, calls, answer, posts, flag_, asked, promise, handler,
                     state_, is_cleaned_, ops, outputs, failed>>
  BY DEF connect_completes, life_vars, app_vars, call_vars, conn_vars
<1>2. /\ socket = "connecting" /\ promise[pending] = "none" /\ ~freed /\ ~freed'
      /\ pending \in 1 .. n /\ pending \in Calls /\ n \in Nat /\ queue \in Seq(Tasks)
  BY <1>1, ClientAssumption DEF OnePlace, Promises, Types, Calls, freed
<1>3. ~Open /\ ~Open' /\ ~Con /\ (Up' <=> Up) /\ (ok => Con')
  BY <1>1, <1>2 DEF OnePlace, Open, Con, Up
<1>4. /\ t \in Tasks /\ IsCompletion(t) /\ t.call = pending
      /\ IsConnected(t) => ok
  BY <1>2 DEF Tasks, Completions, IsCompletion, IsConnected, connect_failed_for
<1>5. sock \in {"idle", "connected"}
  OBVIOUS
<1> DEFINE c2 == Con'
           u2 == Up'
<1> HIDE DEF t, sock, n
<1>6. /\ \A i \in 1 .. Len(queue) : ~IsConnected(queue[i])
      /\ \A i \in 1 .. Len(queue) : IsHandler(queue[i]) => u2
      /\ \A i \in 1 .. Len(queue) : IsCompletion(queue[i]) =>
           /\ queue[i].call # 0 /\ queue[i].call # pending
           /\ promise[queue[i].call] = "none"
      /\ IsConnected(t) => c2
  BY <1>2, <1>3, <1>4 DEF Queue, QueueInv, n
<1>7. QueueInv(queue, n, promise, pending, Con, Up)
  BY DEF Queue, n
<1> HIDE DEF c2, u2
<1>8. QueueInv(queue, n, promise, 0, c2, u2)
  BY <1>2, <1>6, <1>7, Carried
<1>9. QueueInv(Append(queue, t), n, promise, 0, c2, u2)
  BY <1>2, <1>4, <1>6, <1>8, CompletionAdded
<1>10. Queue(queue)' /\ queue' \in Seq(Tasks)
  BY <1>1, <1>2, <1>4, <1>9, Added DEF Queue, n, c2, u2
<1>11. Types'
  BY <1>1, <1>2, <1>5, <1>10 DEF Types, n
<1>12. OnePlace'
  <2>1. Told(promise') = Told(promise) /\ ~Told(promise) /\ handler = 0 /\ ops = {}
    BY <1>1, <1>2, <1>3 DEF OnePlace, Open, Told
  <2> QED
    BY <1>1, <1>2, <1>3, <1>5, <2>1 DEF OnePlace
<1>13. Promises' /\ Unharmed'
  BY <1>1, StillUnharmed DEF Promises
<1>14. Quiet'
  BY <1>1, <1>2 DEF Quiet, freed
<1> QED
  BY <1>10, <1>11, <1>12, <1>13, <1>14

-----------------------------------------------------------------------------

\* The invariant holds in every state.
LEMMA ClientInvariance == Spec => []ClientInv
<1>1. Init => ClientInv
  BY InitInv
<1>2. ClientInv /\ [Next]_vars => ClientInv'
  <2> SUFFICES ASSUME ClientInv, [Next]_vars PROVE ClientInv'
    OBVIOUS
  <2>1. CASE UNCHANGED vars
    BY <2>1 DEF vars, life_vars, app_vars, call_vars, conn_vars, ClientInv, Types, Queue, OnePlace, Promises,
                Quiet, Unharmed, DestroyedInTime, Crashed, Con, Up, freed, Open
  <2>2. CASE async_connect_impl
    BY <2>2, ConnectsStep DEF async_connect_impl
  <2>3. CASE sync_connect_wait_for_impl
    BY <2>3, ConnectsStep DEF sync_connect_wait_for_impl
  <2>4. CASE wait_ready \/ wait_timeout
    BY <2>4, WaitStep
  <2>5. CASE \E k \in CallKinds : post(k)
    BY <2>5, PostStep
  <2>6. CASE ~Crashed /\ destroy_client
    BY <2>6, DestroyStep
  <2>7. CASE Handlers
    BY <2>7, ConnectedStep, EstablishedStep, FailedStep, TaskStep, DanglingStep DEF Handlers
  <2>8. CASE handle_timeout \/ Kernel
    BY <2>8, HandlerStep, CompletesStep DEF Kernel
  <2> QED
    BY <2>1, <2>2, <2>3, <2>4, <2>5, <2>6, <2>7, <2>8 DEF Next, App, Finished
<1> QED
  BY <1>1, <1>2, PTL DEF Spec

\* The variables of the client keep their types, and only a call that waits has a
\* promise and an answer (connector.h:58 makes no promise for async_connect).
THEOREM ClientTypes == Spec => []TypeOK
<1>1. ClientInv => TypeOK
  BY DEF ClientInv, Types, OnePlace, Promises, Unharmed, TypeOK
<1> QED
  BY <1>1, ClientInvariance, PTL

\* The connection of a client is established at most once and only on a connected
\* socket, and one call at most is told of it, for any number of calls that
\* connect, give up, fail or come back late (connector.h:58 and :97).
THEOREM EstablishedOnce == Spec => []OpenIsConnected
<1>1. ClientInv => OpenIsConnected
  BY DEF ClientInv, OnePlace, Promises, Unharmed, freed, Open, OpenIsConnected
<1> QED
  BY <1>1, ClientInvariance, PTL

\* What is sent after sync_connect_wait_for returned true finds the connection
\* established, though the promise is kept before connect_establised.
THEOREM SentAfterTrue == Spec => []TrueIsOpen
<1>1. ClientInv => TrueIsOpen
  BY DEF ClientInv, Unharmed, TrueIsOpen
<1> QED
  BY <1>1, ClientInvariance, PTL

\* No handler uses a destroyed connector or connection (connector.h:75 and :97 keep
\* a raw this) unless something of them was still to come when ~tcp_client ran.
THEOREM NotHurried == Spec => []DestroyedInTime
<1>1. ClientInv => DestroyedInTime
  BY DEF ClientInv, Unharmed
<1> QED
  BY <1>1, ClientInvariance, PTL
=============================================================================
