----------------------------- MODULE ByteQueue ------------------------------
(***************************************************************************)
(* What the buffers promise: queues of bytes. Bytes are put at the end and *)
(* taken from the front; queues can be exchanged, copied and moved.         *)
(***************************************************************************)
EXTENDS Naturals, Sequences

CONSTANTS
  Buffers,   \* the queues
  Chunks     \* what is put at a time

VARIABLES
  contents,  \* for each queue, its bytes
  returned   \* the last count that was reported

queue_vars == <<contents, returned>>

Init == contents = [b \in Buffers |-> << >>] /\ returned = 0

Put(b, s) == contents' = [contents EXCEPT ![b] = @ \o s] /\ UNCHANGED returned

\* n bytes are taken; a report, if there is one, says so.
Take(b, n) ==
  /\ contents' = [contents EXCEPT ![b] = SubSeq(@, n + 1, Len(@))]
  /\ returned' \in {returned, n}

Exchange(a, b) ==
  /\ contents' = [contents EXCEPT ![a] = contents[b], ![b] = contents[a]]
  /\ UNCHANGED returned

\* b becomes what a is; a move empties a.
Assign(a, b) ==
  /\ \/ contents' = [contents EXCEPT ![b] = contents[a]]
     \/ a # b /\ contents' = [contents EXCEPT ![a] = << >>, ![b] = contents[a]]
  /\ UNCHANGED returned

Next ==
  \E a, b \in Buffers :
    \/ \E s \in Chunks : Put(b, s)
    \/ \E n \in 0 .. Len(contents[b]) : Take(b, n)
    \/ Exchange(a, b) \/ Assign(a, b)

Spec == Init /\ [][Next]_queue_vars
=============================================================================
