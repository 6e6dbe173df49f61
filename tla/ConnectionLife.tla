--------------------------- MODULE ConnectionLife ---------------------------
(***************************************************************************)
(* What a tcp_connection promises the tcp_server that accepted it: it is   *)
(* established, cleaned up once, removed from the map of connections and   *)
(* only then destroyed, one after the other.                               *)
(***************************************************************************)
VARIABLE life

Lives == {"created", "connecting", "open", "cleaned", "removed", "destroyed"}

\* The acceptor filled the socket.
Accept == life = "created" /\ life' = "connecting"

\* connect_establised; its callback may already close the connection.
Establish == life = "connecting" /\ life' \in {"open", "cleaned"}

\* connect_cleanup called cleanup_cb_.
Cleanup == life = "open" /\ life' = "cleaned"

\* The server erased it.
Remove == life = "cleaned" /\ life' = "removed"

\* connect_destroy closed its socket.
Destroy == life = "removed" /\ life' = "destroyed"

Next == Accept \/ Establish \/ Cleanup \/ Remove \/ Destroy

Spec == life = "created" /\ [][Next]_life
AcceptedSpec == life = "connecting" /\ [][Next]_life
=============================================================================
