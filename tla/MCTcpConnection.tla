--------------------------- MODULE MCTcpConnection --------------------------
(* Small instances of TcpConnection. *)
EXTENDS TcpConnection

\* Callbacks that do nothing, send, answer and shut down (as the server of
\* tests/tcp_server.cpp does), or close by force.
QuietConnect == {<<"none", "none">>, <<"send", "none">>}
AnswerAndShutdown == {<<"none", "none">>, <<"send", "shutdown_cb">>, <<"force_close", "none">>}
AnyRead == {<<"none", "none">>, <<"send", "shutdown_cb">>, <<"send", "send">>,
            <<"shutdown", "force_close">>, <<"force_close", "none">>}
ClosingWrite == {<<"none", "none">>, <<"shutdown", "none">>, <<"force_close", "none">>}
SendingWrite == {<<"none", "none">>, <<"send", "none">>}
AllOrNone == {{"read", "write"}, {}}
NotBoth == {{}, {"read"}, {"write"}}
Both == {{"read", "write"}}
ForcingWrite == {<<"none", "none">>, <<"force_close", "none">>}
Nothing == {<<"none", "none">>}
=============================================================================
