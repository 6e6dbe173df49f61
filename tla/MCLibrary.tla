----------------------------- MODULE MCLibrary ------------------------------
(***************************************************************************)
(* The single-threaded parts of the library, one at a time: Init chooses   *)
(* which, the others stay as they are.                                     *)
(***************************************************************************)
EXTENDS LineReader, AutoBuffer, CmdArgs, TextUtility, Clocks

VARIABLE part

vars == <<part, buffer_vars, line_vars, auto_vars, argv, text, clock_vars>>

Init ==
  /\ part \in {"buffer", "lines", "auto_buffer", "cmdargs", "text", "clocks"}
  /\ BufferInit /\ LineInit /\ AutoInit /\ ArgsInit /\ TextInit /\ ClocksInit
  /\ part # "lines" => end = <<LF>>
  /\ part # "text" => text = << >>
  /\ part # "clocks" => now = 1

Next ==
  /\ UNCHANGED part
  /\ \/ /\ part = "buffer" /\ BufferNext
        /\ UNCHANGED <<line_vars, auto_vars, argv, text, clock_vars>>
     \/ /\ part = "lines" /\ LineNext
        /\ UNCHANGED <<buffer_vars, auto_vars, argv, text, clock_vars>>
     \/ /\ part = "auto_buffer" /\ AutoNext
        /\ UNCHANGED <<buffer_vars, line_vars, argv, text, clock_vars>>
     \/ /\ part = "cmdargs" /\ ArgsNext
        /\ UNCHANGED <<buffer_vars, line_vars, auto_vars, text, clock_vars>>
     \/ /\ part = "text" /\ TextNext
        /\ UNCHANGED <<buffer_vars, line_vars, auto_vars, argv, clock_vars>>
     \/ /\ part = "clocks" /\ ClocksNext
        /\ UNCHANGED <<buffer_vars, line_vars, auto_vars, argv, text>>

Spec == Init /\ [][Next]_vars

Strings == {<<1>>, <<2, 1>>, << >>}
Reads == {<<1>>, <<2>>, <<2, 1>>, <<3>>, <<1, 2, 1, 2>>}
=============================================================================
