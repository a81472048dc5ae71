---------------------------- MODULE MCBufferCmds ----------------------------
(***************************************************************************)
(* Three commands for one buffer, in two ways to use the server.           *)
(***************************************************************************)
EXTENDS BufferCmds

\* With completion messages; everything that is sent arrives.
Calm ==
    [kinds |-> {"b_alloc", "b_allocRead", "b_gen", "b_free", "b_read", "sync"},
     completions |-> {"none", "b_free"}, mayLose |-> FALSE, mayQuit |-> FALSE]

\* All commands, full FIFOs, and quitting at any time.
Rough ==
    [kinds |-> AllKinds, completions |-> {"none"}, mayLose |-> TRUE, mayQuit |-> TRUE]

MCUses == {Calm, Rough}
=============================================================================
