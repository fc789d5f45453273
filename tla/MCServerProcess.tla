--------------------------- MODULE MCServerProcess ---------------------------
(***************************************************************************)
(* Three launches of the server: enough for a server, a second start that *)
(* finds its queue, and a third after a kill or a SIGTERM.               *)
(***************************************************************************)
EXTENDS ServerProcess

=============================================================================
