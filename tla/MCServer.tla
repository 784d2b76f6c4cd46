------------------------------ MODULE MCServer ------------------------------
(***************************************************************************)
(* The circumstances in which the checked instance puts the server.        *)
(***************************************************************************)
EXTENDS Server

CONSTANTS r1, r2, r3

\* A server from its start, with clients that open, use and close files.
FilesInUse ==
  [reqs |-> {r1, r2, r3}, kinds |-> {"open", "close", "use"}, started |-> FALSE,
   established |-> FALSE, dropBusy |-> FALSE, canShutdown |-> FALSE, canExpire |-> FALSE]

\* Shutdown while requests are being read, carried out and abandoned.
ShuttingDown ==
  [reqs |-> {r1, r2}, kinds |-> {"open", "other"}, started |-> TRUE,
   established |-> TRUE, dropBusy |-> TRUE, canShutdown |-> TRUE, canExpire |-> TRUE]

Explored == {FilesInUse, ShuttingDown}

=============================================================================
