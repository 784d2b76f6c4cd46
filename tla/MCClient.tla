------------------------------ MODULE MCClient ------------------------------
(***************************************************************************)
(* The circumstances in which the checked instances put the client.        *)
(***************************************************************************)
EXTENDS Client

CONSTANTS o1, o2, f1, f2, a1, a2

\* One goroutine, two files and two servers that redirect it between them.
Moves ==
  [ops |-> {o1}, files |-> {f1, f2}, addrs |-> {a1, a2}, maxRedir |-> 2,
   canLose |-> FALSE, canLoseLogin |-> FALSE, canClose |-> FALSE, ending |-> {},
   sess |-> 2, left |-> 4]

\* Two goroutines with one file, losing connections and being redirected.
Shared ==
  [ops |-> {o1, o2}, files |-> {f1}, addrs |-> {a1, a2}, maxRedir |-> 1,
   canLose |-> TRUE, canLoseLogin |-> FALSE, canClose |-> FALSE, ending |-> {},
   sess |-> 3, left |-> 1]

\* One server: connections lost at any time, a context ending, and Close.
Reconnects ==
  [Shared EXCEPT !.addrs = {a1}, !.canLoseLogin = TRUE, !.canClose = TRUE,
                 !.ending = {o1}, !.left = 2]

\* One server and two files, connections lost between operations.
Reconnected ==
  [Shared EXCEPT !.files = {f1, f2}, !.addrs = {a1}, !.left = 2]

Moving == {Moves, Shared}
Reconnecting == {Reconnects}
StaleHandle == {Reconnected}

=============================================================================
