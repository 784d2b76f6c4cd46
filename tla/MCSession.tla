----------------------------- MODULE MCSession -----------------------------
(***************************************************************************)
(* The circumstances in which the checked instances put a session.         *)
(***************************************************************************)
EXTENDS Session

CONSTANTS r1, r2, s1

\* Responses of every kind, on the connection and on a data path, to one request
\* that may be given up, and in whose context both were opened, and one that
\* bounds its response.
Answers ==
  [subs |-> {s1}, initial |-> TRUE, canClose |-> FALSE, canLose |-> FALSE,
   canTimeout |-> FALSE, writeFails |-> FALSE, ending |-> {r1}, opener |-> {r1},
   subOpener |-> {r1}, limited |-> {r2}, kinds |-> AllKinds, wrapped |-> BOOLEAN]

\* The initial session, whose server may vanish or fall silent.
Loss ==
  [subs |-> {}, initial |-> TRUE, canClose |-> FALSE, canLose |-> TRUE,
   canTimeout |-> TRUE, writeFails |-> FALSE, ending |-> {}, opener |-> {},
   subOpener |-> {}, limited |-> {}, kinds |-> {"ok", "wait"}, wrapped |-> {FALSE}]

\* Another session, closed by its user, with or without losing its connection.
Closing ==
  [Loss EXCEPT !.initial = FALSE, !.canClose = TRUE, !.canTimeout = FALSE,
               !.kinds = {"ok"}]

Answering == {Answers}
Ends == {Loss, Closing}

=============================================================================
